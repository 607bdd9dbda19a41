\* Samples of 1, 2, 3 and 4 bytes; a ring buffer of 16 bytes, periods of 2 frames.
SPECIFICATION Spec
CONSTANTS
  Configs <- MCConfigs
  Lists <- MCLists
  DataMax = 12
  RingSize = 16
  Period = 2
  PacketFrames = 2
  Loop = 4
  Sound <- MCSound
  CharSigned = TRUE
INVARIANTS
  Heard
  MissingSilent
