\* Three formats in turn, the default quality, a period of 512 frames.
SPECIFICATION Spec
CONSTANTS
  Configs <- MCConfigs
  Quality = 1
  Period = 512
  PacketFrames = {96}
  ServerMayDie = FALSE
INVARIANTS
  TypeOK
  RingLive
  Aligned
  ChecksHold
  NoStarvation
  Released
PROPERTY
  Plays
