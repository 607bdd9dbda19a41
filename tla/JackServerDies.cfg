\* The JACK server may go away at any time.
SPECIFICATION Spec
CONSTANTS
  Configs <- MCStereo
  Quality = 1
  Period = 512
  PacketFrames = {256}
  ServerMayDie = TRUE
INVARIANT
  Released
PROPERTY
  ShutdownCloses
