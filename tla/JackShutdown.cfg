\* The JACK server goes away while main writes or closes.
SPECIFICATION Spec
CONSTANTS
  Configs <- MCStereo
  Quality = 1
  Period = 512
  PacketFrames = {256}
  ServerMayDie = TRUE
INVARIANT
  RingLive
