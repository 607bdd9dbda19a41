\* Stereo with a JACK period of 2048 frames: is it ever heard?
SPECIFICATION Spec
CONSTANTS
  Configs <- MCStereo
  Quality = 1
  Period = 2048
  PacketFrames = {256}
  ServerMayDie = FALSE
INVARIANT
  NoStarvation
