\* Five channels: is each heard on its own port?
SPECIFICATION Spec
CONSTANTS
  Configs <- MCFiveChannels
  Quality = 1
  Period = 256
  PacketFrames = {128}
  ServerMayDie = FALSE
INVARIANT
  Aligned
