\* All backends, maps that narrow, keep and widen the device, kills and restarts.
SPECIFICATION Spec
CONSTANTS
  Backends = {"alsa", "pulseaudio", "pipe", "file", "stdout"}
  MapNbs = {0, 1, 2, 4}
  MaxFd = 5
  StdinStates = {"std", "free"}
  Streams <- MCStreams
  StreamName = "stream"
  Address = "peer"
  MaxPackets = 2
INVARIANTS
  TypeOK
  PreparedValid
  Announced
  FrameBoundary
  NoOverrun
  InSequence
PROPERTIES
  FifoRemoved
  Sends
  Ends
