\* PulseAudio refuses to open: does the receptor go on without a device?
SPECIFICATION Spec
CONSTANTS
  Backends = {"pulseaudio"}
  MapNbs = {0}
  MaxFd = 5
  RcvBuf = 1
  StdinStates = {"std"}
  Datagrams <- MCTwoFormats
  IpAddress = "peer"
  StreamName = "stream"
INVARIANT
  OpenReported
