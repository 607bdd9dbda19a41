\* A write to a mapped stereo device fails: is the result negative?
SPECIFICATION Spec
CONSTANTS
  Backends = {"alsa"}
  MapNbs = {2}
  MaxFd = 5
  RcvBuf = 1
  StdinStates = {"std"}
  Datagrams <- MCTwoFormats
  IpAddress = "peer"
  StreamName = "stream"
INVARIANT
  WriteReported
