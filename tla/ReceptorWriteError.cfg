\* A write fails: does the receptor stop?
SPECIFICATION Spec
CONSTANTS
  Backends = {"alsa"}
  MapNbs = {0}
  MaxFd = 5
  RcvBuf = 1
  StdinStates = {"std"}
  Datagrams <- MCTwoFormats
  IpAddress = "peer"
  StreamName = "stream"
INVARIANT
  WriteErrorStops
