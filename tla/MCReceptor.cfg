\* All backends, mono map or none, every kind of datagram, kills and restarts.
SPECIFICATION Spec
CONSTANTS
  Backends = {"alsa", "pulseaudio", "pipe", "file", "stdout"}
  MapNbs = {0, 1}
  MaxFd = 5
  RcvBuf = 2
  StdinStates = {"std", "free"}
  Datagrams <- MCDatagrams
  IpAddress = "peer"
  StreamName = "stream"
INVARIANTS
  TypeOK
  FormatAgreement
  CacheCoherent
  WholeFrames
  NeverTruncated
  SocketKept
  NoOrphan
  WritesToItsOwn
  FifoFresh
  ReleasedClean
  WriteReported
PROPERTY
  Served
