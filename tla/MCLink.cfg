\* One packet a run, two formats, one text; kills and restarts of both ends.
SPECIFICATION Spec
CONSTANTS
  StreamName = "stream"
  Address = "peer"
  Streams <- MCStreams
  Texts <- MCTexts
  EmitterBackends = {"pulseaudio"}
  EmitterMaps = {0}
  ReceptorBackends = {"pulseaudio"}
  ReceptorMaps = {0, 1}
  StdinStates = {"std"}
  MaxFd = 4
  MaxPackets = 1
  RcvBuf = 1
  Packets <- MCPackets
INVARIANT
  OnlyAudioAccepted
PROPERTY
  PlaysWhatWasCaptured
