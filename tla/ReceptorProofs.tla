--------------------------- MODULE ReceptorProofs ---------------------------
(***************************************************************************)
(* Proofs about Receptor, for every set of datagrams, every channel map    *)
(* and every choice of backends: the type invariant, and the invariant of  *)
(* the configuration cache that FormatAgreement and CacheCoherent rest on. *)
(***************************************************************************)
EXTENDS Receptor, BackendProofs

(* What a device can be opened with: whole frames of a positive size. *)
Playable ==
  [nb_channels : 1 .. VBAN_CHANNELS_MAX_NB, sample_rate : Nat, bit_fmt : 0 .. 5]

Accepted(d, n) == packet_check(StreamName, d.hdr, n) = 0

-----------------------------------------------------------------------------
(* Lemmas about packet_check *)

(* A datagram is cut to the size of main's buffer. *)
LEMMA ReadSize ==
  ASSUME NEW d \in Datagrams
  PROVE  socket_read_size(d) \in 0 .. VBAN_PROTOCOL_MAX_SIZE
<1>1. d.len \in Nat
  BY SocketAssumption
<1>2. \A n \in Nat : ~ (n > VBAN_PROTOCOL_MAX_SIZE) => n \in 0 .. VBAN_PROTOCOL_MAX_SIZE
  BY DEF VBAN_PROTOCOL_MAX_SIZE
<1>3. VBAN_PROTOCOL_MAX_SIZE \in 0 .. VBAN_PROTOCOL_MAX_SIZE
  BY DEF VBAN_PROTOCOL_MAX_SIZE
<1>4. CASE d.len > VBAN_PROTOCOL_MAX_SIZE
  BY <1>3, <1>4, Zenon DEF socket_read_size
<1>5. CASE ~ (d.len > VBAN_PROTOCOL_MAX_SIZE)
  BY <1>1, <1>2, <1>5, Zenon DEF socket_read_size
<1> QED BY <1>4, <1>5

(* The one byte fields of a header are counts minus one. *)
LEMMA HeaderCounts ==
  ASSUME NEW d \in Datagrams
  PROVE  /\ NbSamples(d.hdr) \in 1 .. 256
         /\ NbChannels(d.hdr) \in 1 .. 256
         /\ BitResolution(d.hdr.format_bit) \in 0 .. 7
         /\ d.hdr.format_SR \in Byte
<1>1. IsHeader(d.hdr)
  BY SocketAssumption
<1>2. /\ d.hdr.format_SR \in Byte /\ d.hdr.format_nbs \in Byte
      /\ d.hdr.format_nbc \in Byte /\ d.hdr.format_bit \in Byte
  BY <1>1 DEF IsHeader
<1>3. \A b \in Byte : b + 1 \in 1 .. 256 /\ b % 8 \in 0 .. 7
  BY DEF Byte
<1> QED BY <1>2, <1>3 DEF NbSamples, NbChannels, BitResolution

(* A datagram that packet_check accepts carries at least one frame, in a    *)
(* format with a known rate and a sample size other than 0.                 *)
LEMMA AcceptedPlayable ==
  ASSUME NEW d \in Datagrams, NEW n \in Int, Accepted(d, n)
  PROVE  packet_get_stream_config(d.hdr) \in Playable
<1> DEFINE hdr == d.hdr
<1>1. hdr.format_SR \in Byte
  BY HeaderCounts
<1>2. n > VBAN_HEADER_SIZE /\ packet_pcm_check(hdr, n) = 0
  BY DEF Accepted, packet_check, EINVAL
<1>3. /\ SampleRateIndex(hdr.format_SR) < VBAN_SR_MAXNUMBER
      /\ n - VBAN_HEADER_SIZE =
           NbSamples(hdr) * NbChannels(hdr)
             * VBanBitResolutionSize[BitResolution(hdr.format_bit)]
  BY <1>2 DEF packet_pcm_check, EINVAL
<1>4. BitResolution(hdr.format_bit) \in 0 .. 7
  BY HeaderCounts
<1>5. NbSamples(hdr) \in 1 .. 256 /\ NbChannels(hdr) \in 1 .. 256
  BY HeaderCounts
<1>6. BitResolution(hdr.format_bit) \notin 6 .. 7
  <2> SUFFICES ASSUME BitResolution(hdr.format_bit) \in 6 .. 7 PROVE FALSE
    OBVIOUS
  <2>1. VBanBitResolutionSize[BitResolution(hdr.format_bit)] = 0
    BY TableTypes
  <2>2. NbSamples(hdr) * NbChannels(hdr) \in Int
    <3>1. \A a, b \in Int : a * b \in Int
      OBVIOUS
    <3> QED BY ONLY <1>5, <3>1, NbSamples(hdr) \in Int, NbChannels(hdr) \in Int
  <2>3. n - VBAN_HEADER_SIZE = 0
    BY <1>3, <2>1, <2>2
  <2> QED BY <2>3, <1>2 DEF VBAN_HEADER_SIZE
<1>7. VBanSRList[SampleRateIndex(hdr.format_SR)] \in Nat
  <2>1. SampleRateIndex(hdr.format_SR) \in 0 .. VBAN_SR_MAXNUMBER - 1
    BY <1>1, <1>3 DEF SampleRateIndex, Byte, VBAN_SR_MAXNUMBER
  <2> QED BY <2>1, TableTypes
<1> QED
  BY <1>4, <1>5, <1>6, <1>7 DEF packet_get_stream_config, Playable, VBAN_CHANNELS_MAX_NB

-----------------------------------------------------------------------------
(* The inductive invariant *)

TypeInv ==
  /\ TypeOK
  /\ device \in Playable \cup {NoStream}
  /\ stream \in Playable \cup {NoStream}

(* The device that goes with a cached configuration. *)
Matches(config) ==
  /\ device \in {NoStream, get_device_config(config)}
  /\ backend \in Reporting => device = get_device_config(config)

(* At every point of the loop: what is known of the device, the cache and   *)
(* the packet.                                                              *)
CacheInv ==
  /\ pc \in {"socket_init", "audio_init"} => stream = NoStream /\ device = NoStream
  /\ pc \in {"read", "config"} /\ stream # NoStream => Matches(stream)
  /\ pc \in {"open", "connect", "write"} => stream = stream_config
  /\ pc \in {"open", "connect"} => device = NoStream
  /\ pc = "connect" => backend = "pipe"
  /\ pc = "write" => Matches(stream)
  /\ Serving => Accepted(buffer, size) /\ size = socket_read_size(buffer)

IInv == TypeInv /\ HandleInv /\ CacheInv

-----------------------------------------------------------------------------
(* The formats the receptor opens, and what audio_write returns *)

LEMMA PlayableNotEmpty == \A config \in Playable : config # NoStream
BY DEF Playable, NoStream

LEMMA DevicePlayable ==
  ASSUME NEW config \in Playable, map_nb \in MapNbs \cup {0}
  PROVE  get_device_config(config) \in Playable
BY MapAssumption DEF get_device_config, Playable, VBAN_CHANNELS_MAX_NB

LEMMA FrameSizePositive ==
  ASSUME NEW config \in Playable
  PROVE  FrameSize(config) \in Nat \ {0}
<1>1. config.nb_channels \in Nat \ {0}
  BY DEF Playable
<1>2. VBanBitResolutionSize[config.bit_fmt] \in Nat \ {0}
  BY TableTypes DEF Playable
<1> QED BY <1>1, <1>2, IntArithmetic DEF FrameSize

(* A write of the backend returns an int. *)
LEMMA BackendWriteType ==
  ASSUME TypeInv, HandleInv, NEW out \in Int
  PROVE  backend_write(out) \subseteq Int
<1>1. alsa_write(out) \subseteq Int
  <2>1. CASE ~handle
    BY <2>1 DEF alsa_write, ENODEV
  <2>2. CASE handle
    <3>1. FrameSize(device) \in Nat \ {0}
      BY <2>2, FrameSizePositive DEF TypeInv, HandleInv
    <3>2. out \div FrameSize(device) \in Int
      BY <3>1, IntArithmetic
    <3> QED BY <2>2, <3>1, <3>2, IntArithmetic DEF alsa_write
  <2> QED BY <2>1, <2>2
<1>2. pulseaudio_write(out) \subseteq Int
  BY DEF pulseaudio_write, ENODEV
<1>3. fd_write(out) \subseteq Int
  BY DEF fd_write
<1> QED BY <1>1, <1>2, <1>3 DEF backend_write

(* audio_write returns an int, whatever the device and the map: it never    *)
(* divides by zero.                                                         *)
LEMMA WriteType ==
  ASSUME TypeInv, HandleInv, stream \in Playable
  PROVE  audio_write(payload) \subseteq Int
<1> DEFINE out == AUDIO_MAP_OUTPUT_SIZE(payload)
<1>1. map_nb \in Nat /\ stream.nb_channels \in Nat \ {0} /\ payload \in Int
  BY MapAssumption DEF TypeInv, TypeOK, AudioTypeOK, Playable, payload,
     PACKET_PAYLOAD_SIZE, VBAN_CHANNELS_MAX_NB, VBAN_HEADER_SIZE, ENODEV,
     VBAN_PROTOCOL_MAX_SIZE
<1>2. out \in Int
  BY <1>1, IntArithmetic DEF AUDIO_MAP_OUTPUT_SIZE
<1>3. backend_write(out) \subseteq Int
  BY <1>2, BackendWriteType
<1>4. ASSUME NEW n \in Int PROVE AUDIO_MAP_REVERSE_INPUT_SIZE(n) \in Int
  <2> DEFINE product == n * stream.nb_channels
  <2>1. product \in Int
    BY <1>1, IntArithmetic
  <2> HIDE DEF product
  <2>2. CASE map_nb = 0
    BY <2>2, <1>4 DEF AUDIO_MAP_REVERSE_INPUT_SIZE
  <2>3. CASE map_nb # 0
    <3>1. product \div map_nb \in Int
      BY <2>1, <2>3, <1>1, IntArithmetic
    <3>2. 2 * (IntMax \div map_nb)
            + (2 * (IntMax % map_nb) + 2 + product) \div map_nb \in Int
      <4>1. IntMax \div map_nb \in Int /\ IntMax % map_nb \in Int
        BY <2>3, <1>1 DEF IntMax
      <4>2. 2 * (IntMax % map_nb) + 2 + product \in Int
        BY <4>1, <2>1
      <4>3. (2 * (IntMax % map_nb) + 2 + product) \div map_nb \in Int
        BY <4>2, <2>3, <1>1, IntArithmetic
      <4> QED BY <4>1, <4>3
    <3> QED BY <2>1, <2>3, <3>1, <3>2 DEF AUDIO_MAP_REVERSE_INPUT_SIZE, product
  <2> QED BY <2>2, <2>3
<1> QED BY <1>3, <1>4 DEF audio_write

-----------------------------------------------------------------------------
(* Initial states, and one lemma per step *)

USE DEF TypeInv, TypeOK, AudioTypeOK, AudioBackendTypeOK, SocketTypeOK

LEMMA InitInv == Init => IInv
<1> SUFFICES ASSUME Init PROVE IInv
  OBVIOUS
<1>1. fds \in [Fd -> FdKind]
  BY ReceptorAssumption DEF Init, InheritedFds, Fd, FdKind
<1>2. NoStream \in StreamConfig
  BY DEF NoStream, StreamConfig
<1> QED
  BY <1>1, <1>2, FdConstants, SocketAssumption
     DEF Init, SocketInitial, AudioInitial, AudioBackendInitial, IInv, HandleInv, CacheInv,
         Locations, Serving, ENODEV, VBAN_PROTOCOL_MAX_SIZE

LEMMA SocketInitStep == IInv /\ SocketInit => IInv'
<1> SUFFICES ASSUME IInv, SocketInit PROVE IInv'
  OBVIOUS
<1>1. PICK r \in Returns : socket_open(r) /\ ret' = r
  BY DEF SocketInit
<1>2. fds' \in [Fd -> FdKind] /\ sockfd' \in Fd
  BY <1>1, SocketOpenType DEF IInv
<1>3. UNCHANGED <<size, backendVars, stream, map_nb, rcvq, buffer>>
  BY <1>1 DEF SocketInit, socket_open, audioVars
<1> QED
  BY <1>1, <1>2, <1>3
     DEF IInv, HandleInv, CacheInv, SocketInit, Returns, Locations, Serving, backendVars

LEMMA AudioInitStep == IInv /\ AudioInit => IInv'
<1> SUFFICES ASSUME IInv, AudioInit PROVE IInv'
  OBVIOUS
<1>1. UNCHANGED <<size, fds, backendVars, stream, socketVars>>
  BY DEF AudioInit, audio_set_map_config, audioVars
<1>2. map_nb' \in MapNbs \cup {0} /\ ret' \in Int /\ pc' \in {"read", "exited"}
  BY DEF AudioInit, audio_set_map_config, audioVars, IInv
<1> QED
  BY <1>1, <1>2
     DEF IInv, HandleInv, CacheInv, AudioInit, Locations, Serving, backendVars, socketVars

LEMMA ReceiveStep == IInv /\ Receive => IInv'
<1> SUFFICES ASSUME IInv, Receive PROVE IInv'
  OBVIOUS
<1>1. UNCHANGED <<ret, fds, backendVars, stream, map_nb, sockfd>>
  BY DEF Receive, socket_read, audioVars
<1>2. rcvq' \in Seq(Datagrams) /\ Len(rcvq') <= RcvBuf /\ buffer' \in Datagrams
  BY SocketAssumption DEF Receive, socket_read, IInv
<1> DEFINE d == buffer'
<1>3. \A e \in Datagrams : socket_read_size(e) \in 0 .. VBAN_PROTOCOL_MAX_SIZE
  BY ReadSize
<1>4. /\ size' \in -ENODEV .. VBAN_PROTOCOL_MAX_SIZE
      /\ pc' \in {"read", "config"}
      /\ pc' = "config" => Accepted(d, size') /\ size' = socket_read_size(d)
  <2>1. CASE ~ socket_from_peer(d)
    BY <2>1 DEF Receive, IInv
  <2>2. CASE socket_from_peer(d)
    <3>1. /\ size' = socket_read_size(d)
          /\ pc' = IF Accepted(d, size') THEN "config" ELSE "read"
      BY <2>2 DEF Receive, Accepted
    <3>2. size' \in 0 .. VBAN_PROTOCOL_MAX_SIZE
      BY <1>2, <1>3, <3>1
    <3>3. size' \in -ENODEV .. VBAN_PROTOCOL_MAX_SIZE
      BY <3>2 DEF ENODEV, VBAN_PROTOCOL_MAX_SIZE
    <3> QED BY <3>1, <3>3
  <2> QED BY <2>1, <2>2
<1>5. TypeInv'
  BY <1>1, <1>2, <1>4 DEF IInv, Locations, backendVars
<1>6. HandleInv' /\ CacheInv'
  BY <1>1, <1>4
     DEF IInv, HandleInv, CacheInv, Receive, Serving, backendVars, Matches, get_device_config
<1> QED BY <1>5, <1>6 DEF IInv

LEMMA ReceiveFailsStep == ASSUME NEW e \in {-1, -ENODEV} PROVE IInv /\ ReceiveFails(e) => IInv'
<1> SUFFICES ASSUME IInv, ReceiveFails(e) PROVE IInv'
  OBVIOUS
<1>1. size' \in -ENODEV .. VBAN_PROTOCOL_MAX_SIZE
  BY DEF ReceiveFails, ENODEV, VBAN_PROTOCOL_MAX_SIZE
<1> QED
  BY <1>1 DEF ReceiveFails, IInv, HandleInv, CacheInv, Locations, Serving, audioVars,
     backendVars, socketVars

(* The configuration of an accepted packet is never the empty one, so an    *)
(* empty cache never matches.                                               *)
LEMMA SetStreamConfigStep == IInv /\ SetStreamConfig => IInv'
<1> SUFFICES ASSUME IInv, SetStreamConfig PROVE IInv'
  OBVIOUS
<1>1. /\ pc = "config" /\ UNCHANGED <<size, socketVars>>
      /\ Accepted(buffer, size) /\ size = socket_read_size(buffer)
      /\ buffer \in Datagrams /\ size \in Int
  BY DEF SetStreamConfig, IInv, CacheInv, Serving, ENODEV, VBAN_PROTOCOL_MAX_SIZE
<1>2. stream_config \in Playable /\ stream_config' = stream_config
  BY <1>1, AcceptedPlayable DEF stream_config, socketVars
<1>3. CASE /\ audio_config_unchanged(stream_config)
           /\ ret' = 0 /\ pc' = "write" /\ UNCHANGED <<fds, audioVars>>
  <2>1. stream = stream_config
    BY <1>2, <1>3 DEF audio_config_unchanged, IInv, Playable, NoStream
  <2>2. stream # NoStream
    BY <1>2, <2>1 DEF Playable, NoStream
  <2>3. Matches(stream)
    BY <1>1, <2>2 DEF IInv, CacheInv
  <2>4. UNCHANGED <<fds, backendVars, stream, map_nb>>
    BY <1>3 DEF audioVars
  <2>5. Matches(stream)'
    BY <2>3, <2>4 DEF Matches, backendVars, get_device_config
  <2>6. TypeInv' /\ HandleInv'
    BY <1>1, <1>3, <2>4 DEF IInv, HandleInv, Locations, backendVars, socketVars
  <2>7. CacheInv'
    BY <1>1, <1>2, <1>3, <2>1, <2>4, <2>5 DEF CacheInv, Accepted, socketVars
  <2> QED BY <2>6, <2>7 DEF IInv
<1>4. ASSUME NEW r \in Returns,
             audio_set_stream_config_close(stream_config, r), ret' = r,
             pc' = IF r < 0 THEN "audio_release" ELSE "open"
      PROVE  IInv'
  <2>1. BackendTypes /\ HandleInv /\ backend_close(r)
    BY <1>4 DEF IInv, BackendTypes, audio_set_stream_config_close
  <2>2. BackendTypes' /\ HandleInv' /\ device' = NoStream /\ backend' = backend
    BY <2>1, CloseEffect
  <2>3. /\ stream' \in Playable \cup {NoStream} /\ UNCHANGED map_nb
        /\ pc' = "open" => stream' = stream_config
    BY <1>2, <1>4 DEF audio_set_stream_config_close, IInv
  <2>4. NoStream \in StreamConfig /\ Playable \subseteq StreamConfig
    BY DEF NoStream, StreamConfig, Playable
  <2>5. TypeInv'
    BY <1>1, <1>4, <2>2, <2>3, <2>4 DEF IInv, BackendTypes, Locations, Returns, socketVars
  <2>6. CacheInv'
    BY <1>1, <1>2, <1>4, <2>2, <2>3 DEF CacheInv, Serving, Accepted, socketVars
  <2> QED BY <2>2, <2>5, <2>6 DEF IInv
<1> QED BY <1>3, <1>4 DEF SetStreamConfig

(* The facts about the device that the open and close lemmas start from. *)
LEMMA BackendTypesHold == IInv => BackendTypes /\ HandleInv
BY DEF IInv, BackendTypes

(* An empty or a playable configuration is one of the three-field records. *)
LEMMA ConfigTypes == NoStream \in StreamConfig /\ Playable \subseteq StreamConfig
BY DEF NoStream, StreamConfig, Playable

LEMMA OpenStep == IInv /\ Open => IInv'
<1> SUFFICES ASSUME IInv, Open PROVE IInv'
  OBVIOUS
<1>1. PICK r \in Returns :
        /\ audio_set_stream_config_open(r) /\ ret' = r
        /\ pc' = IF r < 0 THEN "audio_release"
                 ELSE IF backend = "pipe" THEN "connect" ELSE "write"
  BY DEF Open
<1>2. /\ pc = "open" /\ UNCHANGED <<size, socketVars, map_nb>>
      /\ stream' = IF r < 0 THEN NoStream ELSE stream
      /\ backend_open(get_device_config(stream), r)
  BY <1>1 DEF Open, audio_set_stream_config_open
<1>3. /\ stream = stream_config /\ device = NoStream
      /\ Accepted(buffer, size) /\ size = socket_read_size(buffer)
  BY <1>2 DEF IInv, CacheInv, Serving
<1>4. stream \in Playable
  BY <1>3, AcceptedPlayable
     DEF IInv, stream_config, ENODEV, VBAN_PROTOCOL_MAX_SIZE
<1> DEFINE config == get_device_config(stream)
<1>5. config \in Playable
  BY <1>4, DevicePlayable DEF IInv
<1>6. /\ BackendTypes' /\ HandleInv' /\ backend' = backend
      /\ device' \in {NoStream, config}
      /\ r < 0 => device' = NoStream
      /\ backend = "pipe" => device' = NoStream
      /\ backend \in Reporting /\ ~(r < 0) => device' = config
  <2> HIDE DEF config
  <2>1. backend_open(config, r)
    BY <1>2 DEF config
  <2> QED BY <1>3, <1>5, <2>1, OpenEffect, BackendTypesHold, PlayableNotEmpty
<1>7. TypeInv'
  BY <1>1, <1>2, <1>4, <1>5, <1>6, ConfigTypes
     DEF IInv, BackendTypes, Locations, Returns, socketVars
<1>8. CacheInv'
  <2>1. pc' = "write" => Matches(stream)'
    BY <1>1, <1>2, <1>6 DEF Matches, get_device_config
  <2>2. pc' \in {"open", "connect", "write"} => stream' = stream_config'
    BY <1>1, <1>2, <1>3 DEF stream_config, socketVars
  <2>3. Accepted(buffer, size)' /\ (size = socket_read_size(buffer))'
    BY <1>2, <1>3 DEF Accepted, socketVars
  <2> QED BY <1>1, <1>2, <1>6, <2>1, <2>2, <2>3 DEF CacheInv
<1> QED BY <1>6, <1>7, <1>8 DEF IInv

LEMMA ConnectStep == IInv /\ Connect => IInv'
<1> SUFFICES ASSUME IInv, Connect PROVE IInv'
  OBVIOUS
<1>1. PICK r \in Returns :
        /\ audio_set_stream_config_connect(r) /\ ret' = r
        /\ pc' = IF r < 0 THEN "audio_release" ELSE "write"
  BY DEF Connect
<1>2. /\ pc = "connect" /\ UNCHANGED <<size, socketVars, map_nb, backend>>
      /\ stream' = IF r < 0 THEN NoStream ELSE stream
      /\ pipe_open_connect(get_device_config(stream), r)
  BY <1>1 DEF Connect, audio_set_stream_config_connect
<1>3. /\ stream = stream_config /\ backend = "pipe"
      /\ Accepted(buffer, size) /\ size = socket_read_size(buffer)
  BY <1>2 DEF IInv, CacheInv, Serving
<1>4. stream \in Playable
  BY <1>3, AcceptedPlayable
     DEF IInv, stream_config, ENODEV, VBAN_PROTOCOL_MAX_SIZE
<1> DEFINE config == get_device_config(stream)
<1>5. config \in Playable
  BY <1>4, DevicePlayable DEF IInv
<1>6. BackendTypes' /\ HandleInv' /\ device' \in {NoStream, config} /\ ~(r < 0)
  <2> HIDE DEF config
  <2>1. pipe_open_connect(config, r) /\ UNCHANGED backend
    BY <1>2 DEF config
  <2> QED BY <1>3, <1>5, <2>1, ConnectEffect, BackendTypesHold, PlayableNotEmpty
<1>7. TypeInv'
  BY <1>1, <1>2, <1>4, <1>5, <1>6, ConfigTypes
     DEF IInv, BackendTypes, Locations, Returns, socketVars
<1>8. CacheInv'
  <2>1. Matches(stream)'
    BY <1>2, <1>3, <1>6 DEF Matches, get_device_config, Reporting
  <2>2. stream' = stream_config'
    BY <1>1, <1>2, <1>3, <1>6 DEF stream_config, socketVars
  <2>3. Accepted(buffer, size)' /\ (size = socket_read_size(buffer))'
    BY <1>2, <1>3 DEF Accepted, socketVars
  <2> QED BY <1>1, <1>6, <2>1, <2>2, <2>3 DEF CacheInv
<1> QED BY <1>6, <1>7, <1>8 DEF IInv

LEMMA WriteStep == IInv /\ Write => IInv'
<1> SUFFICES ASSUME IInv, Write PROVE IInv'
  OBVIOUS
<1>1. /\ pc = "write" /\ ret' \in audio_write(payload)
      /\ pc' \in {"read", "audio_release"}
      /\ UNCHANGED <<size, fds, backendVars, stream, map_nb, socketVars>>
  BY DEF Write, audioVars
<1>2. stream = stream_config /\ Matches(stream) /\ Accepted(buffer, size)
  BY <1>1 DEF IInv, CacheInv, Serving
<1>3. stream \in Playable
  BY <1>2, AcceptedPlayable
     DEF IInv, stream_config, ENODEV, VBAN_PROTOCOL_MAX_SIZE
<1>4. ret' \in Int
  BY <1>1, <1>3, WriteType DEF IInv
<1>5. TypeInv' /\ HandleInv'
  BY <1>1, <1>4 DEF IInv, HandleInv, Locations, backendVars, socketVars
<1>6. CacheInv'
  BY <1>1, <1>2 DEF CacheInv, Matches, Serving, get_device_config, backendVars
<1> QED BY <1>5, <1>6 DEF IInv

LEMMA AudioReleaseStep == IInv /\ AudioRelease => IInv'
<1> SUFFICES ASSUME IInv, AudioRelease PROVE IInv'
  OBVIOUS
<1>1. PICK r \in Returns : backend_close(r)
  BY DEF AudioRelease, audio_release
<1>2. pc' = "socket_release" /\ UNCHANGED <<size, ret, socketVars, stream, map_nb>>
  BY DEF AudioRelease, audio_release
<1>3. BackendTypes' /\ HandleInv' /\ device' = NoStream /\ backend' = backend
  BY <1>1, CloseEffect, BackendTypesHold
<1>4. TypeInv'
  BY <1>2, <1>3, ConfigTypes DEF IInv, BackendTypes, Locations, socketVars
<1>5. CacheInv'
  BY <1>2 DEF CacheInv, Serving
<1> QED BY <1>3, <1>4, <1>5 DEF IInv

LEMMA SocketReleaseStep == IInv /\ SocketRelease => IInv'
<1> SUFFICES ASSUME IInv, SocketRelease PROVE IInv'
  OBVIOUS
<1>1. PICK r \in Returns : socket_close(r)
  BY DEF SocketRelease
<1>2. /\ pc' = "exited" /\ ret' = 0
      /\ UNCHANGED <<size, backendVars, stream, map_nb>>
  BY DEF SocketRelease, audioVars
<1>3. /\ fds' \in [Fd -> FdKind] /\ sockfd' \in Fd
      /\ rcvq' \in Seq(Datagrams) /\ Len(rcvq') <= RcvBuf /\ buffer' \in Datagrams
  <2>1. rcvq' = <<>> /\ buffer' = buffer
    BY DEF SocketRelease
  <2>2. fds' \in [Fd -> FdKind] /\ sockfd' \in Fd
    BY <1>1, SocketCloseType, FdConstants DEF IInv
  <2> QED BY <2>1, <2>2, SocketAssumption DEF IInv
<1>4. TypeInv'
  BY <1>2, <1>3 DEF IInv, Locations, backendVars
<1>5. HandleInv' /\ CacheInv'
  BY <1>2 DEF IInv, HandleInv, CacheInv, Serving, backendVars
<1> QED BY <1>4, <1>5 DEF IInv

LEMMA NetworkStep == IInv /\ Network => IInv'
<1> SUFFICES ASSUME IInv, Network PROVE IInv'
  OBVIOUS
<1>1. PICK d \in Datagrams : Deliver(d)
  BY DEF Network
<1>2. UNCHANGED <<pc, size, ret, fds, backendVars, stream, map_nb, sockfd, buffer>>
  BY <1>1 DEF Network, Deliver, audioVars
<1>3. rcvq' \in Seq(Datagrams) /\ Len(rcvq') <= RcvBuf
  BY <1>1, SocketAssumption DEF Deliver, IInv
<1>4. TypeInv' /\ HandleInv'
  BY <1>2, <1>3 DEF IInv, HandleInv, backendVars
<1>5. CacheInv'
  BY <1>2 DEF IInv, CacheInv, Matches, Serving, Accepted, stream_config,
     get_device_config, backendVars
<1> QED BY <1>4, <1>5 DEF IInv

LEMMA KillStep == IInv /\ Kill => IInv'
<1> SUFFICES ASSUME IInv, Kill PROVE IInv'
  OBVIOUS
<1>1. /\ pc' = "exited"
      /\ UNCHANGED <<size, ret, fds, backendVars, stream, map_nb, socketVars>>
  BY DEF Kill, audioVars
<1> QED
  BY <1>1 DEF IInv, HandleInv, CacheInv, Locations, Serving, backendVars, socketVars

LEMMA RestartStep == IInv /\ Restart => IInv'
<1> SUFFICES ASSUME IInv, Restart PROVE IInv'
  OBVIOUS
<1>1. fds' \in [Fd -> FdKind]
  BY ReceptorAssumption DEF Restart, InheritedFds, Fd, FdKind
<1>2. /\ pc' = "socket_init" /\ size' = 0 /\ ret' = 0 /\ UNCHANGED <<buffer, fifo>>
      /\ sockfd' = 0 /\ rcvq' = <<>> /\ stream' = NoStream /\ map_nb' = 0
      /\ backend' \in Backends /\ fd' = 0 /\ handle' = FALSE /\ device' = NoStream
  BY DEF Restart, SocketRestart, AudioRestart, AudioBackendRestart
<1> QED
  BY <1>1, <1>2, FdConstants, ConfigTypes, SocketAssumption
     DEF IInv, HandleInv, CacheInv, Locations, Serving, ENODEV, VBAN_PROTOCOL_MAX_SIZE

LEMMA StutterStep == IInv /\ UNCHANGED vars => IInv'
<1> SUFFICES ASSUME IInv, UNCHANGED vars PROVE IInv'
  OBVIOUS
<1>1. UNCHANGED <<pc, size, ret, fds, backendVars, stream, map_nb, socketVars>>
  BY DEF vars, audioVars
<1>2. TypeInv' /\ HandleInv'
  BY <1>1 DEF IInv, HandleInv, backendVars, socketVars
<1>3. CacheInv'
  BY <1>1 DEF IInv, CacheInv, Matches, Serving, Accepted, stream_config,
     get_device_config, backendVars, socketVars
<1> QED BY <1>2, <1>3 DEF IInv

LEMMA NextStep == IInv /\ [Next]_vars => IInv'
BY SocketInitStep, AudioInitStep, ReceiveStep, ReceiveFailsStep, SetStreamConfigStep,
   OpenStep, ConnectStep, WriteStep, AudioReleaseStep, SocketReleaseStep, NetworkStep,
   KillStep, RestartStep, StutterStep
   DEF Next, Running, ReceiveNotOpen, ReceiveError

-----------------------------------------------------------------------------
(* The theorems *)

(* Every reachable state satisfies the inductive invariant. *)
THEOREM Invariance == Spec => []IInv
<1>1. Init => IInv
  BY InitInv
<1>2. IInv /\ [Next]_vars => IInv'
  BY NextStep
<1> QED BY <1>1, <1>2, PTL DEF Spec

(* The variables of the receptor keep their types: among others, the result *)
(* of audio_write is an integer, so no frame size it divides by is 0.       *)
THEOREM TypeCorrect == Spec => []TypeOK
<1>1. IInv => TypeOK
  BY DEF IInv
<1> QED BY <1>1, Invariance, PTL

LEMMA FormatAgreementStep == IInv => FormatAgreement
<1> SUFFICES ASSUME IInv, pc = "write"
             PROVE  /\ stream = stream_config
                    /\ device \in {NoStream, get_device_config(stream_config)}
  BY DEF FormatAgreement
<1> QED BY DEF IInv, CacheInv, Matches

(* A payload is only written to a device in the format of its packet,       *)
(* whatever datagrams, maps and backends there are (audio_set_stream_config *)
(* and the loop of main).                                                   *)
THEOREM FormatAgreementHolds == Spec => []FormatAgreement
BY FormatAgreementStep, Invariance, PTL

(* With alsa and file the cached configuration is that of an open device.   *)
THEOREM CacheCoherentHolds == Spec => []CacheCoherent
<1>1. IInv => CacheCoherent
  BY DEF IInv, CacheInv, Matches, CacheCoherent, Reporting
<1> QED BY <1>1, Invariance, PTL

-----------------------------------------------------------------------------
(* What packet_check promises of the size of a payload *)

(* An accepted datagram is exactly the samples its header announces. *)
LEMMA AcceptedSize ==
  ASSUME NEW d \in Datagrams, NEW n \in Int, Accepted(d, n)
  PROVE  /\ n > VBAN_HEADER_SIZE
         /\ n - VBAN_HEADER_SIZE =
              NbSamples(d.hdr) * NbChannels(d.hdr)
                * VBanBitResolutionSize[BitResolution(d.hdr.format_bit)]
         /\ NbSamples(d.hdr) \in 1 .. VBAN_SAMPLES_MAX_NB
         /\ NbChannels(d.hdr) \in 1 .. VBAN_CHANNELS_MAX_NB
         /\ VBanBitResolutionSize[BitResolution(d.hdr.format_bit)] \in {1, 2, 3, 4, 8}
<1>1. n > VBAN_HEADER_SIZE /\ packet_pcm_check(d.hdr, n) = 0
  BY DEF Accepted, packet_check, EINVAL
<1>2. n - VBAN_HEADER_SIZE =
        NbSamples(d.hdr) * NbChannels(d.hdr)
          * VBanBitResolutionSize[BitResolution(d.hdr.format_bit)]
  BY <1>1 DEF packet_pcm_check, EINVAL
<1>3. /\ NbSamples(d.hdr) \in 1 .. VBAN_SAMPLES_MAX_NB
      /\ NbChannels(d.hdr) \in 1 .. VBAN_CHANNELS_MAX_NB
  BY HeaderCounts DEF VBAN_SAMPLES_MAX_NB, VBAN_CHANNELS_MAX_NB
<1>4. VBanBitResolutionSize[BitResolution(d.hdr.format_bit)] \in {1, 2, 3, 4, 8}
  <2>1. BitResolution(d.hdr.format_bit) \in 0 .. 5
    BY AcceptedPlayable DEF Playable, packet_get_stream_config
  <2>2. \A f \in 0 .. 5 : VBanBitResolutionSize[f] = <<1, 2, 3, 4, 4, 8, 0, 0>>[f + 1]
    BY DEF VBanBitResolutionSize, VBAN_BIT_RESOLUTION_MAX
  <2> QED BY <2>1, <2>2
<1> QED BY <1>1, <1>2, <1>3, <1>4

(* 1436 = 4 * 359, and 359 is a prime number of neither samples nor channels. *)
LEMMA NoPayloadOfMaximumSize ==
  ASSUME NEW samples \in 1 .. VBAN_SAMPLES_MAX_NB,
         NEW channels \in 1 .. VBAN_CHANNELS_MAX_NB, NEW bytes \in {1, 2, 3, 4, 8}
  PROVE  samples * channels * bytes # VBAN_DATA_MAX_SIZE
<1>0. samples \in 1 .. 256 /\ channels \in 1 .. 256
  BY DEF VBAN_SAMPLES_MAX_NB, VBAN_CHANNELS_MAX_NB
<1>1. CASE bytes = 1
  BY <1>0, <1>1 DEF VBAN_DATA_MAX_SIZE, VBAN_PROTOCOL_MAX_SIZE, VBAN_HEADER_SIZE
<1>2. CASE bytes = 2
  BY <1>0, <1>2 DEF VBAN_DATA_MAX_SIZE, VBAN_PROTOCOL_MAX_SIZE, VBAN_HEADER_SIZE
<1>3. CASE bytes = 3
  BY <1>0, <1>3 DEF VBAN_DATA_MAX_SIZE, VBAN_PROTOCOL_MAX_SIZE, VBAN_HEADER_SIZE
<1>4. CASE bytes = 4
  BY <1>0, <1>4 DEF VBAN_DATA_MAX_SIZE, VBAN_PROTOCOL_MAX_SIZE, VBAN_HEADER_SIZE
<1>5. CASE bytes = 8
  BY <1>0, <1>5 DEF VBAN_DATA_MAX_SIZE, VBAN_PROTOCOL_MAX_SIZE, VBAN_HEADER_SIZE
<1> QED BY <1>1, <1>2, <1>3, <1>4, <1>5

(* Whatever length a datagram has, one that recvfrom cut to main's buffer   *)
(* is refused by packet_check.                                              *)
THEOREM NeverTruncatedHolds == Spec => []NeverTruncated
<1>1. IInv => NeverTruncated
  <2> SUFFICES ASSUME IInv, Serving PROVE size = buffer.len
    BY DEF NeverTruncated
  <2>1. /\ Accepted(buffer, size) /\ size = socket_read_size(buffer)
        /\ buffer \in Datagrams /\ size \in Int
    BY DEF IInv, CacheInv, ENODEV, VBAN_PROTOCOL_MAX_SIZE
  <2>2. size - VBAN_HEADER_SIZE # VBAN_DATA_MAX_SIZE
    BY <2>1, AcceptedSize, NoPayloadOfMaximumSize
  <2>3. size # VBAN_PROTOCOL_MAX_SIZE
    BY <2>2 DEF VBAN_DATA_MAX_SIZE, VBAN_PROTOCOL_MAX_SIZE, VBAN_HEADER_SIZE
  <2> QED BY <2>1, <2>3 DEF socket_read_size
<1> QED BY <1>1, Invariance, PTL

(* What the channel map makes of a payload: as many samples of as many      *)
(* bytes, of the channels of the map.  Its quotient is exact, because the   *)
(* payload holds the channels it divides by.                                *)
mapped_channels == IF map_nb # 0 THEN map_nb ELSE stream.nb_channels

LEMMA MappedPayload ==
  ASSUME IInv, pc = "write"
  PROVE  \E samples, bytes \in Nat \ {0} :
           /\ payload = samples * stream.nb_channels * bytes /\ payload \in Nat \ {0}
           /\ AUDIO_MAP_OUTPUT_SIZE(payload) = samples * (mapped_channels * bytes)
           /\ FrameSize(stream) = stream.nb_channels * bytes
           /\ FrameSize(get_device_config(stream)) = mapped_channels * bytes
           /\ stream.nb_channels \in Nat \ {0} /\ mapped_channels \in Nat \ {0}
<1> DEFINE samples  == NbSamples(buffer.hdr)
           channels == NbChannels(buffer.hdr)
           bytes    == VBanBitResolutionSize[BitResolution(buffer.hdr.format_bit)]
           mapped   == AUDIO_MAP_OUTPUT_SIZE(payload)
<1>1. /\ Accepted(buffer, size) /\ stream = stream_config
      /\ buffer \in Datagrams /\ size \in Int /\ map_nb \in Nat
  BY MapAssumption DEF IInv, CacheInv, Serving, ENODEV, VBAN_PROTOCOL_MAX_SIZE,
     VBAN_CHANNELS_MAX_NB
<1>2. /\ samples \in Nat \ {0} /\ channels \in Nat \ {0} /\ bytes \in Nat \ {0}
      /\ payload = samples * channels * bytes /\ payload > 0
  BY <1>1, AcceptedSize
     DEF payload, PACKET_PAYLOAD_SIZE, VBAN_HEADER_SIZE, VBAN_SAMPLES_MAX_NB,
         VBAN_CHANNELS_MAX_NB
<1>3. /\ stream.nb_channels = channels
      /\ FrameSize(stream) = channels * bytes
      /\ FrameSize(get_device_config(stream)) = mapped_channels * bytes
  BY <1>1 DEF stream_config, packet_get_stream_config, FrameSize, get_device_config,
              mapped_channels
<1>4. mapped = IF map_nb # 0 THEN (payload * map_nb) \div channels ELSE payload
  BY <1>3 DEF AUDIO_MAP_OUTPUT_SIZE
<1> HIDE DEF samples, channels, bytes, mapped
<1>5. payload = samples * (channels * bytes) /\ payload \in Nat \ {0}
  <2>1. channels * bytes \in Nat \ {0}
    BY <1>2, IntArithmetic
  <2> QED BY <1>2, <2>1, NatProducts, IntArithmetic
<1>6. mapped = samples * (mapped_channels * bytes)
  <2>1. CASE map_nb = 0
    BY <1>3, <1>4, <1>5, <2>1 DEF mapped_channels
  <2>2. CASE map_nb # 0
    <3>1. map_nb * bytes \in Nat
      BY <1>1, <1>2, IntArithmetic
    <3>2. payload * map_nb = (samples * (map_nb * bytes)) * channels
      <4>1. payload = (samples * bytes) * channels
        BY <1>2, NatProducts
      <4>2. samples * bytes \in Nat
        BY <1>2, NatProducts
      <4>3. payload * map_nb = ((samples * bytes) * map_nb) * channels
        BY <4>1, <4>2, <1>1, <1>2, NatProducts
      <4>4. (samples * bytes) * map_nb = samples * (map_nb * bytes)
        BY <1>1, <1>2
      <4> QED BY <4>3, <4>4
    <3>3. samples * (map_nb * bytes) \in Nat
      BY <1>2, <3>1, NatProducts
    <3>4. mapped = samples * (map_nb * bytes)
      BY <1>2, <1>4, <2>2, <3>2, <3>3, Multiples
    <3> QED BY <2>2, <3>4 DEF mapped_channels
  <2> QED BY <2>1, <2>2
<1>7. mapped_channels \in Nat \ {0}
  BY <1>1, <1>2, <1>3 DEF mapped_channels
<1> samples \in Nat \ {0} /\ bytes \in Nat \ {0}
  BY <1>2
<1> WITNESS samples \in Nat \ {0}, bytes \in Nat \ {0}
<1> QED BY <1>2, <1>3, <1>5, <1>6, <1>7 DEF mapped

(* Whole frames go into the channel map and come out of it, so neither it   *)
(* nor alsa_write divides by zero or loses a part of a frame.               *)
THEOREM WholeFramesHolds == Spec => []WholeFrames
<1>1. IInv => WholeFrames
  <2> SUFFICES ASSUME IInv, pc = "write" PROVE WholeFrames
    BY DEF WholeFrames
  <2>1. PICK samples \in Nat \ {0}, bytes \in Nat \ {0} :
          /\ payload = samples * stream.nb_channels * bytes /\ payload \in Nat \ {0}
          /\ AUDIO_MAP_OUTPUT_SIZE(payload) = samples * (mapped_channels * bytes)
          /\ FrameSize(stream) = stream.nb_channels * bytes
          /\ FrameSize(get_device_config(stream)) = mapped_channels * bytes
          /\ stream.nb_channels \in Nat \ {0} /\ mapped_channels \in Nat \ {0}
    BY MappedPayload
  <2>2. payload % FrameSize(stream) = 0
    <3>1. payload = samples * (stream.nb_channels * bytes)
      BY <2>1, NatProducts
    <3>2. stream.nb_channels * bytes \in Nat \ {0}
      BY <2>1, IntArithmetic
    <3> QED BY <2>1, <3>1, <3>2, Multiples
  <2>3. mapped_channels * bytes \in Nat \ {0}
    BY <2>1, IntArithmetic
  <2>4. AUDIO_MAP_OUTPUT_SIZE(payload) % FrameSize(get_device_config(stream)) = 0
    <3>1. (samples * (mapped_channels * bytes)) % (mapped_channels * bytes) = 0
      BY <2>3, Multiples
    <3> QED BY <2>1, <3>1
  <2> QED BY <2>1, <2>2, <2>3, <2>4 DEF WholeFrames
<1> QED BY <1>1, Invariance, PTL

-----------------------------------------------------------------------------
(* What audio_write returns *)

(* A complete write is reported as the size of the payload: AUDIO_MAP_-     *)
(* REVERSE_INPUT_SIZE undoes AUDIO_MAP_OUTPUT_SIZE for every map.           *)
CompleteReported ==
  pc = "write" => AUDIO_MAP_REVERSE_INPUT_SIZE(AUDIO_MAP_OUTPUT_SIZE(payload)) = payload

LEMMA CompleteStep == IInv => CompleteReported
<1> SUFFICES ASSUME IInv, pc = "write"
             PROVE  AUDIO_MAP_REVERSE_INPUT_SIZE(AUDIO_MAP_OUTPUT_SIZE(payload)) = payload
  BY DEF CompleteReported
<1> DEFINE out == AUDIO_MAP_OUTPUT_SIZE(payload)
<1>1. PICK samples \in Nat \ {0}, bytes \in Nat \ {0} :
        /\ payload = samples * stream.nb_channels * bytes /\ payload \in Nat \ {0}
        /\ out = samples * (mapped_channels * bytes)
        /\ stream.nb_channels \in Nat \ {0} /\ mapped_channels \in Nat \ {0}
  BY MappedPayload
<1>2. CASE map_nb = 0
  BY <1>2 DEF AUDIO_MAP_OUTPUT_SIZE, AUDIO_MAP_REVERSE_INPUT_SIZE
<1>3. CASE map_nb # 0
  <2> HIDE DEF out
  <2>1. map_nb \in Nat \ {0} /\ out = samples * (map_nb * bytes)
    BY <1>1, <1>3 DEF mapped_channels
  <2>2. out \in Nat
    BY <1>1, <2>1, IntArithmetic, NatProducts
  <2>3. out * stream.nb_channels = payload * map_nb
    <3> DEFINE channels == stream.nb_channels
    <3>1. out = (samples * bytes) * map_nb
      BY <1>1, <2>1, SMT
    <3>2. payload = (samples * bytes) * channels
      BY <1>1, NatProducts
    <3>3. samples * bytes \in Nat /\ channels \in Nat /\ map_nb \in Nat
      BY <1>1, <2>1, NatProducts
    <3> HIDE DEF channels
    <3>4. (samples * bytes) * map_nb * channels = (samples * bytes) * channels * map_nb
      BY <3>3, NatProducts
    <3> QED BY <3>1, <3>2, <3>4 DEF channels
  <2>4. (payload * map_nb) \div map_nb = payload
    BY <1>1, <2>1, Multiples
  <2>5. AUDIO_MAP_REVERSE_INPUT_SIZE(out) = (out * stream.nb_channels) \div map_nb
    BY <1>3, <2>2 DEF AUDIO_MAP_REVERSE_INPUT_SIZE
  <2> QED BY <2>3, <2>4, <2>5 DEF out
<1> QED BY <1>2, <1>3

THEOREM CompleteReportedHolds == Spec => []CompleteReported
BY CompleteStep, Invariance, PTL

(* An error of the backend is reported as an error unless the channels are  *)
(* mapped to several: with more than one the 32 bits of the product turn    *)
(* it into a large positive size.                                           *)
THEOREM WriteReportedHolds ==
  ASSUME MapNbs \subseteq {0, 1}
  PROVE  Spec => []WriteReported
<1>1. IInv => WriteReported
  <2> DEFINE out == AUDIO_MAP_OUTPUT_SIZE(payload)
  <2> SUFFICES ASSUME IInv, pc = "write", NEW n \in backend_write(out), n < 0
               PROVE  AUDIO_MAP_REVERSE_INPUT_SIZE(n) < 0
    BY CompleteStep DEF WriteReported, CompleteReported
  <2>1. map_nb = 0 \/ map_nb = 1
    BY DEF IInv, TypeInv, TypeOK, AudioTypeOK
  <2>2. stream.nb_channels \in Nat \ {0} /\ out \in Int
    BY MappedPayload, IntArithmetic
  <2>3. n \in Int
    BY <2>2, BackendWriteType DEF IInv
  <2>4. CASE map_nb = 0
    BY <2>4 DEF AUDIO_MAP_REVERSE_INPUT_SIZE
  <2>5. CASE map_nb = 1
    <3>1. AUDIO_MAP_REVERSE_INPUT_SIZE(n) = n * stream.nb_channels
      BY <2>3, <2>5 DEF AUDIO_MAP_REVERSE_INPUT_SIZE
    <3>2. \A a \in Int, b \in Nat \ {0} : a < 0 => a * b < 0
      BY SMT
    <3> QED BY <2>2, <2>3, <3>1, <3>2
  <2> QED BY <2>1, <2>4, <2>5
<1> QED BY <1>1, Invariance, PTL

-----------------------------------------------------------------------------
(* What the receptor's network and listener see of a step *)

(* The kernel's queue loses datagrams from the front, or gets one.  What is *)
(* served has been taken from it and is kept until it is played, and the    *)
(* map stays what it is as long as anything is.                             *)
LEMMA QueueSteps ==
  ASSUME IInv, Next
  PROVE  /\ \/ rcvq' = rcvq \/ rcvq' = <<>>
            \/ rcvq # <<>> /\ rcvq' = Tail(rcvq)
            \/ \E d \in Datagrams : rcvq' = Append(rcvq, d)
         /\ Serving' => \/ Serving /\ buffer' = buffer
                        \/ rcvq # <<>> /\ buffer' = Head(rcvq)
         /\ pc' = "write" => map_nb' = map_nb
<1> USE DEF Serving, socketVars
<1>1. CASE SocketInit \/ AudioInit
  BY <1>1 DEF SocketInit, AudioInit
<1>2. CASE Receive
  BY <1>2 DEF Receive, socket_read
<1>3. CASE ReceiveNotOpen \/ ReceiveError
  BY <1>3 DEF ReceiveNotOpen, ReceiveError, ReceiveFails
<1>4. CASE SetStreamConfig
  BY <1>4 DEF SetStreamConfig, audio_set_stream_config_close, audioVars
<1>5. CASE Open
  BY <1>5 DEF Open, audio_set_stream_config_open
<1>6. CASE Connect
  BY <1>6 DEF Connect, audio_set_stream_config_connect
<1>7. CASE Write
  BY <1>7 DEF Write
<1>8. CASE AudioRelease \/ SocketRelease
  BY <1>8 DEF AudioRelease, SocketRelease
<1>9. CASE Network
  BY <1>9 DEF Network, Deliver, audioVars
<1>10. CASE Kill \/ Restart
  BY <1>10 DEF Kill, Restart
<1> QED
  BY <1>1, <1>2, <1>3, <1>4, <1>5, <1>6, <1>7, <1>8, <1>9, <1>10 DEF Next, Running

=============================================================================
