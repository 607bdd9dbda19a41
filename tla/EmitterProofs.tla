---------------------------- MODULE EmitterProofs ----------------------------
(***************************************************************************)
(* Proofs about Emitter, for every set of streams, every channel map and   *)
(* every choice of backends: what is sent is valid, in the announced       *)
(* format, on frame boundaries and in sequence; what is read fits; the     *)
(* FIFO is gone when main returns.                                         *)
(***************************************************************************)
EXTENDS Emitter, BackendProofs

-----------------------------------------------------------------------------
(* The inductive invariant *)

BeforeLoop == {"socket_init", "audio_init", "config", "open", "connect", "header"}
InLoop     == {"read", "check", "send"}

(* The headers main prepares differ in two fields only. *)
Prepared(nbs, nu) ==
  [packet_init_header(audio_get_stream_config, StreamName) EXCEPT
     !.format_nbs = nbs, !.nuFrame = nu]

(* From the open on the device has the format of the options. *)
DeviceInv ==
  /\ HandleInv
  /\ pc \in {"socket_init", "audio_init", "config", "open"} => device = NoStream
  /\ pc \in {"open", "connect", "header"} \cup InLoop => stream = options
  /\ pc = "connect" => backend = "pipe"
  /\ pc \in {"header"} \cup InLoop /\ handle => device = stream

(* The buffer always is a datagram. *)
BufferInv ==
  buffer = [ip |-> buffer.ip, len |-> buffer.len, hdr |-> buffer.hdr, chunk |-> buffer.chunk]

(* Its header is one of those prepared, and what is asked for fits it. *)
HeaderInv ==
  pc \in InLoop =>
    /\ \E nbs \in Byte, nu \in Nat : buffer.hdr = Prepared(nbs, nu)
    /\ FrameSize(audio_get_stream_config) > 0
    /\ max_size \in Nat /\ max_size <= VBAN_DATA_MAX_SIZE
    /\ max_size <= VBAN_SAMPLES_MAX_NB * FrameSize(audio_get_stream_config)

(* What was read fits what was asked for, and is checked before it is sent. *)
PayloadInv ==
  /\ pc \in {"check", "send"} =>
       /\ size \in Nat /\ size <= max_size
       /\ buffer.len = VBAN_HEADER_SIZE + size
       /\ buffer.chunk.config = mapped_config
  /\ pc = "send" => packet_check(StreamName, buffer.hdr, buffer.len) = 0

(* Counters of the header and of the reads, against the last packet sent. *)
SequenceInv ==
  /\ pc \in BeforeLoop => buffer = NoPacket /\ sent = NoPacket
  /\ pc = "read"  => /\ buffer.hdr.nuFrame = sent.hdr.nuFrame
                     /\ buffer.chunk.position = sent.chunk.position
  /\ pc = "check" => /\ buffer.hdr.nuFrame = sent.hdr.nuFrame
                     /\ buffer.chunk.position = sent.chunk.position + 1
  /\ InSequence

(* Where a map keeps or widens the device: only a read of part of a frame   *)
(* leaves the boundary, and the size of its packet shows it.                *)
OffsetInv ==
  /\ pc \in BeforeLoop => offset = 0
  /\ pc = "read" /\ WideMap => offset = 0
  /\ pc = "check" /\ WideMap =>
       /\ buffer.chunk.offset = 0
       /\ \E n \in Nat : size = AUDIO_MAP_OUTPUT_SIZE(n) /\ offset = n % FrameSize(stream)
  /\ pc = "send" /\ WideMap => buffer.chunk.offset = 0 /\ offset = 0

(* The FIFO is gone wherever nothing of the backend is left. *)
FifoInv == pc \in {"open", "socket_release"} /\ backend = "pipe" => ~fifo

EInv ==
  /\ TypeOK /\ DeviceInv /\ FifoInv /\ BufferInv
  /\ HeaderInv /\ PayloadInv /\ SequenceInv /\ OffsetInv

-----------------------------------------------------------------------------
(* Arithmetic *)

(* A map that is not narrower than the device asks for no more than there  *)
(* is room for.                                                            *)
LEMMA QuotientBelow ==
  ASSUME NEW s \in Nat, NEW nb \in Nat \ {0}, NEW m \in Nat, m >= nb
  PROVE  (s * nb) \div m <= s
<1>1. s * nb <= s * m
  BY SMTT(30)
<1>2. s * nb \in Nat /\ s * m \in Nat
  OBVIOUS
<1>3. (s * nb) \div m <= (s * m) \div m
  BY <1>1, <1>2, SMTT(30)
<1> QED BY <1>3, Multiples

(* What is read for s mapped bytes makes no more than s mapped bytes. *)
LEMMA RoundTrip ==
  ASSUME NEW s \in Nat, NEW nb \in Nat \ {0}, NEW m \in Nat \ {0},
         NEW n \in Nat, n <= (s * nb) \div m
  PROVE  (n * m) \div nb \in Nat /\ (n * m) \div nb <= s
<1> DEFINE q == (s * nb) \div m
<1>1. s * nb \in Nat /\ q \in Nat /\ n * m \in Nat
  BY SMTT(30)
<1>2. q * m <= s * nb
  BY <1>1, SMTT(30)
<1>3. n * m <= q * m
  BY <1>1, SMTT(30)
<1>4. n * m <= s * nb
  BY <1>1, <1>2, <1>3
<1>5. (n * m) \div nb <= (s * nb) \div nb
  BY <1>1, <1>4, SMTT(30)
<1>6. (n * m) \div nb \in Nat
  BY <1>1, SMTT(30)
<1> QED BY <1>5, <1>6, Multiples

(* If the mapped bytes are whole mapped frames, what was read is whole      *)
(* frames: the remainder of the division is less than a channel of the map. *)
LEMMA ExactQuotient ==
  ASSUME NEW n \in Nat, NEW nb \in Nat \ {0}, NEW m \in Nat, m >= nb,
         NEW k \in Nat, (n * m) \div nb = k * m
  PROVE  n = k * nb
<1> DEFINE x == n * m
           y == k * m
<1>1. x \in Nat /\ y \in Nat
  OBVIOUS
<1>2. x >= y * nb /\ x < y * nb + nb
  <2> HIDE DEF x, y
  <2>1. x \div nb = y
    BY DEF x, y
  <2> QED BY <1>1, <2>1, SMTT(30)
<1>3. y * nb = (k * nb) * m
  BY NatProducts, SMTT(30)
<1>4. (n - k * nb) * m >= 0 /\ (n - k * nb) * m < m
  <2>1. (n - k * nb) * m = n * m - (k * nb) * m
    BY SMTT(30)
  <2> QED BY <1>2, <1>3, <2>1
<1>5. n - k * nb \in Int
  OBVIOUS
<1>6. ASSUME NEW d \in Int, d * m >= 0, d * m < m PROVE d = 0
  BY <1>6, SMTT(30)
<1>7. n - k * nb = 0
  BY <1>4, <1>5, <1>6
<1> QED BY <1>5, <1>7

-----------------------------------------------------------------------------
(* The formats, the header and what a read returns *)

(* The channels of the mapped audio. *)
Channels == IF map_nb # 0 THEN map_nb ELSE stream.nb_channels

LEMMA Formats ==
  ASSUME TypeOK, stream = options
  PROVE  /\ stream.nb_channels \in 1 .. 256 /\ stream.bit_fmt \in 0 .. 7
         /\ stream.sample_rate \in Nat /\ stream # NoStream
         /\ map_nb \in 0 .. 256 /\ Channels \in 1 .. 256
         /\ VBanBitResolutionSize[stream.bit_fmt] \in 0 .. 8
         /\ audio_get_stream_config =
              [nb_channels |-> Channels, sample_rate |-> stream.sample_rate,
               bit_fmt |-> stream.bit_fmt]
         /\ FrameSize(audio_get_stream_config)
              = Channels * VBanBitResolutionSize[stream.bit_fmt]
<1>1. stream \in [nb_channels : 1 .. 256, sample_rate : Nat, bit_fmt : 0 .. 7]
  BY EmitterAssumption DEF TypeOK, VBAN_CHANNELS_MAX_NB, VBAN_BIT_RESOLUTION_MAX
<1>2. map_nb \in 0 .. 256
  BY MapAssumption DEF TypeOK, AudioTypeOK, VBAN_CHANNELS_MAX_NB
<1>3. stream # NoStream
  BY <1>1 DEF NoStream
<1>4. VBanBitResolutionSize[stream.bit_fmt] \in 0 .. 8
  <2>1. \A f \in 0 .. 7 : VBanBitResolutionSize[f] \in 0 .. 8
    BY TableTypes
  <2> QED BY <1>1, <2>1
<1>5. audio_get_stream_config =
        [nb_channels |-> Channels, sample_rate |-> stream.sample_rate,
         bit_fmt |-> stream.bit_fmt]
  BY <1>1, <1>2 DEF audio_get_stream_config, Channels
<1>6. Channels \in 1 .. 256
  BY <1>1, <1>2 DEF Channels
<1> QED BY <1>1, <1>2, <1>3, <1>4, <1>5, <1>6 DEF FrameSize

LEMMA RateIndex ==
  ASSUME NEW rate \in Nat
  PROVE  /\ vban_sr_from_value(rate) \in 0 .. VBAN_SR_MAXNUMBER
         /\ vban_sr_from_value(rate) < VBAN_SR_MAXNUMBER
              => VBanSRList[vban_sr_from_value(rate)] = rate
         /\ (\E i \in DOMAIN VBanSRList : VBanSRList[i] = rate)
              => vban_sr_from_value(rate) < VBAN_SR_MAXNUMBER
<1>1. DOMAIN VBanSRList = 0 .. VBAN_SR_MAXNUMBER - 1
  BY DEF VBanSRList
<1>2. CASE \E i \in DOMAIN VBanSRList : VBanSRList[i] = rate
  <2>1. /\ vban_sr_from_value(rate) \in DOMAIN VBanSRList
        /\ VBanSRList[vban_sr_from_value(rate)] = rate
    BY <1>2 DEF vban_sr_from_value
  <2> QED BY <1>1, <2>1 DEF VBAN_SR_MAXNUMBER
<1>3. CASE ~ \E i \in DOMAIN VBanSRList : VBanSRList[i] = rate
  BY <1>3 DEF vban_sr_from_value, VBAN_SR_MAXNUMBER
<1> QED BY <1>2, <1>3

(* The assignment of the two fields that change leaves the others. *)
LEMMA HeaderUpdate ==
  ASSUME NEW h,
         h = [fourc |-> h.fourc, format_SR |-> h.format_SR, format_nbs |-> h.format_nbs,
              format_nbc |-> h.format_nbc, format_bit |-> h.format_bit,
              streamname |-> h.streamname, nuFrame |-> h.nuFrame],
         NEW nbs, NEW nu, NEW g, g = [h EXCEPT !.format_nbs = nbs, !.nuFrame = nu]
  PROVE  g = [fourc |-> h.fourc, format_SR |-> h.format_SR, format_nbs |-> nbs,
              format_nbc |-> h.format_nbc, format_bit |-> h.format_bit,
              streamname |-> h.streamname, nuFrame |-> nu]
<1>1. /\ g = [fourc |-> g.fourc, format_SR |-> g.format_SR, format_nbs |-> g.format_nbs,
              format_nbc |-> g.format_nbc, format_bit |-> g.format_bit,
              streamname |-> g.streamname, nuFrame |-> g.nuFrame]
      /\ g.fourc = h.fourc /\ g.format_SR = h.format_SR /\ g.format_nbs = nbs
      /\ g.format_nbc = h.format_nbc /\ g.format_bit = h.format_bit
      /\ g.streamname = h.streamname /\ g.nuFrame = nu
  OBVIOUS
<1> QED BY <1>1

LEMMA PreparedRecord ==
  ASSUME TypeOK, stream = options, NEW nbs, NEW nu
  PROVE  Prepared(nbs, nu) =
           [fourc |-> TRUE, format_SR |-> vban_sr_from_value(stream.sample_rate),
            format_nbs |-> nbs, format_nbc |-> (Channels - 1) % 256,
            format_bit |-> stream.bit_fmt, streamname |-> StreamName, nuFrame |-> nu]
<1> DEFINE h   == packet_init_header(audio_get_stream_config, StreamName)
           hdr == Prepared(nbs, nu)
           sr  == vban_sr_from_value(stream.sample_rate)
           nbc == (Channels - 1) % 256
<1>1. audio_get_stream_config = [nb_channels |-> Channels, sample_rate |-> stream.sample_rate,
                                 bit_fmt |-> stream.bit_fmt]
  BY Formats
<1>2. h = [fourc |-> TRUE, format_SR |-> sr, format_nbs |-> 0, format_nbc |-> nbc,
           format_bit |-> stream.bit_fmt, streamname |-> StreamName, nuFrame |-> 0]
  BY <1>1 DEF packet_init_header
<1>3. hdr = [h EXCEPT !.format_nbs = nbs, !.nuFrame = nu]
  BY DEF Prepared
<1> HIDE DEF h, hdr, sr, nbc
<1>4. /\ h = [fourc |-> h.fourc, format_SR |-> h.format_SR, format_nbs |-> h.format_nbs,
              format_nbc |-> h.format_nbc, format_bit |-> h.format_bit,
              streamname |-> h.streamname, nuFrame |-> h.nuFrame]
      /\ h.fourc = TRUE /\ h.format_SR = sr /\ h.format_nbc = nbc
      /\ h.format_bit = stream.bit_fmt /\ h.streamname = StreamName
  BY <1>2
<1>5. hdr = [fourc |-> h.fourc, format_SR |-> h.format_SR, format_nbs |-> nbs,
             format_nbc |-> h.format_nbc, format_bit |-> h.format_bit,
             streamname |-> h.streamname, nuFrame |-> nu]
  BY <1>3, <1>4, HeaderUpdate
<1>6. hdr = [fourc |-> TRUE, format_SR |-> sr, format_nbs |-> nbs, format_nbc |-> nbc,
             format_bit |-> stream.bit_fmt, streamname |-> StreamName, nuFrame |-> nu]
  BY <1>4, <1>5
<1> QED BY <1>6 DEF hdr, sr, nbc

(* packet_set_new_content keeps a prepared header prepared. *)
LEMMA PreparedNext ==
  ASSUME TypeOK, stream = options, NEW nbs, NEW nu, NEW n
  PROVE  packet_set_new_content(Prepared(nbs, nu), n) =
           Prepared(((n \div PacketFrameSize(Prepared(nbs, nu))) - 1) % 256, nu + 1)
<1> DEFINE h   == Prepared(nbs, nu)
           x   == ((n \div PacketFrameSize(h)) - 1) % 256
           g   == packet_set_new_content(h, n)
           sr  == vban_sr_from_value(stream.sample_rate)
           nbc == (Channels - 1) % 256
           nu1 == nu + 1
<1>1. h = [fourc |-> TRUE, format_SR |-> sr, format_nbs |-> nbs, format_nbc |-> nbc,
           format_bit |-> stream.bit_fmt, streamname |-> StreamName, nuFrame |-> nu]
  BY PreparedRecord
<1>2. g = [h EXCEPT !.format_nbs = x, !.nuFrame = h.nuFrame + 1]
  BY DEF packet_set_new_content
<1> HIDE DEF h, x, g, sr, nbc
<1>3. /\ h = [fourc |-> h.fourc, format_SR |-> h.format_SR, format_nbs |-> h.format_nbs,
              format_nbc |-> h.format_nbc, format_bit |-> h.format_bit,
              streamname |-> h.streamname, nuFrame |-> h.nuFrame]
      /\ h.fourc = TRUE /\ h.format_SR = sr /\ h.format_nbc = nbc
      /\ h.format_bit = stream.bit_fmt /\ h.streamname = StreamName /\ h.nuFrame = nu
  BY <1>1
<1>4. g = [h EXCEPT !.format_nbs = x, !.nuFrame = nu1]
  BY <1>2, <1>3
<1> HIDE DEF nu1
<1>5. g = [fourc |-> h.fourc, format_SR |-> h.format_SR, format_nbs |-> x,
           format_nbc |-> h.format_nbc, format_bit |-> h.format_bit,
           streamname |-> h.streamname, nuFrame |-> nu1]
  BY <1>3, <1>4, HeaderUpdate
<1>6. g = [fourc |-> TRUE, format_SR |-> sr, format_nbs |-> x, format_nbc |-> nbc,
           format_bit |-> stream.bit_fmt, streamname |-> StreamName, nuFrame |-> nu1]
  BY <1>3, <1>5
<1>7. g = Prepared(x, nu1)
  BY <1>6, PreparedRecord DEF sr, nbc
<1> QED BY <1>7 DEF g, x, h, nu1

(* What a prepared header says of a frame is the size of one of the mapped  *)
(* audio.                                                                   *)
LEMMA PreparedHeader ==
  ASSUME TypeOK, stream = options, NEW nbs, NEW nu
  PROVE  LET hdr == Prepared(nbs, nu) IN
         /\ NbChannels(hdr) = Channels
         /\ BitResolution(hdr.format_bit) = stream.bit_fmt
         /\ PacketFrameSize(hdr) = FrameSize(audio_get_stream_config)
<1> DEFINE hdr == Prepared(nbs, nu)
<1>1. /\ stream.bit_fmt \in 0 .. 7 /\ Channels \in 1 .. 256
      /\ FrameSize(audio_get_stream_config)
           = Channels * VBanBitResolutionSize[stream.bit_fmt]
  BY Formats
<1>2. hdr.format_nbc = (Channels - 1) % 256 /\ hdr.format_bit = stream.bit_fmt
  BY PreparedRecord
<1> HIDE DEF hdr
<1>3. ((Channels - 1) % 256) + 1 = Channels /\ stream.bit_fmt % 8 = stream.bit_fmt
  BY <1>1
<1>4. NbChannels(hdr) = Channels /\ BitResolution(hdr.format_bit) = stream.bit_fmt
  BY <1>2, <1>3 DEF NbChannels, BitResolution
<1>5. PacketFrameSize(hdr) = FrameSize(audio_get_stream_config)
  BY <1>1, <1>4 DEF PacketFrameSize
<1> QED BY <1>4, <1>5 DEF hdr

(* packet_check of a prepared header looks at the rate and at the size. *)
LEMMA PreparedCheck ==
  ASSUME TypeOK, stream = options, NEW nbs \in Byte, NEW nu, NEW n \in Int
  PROVE  packet_check(StreamName, Prepared(nbs, nu), n) = 0 <=>
           /\ n > VBAN_HEADER_SIZE
           /\ vban_sr_from_value(stream.sample_rate) < VBAN_SR_MAXNUMBER
           /\ n - VBAN_HEADER_SIZE =
                (nbs + 1) * Channels * VBanBitResolutionSize[stream.bit_fmt]
<1> DEFINE hdr == Prepared(nbs, nu)
           sr  == vban_sr_from_value(stream.sample_rate)
<1>1. /\ hdr.fourc /\ hdr.streamname = StreamName /\ hdr.format_SR = sr
      /\ hdr.format_nbs = nbs /\ hdr.format_bit = stream.bit_fmt
  BY PreparedRecord
<1>2. NbChannels(hdr) = Channels /\ BitResolution(hdr.format_bit) = stream.bit_fmt
  BY PreparedHeader
<1>3. stream.bit_fmt \in 0 .. 7 /\ sr \in 0 .. 21
  BY Formats, RateIndex DEF VBAN_SR_MAXNUMBER
<1> HIDE DEF hdr, sr
<1>4. /\ ~ ReservedBit(hdr.format_bit) /\ Codec(hdr.format_bit) = VBAN_CODEC_PCM
      /\ Protocol(hdr.format_SR) = VBAN_PROTOCOL_AUDIO
      /\ SampleRateIndex(hdr.format_SR) = sr
  <2>1. /\ ~((stream.bit_fmt \div 8) % 2 = 1) /\ stream.bit_fmt \div 16 = 0
        /\ sr \div 32 = 0 /\ sr % 32 = sr
    BY <1>3
  <2> QED BY <1>1, <2>1 DEF ReservedBit, Codec, VBAN_CODEC_PCM, Protocol,
             VBAN_PROTOCOL_AUDIO, SampleRateIndex
<1>5. stream.bit_fmt < VBAN_BIT_RESOLUTION_MAX
  BY <1>3 DEF VBAN_BIT_RESOLUTION_MAX
<1>6. packet_pcm_check(hdr, n) = 0 <=>
        /\ sr < VBAN_SR_MAXNUMBER
        /\ n - VBAN_HEADER_SIZE =
             (nbs + 1) * Channels * VBanBitResolutionSize[stream.bit_fmt]
  BY <1>1, <1>2, <1>4, <1>5 DEF packet_pcm_check, NbSamples, EINVAL
<1>7. packet_check(StreamName, hdr, n) = 0 <=>
        n > VBAN_HEADER_SIZE /\ packet_pcm_check(hdr, n) = 0
  BY <1>1, <1>4 DEF packet_check, EINVAL
<1> QED BY <1>6, <1>7 DEF hdr, sr

LEMMA FrameSizes ==
  ASSUME TypeOK, stream = options, FrameSize(audio_get_stream_config) > 0
  PROVE  /\ FrameSize(audio_get_stream_config) \in Nat \ {0}
         /\ VBanBitResolutionSize[stream.bit_fmt] \in 1 .. 8
         /\ FrameSize(stream) \in Nat \ {0}
<1> DEFINE s == VBanBitResolutionSize[stream.bit_fmt]
<1>1. /\ stream.nb_channels \in 1 .. 256 /\ Channels \in 1 .. 256 /\ s \in 0 .. 8
      /\ FrameSize(audio_get_stream_config) = Channels * s
  BY Formats
<1> HIDE DEF s
<1>2. s # 0
  BY <1>1
<1>3. s \in 1 .. 8
  BY <1>1, <1>2
<1>4. Channels * s \in Nat \ {0} /\ stream.nb_channels * s \in Nat \ {0}
  <2>1. \A a \in 1 .. 256, b \in 1 .. 8 : a \in Nat \ {0} /\ b \in Nat \ {0}
    OBVIOUS
  <2>2. \A a \in 1 .. 256, b \in 1 .. 8 : a * b \in Nat \ {0}
    BY <2>1, IntArithmetic
  <2> QED BY <1>1, <1>3, <2>2
<1> QED BY <1>1, <1>3, <1>4 DEF FrameSize, s

(* What main asks of audio_read: no more than a datagram and 256 samples. *)
LEMMA MaxPayload ==
  ASSUME NEW hdr, PacketFrameSize(hdr) \in Nat \ {0}
  PROVE  /\ packet_get_max_payload_size(hdr) \in Nat
         /\ packet_get_max_payload_size(hdr) <= VBAN_DATA_MAX_SIZE
         /\ packet_get_max_payload_size(hdr) <= VBAN_SAMPLES_MAX_NB * PacketFrameSize(hdr)
<1> DEFINE f     == PacketFrameSize(hdr)
           all   == VBAN_DATA_MAX_SIZE \div f
           count == IF all > VBAN_SAMPLES_MAX_NB THEN VBAN_SAMPLES_MAX_NB ELSE all
<1>1. VBAN_DATA_MAX_SIZE \in Nat /\ VBAN_SAMPLES_MAX_NB \in Nat
  BY DEF VBAN_DATA_MAX_SIZE, VBAN_PROTOCOL_MAX_SIZE, VBAN_HEADER_SIZE, VBAN_SAMPLES_MAX_NB
<1>2. packet_get_max_payload_size(hdr) = count * f
  BY DEF packet_get_max_payload_size
<1> HIDE DEF f
<1>3. all \in Nat /\ all * f <= VBAN_DATA_MAX_SIZE
  BY <1>1, SMTT(30) DEF f
<1> HIDE DEF all
<1>4. count \in Nat /\ count <= all /\ count <= VBAN_SAMPLES_MAX_NB
  BY <1>1, <1>3
<1> HIDE DEF count
<1>5. \A a, b, c \in Nat : a <= b => a * c <= b * c
  BY SMTT(30)
<1>6. f \in Nat
  BY DEF f
<1>7. count * f <= all * f /\ count * f <= VBAN_SAMPLES_MAX_NB * f /\ count * f \in Nat
  BY <1>1, <1>3, <1>4, <1>5, <1>6
<1> QED BY <1>1, <1>2, <1>3, <1>6, <1>7 DEF f

(* A backend returns no more than it was asked for. *)
LEMMA ReadRange ==
  ASSUME NEW asked \in Nat, handle => FrameSize(device) \in Nat \ {0},
         NEW n \in backend_read(asked)
  PROVE  n \in Int /\ n <= asked
<1>1. CASE n \in alsa_read(asked)
  <2>1. CASE ~handle
    BY <1>1, <2>1 DEF alsa_read, ENODEV
  <2>2. CASE handle
    <3> DEFINE f == FrameSize(device)
               frames == asked \div f
    <3>1. f \in Nat \ {0}
      BY <2>2
    <3>2. \E k \in {-1, 0} \cup ({1, frames} \cap 0 .. frames) : n = k * f
      BY <1>1, <2>2 DEF alsa_read
    <3> HIDE DEF f
    <3>3. frames \in Nat /\ frames * f <= asked
      BY <3>1, SMTT(30)
    <3>4. PICK k \in Int : n = k * f /\ (k <= frames \/ k <= 0)
      BY <3>2, <3>3
    <3>5. k <= frames
      BY <3>3, <3>4
    <3>6. k * f <= frames * f /\ k * f \in Int
      BY <3>1, <3>3, <3>5, SMTT(30)
    <3> QED BY <3>1, <3>3, <3>4, <3>6
  <2> QED BY <2>1, <2>2
<1>2. CASE n \in pulseaudio_read(asked)
  BY <1>2 DEF pulseaudio_read, ENODEV
<1>3. CASE n \in fd_read(asked)
  BY <1>3 DEF fd_read
<1> QED BY <1>1, <1>2, <1>3 DEF backend_read

(* The bytes asked from the backend, where no product is negative. *)
LEMMA Asked ==
  ASSUME TypeOK, stream = options, NEW n \in Nat
  PROVE  /\ audio_read_asked(n) \in Nat
         /\ audio_read_asked(n) = IF map_nb = 0 THEN n
                                  ELSE (n * stream.nb_channels) \div map_nb
<1>1. map_nb \in 0 .. 256 /\ stream.nb_channels \in 1 .. 256
  BY Formats
<1>2. CASE map_nb = 0
  BY <1>2 DEF audio_read_asked, AUDIO_MAP_REVERSE_INPUT_SIZE
<1>3. CASE map_nb # 0
  <2>1. audio_read_asked(n) = (n * stream.nb_channels) \div map_nb
    BY <1>1, <1>3 DEF audio_read_asked, AUDIO_MAP_REVERSE_INPUT_SIZE
  <2>2. n * stream.nb_channels \in Nat
    BY <1>1, NatProducts
  <2>3. \A a \in Nat : \A b \in Nat \ {0} : a \div b \in Nat
    BY SMTT(30)
  <2> QED BY <1>1, <1>3, <2>1, <2>2, <2>3
<1> QED BY <1>2, <1>3

(* What was read makes no more mapped bytes than main asked for. *)
LEMMA Mapped ==
  ASSUME TypeOK, stream = options, NEW s \in Nat, NEW n \in Nat, n <= audio_read_asked(s)
  PROVE  AUDIO_MAP_OUTPUT_SIZE(n) \in Nat /\ AUDIO_MAP_OUTPUT_SIZE(n) <= s
<1>1. map_nb \in 0 .. 256 /\ stream.nb_channels \in 1 .. 256
  BY Formats
<1>2. CASE map_nb = 0
  BY <1>2, Asked DEF AUDIO_MAP_OUTPUT_SIZE
<1>3. CASE map_nb # 0
  <2>1. n <= (s * stream.nb_channels) \div map_nb
    BY <1>3, Asked
  <2>2. AUDIO_MAP_OUTPUT_SIZE(n) = (n * map_nb) \div stream.nb_channels
    BY <1>3 DEF AUDIO_MAP_OUTPUT_SIZE
  <2>3. map_nb \in Nat \ {0} /\ stream.nb_channels \in Nat \ {0}
    BY <1>1, <1>3
  <2>4. /\ (n * map_nb) \div stream.nb_channels \in Nat
        /\ (n * map_nb) \div stream.nb_channels <= s
    BY ONLY <2>1, <2>3, s \in Nat, n \in Nat, RoundTrip
  <2> QED BY <2>2, <2>4
<1> QED BY <1>2, <1>3

(* A packet that its own check accepts holds whole frames of the device,    *)
(* unless the map narrows it.                                               *)
LEMMA CheckedWhole ==
  ASSUME TypeOK, stream = options, WideMap, FrameSize(audio_get_stream_config) > 0,
         NEW n \in Nat, AUDIO_MAP_OUTPUT_SIZE(n) \in Nat, NEW nbs \in Byte, NEW nu,
         packet_check(StreamName, Prepared(nbs, nu),
                      VBAN_HEADER_SIZE + AUDIO_MAP_OUTPUT_SIZE(n)) = 0
  PROVE  n % FrameSize(stream) = 0
<1> DEFINE s  == VBanBitResolutionSize[stream.bit_fmt]
           nb == stream.nb_channels
           k  == (nbs + 1) * s
<1>1. nb \in Nat \ {0} /\ map_nb \in Nat /\ s \in Nat \ {0} /\ nbs + 1 \in Nat
  BY Formats, FrameSizes DEF Byte
<1>2. AUDIO_MAP_OUTPUT_SIZE(n) = (nbs + 1) * Channels * s
  <2> DEFINE len == VBAN_HEADER_SIZE + AUDIO_MAP_OUTPUT_SIZE(n)
  <2>1. len \in Int /\ packet_check(StreamName, Prepared(nbs, nu), len) = 0
    BY DEF VBAN_HEADER_SIZE
  <2>2. AUDIO_MAP_OUTPUT_SIZE(n) = len - VBAN_HEADER_SIZE
    BY DEF VBAN_HEADER_SIZE
  <2> HIDE DEF len, s
  <2>3. len - VBAN_HEADER_SIZE = (nbs + 1) * Channels * s
    BY <2>1, PreparedCheck DEF s
  <2> QED BY <2>2, <2>3
<1>3. FrameSize(stream) = nb * s
  BY DEF FrameSize
<1> HIDE DEF s, nb
<1>4. k \in Nat /\ k * nb = (nbs + 1) * (nb * s) /\ nb * s \in Nat \ {0}
  BY <1>1, NatProducts, IntArithmetic
<1>5. n = k * nb
  <2>1. CASE map_nb = 0
    <3>1. n = (nbs + 1) * nb * s
      BY <1>2, <2>1 DEF AUDIO_MAP_OUTPUT_SIZE, Channels, nb
    <3> QED BY <1>1, <3>1, NatProducts
  <2>2. CASE map_nb # 0
    <3>1. map_nb >= nb /\ Channels = map_nb
      BY <2>2 DEF WideMap, Channels, nb
    <3>2. (n * map_nb) \div nb = (nbs + 1) * map_nb * s
      BY <1>2, <2>2, <3>1 DEF AUDIO_MAP_OUTPUT_SIZE, nb
    <3>3. (n * map_nb) \div nb = k * map_nb
      BY <1>1, <3>2, NatProducts
    <3> QED BY <1>1, <1>4, <2>2, <3>1, <3>3, ExactQuotient
  <2> QED BY <2>1, <2>2
<1>6. n = (nbs + 1) * (nb * s)
  BY <1>4, <1>5
<1>7. ((nbs + 1) * (nb * s)) % (nb * s) = 0
  BY <1>1, <1>4, Multiples
<1> QED BY <1>3, <1>6, <1>7

-----------------------------------------------------------------------------
(* Initial states, and one lemma per step *)

USE DEF TypeOK, AudioTypeOK, AudioBackendTypeOK

(* A step out of the loop or before it has little to keep. *)
LEMMA OutsideLoop ==
  ASSUME TypeOK', DeviceInv', FifoInv', BufferInv', pc' \notin InLoop,
         pc' \in BeforeLoop => buffer' = NoPacket /\ sent' = NoPacket /\ offset' = 0
  PROVE  EInv'
<1>1. HeaderInv' /\ PayloadInv' /\ SequenceInv' /\ OffsetInv'
  BY DEF HeaderInv, PayloadInv, SequenceInv, OffsetInv, InSequence, InLoop, BeforeLoop
<1> QED BY <1>1 DEF EInv

LEMMA EmptyTypes ==
  /\ NoStream \in StreamConfig /\ Streams \subseteq StreamConfig
  /\ NoPacket = [ip |-> NoPacket.ip, len |-> NoPacket.len, hdr |-> NoPacket.hdr,
                 chunk |-> NoPacket.chunk]
  /\ NoPacket.len = 0
  /\ \A config \in Streams : config # NoStream
BY EmitterAssumption
   DEF NoStream, StreamConfig, NoPacket, VBAN_CHANNELS_MAX_NB, VBAN_BIT_RESOLUTION_MAX

LEMMA InheritedTypes ==
  ASSUME NEW stdin \in StdinStates
  PROVE  InheritedFds(stdin) \in [Fd -> FdKind]
BY EmitterAssumption DEF InheritedFds, Fd, FdKind

LEMMA BackendTypesHold == EInv => BackendTypes /\ HandleInv
BY DEF EInv, DeviceInv, BackendTypes

LEMMA InitInv == Init => EInv
<1> SUFFICES ASSUME Init PROVE EInv
  OBVIOUS
<1>1. fds \in [Fd -> FdKind]
  BY InheritedTypes DEF Init
<1>2. /\ pc = "socket_init" /\ ret = 0 /\ size = 0 /\ max_size = 0 /\ offset = 0
      /\ options \in Streams /\ buffer = NoPacket /\ sent = NoPacket
      /\ sockfd = 0 /\ fd = 0 /\ handle = FALSE /\ device = NoStream /\ fifo = FALSE
      /\ backend \in Backends /\ stream = NoStream /\ map_nb = 0
  BY DEF Init, SocketInitial, AudioInitial, AudioBackendInitial
<1>3. BufferInv /\ buffer.len = 0
  BY <1>2, EmptyTypes DEF BufferInv
<1>4. TypeOK
  <2>1. AudioTypeOK
    BY <1>1, <1>2, EmptyTypes, FdConstants
  <2>2. {ret, size, max_size, buffer.len} \subseteq Int /\ offset \in Nat /\ sockfd \in Fd
    BY <1>2, <1>3, FdConstants
  <2>3. pc \in Locations /\ options \in Streams
    BY <1>2 DEF Locations
  <2> QED BY <2>1, <2>2, <2>3
<1>5. DeviceInv /\ FifoInv
  BY <1>2 DEF DeviceInv, HandleInv, FifoInv, InLoop
<1>6. HeaderInv /\ PayloadInv /\ SequenceInv /\ OffsetInv
  BY <1>2 DEF HeaderInv, PayloadInv, SequenceInv, OffsetInv, InSequence, InLoop, BeforeLoop
<1> QED BY <1>3, <1>4, <1>5, <1>6 DEF EInv

LEMMA SocketInitStep == EInv /\ SocketInit => EInv'
<1> SUFFICES ASSUME EInv, SocketInit PROVE EInv'
  OBVIOUS
<1>1. PICK r \in Returns : socket_open(r) /\ ret' = r
  BY DEF SocketInit
<1>2. fds' \in [Fd -> FdKind] /\ sockfd' \in Fd
  BY <1>1, SocketOpenType DEF EInv
<1>3. /\ pc = "socket_init" /\ pc' \in {"exited", "audio_init"}
      /\ UNCHANGED <<size, max_size, options, buffer, offset, sent>>
      /\ UNCHANGED <<backend, fd, handle, device, fifo, stream, map_nb>>
  BY DEF SocketInit, audioVars, backendVars
<1>4. TypeOK'
  BY <1>1, <1>2, <1>3 DEF EInv, Returns, Locations
<1>5. DeviceInv' /\ FifoInv' /\ BufferInv'
  BY <1>3 DEF EInv, DeviceInv, HandleInv, FifoInv, BufferInv, InLoop
<1>6. buffer' = NoPacket /\ sent' = NoPacket /\ offset' = 0
  BY <1>3 DEF EInv, SequenceInv, OffsetInv, BeforeLoop
<1> QED BY <1>3, <1>4, <1>5, <1>6, OutsideLoop DEF InLoop

LEMMA AudioInitStep == EInv /\ AudioInit => EInv'
<1> SUFFICES ASSUME EInv, AudioInit PROVE EInv'
  OBVIOUS
<1>1. /\ pc = "audio_init" /\ pc' \in {"exited", "config"}
      /\ UNCHANGED <<size, max_size, options, buffer, offset, sent, sockfd, fds>>
      /\ UNCHANGED <<backend, fd, handle, device, fifo, stream>>
      /\ ret' \in {0, -1} /\ map_nb' \in MapNbs \cup {0}
  BY DEF AudioInit, audio_set_map_config, audioVars, backendVars, EInv
<1>2. TypeOK'
  BY <1>1 DEF EInv, Locations
<1>3. DeviceInv' /\ FifoInv' /\ BufferInv'
  BY <1>1 DEF EInv, DeviceInv, HandleInv, FifoInv, BufferInv, InLoop
<1>4. buffer' = NoPacket /\ sent' = NoPacket /\ offset' = 0
  BY <1>1 DEF EInv, SequenceInv, OffsetInv, BeforeLoop
<1> QED BY <1>1, <1>2, <1>3, <1>4, OutsideLoop DEF InLoop

(* The close of a FIFO that was never opened removes what another run left. *)
LEMMA CloseFirstStep == EInv /\ CloseFirst => EInv'
<1> SUFFICES ASSUME EInv, CloseFirst PROVE EInv'
  OBVIOUS
<1>1. PICK r \in Returns :
        /\ audio_set_stream_config_close(options, r)
        /\ ret' = r
        /\ pc' = IF r < 0 THEN "exited" ELSE "open"
  BY DEF CloseFirst
<1>2. /\ pc = "config" /\ UNCHANGED <<size, max_size, options, buffer, offset, sent, sockfd>>
      /\ backend_close(r) /\ stream' = (IF r < 0 THEN stream ELSE options)
      /\ UNCHANGED map_nb
  BY <1>1 DEF CloseFirst, audio_set_stream_config_close
<1>3. BackendTypes' /\ HandleInv' /\ device' = NoStream /\ backend' = backend
  BY <1>2, CloseEffect, BackendTypesHold
<1>4. backend = "pipe" => fifo' = FALSE
  BY <1>2 DEF backend_close, pipe_close
<1>5. TypeOK'
  BY <1>1, <1>2, <1>3, EmptyTypes DEF EInv, Returns, Locations, BackendTypes
<1>6. DeviceInv' /\ FifoInv' /\ BufferInv'
  BY <1>1, <1>2, <1>3, <1>4 DEF EInv, DeviceInv, FifoInv, BufferInv, InLoop
<1>7. buffer' = NoPacket /\ sent' = NoPacket /\ offset' = 0
  BY <1>2 DEF EInv, SequenceInv, OffsetInv, BeforeLoop
<1> QED BY <1>1, <1>5, <1>6, <1>7, OutsideLoop DEF InLoop

(* What OpenEffect leaves to say of the open of a FIFO. *)
LEMMA FifoNotMade ==
  ASSUME NEW config, NEW r \in Returns, backend_open(config, r), backend = "pipe"
  PROVE  r = 0 \/ UNCHANGED fifo
BY DEF backend_open, pipe_open_mkfifo

LEMMA OpenStep == EInv /\ Open => EInv'
<1> SUFFICES ASSUME EInv, Open PROVE EInv'
  OBVIOUS
<1>1. PICK r \in Returns :
        /\ audio_capture_open(r)
        /\ ret' = r
        /\ pc' = IF r # 0 THEN "exited"
                 ELSE IF backend = "pipe" THEN "connect" ELSE "header"
  BY DEF Open
<1>2. /\ pc = "open" /\ UNCHANGED <<size, max_size, options, buffer, offset, sent, sockfd>>
      /\ backend_open(stream, r) /\ stream' = (IF r < 0 THEN NoStream ELSE stream)
      /\ UNCHANGED map_nb
  BY <1>1 DEF Open, audio_capture_open
<1>3. stream = options /\ stream # NoStream /\ device = NoStream
  BY <1>2, EmptyTypes DEF EInv, DeviceInv
<1>4. /\ BackendTypes' /\ HandleInv' /\ backend' = backend
      /\ device' \in {NoStream, stream}
      /\ backend # "pipe" /\ r = 0 => device' = stream
  BY <1>2, <1>3, OpenEffect, BackendTypesHold
<1>5. TypeOK'
  BY <1>1, <1>2, <1>4, EmptyTypes DEF EInv, Returns, Locations, BackendTypes
<1>6. DeviceInv' /\ FifoInv' /\ BufferInv'
  BY <1>1, <1>2, <1>3, <1>4 DEF EInv, DeviceInv, FifoInv, BufferInv, InLoop
<1>7. buffer' = NoPacket /\ sent' = NoPacket /\ offset' = 0
  BY <1>2 DEF EInv, SequenceInv, OffsetInv, BeforeLoop
<1> QED BY <1>1, <1>5, <1>6, <1>7, OutsideLoop DEF InLoop

LEMMA ConnectStep == EInv /\ Connect => EInv'
<1> SUFFICES ASSUME EInv, Connect PROVE EInv'
  OBVIOUS
<1>1. PICK r \in Returns : audio_capture_connect(r) /\ ret' = r
  BY DEF Connect
<1>2. /\ pc = "connect" /\ pc' = "header" /\ pipe_open_connect(stream, r)
      /\ UNCHANGED <<size, max_size, options, buffer, offset, sent, sockfd>>
      /\ UNCHANGED <<backend, stream, map_nb>>
  BY <1>1 DEF Connect, audio_capture_connect
<1>3. backend = "pipe" /\ stream = options /\ stream # NoStream
  BY <1>2, EmptyTypes DEF EInv, DeviceInv
<1>4. BackendTypes' /\ HandleInv' /\ device' \in {NoStream, stream}
  BY <1>2, <1>3, ConnectEffect, BackendTypesHold
<1>5. TypeOK'
  BY <1>1, <1>2, <1>4, EmptyTypes DEF EInv, Returns, Locations, BackendTypes
<1>6. DeviceInv' /\ FifoInv' /\ BufferInv'
  BY <1>2, <1>3, <1>4 DEF EInv, DeviceInv, HandleInv, FifoInv, BufferInv, InLoop
<1>7. buffer' = NoPacket /\ sent' = NoPacket /\ offset' = 0
  BY <1>2 DEF EInv, SequenceInv, OffsetInv, BeforeLoop
<1> QED BY <1>2, <1>5, <1>6, <1>7, OutsideLoop DEF InLoop

(* The bytes of a frame that the first header announces, and that of none.  *)
LEMMA HeaderStep == EInv /\ Header => EInv'
<1> SUFFICES ASSUME EInv, Header PROVE EInv'
  OBVIOUS
<1> DEFINE hdr == packet_init_header(audio_get_stream_config, StreamName)
<1>1. /\ pc = "header" /\ buffer' = [buffer EXCEPT !.hdr = hdr]
      /\ \/ pc' = "crashed" /\ max_size' = max_size
         \/ /\ pc' = "read" /\ PacketFrameSize(hdr) # 0
            /\ max_size' = packet_get_max_payload_size(hdr)
      /\ UNCHANGED <<ret, size, options, offset, sent, fds, sockfd>>
      /\ UNCHANGED <<backend, fd, handle, device, fifo, stream, map_nb>>
  BY DEF Header, audioVars, backendVars
<1>2. stream = options /\ TypeOK
  BY <1>1 DEF EInv, DeviceInv
<1>3. hdr = Prepared(0, 0)
  <2>1. audio_get_stream_config = [nb_channels |-> Channels, sample_rate |-> stream.sample_rate,
                                   bit_fmt |-> stream.bit_fmt]
    BY <1>2, Formats
  <2>2. hdr = [fourc |-> TRUE, format_SR |-> vban_sr_from_value(stream.sample_rate),
               format_nbs |-> 0, format_nbc |-> (Channels - 1) % 256,
               format_bit |-> stream.bit_fmt, streamname |-> StreamName, nuFrame |-> 0]
    BY <2>1 DEF packet_init_header
  <2> QED BY <1>2, <2>2, PreparedRecord
<1>4. hdr.nuFrame = 0
  BY DEF packet_init_header
<1> HIDE DEF hdr
<1>5. /\ BufferInv' /\ buffer'.hdr = hdr /\ buffer'.len = buffer.len
      /\ buffer'.chunk = buffer.chunk
  BY <1>1 DEF EInv, BufferInv
<1>6. /\ buffer'.hdr = Prepared(0, 0)' /\ audio_get_stream_config' = audio_get_stream_config
  BY <1>1, <1>3, <1>5 DEF Prepared, audio_get_stream_config
<1>7. buffer = NoPacket /\ sent = NoPacket /\ offset = 0
  BY <1>1 DEF EInv, SequenceInv, OffsetInv, BeforeLoop
<1>8. NoPacket.hdr.nuFrame = 0
  BY DEF NoPacket
<1>9. DeviceInv' /\ FifoInv'
  BY <1>1 DEF EInv, DeviceInv, HandleInv, FifoInv, InLoop
<1>10. CASE pc' = "crashed" /\ max_size' = max_size
  <2>1. TypeOK'
    BY <1>1, <1>5, <1>10 DEF EInv, Locations
  <2> QED BY <1>5, <1>9, <1>10, <2>1, OutsideLoop DEF InLoop, BeforeLoop
<1>11. CASE pc' = "read" /\ PacketFrameSize(hdr) # 0
                         /\ max_size' = packet_get_max_payload_size(hdr)
  <2> DEFINE f == FrameSize(audio_get_stream_config)
  <2>1. PacketFrameSize(hdr) = f /\ f \in Nat
    <3>1. /\ Channels \in 1 .. 256 /\ VBanBitResolutionSize[stream.bit_fmt] \in 0 .. 8
          /\ f = Channels * VBanBitResolutionSize[stream.bit_fmt]
      BY <1>2, Formats
    <3>2. f \in Nat
      BY <3>1, NatProducts
    <3> QED BY <1>2, <1>3, <3>2, PreparedHeader
  <2>2. FrameSize(audio_get_stream_config') = f
    BY <1>6
  <2> HIDE DEF f
  <2>3. f \in Nat \ {0} /\ f > 0
    BY <1>11, <2>1
  <2>4. /\ max_size' \in Nat /\ max_size' <= VBAN_DATA_MAX_SIZE
        /\ max_size' <= VBAN_SAMPLES_MAX_NB * f
    BY <1>11, <2>1, <2>3, MaxPayload
  <2>5. TypeOK'
    BY <1>1, <1>5, <1>11, <2>4 DEF EInv, Locations
  <2>6. HeaderInv'
    <3>1. 0 \in Byte /\ 0 \in Nat
      BY DEF Byte
    <3> QED BY <1>6, <2>2, <2>3, <2>4, <3>1 DEF HeaderInv
  <2>7. SequenceInv'
    BY <1>1, <1>4, <1>5, <1>7, <1>8, <1>11 DEF SequenceInv, BeforeLoop, InSequence
  <2>8. PayloadInv' /\ OffsetInv'
    BY <1>1, <1>7, <1>11 DEF PayloadInv, OffsetInv, BeforeLoop
  <2> QED BY <1>5, <1>9, <2>5, <2>6, <2>7, <2>8 DEF EInv
<1> QED BY <1>1, <1>10, <1>11

(* Where the format does not change, neither do what it says of a packet. *)
LEMMA SameFormat ==
  ASSUME UNCHANGED <<backend, stream, map_nb>>
  PROVE  /\ \A nbs, nu : Prepared(nbs, nu)' = Prepared(nbs, nu)
         /\ FrameSize(audio_get_stream_config)' = FrameSize(audio_get_stream_config)
         /\ mapped_config' = mapped_config
         /\ WideMap' = WideMap
         /\ FrameSize(stream)' = FrameSize(stream)
         /\ \A n : AUDIO_MAP_OUTPUT_SIZE(n)' = AUDIO_MAP_OUTPUT_SIZE(n)
<1>1. audio_get_stream_config' = audio_get_stream_config
  BY DEF audio_get_stream_config
<1>2. SameEncoding' = SameEncoding
  BY DEF SameEncoding, IsLibrary, LibraryFormat
<1>3. mapped_config' = mapped_config
  BY <1>2 DEF mapped_config
<1>4. \A nbs, nu : Prepared(nbs, nu)' = Prepared(nbs, nu)
  BY <1>1 DEF Prepared
<1>5. WideMap' = WideMap /\ \A n : AUDIO_MAP_OUTPUT_SIZE(n)' = AUDIO_MAP_OUTPUT_SIZE(n)
  BY DEF WideMap, AUDIO_MAP_OUTPUT_SIZE
<1> QED BY <1>1, <1>3, <1>4, <1>5

LEMMA ReadStep == EInv /\ Read => EInv'
<1> SUFFICES ASSUME EInv, Read PROVE EInv'
  OBVIOUS
<1> DEFINE chunk(sz) == [config |-> mapped_config, bytes |-> sz,
                         position |-> buffer.chunk.position + 1, offset |-> offset]
           asked == audio_read_asked(max_size)
<1>1. PICK n \in backend_read(asked) :
        /\ audio_read(max_size, n, size')
        /\ IF n < 0
           THEN pc' = "audio_release" /\ UNCHANGED <<buffer, offset>>
           ELSE /\ pc' = "check"
                /\ buffer' = [buffer EXCEPT !.len = VBAN_HEADER_SIZE + size',
                                            !.chunk = chunk(size')]
                /\ offset' = (offset + n) % FrameSize(stream)
  BY DEF Read
<1>2. /\ pc = "read" /\ size' = (IF n < 0 THEN n ELSE AUDIO_MAP_OUTPUT_SIZE(n))
      /\ UNCHANGED <<ret, max_size, options, sent, fds, sockfd>>
      /\ UNCHANGED <<backend, fd, handle, device, fifo, stream, map_nb>>
  BY <1>1 DEF Read, audio_read, audioVars, backendVars
<1>3. /\ stream = options /\ FrameSize(audio_get_stream_config) > 0
      /\ max_size \in Nat
      /\ handle => device = stream
      /\ TypeOK /\ BufferInv
  BY <1>2 DEF EInv, DeviceInv, HeaderInv, InLoop
<1> HIDE DEF TypeOK, AudioTypeOK, AudioBackendTypeOK
<1>4. handle => FrameSize(device) \in Nat \ {0}
  BY <1>3, FrameSizes
<1>5. asked \in Nat
  BY <1>3, Asked
<1>6. n \in Int /\ n <= asked
  <2> HIDE DEF asked
  <2> QED BY <1>4, <1>5, ReadRange
<1>7. DeviceInv' /\ FifoInv'
  BY <1>1, <1>2 DEF EInv, DeviceInv, HandleInv, FifoInv, InLoop
<1>8. CASE n < 0
  <2>1. TypeOK' /\ BufferInv'
    BY <1>1, <1>2, <1>6, <1>8 DEF EInv, Locations, BufferInv,
       TypeOK, AudioTypeOK, AudioBackendTypeOK
  <2> QED BY <1>1, <1>7, <1>8, <2>1, OutsideLoop DEF InLoop, BeforeLoop
<1>9. CASE ~(n < 0)
  <2>1. n \in Nat /\ size' = AUDIO_MAP_OUTPUT_SIZE(n) /\ pc' = "check"
    BY <1>1, <1>2, <1>6, <1>9
  <2>2. size' \in Nat /\ size' <= max_size
    BY <1>3, <1>6, <2>1, Mapped
  <2> DEFINE c == chunk(size')
             l == VBAN_HEADER_SIZE + size'
  <2>3. /\ c.config = mapped_config /\ c.position = buffer.chunk.position + 1
        /\ c.offset = offset
    OBVIOUS
  <2>4. l \in Int /\ l = VBAN_HEADER_SIZE + size'
    BY <2>2 DEF VBAN_HEADER_SIZE
  <2>5. buffer' = [buffer EXCEPT !.len = l, !.chunk = c]
    BY <1>1, <1>9
  <2> HIDE DEF c, l
  <2>6. BufferInv' /\ buffer'.hdr = buffer.hdr /\ buffer'.len = l /\ buffer'.chunk = c
    BY <1>3, <2>5 DEF BufferInv
  <2>7. offset' = (offset + n) % FrameSize(stream) /\ offset' \in Nat
    <3>1. FrameSize(stream) \in Nat \ {0} /\ offset + n \in Nat
      <4>1. FrameSize(stream) \in Nat \ {0}
        BY <1>3, FrameSizes
      <4>2. offset \in Nat
        BY <1>3 DEF TypeOK
      <4> QED BY <2>1, <4>1, <4>2
    <3> QED BY <1>1, <1>9, <3>1
  <2>8. TypeOK'
    BY <1>2, <2>1, <2>2, <2>4, <2>6, <2>7
       DEF EInv, Locations, TypeOK, AudioTypeOK, AudioBackendTypeOK
  <2>9. HeaderInv'
    <3>1. PICK nbs \in Byte, nu \in Nat : buffer.hdr = Prepared(nbs, nu)
      BY <1>2 DEF EInv, HeaderInv, InLoop
    <3>2. buffer'.hdr = Prepared(nbs, nu)'
      BY <1>2, <2>6, <3>1, SameFormat
    <3>3. \E a \in Byte, b \in Nat : (buffer.hdr = Prepared(a, b))'
      BY <3>2
    <3>4. (/\ FrameSize(audio_get_stream_config) > 0
           /\ max_size \in Nat /\ max_size <= VBAN_DATA_MAX_SIZE
           /\ max_size <= VBAN_SAMPLES_MAX_NB * FrameSize(audio_get_stream_config))'
      BY <1>2, SameFormat DEF EInv, HeaderInv, InLoop
    <3> QED BY <3>3, <3>4 DEF HeaderInv
  <2>10. PayloadInv'
    BY <1>2, <2>1, <2>2, <2>3, <2>4, <2>6, SameFormat DEF PayloadInv
  <2>11. SequenceInv'
    BY <1>2, <2>1, <2>3, <2>6 DEF EInv, SequenceInv, InSequence, BeforeLoop
  <2>12. OffsetInv'
    <3>1. WideMap => offset = 0
      BY <1>2 DEF EInv, OffsetInv
    <3>2. /\ WideMap' = WideMap /\ FrameSize(stream)' = FrameSize(stream)
          /\ AUDIO_MAP_OUTPUT_SIZE(n)' = AUDIO_MAP_OUTPUT_SIZE(n)
      BY <1>2, SameFormat
    <3>3. WideMap => offset' = n % FrameSize(stream)
      BY <2>1, <2>7, <3>1
    <3>4. WideMap' => (\E m \in Nat : /\ size = AUDIO_MAP_OUTPUT_SIZE(m)
                                     /\ offset = m % FrameSize(stream))'
      BY <2>1, <3>2, <3>3
    <3>5. WideMap' => buffer'.chunk.offset = 0
      BY <2>3, <2>6, <3>1, <3>2
    <3> QED BY <2>1, <3>4, <3>5 DEF OffsetInv, BeforeLoop
  <2> QED BY <1>7, <2>6, <2>8, <2>9, <2>10, <2>11, <2>12 DEF EInv
<1> QED BY <1>8, <1>9

LEMMA CheckStep == EInv /\ Check => EInv'
<1> SUFFICES ASSUME EInv, Check PROVE EInv'
  OBVIOUS
<1> DEFINE hdr == packet_set_new_content(buffer.hdr, size)
           x   == ((size \div PacketFrameSize(buffer.hdr)) - 1) % 256
<1>1. /\ pc = "check" /\ buffer' = [buffer EXCEPT !.hdr = hdr]
      /\ ret' = packet_check(StreamName, buffer'.hdr, buffer.len)
      /\ pc' = (IF ret' # 0 THEN "audio_release" ELSE "send")
      /\ UNCHANGED <<size, max_size, options, offset, sent, fds, sockfd>>
      /\ UNCHANGED <<backend, fd, handle, device, fifo, stream, map_nb>>
  BY DEF Check, audioVars, backendVars
<1>2. /\ stream = options /\ FrameSize(audio_get_stream_config) > 0
      /\ size \in Nat /\ buffer.len = VBAN_HEADER_SIZE + size
      /\ TypeOK /\ BufferInv
  BY <1>1 DEF EInv, DeviceInv, HeaderInv, PayloadInv, InLoop
<1>3. PICK nbs \in Byte, nu \in Nat : buffer.hdr = Prepared(nbs, nu)
  BY <1>1 DEF EInv, HeaderInv, InLoop
<1> HIDE DEF TypeOK, AudioTypeOK, AudioBackendTypeOK
<1>4. PICK y \in Byte : hdr = Prepared(y, nu + 1)
  <2>1. PacketFrameSize(buffer.hdr) \in Nat \ {0}
    BY <1>2, <1>3, PreparedHeader, FrameSizes
  <2>2. size \div PacketFrameSize(buffer.hdr) \in Int
    BY <1>2, <2>1, IntArithmetic
  <2>3. x \in Byte
    BY <2>2 DEF Byte
  <2>4. hdr = Prepared(x, nu + 1)
    BY <1>2, <1>3, PreparedNext
  <2> QED BY <2>3, <2>4
<1> HIDE DEF x
<1>5. hdr.nuFrame = nu + 1 /\ buffer.hdr.nuFrame = nu /\ nu + 1 \in Nat
  BY <1>2, <1>3, <1>4, PreparedRecord
<1> HIDE DEF hdr
<1>6. BufferInv' /\ buffer'.hdr = hdr /\ buffer'.len = buffer.len /\ buffer'.chunk = buffer.chunk
  BY <1>1, <1>2 DEF BufferInv
<1>7. DeviceInv' /\ FifoInv'
  BY <1>1 DEF EInv, DeviceInv, HandleInv, FifoInv, InLoop
<1>8. TypeOK'
  <2>1. packet_check(StreamName, buffer'.hdr, buffer.len) \in Int
    BY DEF packet_check, packet_pcm_check, EINVAL
  <2> QED BY <1>1, <1>6, <2>1 DEF EInv, Locations, TypeOK, AudioTypeOK, AudioBackendTypeOK
<1>9. CASE pc' = "audio_release"
  BY <1>6, <1>7, <1>8, <1>9, OutsideLoop DEF InLoop, BeforeLoop
<1>10. CASE pc' = "send" /\ ret' = 0
  <2>1. HeaderInv'
    <3>1. buffer'.hdr = Prepared(y, nu + 1)'
      BY <1>1, <1>4, <1>6, SameFormat
    <3>2. \E a \in Byte, b \in Nat : (buffer.hdr = Prepared(a, b))'
      BY <1>5, <3>1
    <3>3. (/\ FrameSize(audio_get_stream_config) > 0
           /\ max_size \in Nat /\ max_size <= VBAN_DATA_MAX_SIZE
           /\ max_size <= VBAN_SAMPLES_MAX_NB * FrameSize(audio_get_stream_config))'
      BY <1>1, SameFormat DEF EInv, HeaderInv, InLoop
    <3> QED BY <3>2, <3>3 DEF HeaderInv
  <2>2. PayloadInv'
    BY <1>1, <1>6, <1>10, SameFormat DEF EInv, PayloadInv
  <2>3. SequenceInv'
    BY <1>1, <1>5, <1>6, <1>10 DEF EInv, SequenceInv, InSequence, BeforeLoop
  <2>4. OffsetInv'
    <3>1. ASSUME WideMap PROVE buffer.chunk.offset = 0 /\ offset = 0
      <4>1. PICK n \in Nat : size = AUDIO_MAP_OUTPUT_SIZE(n) /\ offset = n % FrameSize(stream)
        BY <1>1, <3>1 DEF EInv, OffsetInv
      <4>2. packet_check(StreamName, Prepared(y, nu + 1), VBAN_HEADER_SIZE + size) = 0
        BY <1>1, <1>2, <1>4, <1>6, <1>10
      <4>3. n % FrameSize(stream) = 0
        BY <1>2, <1>4, <3>1, <4>1, <4>2, CheckedWhole
      <4> QED BY <1>1, <3>1, <4>1, <4>3 DEF EInv, OffsetInv
    <3>2. WideMap' = WideMap
      BY <1>1, SameFormat
    <3> QED BY <1>1, <1>6, <1>10, <3>1, <3>2 DEF OffsetInv, BeforeLoop
  <2> QED BY <1>6, <1>7, <1>8, <2>1, <2>2, <2>3, <2>4 DEF EInv
<1> QED BY <1>1, <1>9, <1>10

LEMMA SendStep == EInv /\ Send => EInv'
<1> SUFFICES ASSUME EInv, Send PROVE EInv'
  OBVIOUS
<1>1. /\ pc = "send" /\ ret' \in socket_write(buffer.len)
      /\ \/ pc' = "audio_release"
         \/ pc' = "read" /\ sent' = buffer
      /\ UNCHANGED <<size, max_size, options, buffer, offset, fds, sockfd>>
      /\ UNCHANGED <<backend, fd, handle, device, fifo, stream, map_nb>>
  BY DEF Send, audioVars, backendVars
<1>2. DeviceInv' /\ FifoInv' /\ BufferInv'
  BY <1>1 DEF EInv, DeviceInv, HandleInv, FifoInv, BufferInv, InLoop
<1>3. TypeOK'
  <2>1. ret' \in Int
    BY <1>1 DEF socket_write, ENODEV, EInv
  <2> QED BY <1>1, <2>1 DEF EInv, Locations
<1>4. CASE pc' = "audio_release"
  BY <1>2, <1>3, <1>4, OutsideLoop DEF InLoop, BeforeLoop
<1>5. CASE pc' = "read" /\ sent' = buffer
  <2>1. HeaderInv'
    <3>1. PICK nbs \in Byte, nu \in Nat : buffer.hdr = Prepared(nbs, nu)
      BY <1>1 DEF EInv, HeaderInv, InLoop
    <3>2. (buffer.hdr = Prepared(nbs, nu))'
      BY <1>1, <3>1, SameFormat
    <3>3. \E a \in Byte, b \in Nat : (buffer.hdr = Prepared(a, b))'
      BY <3>2
    <3>4. (/\ FrameSize(audio_get_stream_config) > 0
           /\ max_size \in Nat /\ max_size <= VBAN_DATA_MAX_SIZE
           /\ max_size <= VBAN_SAMPLES_MAX_NB * FrameSize(audio_get_stream_config))'
      BY <1>1, SameFormat DEF EInv, HeaderInv, InLoop
    <3> QED BY <3>3, <3>4 DEF HeaderInv
  <2>2. PayloadInv'
    BY <1>5 DEF PayloadInv
  <2>3. SequenceInv'
    BY <1>1, <1>5 DEF SequenceInv, InSequence, BeforeLoop
  <2>4. OffsetInv'
    <3>1. WideMap' = WideMap
      BY <1>1, SameFormat
    <3> QED BY <1>1, <1>5, <3>1 DEF EInv, OffsetInv, BeforeLoop
  <2> QED BY <1>2, <1>3, <2>1, <2>2, <2>3, <2>4 DEF EInv
<1> QED BY <1>1, <1>4, <1>5

LEMMA AudioReleaseStep == EInv /\ AudioRelease => EInv'
<1> SUFFICES ASSUME EInv, AudioRelease PROVE EInv'
  OBVIOUS
<1>1. PICK r \in Returns : audio_release(r)
  BY DEF AudioRelease
<1>2. /\ pc' = "socket_release" /\ backend_close(r)
      /\ UNCHANGED <<ret, size, max_size, options, buffer, offset, sent, sockfd>>
      /\ UNCHANGED <<stream, map_nb>>
  BY <1>1 DEF AudioRelease, audio_release, mainVars
<1>3. BackendTypes' /\ HandleInv' /\ device' = NoStream /\ backend' = backend
  BY <1>2, CloseEffect, BackendTypesHold
<1>4. backend = "pipe" => fifo' = FALSE
  BY <1>2 DEF backend_close, pipe_close
<1>5. TypeOK'
  BY <1>2, <1>3, EmptyTypes DEF EInv, Locations, BackendTypes
<1>6. DeviceInv' /\ FifoInv' /\ BufferInv'
  BY <1>2, <1>3, <1>4 DEF EInv, DeviceInv, FifoInv, BufferInv, InLoop
<1> QED BY <1>2, <1>5, <1>6, OutsideLoop DEF InLoop, BeforeLoop

LEMMA SocketReleaseStep == EInv /\ SocketRelease => EInv'
<1> SUFFICES ASSUME EInv, SocketRelease PROVE EInv'
  OBVIOUS
<1>1. PICK r \in Returns : socket_close(r)
  BY DEF SocketRelease
<1>2. fds' \in [Fd -> FdKind] /\ sockfd' \in Fd
  BY <1>1, SocketCloseType, FdConstants DEF EInv
<1>3. /\ pc' = "exited"
      /\ UNCHANGED <<ret, size, max_size, options, buffer, offset, sent>>
      /\ UNCHANGED <<backend, fd, handle, device, fifo, stream, map_nb>>
  BY DEF SocketRelease, audioVars, backendVars, mainVars
<1>4. TypeOK'
  BY <1>2, <1>3 DEF EInv, Locations
<1>5. DeviceInv' /\ FifoInv' /\ BufferInv'
  BY <1>3 DEF EInv, DeviceInv, HandleInv, FifoInv, BufferInv, InLoop
<1> QED BY <1>3, <1>4, <1>5, OutsideLoop DEF InLoop, BeforeLoop

(* The ends that no release precedes: an overrun of the buffer, a signal. *)
LEMMA EndStep == EInv /\ (Overrun \/ Kill) => EInv'
<1> SUFFICES ASSUME EInv, Overrun \/ Kill PROVE EInv'
  OBVIOUS
<1>1. /\ pc' \in {"crashed", "killed"}
      /\ UNCHANGED <<ret, size, max_size, options, buffer, offset, sent, fds, sockfd>>
      /\ UNCHANGED <<backend, fd, handle, device, fifo, stream, map_nb>>
  BY DEF Overrun, Kill, mainVars, audioVars, backendVars
<1>2. TypeOK'
  BY <1>1 DEF EInv, Locations
<1>3. DeviceInv' /\ FifoInv' /\ BufferInv'
  BY <1>1 DEF EInv, DeviceInv, HandleInv, FifoInv, BufferInv, InLoop
<1> QED BY <1>1, <1>2, <1>3, OutsideLoop DEF InLoop, BeforeLoop

LEMMA RestartStep == EInv /\ Restart => EInv'
<1> SUFFICES ASSUME EInv, Restart PROVE EInv'
  OBVIOUS
<1>1. fds' \in [Fd -> FdKind]
  BY InheritedTypes DEF Restart
<1>2. /\ pc' = "socket_init" /\ ret' = 0 /\ size' = 0 /\ max_size' = 0 /\ offset' = 0
      /\ options' \in Streams /\ buffer' = NoPacket /\ sent' = NoPacket
      /\ sockfd' = 0 /\ fd' = 0 /\ handle' = FALSE /\ device' = NoStream /\ fifo' = fifo
      /\ backend' \in Backends /\ stream' = NoStream /\ map_nb' = 0
  BY DEF Restart, SocketRestart, AudioRestart, AudioBackendRestart
<1>3. BufferInv' /\ buffer'.len = 0
  BY <1>2, EmptyTypes DEF BufferInv
<1>4. TypeOK'
  <2>1. AudioTypeOK'
    BY <1>1, <1>2, EmptyTypes, FdConstants DEF EInv
  <2>2. /\ {ret', size', max_size', buffer'.len} \subseteq Int
        /\ offset' \in Nat /\ sockfd' \in Fd
    BY <1>2, <1>3, FdConstants
  <2>3. pc' \in Locations /\ options' \in Streams
    BY <1>2 DEF Locations
  <2> QED BY <2>1, <2>2, <2>3
<1>5. DeviceInv' /\ FifoInv'
  BY <1>2 DEF DeviceInv, HandleInv, FifoInv, InLoop
<1> QED BY <1>2, <1>3, <1>4, <1>5, OutsideLoop DEF InLoop

LEMMA StutterStep == EInv /\ UNCHANGED vars => EInv'
<1> SUFFICES ASSUME EInv, UNCHANGED vars PROVE EInv'
  OBVIOUS
<1>1. /\ UNCHANGED <<pc, ret, size, max_size, options, buffer, offset, sent, fds, sockfd>>
      /\ UNCHANGED <<backend, fd, handle, device, fifo, stream, map_nb>>
  BY DEF vars, mainVars, audioVars, backendVars
<1>2. TypeOK' /\ DeviceInv' /\ FifoInv' /\ BufferInv'
  BY <1>1 DEF EInv, DeviceInv, HandleInv, FifoInv, BufferInv
<1>3. HeaderInv'
  <2>1. ASSUME pc \in InLoop
        PROVE  (/\ \E nbs \in Byte, nu \in Nat : buffer.hdr = Prepared(nbs, nu)
                /\ FrameSize(audio_get_stream_config) > 0
                /\ max_size \in Nat /\ max_size <= VBAN_DATA_MAX_SIZE
                /\ max_size <= VBAN_SAMPLES_MAX_NB * FrameSize(audio_get_stream_config))'
    <3>1. PICK nbs \in Byte, nu \in Nat : buffer.hdr = Prepared(nbs, nu)
      BY <2>1 DEF EInv, HeaderInv
    <3>2. (buffer.hdr = Prepared(nbs, nu))'
      BY <1>1, <3>1, SameFormat
    <3>3. \E a \in Byte, b \in Nat : (buffer.hdr = Prepared(a, b))'
      BY <3>2
    <3> QED BY <1>1, <2>1, <3>3, SameFormat DEF EInv, HeaderInv
  <2> QED BY <1>1, <2>1 DEF HeaderInv, InLoop
<1>4. PayloadInv' /\ SequenceInv'
  BY <1>1, SameFormat DEF EInv, PayloadInv, SequenceInv, InSequence, BeforeLoop
<1>5. OffsetInv'
  <2>1. WideMap' = WideMap
    BY <1>1, SameFormat
  <2>2. ASSUME pc = "check", WideMap
        PROVE  (\E n \in Nat : size = AUDIO_MAP_OUTPUT_SIZE(n) /\ offset = n % FrameSize(stream))'
    <3>1. PICK n \in Nat : size = AUDIO_MAP_OUTPUT_SIZE(n) /\ offset = n % FrameSize(stream)
      BY <2>2 DEF EInv, OffsetInv
    <3>2. size' = AUDIO_MAP_OUTPUT_SIZE(n)' /\ offset' = n % FrameSize(stream)'
      BY <1>1, <3>1, SameFormat
    <3> QED BY <3>2
  <2> QED BY <1>1, <2>1, <2>2 DEF EInv, OffsetInv, BeforeLoop
<1> QED BY <1>2, <1>3, <1>4, <1>5 DEF EInv

LEMMA NextStep == EInv /\ [Next]_vars => EInv'
<1> SUFFICES ASSUME EInv, [Next]_vars PROVE EInv'
  OBVIOUS
<1>1. CASE Running
  BY <1>1, SocketInitStep, AudioInitStep, CloseFirstStep, OpenStep, HeaderStep, CheckStep,
     SendStep, AudioReleaseStep, SocketReleaseStep DEF Running
<1> QED
  BY <1>1, ConnectStep, ReadStep, EndStep, RestartStep, StutterStep DEF Next

-----------------------------------------------------------------------------
(* The theorems *)

(* Every reachable state satisfies the inductive invariant. *)
THEOREM EmitterInvariance == Spec => []EInv
<1>1. Init => EInv
  BY InitInv
<1>2. EInv /\ [Next]_vars => EInv'
  BY NextStep
<1> QED BY <1>1, <1>2, PTL DEF Spec

(* The variables of the emitter keep their types. *)
THEOREM EmitterTypeCorrect == Spec => []TypeOK
<1>1. EInv => TypeOK
  BY DEF EInv
<1> QED BY <1>1, EmitterInvariance, PTL

(* The packets of one run carry consecutive frame counters and consecutive  *)
(* reads, however many there are.                                           *)
THEOREM InSequenceHolds == Spec => []InSequence
<1>1. EInv => InSequence
  BY DEF EInv, SequenceInv
<1> QED BY <1>1, EmitterInvariance, PTL

(* Whatever part of a frame a read returns, every packet begins with the    *)
(* first channel of a frame.                                                *)
THEOREM FrameBoundaryHolds == Spec => []FrameBoundary
<1>1. EInv => FrameBoundary
  BY DEF EInv, OffsetInv, FrameBoundary
<1> QED BY <1>1, EmitterInvariance, PTL

(* No return of main, of those after the device was asked for, leaves the   *)
(* FIFO: audio_set_stream_config closed it before it opened it, a mkfifo    *)
(* that fails makes none, and audio_release removes it before the socket    *)
(* goes.                                                                    *)
THEOREM FifoRemovedHolds == Spec => FifoRemoved
<1> DEFINE Removed == pc \notin {"socket_init", "audio_init"} /\ pc' = "exited"
                        /\ backend = "pipe" => ~fifo'
<1>1. EInv /\ [Next]_vars => [Removed]_vars
  <2> SUFFICES ASSUME EInv, Next, pc \notin {"socket_init", "audio_init"}, pc' = "exited",
                      backend = "pipe"
               PROVE  ~fifo'
    OBVIOUS
  <2>1. CASE CloseFirst
    <3>1. PICK r \in Returns : backend_close(r)
      BY <2>1 DEF CloseFirst, audio_set_stream_config_close
    <3> QED BY <3>1 DEF backend_close, pipe_close
  <2>2. CASE Open
    <3>1. PICK r \in Returns : backend_open(stream, r) /\ r # 0
      BY <2>2 DEF Open, audio_capture_open
    <3>2. fifo' = fifo
      BY <3>1, FifoNotMade
    <3> QED BY <2>2, <3>2 DEF Open, EInv, FifoInv
  <2>3. CASE SocketRelease
    BY <2>3 DEF SocketRelease, audioVars, backendVars, EInv, FifoInv
  <2>4. CASE SocketInit \/ AudioInit
    BY <2>4 DEF SocketInit, AudioInit
  <2>5. CASE Connect \/ Header \/ Read \/ Overrun
    BY <2>5 DEF Connect, Header, Read, Overrun
  <2>6. CASE Check \/ Send \/ AudioRelease
    BY <2>6 DEF Check, Send, AudioRelease
  <2>7. CASE Kill \/ Restart
    BY <2>7 DEF Kill, Restart
  <2> QED BY <2>1, <2>2, <2>3, <2>4, <2>5, <2>6, <2>7 DEF Next, Running
<1> QED BY <1>1, EmitterInvariance, PTL DEF Spec, FifoRemoved

(* Whatever the stream and the map that does not narrow it, a read of the   *)
(* payload fits the buffer of audio_read, and that of the packet.           *)
THEOREM NoOverrunHolds == Spec => []NoOverrun
<1>1. EInv => NoOverrun
  <2> SUFFICES ASSUME EInv, pc = "read", WideMap, SameEncoding \/ backend # "alsa"
               PROVE  audio_read_filled(max_size) <= VBAN_DATA_MAX_SIZE
    BY DEF NoOverrun, audio_read_fits
  <2> DEFINE asked == audio_read_asked(max_size)
  <2>1. /\ TypeOK /\ stream = options /\ FrameSize(audio_get_stream_config) > 0
        /\ max_size \in Nat /\ max_size <= VBAN_DATA_MAX_SIZE
    BY DEF EInv, DeviceInv, HeaderInv, InLoop
  <2>2. handle => device = stream
    BY DEF EInv, DeviceInv, InLoop
  <2> HIDE DEF TypeOK, AudioTypeOK, AudioBackendTypeOK
  <2>3. asked \in Nat /\ asked <= max_size
    <3>1. map_nb \in 0 .. 256 /\ stream.nb_channels \in 1 .. 256
      BY <2>1, Formats
    <3>2. asked = IF map_nb = 0 THEN max_size
                  ELSE (max_size * stream.nb_channels) \div map_nb
      BY <2>1, Asked
    <3>3. CASE map_nb # 0
      <4> DEFINE nb == stream.nb_channels
      <4>1. map_nb \in Nat \ {0} /\ nb \in Nat \ {0} /\ map_nb >= nb
        BY <3>1, <3>3 DEF WideMap
      <4>2. asked = (max_size * nb) \div map_nb /\ asked \in Nat
        BY <2>1, <3>2, <3>3, Asked
      <4> HIDE DEF nb, asked
      <4>3. (max_size * nb) \div map_nb <= max_size
        BY <2>1, <4>1, QuotientBelow
      <4> QED BY <4>2, <4>3
    <3> QED BY <2>1, <3>2, <3>3
  <2> HIDE DEF asked
  <2>4. VBAN_DATA_MAX_SIZE \in Nat
    BY DEF VBAN_DATA_MAX_SIZE, VBAN_PROTOCOL_MAX_SIZE, VBAN_HEADER_SIZE
  <2>5. CASE backend = "alsa" /\ handle
    <3> DEFINE f == FrameSize(stream)
    <3>1. LibraryFormat(stream.bit_fmt) # "S24"
      BY <2>5 DEF SameEncoding, IsLibrary
    <3>2. device.nb_channels * AlsaSampleSize(device.bit_fmt) = f
      BY <2>2, <2>5, <3>1 DEF AlsaSampleSize, FrameSize
    <3>3. audio_read_filled(max_size) = (asked \div f) * f
      BY <2>2, <2>5, <3>2 DEF audio_read_filled, asked
    <3>4. f \in Nat \ {0}
      BY <2>1, FrameSizes
    <3> HIDE DEF f
    <3>5. (asked \div f) * f \in Int /\ (asked \div f) * f <= asked
      BY <2>3, <3>4, SMTT(30)
    <3> QED BY <2>1, <2>3, <2>4, <3>3, <3>5
  <2>6. CASE ~(backend = "alsa" /\ handle)
    BY <2>1, <2>3, <2>4, <2>6 DEF audio_read_filled, asked
  <2> QED BY <2>5, <2>6
<1> QED BY <1>1, EmitterInvariance, PTL

(* A payload of whole frames always makes a packet that packet_check        *)
(* accepts: main asks for no more than 256 samples and a datagram, and the  *)
(* byte of the header counts them exactly.                                  *)
THEOREM PreparedValidHolds == Spec => []PreparedValid
<1>1. EInv => PreparedValid
  <2> SUFFICES ASSUME EInv, pc = "check", size > 0,
                      size % FrameSize(audio_get_stream_config) = 0,
                      \E i \in DOMAIN VBanSRList : VBanSRList[i] = stream.sample_rate
               PROVE  /\ packet_check(StreamName, packet_set_new_content(buffer.hdr, size),
                                      buffer.len) = 0
                      /\ buffer.len <= VBAN_PROTOCOL_MAX_SIZE
    BY DEF PreparedValid
  <2> DEFINE f == FrameSize(audio_get_stream_config)
             j == size \div f
             s == VBanBitResolutionSize[stream.bit_fmt]
  <2>1. /\ TypeOK /\ stream = options /\ f > 0
        /\ size \in Nat /\ size <= max_size /\ max_size \in Nat
        /\ max_size <= VBAN_DATA_MAX_SIZE /\ max_size <= VBAN_SAMPLES_MAX_NB * f
        /\ buffer.len = VBAN_HEADER_SIZE + size
    BY DEF EInv, DeviceInv, HeaderInv, PayloadInv, InLoop
  <2>2. PICK nbs \in Byte, nu \in Nat : buffer.hdr = Prepared(nbs, nu)
    BY DEF EInv, HeaderInv, InLoop
  <2> HIDE DEF TypeOK, AudioTypeOK, AudioBackendTypeOK
  <2>3. /\ f \in Nat \ {0} /\ f = Channels * s /\ Channels \in Nat /\ s \in Nat
        /\ stream.sample_rate \in Nat
    BY <2>1, Formats, FrameSizes
  <2>4. PacketFrameSize(buffer.hdr) = f
    BY <2>1, <2>2, PreparedHeader
  <2>5. packet_set_new_content(buffer.hdr, size) = Prepared((j - 1) % 256, nu + 1)
    BY <2>1, <2>2, <2>4, PreparedNext
  <2> HIDE DEF f, s
  <2>6. size = j * f /\ j \in Nat
    BY <2>1, <2>3, SMTT(30) DEF f
  <2>7. j \in 1 .. 256
    <3> HIDE DEF j
    <3>1. j * f <= 256 * f /\ j * f > 0
      <4>1. VBAN_SAMPLES_MAX_NB * f = 256 * f
        BY DEF VBAN_SAMPLES_MAX_NB
      <4>2. 256 * f \in Nat
        BY <2>3, NatProducts
      <4> QED BY <2>1, <2>6, <4>1, <4>2
    <3>2. \A a, b \in Nat : \A c \in Nat \ {0} : a * c <= b * c => a <= b
      BY SMTT(30)
    <3>3. j <= 256
      BY <2>3, <2>6, <3>1, <3>2
    <3>4. j # 0
      BY <2>3, <3>1
    <3> QED BY <2>6, <3>3, <3>4
  <2> DEFINE y == (j - 1) % 256
  <2> HIDE DEF j
  <2>8. y = j - 1 /\ y \in Byte
    <3>1. (j - 1) % 256 = j - 1 /\ j - 1 \in 0 .. 255
      BY <2>7
    <3> QED BY <3>1 DEF Byte
  <2> HIDE DEF y
  <2>9. buffer.len - VBAN_HEADER_SIZE = (y + 1) * Channels * s
    <3>1. buffer.len - VBAN_HEADER_SIZE = size
      BY <2>1 DEF VBAN_HEADER_SIZE
    <3>2. y + 1 = j
      BY <2>7, <2>8
    <3>3. size = j * Channels * s
      BY <2>3, <2>6, NatProducts
    <3> QED BY <3>1, <3>2, <3>3
  <2>10. buffer.len \in Int /\ buffer.len > VBAN_HEADER_SIZE
    BY <2>1 DEF VBAN_HEADER_SIZE
  <2>11. vban_sr_from_value(stream.sample_rate) < VBAN_SR_MAXNUMBER
    BY <2>3, RateIndex
  <2>12. packet_check(StreamName, Prepared(y, nu + 1), buffer.len) = 0
    BY <2>1, <2>8, <2>9, <2>10, <2>11, PreparedCheck DEF s
  <2>13. buffer.len <= VBAN_PROTOCOL_MAX_SIZE
    BY <2>1 DEF VBAN_DATA_MAX_SIZE, VBAN_PROTOCOL_MAX_SIZE, VBAN_HEADER_SIZE
  <2> QED BY <2>5, <2>12, <2>13 DEF y
<1> QED BY <1>1, EmitterInvariance, PTL

LEMMA AnnouncedStep == EInv => Announced
<1> SUFFICES ASSUME EInv, pc = "send", SameEncoding
             PROVE  /\ packet_get_stream_config(buffer.hdr) = buffer.chunk.config
                    /\ buffer.len = VBAN_HEADER_SIZE
                         + NbSamples(buffer.hdr) * FrameSize(buffer.chunk.config)
  BY DEF Announced
<1> DEFINE s  == VBanBitResolutionSize[stream.bit_fmt]
           sr == vban_sr_from_value(stream.sample_rate)
<1>1. /\ TypeOK /\ stream = options /\ FrameSize(audio_get_stream_config) > 0
      /\ size \in Nat /\ buffer.len = VBAN_HEADER_SIZE + size
      /\ buffer.chunk.config = mapped_config
      /\ packet_check(StreamName, buffer.hdr, buffer.len) = 0
  BY DEF EInv, DeviceInv, HeaderInv, PayloadInv, InLoop
<1>2. PICK nbs \in Byte, nu \in Nat : buffer.hdr = Prepared(nbs, nu)
  BY DEF EInv, HeaderInv, InLoop
<1>3. stream = [nb_channels |-> stream.nb_channels, sample_rate |-> stream.sample_rate,
                bit_fmt |-> stream.bit_fmt]
  BY <1>1 DEF StreamConfig
<1> HIDE DEF TypeOK, AudioTypeOK, AudioBackendTypeOK
<1>4. mapped_config = [nb_channels |-> Channels, sample_rate |-> stream.sample_rate,
                       bit_fmt |-> stream.bit_fmt]
  <2> DEFINE g == mapped_config
  <2>1. g = [stream EXCEPT !.nb_channels = Channels, !.bit_fmt = stream.bit_fmt]
    BY DEF mapped_config, Channels
  <2> HIDE DEF g
  <2>2. /\ g = [nb_channels |-> g.nb_channels, sample_rate |-> g.sample_rate,
                bit_fmt |-> g.bit_fmt]
        /\ g.nb_channels = Channels /\ g.sample_rate = stream.sample_rate
        /\ g.bit_fmt = stream.bit_fmt
    BY <1>3, <2>1
  <2>3. g = [nb_channels |-> Channels, sample_rate |-> stream.sample_rate,
             bit_fmt |-> stream.bit_fmt]
    BY <2>2
  <2> QED BY <2>3 DEF g
<1>5. /\ NbChannels(buffer.hdr) = Channels /\ BitResolution(buffer.hdr.format_bit)
                                                = stream.bit_fmt
      /\ buffer.hdr.format_SR = sr /\ buffer.hdr.format_nbs = nbs
  BY <1>1, <1>2, PreparedHeader, PreparedRecord
<1>6. buffer.len \in Int
  BY <1>1 DEF VBAN_HEADER_SIZE
<1>7. sr < VBAN_SR_MAXNUMBER /\ buffer.len - VBAN_HEADER_SIZE = (nbs + 1) * Channels * s
  BY <1>1, <1>2, <1>6, PreparedCheck
<1>8. /\ stream.sample_rate \in Nat /\ Channels \in Nat /\ s \in Nat /\ nbs + 1 \in Nat
  BY <1>1, Formats DEF Byte
<1>9. sr \in 0 .. 20 /\ VBanSRList[sr] = stream.sample_rate
  BY <1>7, <1>8, RateIndex DEF VBAN_SR_MAXNUMBER
<1>10. VBanSRList[SampleRateIndex(buffer.hdr.format_SR)] = stream.sample_rate
  <2> HIDE DEF sr
  <2>1. sr % 32 = sr
    BY <1>9
  <2> QED BY <1>5, <1>9, <2>1 DEF SampleRateIndex
<1>11. packet_get_stream_config(buffer.hdr) = mapped_config
  BY <1>4, <1>5, <1>10 DEF packet_get_stream_config
<1>12. buffer.len = VBAN_HEADER_SIZE + NbSamples(buffer.hdr) * FrameSize(mapped_config)
  <2>1. NbSamples(buffer.hdr) = nbs + 1 /\ FrameSize(mapped_config) = Channels * s
    BY <1>4, <1>5 DEF NbSamples, FrameSize
  <2> HIDE DEF s
  <2>2. buffer.len - VBAN_HEADER_SIZE = (nbs + 1) * (Channels * s)
    BY <1>7, <1>8, NatProducts
  <2>3. buffer.len - VBAN_HEADER_SIZE = size
    BY <1>1 DEF VBAN_HEADER_SIZE
  <2> QED BY <1>1, <2>1, <2>2, <2>3
<1> QED BY <1>1, <1>11, <1>12

(* What a packet announces is the format of what is in it, and of all of    *)
(* it: a rate, a width or a number of channels that has no place in the     *)
(* header is refused by packet_check before it is sent.                     *)
THEOREM AnnouncedHolds == Spec => []Announced
BY AnnouncedStep, EmitterInvariance, PTL

-----------------------------------------------------------------------------
(* What the network sees of a step *)

(* What is about to be sent is a datagram that packet_check accepts. *)
LEMMA SentAccepted ==
  ASSUME EInv, pc = "send"
  PROVE  /\ packet_check(StreamName, buffer.hdr, buffer.len) = 0
         /\ buffer.len \in Nat /\ buffer.len <= VBAN_PROTOCOL_MAX_SIZE
<1>1. /\ size \in Nat /\ size <= max_size /\ max_size \in Nat
      /\ max_size <= VBAN_DATA_MAX_SIZE /\ buffer.len = VBAN_HEADER_SIZE + size
      /\ packet_check(StreamName, buffer.hdr, buffer.len) = 0
  BY DEF EInv, HeaderInv, PayloadInv, InLoop
<1> QED BY <1>1 DEF VBAN_DATA_MAX_SIZE, VBAN_PROTOCOL_MAX_SIZE, VBAN_HEADER_SIZE

(* What is read is audio of some channels. *)
LEMMA ChunkFormat ==
  ASSUME EInv, pc \in {"check", "send"}
  PROVE  buffer.chunk.config.nb_channels # 0
<1>1. TypeOK /\ stream = options /\ buffer.chunk.config = mapped_config
  BY DEF EInv, DeviceInv, PayloadInv, InLoop
<1>2. stream \in [nb_channels : 1 .. 256, sample_rate : Nat, bit_fmt : 0 .. 7]
  BY <1>1, EmitterAssumption DEF TypeOK, VBAN_CHANNELS_MAX_NB, VBAN_BIT_RESOLUTION_MAX
<1>3. mapped_config.nb_channels = Channels
  BY <1>2 DEF mapped_config, Channels
<1>4. Channels \in 1 .. 256
  BY <1>1, Formats
<1> QED BY <1>1, <1>3, <1>4

(* A packet is checked after a read and sent after its check, and is only   *)
(* changed in between by what packet_set_new_content adds to its header.    *)
LEMMA LoopSteps ==
  ASSUME EInv, Next
  PROVE  /\ pc' = "check" => pc = "read"
         /\ pc' = "send" => pc = "check" /\ buffer'.chunk = buffer.chunk
         /\ pc = "send" /\ pc' = "read" => buffer' = buffer
<1>1. CASE SocketInit \/ AudioInit \/ CloseFirst \/ Open \/ Connect
  BY <1>1 DEF SocketInit, AudioInit, CloseFirst, Open, Connect
<1>2. CASE Header \/ Read \/ Overrun
  BY <1>2 DEF Header, Read, Overrun
<1>3. CASE Check
  <2>1. /\ buffer' = [buffer EXCEPT !.hdr = packet_set_new_content(buffer.hdr, size)]
        /\ pc = "check" /\ pc' \in {"audio_release", "send"}
    BY <1>3 DEF Check
  <2>2. buffer'.chunk = buffer.chunk
    BY <2>1 DEF EInv, BufferInv
  <2> QED BY <2>1, <2>2
<1>4. CASE Send
  BY <1>4 DEF Send
<1>5. CASE AudioRelease \/ SocketRelease \/ Kill \/ Restart
  BY <1>5 DEF AudioRelease, SocketRelease, Kill, Restart
<1> QED BY <1>1, <1>2, <1>3, <1>4, <1>5 DEF Next, Running
=============================================================================
