----------------------------- MODULE LinkProofs -----------------------------
(***************************************************************************)
(* Proofs about Link, for every set of options, backends and maps on both  *)
(* ends, and any network: a receptor accepts the packets of the emitter    *)
(* and no text, and plays what was captured in the format it was captured  *)
(* in.  They rest on the inductive invariants of Emitter and of Receptor,  *)
(* as EmitterProofs and ReceptorProofs have proved them of each alone.     *)
(***************************************************************************)
EXTENDS Link, TLAPS

-----------------------------------------------------------------------------
(* The inductive invariant *)

Check(d) == packet_check(StreamName, d.hdr, R!socket_read_size(d))

AudioDatagram(d) == Check(d) = 0 /\ d.chunk \in captured
TextDatagram(d)  == Check(d) # 0 /\ d.chunk.config = NoStream

(* What is captured is audio of some channels, so no text is captured. *)
CapturedInv == \A chunk \in captured : chunk.config.nb_channels # 0

NetworkInv == \A d \in network : AudioDatagram(d) \/ TextDatagram(d)

(* What the emitter has read and not yet sent is captured. *)
SenderInv == e_pc \in {"check", "send"} => e_buffer.chunk \in captured

(* The buffer of sendtext is a datagram with a text in it. *)
TextInv ==
  /\ t_text \in Texts
  /\ t_buffer = [ip |-> t_buffer.ip, len |-> t_buffer.len, hdr |-> t_buffer.hdr,
                 chunk |-> t_buffer.chunk]
  /\ t_buffer.chunk.config = NoStream

(* What the receptor has received was sent. *)
QueueInv ==
  /\ \A i \in DOMAIN r_rcvq : r_rcvq[i] \in network
  /\ R!Serving => r_buffer \in network

LInv ==
  /\ E!EInv /\ R!IInv
  /\ CapturedInv /\ NetworkInv /\ SenderInv /\ TextInv /\ QueueInv

(* The libraries of the emitter's backends mean by a format what the       *)
(* protocol means by it: not so 24 bits with ALSA, 8 with PulseAudio.      *)
EncodingsAgree ==
  \A config \in Streams :
    /\ "alsa" \in EmitterBackends => config.bit_fmt # 2
    /\ "pulseaudio" \in EmitterBackends => config.bit_fmt # 0

(* Then what is accepted is announced as what it is. *)
FormatsInv ==
  \A d \in network : Check(d) = 0 => packet_get_stream_config(d.hdr) = d.chunk.config

-----------------------------------------------------------------------------
(* The assumptions of the two processes, and the operators they share *)

LEMMA EmitterAssumptions ==
  E!EmitterAssumption /\ E!MaxFdAssumption /\ E!BackendAssumption /\ E!MapAssumption
BY LinkAssumption
   DEF E!EmitterAssumption, E!MaxFdAssumption, E!BackendAssumption, E!MapAssumption,
       E!VBAN_CHANNELS_MAX_NB, VBAN_CHANNELS_MAX_NB, E!VBAN_BIT_RESOLUTION_MAX,
       VBAN_BIT_RESOLUTION_MAX

LEMMA ReceptorAssumptions ==
  /\ R!MaxFdAssumption /\ R!BackendAssumption /\ R!MapAssumption
  /\ R!SocketAssumption /\ R!ReceptorAssumption
BY LinkAssumption
   DEF R!MaxFdAssumption, R!BackendAssumption, R!MapAssumption, R!SocketAssumption,
       R!ReceptorAssumption, R!VBAN_CHANNELS_MAX_NB, VBAN_CHANNELS_MAX_NB, R!IsHeader,
       IsHeader, R!Byte, Byte

(* Each module reads headers with a copy of Packet of its own; they are the *)
(* same.                                                                    *)
LEMMA EmitterPacket ==
  /\ \A name, hdr, n : E!packet_check(name, hdr, n) = packet_check(name, hdr, n)
  /\ \A hdr : E!packet_get_stream_config(hdr) = packet_get_stream_config(hdr)
  /\ E!VBAN_PROTOCOL_MAX_SIZE = R!VBAN_PROTOCOL_MAX_SIZE
BY DEF E!packet_check, packet_check, E!packet_pcm_check, packet_pcm_check,
   E!packet_get_stream_config, packet_get_stream_config, E!VBanSRList, VBanSRList,
   E!VBanBitResolutionSize, VBanBitResolutionSize, E!VBAN_BIT_RESOLUTION_MAX,
   VBAN_BIT_RESOLUTION_MAX, E!VBAN_SR_MAXNUMBER, VBAN_SR_MAXNUMBER, E!NbSamples, NbSamples,
   E!NbChannels, NbChannels, E!SampleRateIndex, SampleRateIndex, E!Protocol, Protocol,
   E!BitResolution, BitResolution, E!ReservedBit, ReservedBit, E!Codec, Codec,
   E!VBAN_HEADER_SIZE, VBAN_HEADER_SIZE, E!VBAN_PROTOCOL_AUDIO, VBAN_PROTOCOL_AUDIO,
   E!VBAN_CODEC_PCM, VBAN_CODEC_PCM, E!EINVAL, EINVAL, E!VBAN_PROTOCOL_MAX_SIZE,
   R!VBAN_PROTOCOL_MAX_SIZE

LEMMA ReceptorPacket ==
  /\ \A name, hdr, n : R!packet_check(name, hdr, n) = packet_check(name, hdr, n)
  /\ \A hdr : R!packet_get_stream_config(hdr) = packet_get_stream_config(hdr)
BY DEF R!packet_check, packet_check, R!packet_pcm_check, packet_pcm_check,
   R!packet_get_stream_config, packet_get_stream_config, R!VBanSRList, VBanSRList,
   R!VBanBitResolutionSize, VBanBitResolutionSize, R!VBAN_BIT_RESOLUTION_MAX,
   VBAN_BIT_RESOLUTION_MAX, R!VBAN_SR_MAXNUMBER, VBAN_SR_MAXNUMBER, R!NbSamples, NbSamples,
   R!NbChannels, NbChannels, R!SampleRateIndex, SampleRateIndex, R!Protocol, Protocol,
   R!BitResolution, BitResolution, R!ReservedBit, ReservedBit, R!Codec, Codec,
   R!VBAN_HEADER_SIZE, VBAN_HEADER_SIZE, R!VBAN_PROTOCOL_AUDIO, VBAN_PROTOCOL_AUDIO,
   R!VBAN_CODEC_PCM, VBAN_CODEC_PCM, R!EINVAL, EINVAL

(* A text of whatever bits, identity and format is no audio packet: its     *)
(* protocol, which packet_check compares, is in the byte of the rate.       *)
LEMMA TextRefused ==
  ASSUME t_text \in Texts, NEW n
  PROVE  packet_check(StreamName, T!TextHeader, n) # 0
<1> DEFINE byte == T!WithProtocolTxt(t_text.bps)
<1>1. T!TextHeader.format_SR = byte
  BY DEF T!TextHeader
<1>2. byte \in Nat /\ byte \div 32 # 0
  <2> DEFINE low == t_text.bps % 256
  <2>1. t_text.bps \in Int
    BY LinkAssumption
  <2>2. low \in 0 .. 255
    BY <2>1
  <2>3. byte = IF (low \div 64) % 2 = 1 THEN low ELSE low + 64
    BY DEF T!WithProtocolTxt, T!VBAN_PROTOCOL_TXT
  <2> HIDE DEF low, byte
  <2> QED BY <2>2, <2>3
<1> HIDE DEF byte
<1>3. Protocol(T!TextHeader.format_SR) # VBAN_PROTOCOL_AUDIO
  BY <1>1, <1>2 DEF Protocol, VBAN_PROTOCOL_AUDIO
<1> QED BY <1>3 DEF packet_check, EINVAL

-----------------------------------------------------------------------------
(* Each process keeps its own invariant *)

LEMMA EmitterKept ==
  /\ E!Init => E!EInv
  /\ E!EInv /\ (E!Next \/ UNCHANGED emitterVars) => E!EInv'
<1>1. E!Init => E!EInv
  BY EmitterAssumptions, E!InitInv
<1>2. E!EInv /\ [E!Next]_(E!vars) => E!EInv'
  BY EmitterAssumptions, E!NextStep
<1>3. UNCHANGED emitterVars => UNCHANGED E!vars
  BY DEF emitterVars, E!vars, E!mainVars, E!audioVars, E!backendVars
<1> QED BY <1>1, <1>2, <1>3

LEMMA ReceptorKept ==
  /\ R!Init => R!IInv
  /\ R!IInv /\ (R!Next \/ UNCHANGED receptorVars) => R!IInv'
<1>1. R!Init => R!IInv
  BY ReceptorAssumptions, R!InitInv
<1>2. R!IInv /\ [R!Next]_(R!vars) => R!IInv'
  BY ReceptorAssumptions, R!NextStep
<1>3. UNCHANGED receptorVars => UNCHANGED R!vars
  BY DEF receptorVars, audioVars, R!vars, R!audioVars, R!backendVars, R!socketVars
<1> QED BY <1>1, <1>2, <1>3

(* The queue of a receptor that reads nothing and the buffer of what it     *)
(* serves are as they were.                                                 *)
LEMMA QueueKept ==
  ASSUME QueueInv, network \subseteq network', UNCHANGED receptorVars
  PROVE  QueueInv'
<1>1. R!Serving' = R!Serving
  BY DEF R!Serving, receptorVars
<1> QED BY <1>1 DEF QueueInv, receptorVars

LEMMA TextKept ==
  ASSUME TextInv, T!Next \/ UNCHANGED textVars
  PROVE  TextInv'
<1>1. CASE UNCHANGED textVars \/ T!Message \/ T!SocketInit \/ T!SocketRelease
  BY <1>1 DEF TextInv, textVars, T!Message, T!SocketInit, T!SocketRelease
<1>2. CASE T!Write
  <2>1. t_buffer' = [t_buffer EXCEPT !.hdr = T!TextHeader,
                                     !.len = t_text.len + T!VBAN_HEADER_SIZE]
    BY <1>2 DEF T!Write
  <2> DEFINE hdr == T!TextHeader
             len == t_text.len + T!VBAN_HEADER_SIZE
  <2> HIDE DEF hdr, len
  <2>2. t_buffer' = [ip |-> t_buffer.ip, len |-> len, hdr |-> hdr, chunk |-> t_buffer.chunk]
    BY <2>1 DEF TextInv, hdr, len
  <2> QED BY <1>2, <2>2 DEF TextInv, T!Write
<1>3. CASE T!Restart
  <2>1. t_buffer' = [T!Unsent EXCEPT !.chunk.bytes = t_text'.len] /\ t_text' \in Texts
    BY <1>3 DEF T!Restart
  <2> DEFINE chunk == [T!Unsent.chunk EXCEPT !.bytes = t_text'.len]
  <2>2. t_buffer' = [ip |-> Address, len |-> 0, hdr |-> [nuFrame |-> 0], chunk |-> chunk]
    BY <2>1 DEF T!Unsent
  <2>3. chunk.config = NoStream
    BY DEF T!Unsent, T!TextChunk, T!NoStream, NoStream
  <2> QED BY <2>1, <2>2, <2>3 DEF TextInv
<1> QED BY <1>1, <1>2, <1>3 DEF T!Next

-----------------------------------------------------------------------------
(* Initial states, and one lemma per process *)

LEMMA InitLInv == Init => LInv /\ FormatsInv
<1> SUFFICES ASSUME Init PROVE LInv /\ FormatsInv
  OBVIOUS
<1>1. E!EInv /\ R!IInv
  BY EmitterKept, ReceptorKept DEF Init
<1>2. CapturedInv /\ NetworkInv /\ FormatsInv
  BY DEF Init, CapturedInv, NetworkInv, FormatsInv
<1>3. SenderInv
  BY DEF Init, E!Init, SenderInv
<1>4. TextInv
  BY DEF Init, T!Init, TextInv, T!Unsent, T!TextChunk, T!NoStream, NoStream
<1>5. QueueInv
  BY DEF Init, R!Init, QueueInv, R!Serving
<1> QED BY <1>1, <1>2, <1>3, <1>4, <1>5 DEF LInv

(* What the emitter gives to the network passed its own packet_check, fits  *)
(* a datagram, and is a chunk it captured.                                  *)
LEMMA SentAudio ==
  ASSUME LInv, e_pc = "send"
  PROVE  AudioDatagram(e_buffer)
<1>1. /\ E!packet_check(StreamName, e_buffer.hdr, e_buffer.len) = 0
      /\ e_buffer.len \in Nat /\ e_buffer.len <= E!VBAN_PROTOCOL_MAX_SIZE
  BY EmitterAssumptions, E!SentAccepted DEF LInv
<1>2. R!socket_read_size(e_buffer) = e_buffer.len
  BY <1>1, EmitterPacket DEF R!socket_read_size, R!VBAN_PROTOCOL_MAX_SIZE
<1>3. Check(e_buffer) = 0
  BY <1>1, <1>2, EmitterPacket DEF Check
<1> QED BY <1>3 DEF AudioDatagram, LInv, SenderInv

(* What the emitter reads next is audio of some channels. *)
ReadsAudio == e_pc = "check" => e_buffer.chunk.config.nb_channels # 0

LEMMA ReadFormat == E!EInv' => ReadsAudio'
<1>1. E!EInv => ReadsAudio
  BY EmitterAssumptions, E!ChunkFormat DEF ReadsAudio
<1> QED BY <1>1, PTL

LEMMA EmitterStepKeeps == LInv /\ EmitterStep => LInv'
<1> SUFFICES ASSUME LInv, EmitterStep PROVE LInv'
  OBVIOUS
<1>1. /\ e_pc' = "check" => e_pc = "read"
      /\ e_pc' = "send" => e_pc = "check" /\ e_buffer'.chunk = e_buffer.chunk
      /\ e_pc = "send" /\ e_pc' = "read" => e_buffer' = e_buffer
  BY EmitterAssumptions, E!LoopSteps DEF LInv, EmitterStep
<1>2. E!EInv' /\ R!IInv' /\ TextInv'
  BY EmitterKept, ReceptorKept, TextKept DEF LInv, EmitterStep
<1>3. network \subseteq network' /\ captured \subseteq captured'
  BY DEF EmitterStep
<1>4. \A chunk \in captured' : chunk \in captured \/ (e_pc' = "check" /\ chunk = e_buffer'.chunk)
  BY DEF EmitterStep
<1>5. e_pc' = "check" => e_buffer'.chunk.config.nb_channels # 0
  BY <1>2, ReadFormat DEF ReadsAudio
<1>6. CapturedInv'
  BY <1>4, <1>5 DEF CapturedInv, LInv
<1>7. SenderInv'
  BY <1>1, <1>3 DEF SenderInv, LInv, EmitterStep
<1>8. \A d \in network' : d \in network \/ (e_pc = "send" /\ d = e_buffer)
  BY <1>1 DEF EmitterStep
<1>9. NetworkInv'
  <2> SUFFICES ASSUME NEW d \in network' PROVE (AudioDatagram(d) \/ TextDatagram(d))'
    BY DEF NetworkInv
  <2>1. AudioDatagram(d) \/ TextDatagram(d)
    BY <1>8, SentAudio DEF LInv, NetworkInv
  <2> QED BY <2>1, <1>3 DEF AudioDatagram, TextDatagram, Check
<1>10. QueueInv'
  BY <1>3, QueueKept DEF LInv, EmitterStep
<1> QED BY <1>2, <1>6, <1>7, <1>9, <1>10 DEF LInv

LEMMA TextStepKeeps == LInv /\ TextStep => LInv'
<1> SUFFICES ASSUME LInv, TextStep PROVE LInv'
  OBVIOUS
<1>1. E!EInv' /\ R!IInv' /\ TextInv'
  BY EmitterKept, ReceptorKept, TextKept DEF LInv, TextStep
<1>2. network \subseteq network' /\ captured' = captured
  BY DEF TextStep
<1>3. CapturedInv' /\ SenderInv'
  BY <1>2 DEF LInv, CapturedInv, SenderInv, TextStep, emitterVars
<1>4. ASSUME NEW d \in network', d \notin network PROVE TextDatagram(d)
  <2>1. t_pc = "write" /\ d = t_buffer'
    BY <1>4 DEF TextStep
  <2>2. T!Write
    BY <2>1 DEF TextStep, T!Next, T!Message, T!SocketInit, T!SocketRelease, T!Restart
  <2>3. d.hdr = T!TextHeader
    <3>1. t_buffer' = [t_buffer EXCEPT !.hdr = T!TextHeader,
                                       !.len = t_text.len + T!VBAN_HEADER_SIZE]
      BY <2>2 DEF T!Write
    <3> DEFINE hdr == T!TextHeader
    <3> HIDE DEF hdr
    <3>2. t_buffer'.hdr = hdr
      BY <3>1 DEF hdr, LInv, TextInv
    <3> QED BY <2>1, <3>2 DEF hdr
  <2>4. t_text \in Texts
    BY DEF LInv, TextInv
  <2>5. Check(d) # 0
    BY <2>3, <2>4, TextRefused DEF Check
  <2>6. d.chunk.config = NoStream
    BY <1>1, <2>1 DEF TextInv
  <2> QED BY <2>5, <2>6 DEF TextDatagram
<1>5. NetworkInv'
  <2> SUFFICES ASSUME NEW d \in network' PROVE (AudioDatagram(d) \/ TextDatagram(d))'
    BY DEF NetworkInv
  <2>1. AudioDatagram(d) \/ TextDatagram(d)
    BY <1>4 DEF LInv, NetworkInv
  <2> QED BY <2>1, <1>2 DEF AudioDatagram, TextDatagram, Check
<1>6. QueueInv'
  BY <1>2, QueueKept DEF LInv, TextStep
<1> QED BY <1>1, <1>3, <1>5, <1>6 DEF LInv

LEMMA ReceptorStepKeeps == LInv /\ ReceptorStep => LInv'
<1> SUFFICES ASSUME LInv, ReceptorStep PROVE LInv'
  OBVIOUS
<1>1. E!EInv' /\ R!IInv' /\ TextInv'
  BY EmitterKept, ReceptorKept, TextKept DEF LInv, ReceptorStep
<1>2. network' = network /\ captured' = captured
  BY DEF ReceptorStep
<1>3. CapturedInv' /\ SenderInv'
  BY <1>2 DEF LInv, CapturedInv, SenderInv, ReceptorStep, emitterVars
<1>4. NetworkInv'
  BY <1>2 DEF LInv, NetworkInv, AudioDatagram, TextDatagram, Check
<1>5. /\ \/ r_rcvq' = r_rcvq \/ r_rcvq' = <<>>
         \/ r_rcvq # <<>> /\ r_rcvq' = Tail(r_rcvq)
         \/ \E d \in Packets : r_rcvq' = Append(r_rcvq, d)
      /\ R!Serving' => \/ R!Serving /\ r_buffer' = r_buffer
                       \/ r_rcvq # <<>> /\ r_buffer' = Head(r_rcvq)
  BY ReceptorAssumptions, R!QueueSteps DEF LInv, ReceptorStep
<1>6. r_rcvq \in Seq(Packets)
  BY DEF LInv, R!IInv, R!TypeInv, R!TypeOK, R!SocketTypeOK
<1>7. \A i \in DOMAIN r_rcvq : r_rcvq[i] \in network
  BY DEF LInv, QueueInv
<1>8. \A i \in DOMAIN r_rcvq' : r_rcvq'[i] \in network
  <2>1. CASE r_rcvq' = r_rcvq \/ r_rcvq' = <<>>
    BY <1>7, <2>1
  <2>2. CASE r_rcvq # <<>> /\ r_rcvq' = Tail(r_rcvq)
    BY <1>6, <1>7, <2>2
  <2>3. ASSUME NEW d \in Packets, r_rcvq' = Append(r_rcvq, d)
        PROVE  \A i \in DOMAIN r_rcvq' : r_rcvq'[i] \in network
    <3>1. r_rcvq'[Len(r_rcvq')] \in network
      BY <1>6, <2>3 DEF ReceptorStep
    <3> QED BY <1>6, <1>7, <2>3, <3>1
  <2> QED BY <1>5, <2>1, <2>2, <2>3
<1>9. R!Serving' => r_buffer' \in network
  <2>1. r_rcvq # <<>> => Head(r_rcvq) \in network
    BY <1>6, <1>7
  <2> QED BY <1>5, <2>1 DEF LInv, QueueInv
<1>10. QueueInv'
  BY <1>2, <1>8, <1>9 DEF QueueInv
<1> QED BY <1>1, <1>3, <1>4, <1>10 DEF LInv

-----------------------------------------------------------------------------
(* The formats of what is accepted *)

(* While packets are read and sent the format is one of the options, with   *)
(* the backend of a process that is past audio_init.                        *)
LEMMA SameEncodingInLoop ==
  ASSUME EncodingsAgree, E!EInv, e_pc = "send"
  PROVE  E!SameEncoding
<1>1. e_stream \in Streams /\ e_backend \in EmitterBackends
  BY DEF E!EInv, E!DeviceInv, E!InLoop, E!TypeOK, E!AudioTypeOK, E!AudioBackendTypeOK
<1>2. e_stream.bit_fmt \in 0 .. 7
  BY <1>1, LinkAssumption DEF VBAN_BIT_RESOLUTION_MAX
<1>3. CASE e_backend = "alsa"
  BY <1>1, <1>2, <1>3
     DEF EncodingsAgree, E!SameEncoding, E!LibraryFormat, E!vban_to_alsa_format
<1>4. CASE e_backend = "pulseaudio"
  BY <1>1, <1>2, <1>4
     DEF EncodingsAgree, E!SameEncoding, E!LibraryFormat, E!vban_to_pulseaudio_format
<1>5. CASE e_backend \notin {"alsa", "pulseaudio"}
  BY <1>5 DEF E!SameEncoding, E!IsLibrary
<1> QED BY <1>3, <1>4, <1>5

(* What the emitter sends announces the format of its chunk, and no text is *)
(* accepted.                                                                *)
LEMMA FormatsKept ==
  ASSUME EncodingsAgree, LInv, FormatsInv, [Next]_vars
  PROVE  FormatsInv'
<1> SUFFICES ASSUME NEW d \in network', Check(d) = 0
             PROVE  packet_get_stream_config(d.hdr) = d.chunk.config
  BY DEF FormatsInv, Check
<1>1. CASE d \in network
  BY <1>1 DEF FormatsInv
<1>2. CASE d \notin network
  <2>1. CASE EmitterStep
    <3>1. e_pc = "send" /\ d = e_buffer
      BY <1>2, <2>1, EmitterAssumptions, E!LoopSteps DEF EmitterStep, LInv
    <3>2. E!Announced /\ E!SameEncoding
      BY <3>1, EmitterAssumptions, E!AnnouncedStep, SameEncodingInLoop DEF LInv
    <3> QED BY <3>1, <3>2, EmitterPacket DEF E!Announced
  <2>2. CASE TextStep
    <3>1. LInv' /\ captured' = captured /\ t_pc = "write" /\ d = t_buffer'
      BY <1>2, <2>2, TextStepKeeps DEF TextStep
    <3>2. d.chunk.config = NoStream
      BY <3>1 DEF LInv, TextInv
    <3>3. (AudioDatagram(d) \/ TextDatagram(d))'
      BY <3>1 DEF LInv, NetworkInv
    <3>4. d.chunk \in captured
      BY <3>1, <3>3 DEF AudioDatagram, TextDatagram, Check
    <3> QED BY <3>2, <3>4 DEF LInv, CapturedInv, NoStream
  <2>3. CASE ReceptorStep \/ UNCHANGED vars
    BY <1>2, <2>3 DEF ReceptorStep, vars
  <2> QED BY <2>1, <2>2, <2>3 DEF Next
<1> QED BY <1>1, <1>2

-----------------------------------------------------------------------------
(* The theorems *)

LEMMA LinkStep == LInv /\ [Next]_vars => LInv'
<1>1. LInv /\ UNCHANGED vars => LInv'
  <2> SUFFICES ASSUME LInv, UNCHANGED vars PROVE LInv'
    OBVIOUS
  <2>1. /\ UNCHANGED emitterVars /\ UNCHANGED receptorVars /\ UNCHANGED textVars
        /\ network' = network /\ captured' = captured
    BY DEF vars
  <2>2. E!EInv' /\ R!IInv' /\ TextInv' /\ QueueInv'
    BY <2>1, EmitterKept, ReceptorKept, TextKept, QueueKept DEF LInv
  <2>3. CapturedInv' /\ SenderInv' /\ NetworkInv'
    BY <2>1 DEF LInv, CapturedInv, SenderInv, emitterVars, NetworkInv, AudioDatagram,
       TextDatagram, Check
  <2> QED BY <2>2, <2>3 DEF LInv
<1> QED BY <1>1, EmitterStepKeeps, TextStepKeeps, ReceptorStepKeeps DEF Next

(* Every reachable state of the whole satisfies the inductive invariant,    *)
(* whatever the network loses, repeats or delays.                           *)
THEOREM LinkInvariance == Spec => []LInv
BY InitLInv, LinkStep, PTL DEF Spec

(* A receptor accepts every packet an emitter of its stream sent, and no    *)
(* text: for every option of sendtext, whatever its bytes would say as a    *)
(* rate, a number of channels or a format.                                  *)
THEOREM OnlyAudioAcceptedHolds == Spec => []OnlyAudioAccepted
<1>1. LInv => OnlyAudioAccepted
  BY DEF LInv, NetworkInv, CapturedInv, AudioDatagram, TextDatagram, Check, NoStream,
     OnlyAudioAccepted
<1> QED BY <1>1, LinkInvariance, PTL

(* The refinement mapping, step by step.  Initial states: nothing captured, *)
(* no map, and silence.                                                     *)
LEMMA InitPlayout == Init => P!Init
BY DEF Init, R!Init, R!AudioInitial, playing, P!Init, P!Silence, P!NoStream, NoStream

(* The emitter and sendtext leave the receptor's device alone. *)
LEMMA SenderPlayout ==
  ASSUME EmitterStep \/ TextStep \/ UNCHANGED vars
  PROVE  P!Capture \/ UNCHANGED <<captured, r_map_nb, playing>>
<1>1. UNCHANGED receptorVars
  BY DEF EmitterStep, TextStep, vars
<1>2. r_map_nb' = r_map_nb /\ playing' = playing
  BY <1>1 DEF receptorVars, audioVars, playing
<1>3. CASE EmitterStep
  BY <1>2, <1>3 DEF EmitterStep, P!Capture
<1>4. CASE TextStep \/ UNCHANGED vars
  BY <1>2, <1>4 DEF TextStep, vars
<1> QED BY <1>3, <1>4

(* What the receptor is about to write came out of the network, was         *)
(* accepted, so it is a chunk that was captured and announced as it is, and *)
(* the device, if it is open, was opened for it and for the map.            *)
PlaysCaptured ==
  r_pc = "write" /\ r_device # NoStream =>
    /\ r_buffer.chunk \in captured
    /\ r_device = P!PlayedIn(r_buffer.chunk.config)

LEMMA PlaysCapturedStep == LInv /\ FormatsInv => PlaysCaptured
<1> SUFFICES ASSUME LInv, FormatsInv, r_pc = "write", r_device # NoStream
             PROVE  /\ r_buffer.chunk \in captured
                    /\ r_device = P!PlayedIn(r_buffer.chunk.config)
  BY DEF PlaysCaptured
<1>1. R!IInv /\ R!Serving /\ r_buffer \in network
  BY DEF LInv, QueueInv, R!Serving
<1>2. Check(r_buffer) = 0
  BY <1>1, ReceptorPacket DEF R!IInv, R!CacheInv, R!Accepted, Check
<1>3. /\ r_buffer.chunk \in captured
      /\ packet_get_stream_config(r_buffer.hdr) = r_buffer.chunk.config
  BY <1>1, <1>2 DEF LInv, NetworkInv, AudioDatagram, TextDatagram, FormatsInv
<1>4. r_device \in {R!NoStream, R!get_device_config(R!stream_config)}
  BY <1>1, ReceptorAssumptions, R!FormatAgreementStep DEF R!FormatAgreement
<1>5. R!stream_config = r_buffer.chunk.config
  BY <1>3, ReceptorPacket DEF R!stream_config
<1>6. R!NoStream = NoStream
  BY DEF R!NoStream, NoStream
<1> QED BY <1>3, <1>4, <1>5, <1>6 DEF R!get_device_config, P!PlayedIn

LEMMA ReceptorPlayout ==
  ASSUME LInv, PlaysCaptured', LInv', ReceptorStep
  PROVE  P!Play \/ P!Rest
<1>1. captured' = captured
  BY DEF ReceptorStep
<1>2. CASE r_pc' = "write" /\ r_device' # NoStream
  <2>1. r_map_nb' = r_map_nb
    BY <1>2, ReceptorAssumptions, R!QueueSteps DEF LInv, ReceptorStep
  <2>2. /\ r_buffer'.chunk \in captured
        /\ r_device' = P!PlayedIn(r_buffer'.chunk.config)
    BY <1>1, <1>2, <2>1 DEF PlaysCaptured, P!PlayedIn
  <2>3. playing' = [chunk |-> r_buffer'.chunk, device |-> r_device']
    BY <1>2 DEF playing, NoStream
  <2> QED BY <1>1, <2>1, <2>2, <2>3 DEF P!Play
<1>3. CASE ~(r_pc' = "write" /\ r_device' # NoStream)
  <2>1. playing' = P!Silence
    BY <1>3 DEF playing, P!Silence, P!NoStream, NoStream
  <2>2. r_map_nb' \in 0 .. P!VBAN_CHANNELS_MAX_NB
    <3>1. r_map_nb' \in ReceptorMaps \cup {0}
      BY DEF LInv, R!IInv, R!TypeInv, R!TypeOK, R!AudioTypeOK
    <3> QED BY <3>1, LinkAssumption DEF P!VBAN_CHANNELS_MAX_NB, VBAN_CHANNELS_MAX_NB
  <2> QED BY <1>1, <2>1, <2>2 DEF P!Rest
<1> QED BY <1>2, <1>3

(* The whole implements Playout, as long as the libraries and the protocol  *)
(* mean the same by a format: nothing is played that was not captured, and  *)
(* nothing as something else, for any options, backends, maps, losses,      *)
(* repeats, delays, kills and restarts.                                     *)
THEOREM PlaysWhatWasCapturedHolds ==
  ASSUME EncodingsAgree
  PROVE  Spec => PlaysWhatWasCaptured
<1>1. Init => P!Init /\ LInv /\ FormatsInv
  BY InitPlayout, InitLInv
<1>2. LInv /\ FormatsInv /\ [Next]_vars => FormatsInv'
  BY FormatsKept
<1>3. LInv' /\ FormatsInv' => PlaysCaptured'
  BY PlaysCapturedStep, PTL
<1>4. LInv /\ LInv' /\ PlaysCaptured' /\ [Next]_vars
        => [P!Next]_<<captured, r_map_nb, playing>>
  BY SenderPlayout, ReceptorPlayout DEF Next, P!Next
<1> QED
  BY <1>1, <1>2, <1>3, <1>4, LinkStep, PTL DEF Spec, PlaysWhatWasCaptured, P!Spec
=============================================================================
