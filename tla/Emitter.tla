------------------------------ MODULE Emitter ------------------------------
(***************************************************************************)
(* vban_emitter (src/src/emitter/main.c): one thread that opens the audio  *)
(* device in the format of its options, builds one header from it and then *)
(* reads a payload, completes the header, checks its own packet and sends  *)
(* it.  The process may be killed at any moment and started again with     *)
(* other options.                                                          *)
(*                                                                         *)
(* The payload is a chunk: the format the bytes are in, their number, how  *)
(* many reads this process made before, and at which byte of a frame of    *)
(* the device they begin.                                                  *)
(***************************************************************************)
EXTENDS Packet, Capture, Socket

CONSTANTS StreamName,       \* option -s
          Streams,          \* what options -r, -n and -f may ask for
          StdinStates,      \* how descriptor 0 may be inherited: "std", "free"
          Address,          \* where its datagrams come from
          MaxPackets        \* bound: packets one process prepares

ASSUME EmitterAssumption ==
  /\ Streams \subseteq [nb_channels : 1 .. VBAN_CHANNELS_MAX_NB, sample_rate : Nat,
                        bit_fmt : 0 .. VBAN_BIT_RESOLUTION_MAX - 1]
  /\ StdinStates \subseteq {"std", "free"}
  /\ MaxPackets \in Nat

VARIABLES pc,               \* where main() is
          ret,              \* main's ret
          size,             \* what audio_read returned
          max_size,         \* what audio_read is asked for
          options,          \* config.stream
          buffer,           \* main_t.buffer, as the datagram it is sent as
          offset,           \* the byte of a frame of the device that is read next
          sent              \* the last datagram this process sent

mainVars == <<ret, size, max_size, options, buffer, offset, sent>>
vars == <<pc, mainVars, fds, sockfd, audioVars>>

Locations == {"socket_init", "audio_init", "config", "open", "connect", "header", "read",
              "check", "send", "audio_release", "socket_release", "exited", "killed",
              "crashed"}
Ended == pc \in {"exited", "killed", "crashed"}

NoChunk  == [config |-> NoStream, bytes |-> 0, position |-> 0, offset |-> 0]
NoPacket == [ip |-> Address, len |-> 0, hdr |-> [nuFrame |-> 0], chunk |-> NoChunk]

Init ==
  /\ pc = "socket_init" /\ ret = 0 /\ size = 0 /\ max_size = 0
  /\ options \in Streams /\ buffer = NoPacket /\ offset = 0 /\ sent = NoPacket
  /\ SocketInitial /\ AudioInitial /\ fifo = FALSE
  /\ \E stdin \in StdinStates : fds = InheritedFds(stdin)

-----------------------------------------------------------------------------
(* main(), up to the loop.  Every failure returns without a release. *)

SocketInit ==
  /\ pc = "socket_init"
  /\ \E r \in Returns : socket_open(r) /\ ret' = r
  /\ pc' = IF ret' # 0 THEN "exited" ELSE "audio_init"
  /\ UNCHANGED <<size, max_size, options, buffer, offset, sent, audioVars>>

AudioInit ==
  /\ pc = "audio_init"
  /\ \/ \E nb \in MapNbs : audio_set_map_config(nb) /\ ret' = 0 /\ pc' = "config"
     \/ ret' = -1 /\ pc' = "exited" /\ UNCHANGED <<fds, audioVars>>
  /\ UNCHANGED <<size, max_size, options, buffer, offset, sent, sockfd>>

(* audio_set_stream_config, the close of a backend that was never opened. *)
CloseFirst ==
  /\ pc = "config"
  /\ \E r \in Returns :
       /\ audio_set_stream_config_close(options, r)
       /\ ret' = r
       /\ pc' = IF r < 0 THEN "exited" ELSE "open"
  /\ UNCHANGED <<size, max_size, options, buffer, offset, sent, sockfd>>

Open ==
  /\ pc = "open"
  /\ \E r \in Returns :
       /\ audio_capture_open(r)
       /\ ret' = r
       /\ pc' = IF r # 0 THEN "exited"
                ELSE IF backend = "pipe" THEN "connect" ELSE "header"
  /\ UNCHANGED <<size, max_size, options, buffer, offset, sent, sockfd>>

(* The open of the FIFO returns, at the earliest when a writer opens it; its *)
(* failure is not reported.                                                  *)
Connect ==
  /\ pc = "connect"
  /\ \E r \in Returns : audio_capture_connect(r) /\ ret' = r
  /\ pc' = "header"
  /\ UNCHANGED <<size, max_size, options, buffer, offset, sent, sockfd>>

(* packet_init_header and packet_get_max_payload_size, which divides by the *)
(* size of a frame.                                                         *)
Header ==
  /\ pc = "header"
  /\ LET hdr == packet_init_header(audio_get_stream_config, StreamName) IN
       /\ buffer' = [buffer EXCEPT !.hdr = hdr]
       /\ IF PacketFrameSize(hdr) = 0
          THEN pc' = "crashed" /\ UNCHANGED max_size
          ELSE pc' = "read" /\ max_size' = packet_get_max_payload_size(hdr)
  /\ UNCHANGED <<ret, size, options, offset, sent, fds, sockfd, audioVars>>

-----------------------------------------------------------------------------
(* The loop *)

(* audio_read into the payload. *)
Read ==
  /\ pc = "read" /\ buffer.hdr.nuFrame < MaxPackets
  /\ \E n \in backend_read(audio_read_asked(max_size)) :
       /\ audio_read(max_size, n, size')
       /\ IF n < 0
          THEN pc' = "audio_release" /\ UNCHANGED <<buffer, offset>>
          ELSE /\ pc' = "check"
               /\ buffer' = [buffer EXCEPT
                    !.len = VBAN_HEADER_SIZE + size',
                    !.chunk = [config |-> mapped_config, bytes |-> size',
                               position |-> @.position + 1, offset |-> offset]]
               /\ offset' = (offset + n) % FrameSize(stream)
  /\ UNCHANGED <<ret, max_size, options, sent, fds, sockfd, audioVars>>

(* More is read than the buffer holds: the process may go on, as in Read,   *)
(* or die of it.                                                            *)
Overrun ==
  /\ pc = "read" /\ ~ audio_read_fits(max_size)
  /\ pc' = "crashed"
  /\ UNCHANGED <<mainVars, fds, sockfd, audioVars>>

(* Faulty variant: a packet that is invalid is left out, and the loop goes  *)
(* on.                                                                      *)
CheckContinues ==
  /\ pc = "check"
  /\ buffer' = [buffer EXCEPT !.hdr = packet_set_new_content(@, size)]
  /\ ret' = packet_check(StreamName, buffer'.hdr, buffer.len)
  /\ pc' = IF ret' # 0 THEN "read" ELSE "send"
  /\ UNCHANGED <<size, max_size, options, offset, sent, fds, sockfd, audioVars>>

(* packet_set_new_content and packet_check; what is refused ends the loop. *)
Check ==
  /\ pc = "check"
  /\ buffer' = [buffer EXCEPT !.hdr = packet_set_new_content(@, size)]
  /\ ret' = packet_check(StreamName, buffer'.hdr, buffer.len)
  /\ pc' = IF ret' # 0 THEN "audio_release" ELSE "send"
  /\ UNCHANGED <<size, max_size, options, offset, sent, fds, sockfd, audioVars>>

(* Faulty variant: a failed sendto is tried again. *)
SendRetries ==
  /\ pc = "send"
  /\ ret' \in socket_write(buffer.len)
  /\ IF ret' < 0
     THEN pc' = "send" /\ UNCHANGED sent
     ELSE pc' = "read" /\ sent' = buffer
  /\ UNCHANGED <<size, max_size, options, buffer, offset, fds, sockfd, audioVars>>

(* socket_write *)
Send ==
  /\ pc = "send"
  /\ ret' \in socket_write(buffer.len)
  /\ IF ret' < 0
     THEN pc' = "audio_release" /\ UNCHANGED sent
     ELSE pc' = "read" /\ sent' = buffer
  /\ UNCHANGED <<size, max_size, options, buffer, offset, fds, sockfd, audioVars>>

(* The results of the releases are not looked at; main returns the ret of   *)
(* the loop.                                                                *)
AudioRelease ==
  /\ pc = "audio_release"
  /\ \E r \in Returns : audio_release(r)
  /\ pc' = "socket_release"
  /\ UNCHANGED <<mainVars, sockfd>>

SocketRelease ==
  /\ pc = "socket_release"
  /\ \E r \in Returns : socket_close(r)
  /\ pc' = "exited"
  /\ UNCHANGED <<mainVars, audioVars>>

-----------------------------------------------------------------------------
(* The environment *)

(* SIGINT or SIGTERM: here too the handler is never installed. *)
Kill ==
  /\ ~ Ended
  /\ pc' = "killed"
  /\ UNCHANGED <<mainVars, fds, sockfd, audioVars>>

(* Started again, with any options; only the FIFO is left of the last run. *)
Restart ==
  /\ Ended
  /\ pc' = "socket_init" /\ ret' = 0 /\ size' = 0 /\ max_size' = 0
  /\ options' \in Streams /\ buffer' = NoPacket /\ offset' = 0 /\ sent' = NoPacket
  /\ SocketRestart /\ AudioRestart /\ UNCHANGED fifo
  /\ \E stdin \in StdinStates : fds' = InheritedFds(stdin)

(* What main does as long as it is let run and the library calls return. *)
Running ==
  \/ SocketInit \/ AudioInit \/ CloseFirst \/ Open \/ Header
  \/ Check \/ Send \/ AudioRelease \/ SocketRelease

Next == Running \/ Connect \/ Read \/ Overrun \/ Kill \/ Restart

(* Nobody promises a writer of the FIFO or input to read. *)
Spec == Init /\ [][Next]_vars /\ WF_vars(Running)

-----------------------------------------------------------------------------
(* Properties *)

TypeOK ==
  /\ pc \in Locations
  /\ {ret, size, max_size, buffer.len} \subseteq Int
  /\ options \in Streams
  /\ offset \in Nat
  /\ sockfd \in Fd
  /\ AudioTypeOK

(* The map does not narrow the device. *)
WideMap == map_nb = 0 \/ map_nb >= stream.nb_channels

(* Whatever read returns, a payload of whole frames at a rate the protocol *)
(* knows makes a packet that packet_check accepts: the sizes asked from    *)
(* audio_read, rounded by the map, respect the header's one byte for       *)
(* samples and the size of a datagram.                                     *)
PreparedValid ==
  /\ pc = "check"
  /\ size > 0 /\ size % FrameSize(audio_get_stream_config) = 0
  /\ \E i \in DOMAIN VBanSRList : VBanSRList[i] = stream.sample_rate
  => /\ packet_check(StreamName, packet_set_new_content(buffer.hdr, size), buffer.len) = 0
     /\ buffer.len <= VBAN_PROTOCOL_MAX_SIZE

(* What a packet announces is what the device was opened for, after the    *)
(* map, and all of its payload is samples of it: no rate, width or number  *)
(* of channels that has no place in the header is sent as another one.     *)
(* Samples the library encodes in its own way are sent as if they were the *)
(* protocol's, and left out here.                                          *)
Announced ==
  pc = "send" /\ SameEncoding =>
    /\ packet_get_stream_config(buffer.hdr) = buffer.chunk.config
    /\ buffer.len = VBAN_HEADER_SIZE
                      + NbSamples(buffer.hdr) * FrameSize(buffer.chunk.config)

(* Every packet begins with the first channel of a frame, although read(2) *)
(* may return any part of one, unless a map that narrows the device hides  *)
(* the rest of the frame from packet_check.                                *)
FrameBoundary == pc = "send" /\ WideMap => buffer.chunk.offset = 0

(* A read fills no more than audio_read's buffer holds, unless the map     *)
(* narrows the device or ALSA's samples are longer than the protocol's.    *)
NoOverrun ==
  pc = "read" /\ WideMap /\ (SameEncoding \/ backend # "alsa") => audio_read_fits(max_size)

(* The packets of one run carry consecutive frame counters and consecutive *)
(* reads: nothing that was read is skipped between two of them.            *)
InSequence ==
  pc = "send" => /\ buffer.hdr.nuFrame = sent.hdr.nuFrame + 1
                 /\ buffer.chunk.position = sent.chunk.position + 1

(* Once the device has been asked for, no return of main leaves the FIFO   *)
(* behind: not those that return without a release, nor that of an error.  *)
FifoRemoved ==
  [][pc \notin {"socket_init", "audio_init"} /\ pc' = "exited" /\ backend = "pipe"
       => ~fifo']_vars

(* A packet that was prepared is sent, or the process ends. *)
Sends == pc = "check" ~> (sent = buffer /\ pc = "read") \/ Ended

(* The end of the source, a read of nothing or an error, ends the process. *)
Ends == (pc \in {"check", "audio_release"} /\ size <= 0) ~> Ended
=============================================================================
