-------------------------------- MODULE Link --------------------------------
(***************************************************************************)
(* An emitter, a receptor and calls of sendtext, all for the same stream,  *)
(* over UDP.  The network keeps every datagram it was given and delivers   *)
(* any of them at any moment: once, again, late, in another order, or      *)
(* never.  The processes are Emitter, Receptor and SendText as they are,   *)
(* each with its own kernel objects; the names of their variables begin    *)
(* with e_, r_ and t_.  Emitter and Receptor come with their theorems,     *)
(* which LinkProofs uses.                                                  *)
(***************************************************************************)
EXTENDS Packet, Sequences

CONSTANTS StreamName, Address,      \* the stream, and where it comes from
          Streams, Texts,           \* options of the emitter, of sendtext
          EmitterBackends, EmitterMaps,
          ReceptorBackends, ReceptorMaps,
          StdinStates, MaxFd, MaxPackets, RcvBuf,
          Packets                   \* every datagram the senders can make

ASSUME LinkAssumption ==
  /\ Streams \subseteq [nb_channels : 1 .. VBAN_CHANNELS_MAX_NB, sample_rate : Nat,
                        bit_fmt : 0 .. VBAN_BIT_RESOLUTION_MAX - 1]
  /\ Texts \subseteq [bps : Int, ident : Int, format : Int, len : Nat]
  /\ EmitterBackends \cup ReceptorBackends
       \subseteq {"alsa", "pulseaudio", "pipe", "file", "stdout"}
  /\ EmitterMaps \cup ReceptorMaps \subseteq 0 .. VBAN_CHANNELS_MAX_NB
  /\ StdinStates \subseteq {"std", "free"}
  /\ MaxFd \in Nat /\ MaxFd >= 4
  /\ MaxPackets \in Nat /\ RcvBuf \in Nat \ {0}
  /\ \A d \in Packets : d.len \in Nat /\ IsHeader(d.hdr)

VARIABLES e_pc, e_ret, e_size, e_max_size, e_options, e_buffer, e_offset, e_sent, e_fds,
          e_sockfd, e_backend, e_fd, e_handle, e_device, e_fifo, e_stream, e_map_nb

E == INSTANCE EmitterProofs WITH
  Backends <- EmitterBackends, MapNbs <- EmitterMaps,
  pc <- e_pc, ret <- e_ret, size <- e_size, max_size <- e_max_size, options <- e_options,
  buffer <- e_buffer, offset <- e_offset, sent <- e_sent, fds <- e_fds, sockfd <- e_sockfd,
  backend <- e_backend, fd <- e_fd, handle <- e_handle, device <- e_device, fifo <- e_fifo,
  stream <- e_stream, map_nb <- e_map_nb

VARIABLES r_pc, r_ret, r_size, r_buffer, r_rcvq, r_fds, r_sockfd,
          r_backend, r_fd, r_handle, r_device, r_fifo, r_stream, r_map_nb

R == INSTANCE ReceptorProofs WITH
  Backends <- ReceptorBackends, MapNbs <- ReceptorMaps,
  Datagrams <- Packets, IpAddress <- Address,
  pc <- r_pc, ret <- r_ret, size <- r_size, buffer <- r_buffer, rcvq <- r_rcvq,
  fds <- r_fds, sockfd <- r_sockfd, backend <- r_backend, fd <- r_fd, handle <- r_handle,
  device <- r_device, fifo <- r_fifo, stream <- r_stream, map_nb <- r_map_nb

VARIABLES t_pc, t_text, t_ret, t_buffer, t_fds, t_sockfd

T == INSTANCE SendText WITH
  pc <- t_pc, text <- t_text, ret <- t_ret, buffer <- t_buffer, fds <- t_fds,
  sockfd <- t_sockfd

VARIABLES network,          \* the datagrams given to the network
          captured          \* the chunks the emitter read from its device

emitterVars ==
  <<e_pc, e_ret, e_size, e_max_size, e_options, e_buffer, e_offset, e_sent, e_fds,
    e_sockfd, e_backend, e_fd, e_handle, e_device, e_fifo, e_stream, e_map_nb>>
audioVars == <<r_backend, r_fd, r_handle, r_device, r_fifo, r_stream, r_map_nb>>
receptorVars == <<r_pc, r_ret, r_size, r_buffer, r_rcvq, r_fds, r_sockfd, audioVars>>
textVars == <<t_pc, t_text, t_ret, t_buffer, t_fds, t_sockfd>>

vars == <<emitterVars, receptorVars, textVars, network, captured>>

(* The bytes of the receptor's buffer are looked at by nobody before its    *)
(* first socket_read.                                                       *)
Init ==
  /\ E!Init /\ R!Init /\ T!Init
  /\ r_buffer = CHOOSE packet \in Packets : TRUE
  /\ network = {} /\ captured = {}

(* What the emitter reads is captured; what it sends without an error is    *)
(* given to the network.                                                    *)
EmitterStep ==
  /\ E!Next
  /\ captured' = IF e_pc = "read" /\ e_pc' = "check"
                 THEN captured \cup {e_buffer'.chunk} ELSE captured
  /\ network' = IF e_pc = "send" /\ e_pc' = "read"
                THEN network \cup {e_buffer'} ELSE network
  /\ UNCHANGED <<receptorVars, textVars>>

TextStep ==
  /\ T!Next
  /\ network' = IF t_pc = "write" /\ t_ret' >= 0
                THEN network \cup {t_buffer'} ELSE network
  /\ UNCHANGED <<emitterVars, receptorVars, captured>>

(* A datagram the kernel queues comes out of the network, and stays there. *)
ReceptorStep ==
  /\ R!Next
  /\ Len(r_rcvq') > Len(r_rcvq) => r_rcvq'[Len(r_rcvq')] \in network
  /\ UNCHANGED <<emitterVars, textVars, network, captured>>

Next == EmitterStep \/ TextStep \/ ReceptorStep

Spec == Init /\ [][Next]_vars

-----------------------------------------------------------------------------
(* Properties *)

(* A receptor accepts every packet the emitter sent and no text: the checks *)
(* of the one and the headers of the others agree, whatever the options of  *)
(* sendtext spell in the bytes that are an audio packet's rate and format.  *)
OnlyAudioAccepted ==
  \A datagram \in network :
    packet_check(StreamName, datagram.hdr, R!socket_read_size(datagram)) = 0
      <=> datagram.chunk \in captured

(* What the receptor's device is given. *)
playing ==
  IF r_pc = "write" /\ r_device # NoStream
  THEN [chunk |-> r_buffer.chunk, device |-> r_device]
  ELSE [chunk |-> E!NoChunk, device |-> NoStream]

P == INSTANCE Playout WITH NoChunk <- E!NoChunk, channels <- r_map_nb

(* The whole implements Playout: what the receptor's device plays was       *)
(* captured by the emitter, and is played in the format it was captured in, *)
(* through lost, repeated and late datagrams, texts of the same name, and   *)
(* restarts of either side with another format or map.                      *)
PlaysWhatWasCaptured == P!Spec
=============================================================================
