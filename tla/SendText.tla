------------------------------ MODULE SendText ------------------------------
(***************************************************************************)
(* vban_sendtext (src/src/sendtext/main.c): one text in one datagram, its  *)
(* header filled with the options as they are given.  A text is its        *)
(* options and its length.                                                 *)
(***************************************************************************)
EXTENDS Packet, Socket

CONSTANTS StreamName,       \* option -s
          Texts,            \* options -b, -n and -f, and the length of MESSAGE
          Address,          \* where its datagrams come from
          StdinStates       \* how descriptor 0 may be inherited: "std", "free"

VARIABLES pc,               \* where main() is
          text,             \* the command line
          ret,              \* main's ret
          buffer            \* main_t.buffer, as the datagram it is sent as

vars == <<pc, text, ret, buffer, fds, sockfd>>

(* The byte bps | VBAN_PROTOCOL_TXT leaves in format_SR. *)
WithProtocolTxt(bps) ==
  LET byte == bps % 256 IN IF (byte \div VBAN_PROTOCOL_TXT) % 2 = 1
                           THEN byte ELSE byte + VBAN_PROTOCOL_TXT

(* Faulty variant: the protocol is left out. *)
TextHeaderNoProtocol ==
  [fourc |-> TRUE, format_SR |-> text.bps % 256, format_nbs |-> 0,
   format_nbc |-> text.ident % 256, format_bit |-> text.format % 256,
   streamname |-> StreamName, nuFrame |-> 0]

TextHeader ==
  [fourc |-> TRUE, format_SR |-> WithProtocolTxt(text.bps), format_nbs |-> 0,
   format_nbc |-> text.ident % 256, format_bit |-> text.format % 256,
   streamname |-> StreamName, nuFrame |-> 0]

(* The bytes of the text are audio in no format. *)
TextChunk == [config |-> NoStream, bytes |-> text.len, position |-> 0, offset |-> 0]

(* A buffer with only the message in it. *)
Unsent == [ip |-> Address, len |-> 0, hdr |-> [nuFrame |-> 0], chunk |-> TextChunk]

Init ==
  /\ pc = "message" /\ text \in Texts /\ ret = 0 /\ buffer = Unsent
  /\ SocketInitial
  /\ \E stdin \in StdinStates : fds = InheritedFds(stdin)

(* A message that does not fit is refused. *)
Message ==
  /\ pc = "message"
  /\ pc' = IF text.len > VBAN_DATA_MAX_SIZE - 1 THEN "exited" ELSE "socket_init"
  /\ UNCHANGED <<text, ret, buffer, fds, sockfd>>

SocketInit ==
  /\ pc = "socket_init"
  /\ \E r \in {-1, 0, 1} : socket_open(r) /\ ret' = r
  /\ pc' = IF ret' # 0 THEN "exited" ELSE "write"
  /\ UNCHANGED <<text, buffer>>

(* The header, and socket_write, whose result becomes that of main. *)
Write ==
  /\ pc = "write"
  /\ buffer' = [buffer EXCEPT !.hdr = TextHeader, !.len = text.len + VBAN_HEADER_SIZE]
  /\ ret' \in socket_write(buffer'.len)
  /\ pc' = "socket_release"
  /\ UNCHANGED <<text, fds, sockfd>>

SocketRelease ==
  /\ pc = "socket_release"
  /\ \E r \in {-1, 0} : socket_close(r)
  /\ pc' = "exited"
  /\ UNCHANGED <<text, ret, buffer>>

(* Called again, with another message. *)
Restart ==
  /\ pc = "exited"
  /\ pc' = "message" /\ text' \in Texts /\ ret' = 0
  /\ buffer' = [Unsent EXCEPT !.chunk.bytes = text'.len]
  /\ SocketRestart
  /\ \E stdin \in StdinStates : fds' = InheritedFds(stdin)

Next == Message \/ SocketInit \/ Write \/ SocketRelease \/ Restart

Spec == Init /\ [][Next]_vars
=============================================================================
