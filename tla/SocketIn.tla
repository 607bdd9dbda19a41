------------------------------ MODULE SocketIn ------------------------------
(***************************************************************************)
(* The receiving side of src/src/common/socket.c.  The network is          *)
(* external: any of the datagrams of the constant Datagrams may be         *)
(* delivered, any number of times and in any order, which is loss,         *)
(* duplication and reordering; a full receive buffer drops.                *)
(*                                                                         *)
(* A datagram is [ip, len, hdr]: its source, its length and the header its *)
(* first bytes spell.                                                      *)
(***************************************************************************)
EXTENDS Socket, Sequences

CONSTANTS Datagrams,        \* what the network may deliver
          RcvBuf,           \* bound: datagrams the kernel's receive buffer holds
          IpAddress         \* socket_config_t.ip_address

ASSUME SocketAssumption ==
  /\ RcvBuf \in Nat \ {0}
  /\ \A d \in Datagrams : d.len \in Nat /\ IsHeader(d.hdr)

VARIABLES rcvq,             \* the kernel's receive buffer
          buffer            \* main_t.buffer: the datagram last received

socketVars == <<sockfd, rcvq, buffer>>

(* Faulty variant: room for the payload only, not for the header. *)
socket_read_size_of_payload(datagram) ==
  IF datagram.len > VBAN_DATA_MAX_SIZE THEN VBAN_DATA_MAX_SIZE ELSE datagram.len

(* What recvfrom returns: a datagram is cut to the size of main's buffer. *)
socket_read_size(datagram) ==
  IF datagram.len > VBAN_PROTOCOL_MAX_SIZE THEN VBAN_PROTOCOL_MAX_SIZE ELSE datagram.len

(* recvfrom takes one datagram.  The caller sees it only if it comes from   *)
(* the configured address: socket_read goes back to recvfrom otherwise.     *)
socket_read ==
  /\ rcvq # <<>>
  /\ buffer' = Head(rcvq)
  /\ rcvq' = Tail(rcvq)
  /\ UNCHANGED sockfd

socket_from_peer(datagram) == datagram.ip = IpAddress

(* The kernel queues a datagram for the bound socket. *)
Deliver(datagram) ==
  /\ \E f \in Fd : fds[f] = "socket"
  /\ Len(rcvq) < RcvBuf
  /\ rcvq' = Append(rcvq, datagram)
  /\ UNCHANGED <<sockfd, buffer>>

SocketTypeOK ==
  /\ sockfd \in Fd
  /\ rcvq \in Seq(Datagrams) /\ Len(rcvq) <= RcvBuf
  /\ buffer \in Datagrams
=============================================================================
