------------------------------- MODULE Socket -------------------------------
(***************************************************************************)
(* src/src/common/socket.c, what its two directions share: the life of the *)
(* descriptor, where 0 means "not open", and the sending side.             *)
(***************************************************************************)
EXTENDS Descriptors, Vban

VARIABLE sockfd             \* socket_t.fd

SocketInitial == sockfd = 0
SocketRestart == sockfd' = 0

(* Faulty variant: the failed socket() is kept as the descriptor. *)
socket_open_keeps_error(r) ==
  /\ NewFd("socket", sockfd')
  /\ r = IF sockfd' = -1 THEN -1 ELSE 0

(* socket() and bind() or setsockopt(), called once with fd = 0.  When the  *)
(* second fails the descriptor is closed, unless it is 0, and the positive  *)
(* errno returned.                                                          *)
socket_open(r) ==
  \/ NewFd("socket", -1) /\ r = -1 /\ sockfd' = 0
  \/ NewFd("socket", sockfd') /\ sockfd' # -1 /\ r = 0
  \/ /\ r = 1 /\ sockfd' = 0
     /\ IF STDIN_FILENO \in Free THEN NewFd("socket", STDIN_FILENO) ELSE UNCHANGED fds

socket_close(r) ==
  /\ IF sockfd # 0 THEN CloseFd(sockfd, r) ELSE r = 0 /\ UNCHANGED fds
  /\ sockfd' = 0

(* Faulty variant: the descriptor 0 is used like any other. *)
socket_is_open_always == TRUE

socket_is_open == sockfd # 0

(* socket_write: the values it may return for a datagram of size bytes. *)
socket_write(size) == IF socket_is_open THEN {-1, size} ELSE {-ENODEV}
=============================================================================
