---------------------------- MODULE BackendProofs ----------------------------
(***************************************************************************)
(* What the proofs about receptor and emitter share: facts about the       *)
(* tables and about integers, the effect of the kernel's calls on the      *)
(* descriptors, and the effect of opening and closing socket and backends. *)
(***************************************************************************)
EXTENDS Audio, Socket, TLAPS

-----------------------------------------------------------------------------
(* Tables and integers *)

(* All rates are numbers; the two formats without an initialiser have size 0. *)
LEMMA TableTypes ==
  /\ \A i \in 0 .. VBAN_SR_MAXNUMBER - 1 : VBanSRList[i] \in Nat
  /\ \A f \in 0 .. 5 : VBanBitResolutionSize[f] \in 1 .. 8
  /\ \A f \in 6 .. 7 : VBanBitResolutionSize[f] = 0
<1>1. \A i \in 0 .. VBAN_SR_MAXNUMBER - 1 : VBanSRList[i] \in Nat
  BY DEF VBanSRList, VBAN_SR_MAXNUMBER
<1>2. \A f \in 0 .. 7 : VBanBitResolutionSize[f] = <<1, 2, 3, 4, 4, 8, 0, 0>>[f + 1]
  BY DEF VBanBitResolutionSize, VBAN_BIT_RESOLUTION_MAX
<1>3. \A f \in 0 .. 5 : VBanBitResolutionSize[f] \in 1 .. 8
  BY <1>2
<1>4. \A f \in 6 .. 7 : VBanBitResolutionSize[f] = 0
  BY <1>2
<1> QED BY <1>1, <1>3, <1>4

LEMMA IntArithmetic ==
  /\ \A a, b \in Int : a * b \in Int
  /\ \A a \in Int : \A b \in Nat \ {0} : a \div b \in Int
  /\ \A a, b \in Nat \ {0} : a * b \in Nat \ {0}
<1>1. \A a, b \in Int : a * b \in Int
  OBVIOUS
<1>2. \A a \in Int : \A b \in Nat \ {0} : a \div b \in Int
  OBVIOUS
<1>3. \A a, b \in Nat \ {0} : a * b \in Nat \ {0}
  BY Z3
<1> QED BY <1>1, <1>2, <1>3

LEMMA Multiples ==
  ASSUME NEW k \in Nat, NEW m \in Nat \ {0}
  PROVE  (k * m) % m = 0 /\ (k * m) \div m = k
<1>1. (k * m) \div m = k
  BY SMTT(30)
<1>2. (k * m) % m = 0
  BY SMTT(30)
<1> QED BY <1>1, <1>2

LEMMA NatProducts ==
  ASSUME NEW a \in Nat, NEW b \in Nat, NEW c \in Nat
  PROVE  a * b * c = a * (b * c) /\ a * b * c = a * c * b /\ a * b \in Nat
OBVIOUS

-----------------------------------------------------------------------------
(* The kernel's descriptors *)

LEMMA FdConstants ==
  STDOUT_FILENO \in Fd /\ STDIN_FILENO \in Fd /\ 0 \in Fd /\ "backend" \in FdKind
  /\ "socket" \in FdKind
BY MaxFdAssumption DEF Fd, STDOUT_FILENO, STDIN_FILENO, FdKind

LEMMA NewFdType ==
  ASSUME fds \in [Fd -> FdKind], NEW kind \in FdKind, NEW f, NewFd(kind, f)
  PROVE  f \in Fd \cup {-1} /\ fds' \in [Fd -> FdKind]
BY DEF NewFd, Free, FdKind

LEMMA CloseFdType ==
  ASSUME fds \in [Fd -> FdKind], NEW f, NEW r, CloseFd(f, r)
  PROVE  fds' \in [Fd -> FdKind]
BY DEF CloseFd, FdKind

LEMMA CloseFdEffect ==
  ASSUME fds \in [Fd -> FdKind], NEW f, NEW r, CloseFd(f, r)
  PROVE  /\ \A g \in Fd : fds'[g] \in {fds[g], "free"}
         /\ \A g \in Fd \ {f} : fds'[g] = fds[g]
         /\ f \in Fd => fds'[f] = "free"
BY DEF CloseFd, Free

LEMMA NewFdEffect ==
  ASSUME fds \in [Fd -> FdKind], NEW kind \in FdKind, NEW f, NewFd(kind, f)
  PROVE  /\ f \in Free \cup {-1}
         /\ \A g \in Fd \ {f} : fds'[g] = fds[g]
         /\ f \in Fd => fds'[f] = kind
<1>1. CASE f = -1 /\ UNCHANGED fds
  <2>1. f \notin Fd
    BY <1>1 DEF Fd
  <2> QED BY <1>1, <2>1
<1>2. CASE f \in Free /\ fds' = [fds EXCEPT ![f] = kind]
  BY <1>2 DEF Free
<1> QED BY <1>1, <1>2 DEF NewFd

-----------------------------------------------------------------------------
(* The socket *)

(* Whatever socket_open returns, its descriptor is a number of the table. *)
LEMMA SocketOpenType ==
  ASSUME fds \in [Fd -> FdKind], NEW r, socket_open(r)
  PROVE  fds' \in [Fd -> FdKind] /\ sockfd' \in Fd
<1>1. CASE NewFd("socket", -1) /\ sockfd' = 0
  BY <1>1, NewFdType, FdConstants
<1>2. CASE NewFd("socket", sockfd') /\ sockfd' # -1
  BY <1>2, NewFdType, FdConstants
<1>3. CASE /\ sockfd' = 0
           /\ IF STDIN_FILENO \in Free THEN NewFd("socket", STDIN_FILENO) ELSE UNCHANGED fds
  BY <1>3, NewFdType, FdConstants
<1> QED BY <1>1, <1>2, <1>3 DEF socket_open

LEMMA SocketCloseType ==
  ASSUME fds \in [Fd -> FdKind], NEW r, socket_close(r)
  PROVE  fds' \in [Fd -> FdKind] /\ sockfd' = 0
BY CloseFdType DEF socket_close

-----------------------------------------------------------------------------
(* The backends *)

(* The backends whose open fails with a negative result. *)
Reporting == {"alsa", "file", "stdout"}

(* A library handle belongs to an open device of a library backend. *)
HandleInv == handle => backend \in {"alsa", "pulseaudio"} /\ device # NoStream

(* The types of what a backend keeps. *)
BackendTypes ==
  /\ fds \in [Fd -> FdKind] /\ fd \in Fd \cup {-1}
  /\ handle \in BOOLEAN /\ fifo \in BOOLEAN

(* A close leaves no device, whatever it returns. *)
LEMMA CloseEffect ==
  ASSUME BackendTypes, HandleInv, NEW r \in Returns, backend_close(r)
  PROVE  BackendTypes' /\ HandleInv' /\ device' = NoStream /\ backend' = backend
<1>1. CASE backend \in {"alsa", "pulseaudio"}
  <2>1. library_close(r) /\ backend' = backend
    BY <1>1 DEF backend_close
  <2>2. handle' = FALSE /\ device' = NoStream /\ UNCHANGED <<fds, fd, fifo>>
    BY <2>1 DEF library_close
  <2> QED BY <2>1, <2>2 DEF BackendTypes, HandleInv
<1>2. CASE backend \in {"file", "stdout"}
  <2>1. file_close(r) /\ backend' = backend
    BY <1>2 DEF backend_close
  <2>2. ~handle
    BY <1>2 DEF HandleInv
  <2>3. fds' \in [Fd -> FdKind]
    BY <2>1, CloseFdType DEF file_close, BackendTypes
  <2> QED BY <2>1, <2>2, <2>3 DEF file_close, BackendTypes, HandleInv
<1>3. CASE backend = "pipe"
  <2>1. pipe_close(r) /\ backend' = backend
    BY <1>3 DEF backend_close
  <2>2. ~handle
    BY <1>3 DEF HandleInv
  <2>3. fds' \in [Fd -> FdKind]
    BY <2>1, CloseFdType DEF pipe_close, BackendTypes
  <2> QED BY <2>1, <2>2, <2>3 DEF pipe_close, BackendTypes, HandleInv
<1> QED BY <1>1, <1>2, <1>3 DEF backend_close

(* What an open leaves, and what its result says of the device. *)
LEMMA OpenEffect ==
  ASSUME BackendTypes, HandleInv, device = NoStream,
         NEW config, config # NoStream, NEW r \in Returns, backend_open(config, r)
  PROVE  /\ BackendTypes' /\ HandleInv' /\ backend' = backend
         /\ device' \in {NoStream, config}
         /\ r < 0 => device' = NoStream
         /\ backend = "pipe" => device' = NoStream
         /\ backend \in Reporting /\ ~(r < 0) => device' = config
         /\ backend # "pipe" /\ r = 0 => device' = config
<1>1. CASE backend = "alsa"
  BY <1>1 DEF backend_open, alsa_open, BackendTypes, HandleInv, Reporting
<1>2. CASE backend = "pulseaudio"
  BY <1>2 DEF backend_open, pulseaudio_open, BackendTypes, HandleInv, Reporting
<1>3. CASE backend \in {"file", "stdout"}
  <2>1. file_open(config, r) /\ backend' = backend
    BY <1>3 DEF backend_open
  <2>2. fds' \in [Fd -> FdKind] /\ fd' \in Fd \cup {-1}
    BY <2>1, NewFdType, FdConstants DEF file_open, BackendTypes
  <2> QED BY <1>3, <2>1, <2>2 DEF file_open, BackendTypes, HandleInv, Reporting
<1>4. CASE backend = "pipe"
  <2>1. pipe_open_mkfifo(r) /\ backend' = backend
    BY <1>4 DEF backend_open
  <2>2. fifo' \in BOOLEAN /\ fd' \in Fd \cup {-1}
    BY <2>1, FdConstants DEF pipe_open_mkfifo, BackendTypes
  <2>3. UNCHANGED <<fds, handle, device>>
    BY <2>1 DEF pipe_open_mkfifo
  <2> QED BY <1>4, <2>1, <2>2, <2>3 DEF BackendTypes, HandleInv, Reporting
<1> QED BY <1>1, <1>2, <1>3, <1>4 DEF backend_open

(* The open of a FIFO never reports its failure. *)
LEMMA ConnectEffect ==
  ASSUME BackendTypes, HandleInv, backend = "pipe",
         NEW config, config # NoStream, NEW r \in Returns, pipe_open_connect(config, r),
         UNCHANGED backend
  PROVE  /\ BackendTypes' /\ HandleInv'
         /\ device' \in {NoStream, config} /\ ~(r < 0)
<1>1. fds' \in [Fd -> FdKind] /\ fd' \in Fd \cup {-1}
  BY NewFdType, FdConstants DEF pipe_open_connect, BackendTypes
<1> QED BY <1>1 DEF pipe_open_connect, BackendTypes, HandleInv
=============================================================================
