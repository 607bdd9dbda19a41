-------------------------- MODULE ReceptorFdProofs --------------------------
(***************************************************************************)
(* Proofs about Receptor's descriptors and its FIFO: socket and backend    *)
(* keep numbers, the kernel's table says what they refer to, and no order  *)
(* of opens, failures, closes, kills and restarts makes the two disagree.  *)
(***************************************************************************)
EXTENDS ReceptorProofs

NoBackendFd == \A f \in Fd : fds[f] # "backend"

(* Numbers and table: standard output is never given away, the socket's     *)
(* number is the socket and not the backend's, and a descriptor of the      *)
(* backend is the one its close would take.                                 *)
FdInv ==
  /\ fds[STDOUT_FILENO] = "std"
  /\ fd = STDOUT_FILENO => backend = "stdout"
  /\ sockfd # 0 => fds[sockfd] = "socket" /\ fd # sockfd
  /\ pc = "socket_init" => sockfd = 0 /\ fd = 0
  /\ Serving => sockfd # 0
  /\ NoOrphan
  /\ backend \notin {"file", "pipe"} => NoBackendFd
  /\ pc \in {"open", "connect", "socket_release"} => NoBackendFd

(* The FIFO is gone wherever nothing of the backend is left. *)
FifoInv == pc \in {"open", "socket_release"} /\ backend = "pipe" => ~fifo

FInv == FdInv /\ FifoInv

-----------------------------------------------------------------------------
(* What the backends do to the descriptors *)

(* A backend's close leaves no descriptor of a backend, and touches neither *)
(* the socket nor standard output.                                          *)
LEMMA CloseFds ==
  ASSUME BackendTypes, FdInv, sockfd \in Fd, NEW r \in Returns, backend_close(r)
  PROVE  /\ NoBackendFd' /\ fd' = fd /\ backend' = backend
         /\ fds'[STDOUT_FILENO] = "std"
         /\ sockfd # 0 => fds'[sockfd] = "socket"
         /\ backend = "pipe" => ~fifo'
<1>0. /\ fds \in [Fd -> FdKind] /\ STDOUT_FILENO \in Fd
      /\ fds[STDOUT_FILENO] = "std"
      /\ \A f \in Fd : fds[f] = "backend" => f = fd
  BY FdConstants DEF BackendTypes, FdInv, NoOrphan
<1>1. CASE backend \in {"alsa", "pulseaudio"}
  <2>1. library_close(r) /\ backend' = backend
    BY <1>1 DEF backend_close
  <2>2. UNCHANGED <<fds, fd>>
    BY <2>1 DEF library_close
  <2> QED BY <1>0, <1>1, <2>1, <2>2 DEF FdInv, NoBackendFd
<1>2. CASE backend \in {"file", "stdout"} /\ fd = STDOUT_FILENO
  <2>1. file_close(r) /\ backend' = backend
    BY <1>2 DEF backend_close
  <2>2. UNCHANGED <<fds, fd>>
    BY <1>2, <2>1 DEF file_close
  <2>3. NoBackendFd
    BY <1>0, <1>2 DEF NoBackendFd
  <2> QED BY <1>0, <1>2, <2>1, <2>2, <2>3 DEF FdInv, NoBackendFd
<1>3. CASE \/ backend \in {"file", "stdout"} /\ fd # STDOUT_FILENO
           \/ backend = "pipe"
  <2>1. CloseFd(fd, r) /\ fd' = fd /\ backend' = backend
    BY <1>3 DEF backend_close, file_close, pipe_close
  <2>2. backend = "pipe" => ~fifo'
    BY <1>3 DEF backend_close, pipe_close
  <2>3. /\ \A g \in Fd : fds'[g] \in {fds[g], "free"}
        /\ \A g \in Fd \ {fd} : fds'[g] = fds[g]
        /\ fd \in Fd => fds'[fd] = "free"
    BY <1>0, <2>1, CloseFdEffect
  <2>4. NoBackendFd'
    BY <1>0, <2>3 DEF NoBackendFd
  <2>5. fd # STDOUT_FILENO
    BY <1>3 DEF FdInv
  <2>6. fds'[STDOUT_FILENO] = "std"
    BY <1>0, <2>3, <2>5
  <2>7. sockfd # 0 => fds'[sockfd] = "socket"
    BY <2>3 DEF FdInv
  <2> QED BY <2>1, <2>2, <2>4, <2>6, <2>7
<1> QED BY <1>1, <1>2, <1>3 DEF backend_close

(* A new descriptor of the backend is a free one, so neither of those. *)
LEMMA NewBackendFd ==
  ASSUME BackendTypes, FdInv, NoBackendFd, sockfd \in Fd,
         NewFd("backend", fd'), UNCHANGED <<backend, sockfd>>
  PROVE  /\ fds'[STDOUT_FILENO] = "std" /\ fd' # STDOUT_FILENO
         /\ sockfd # 0 => fds'[sockfd] = "socket" /\ fd' # sockfd
         /\ NoOrphan'
<1>0. /\ fds \in [Fd -> FdKind] /\ STDOUT_FILENO \in Fd /\ "backend" \in FdKind
      /\ fds[STDOUT_FILENO] = "std"
  BY FdConstants DEF BackendTypes, FdInv
<1>1. /\ fd' \in Free \cup {-1}
      /\ \A g \in Fd \ {fd'} : fds'[g] = fds[g]
      /\ fd' \in Fd => fds'[fd'] = "backend"
  BY <1>0, NewFdEffect
<1>2. -1 \notin Fd
  BY DEF Fd
<1>3. fds'[STDOUT_FILENO] = "std" /\ fd' # STDOUT_FILENO
  BY <1>0, <1>1, <1>2 DEF Free
<1>4. sockfd # 0 => fds'[sockfd] = "socket" /\ fd' # sockfd
  BY <1>0, <1>1, <1>2 DEF FdInv, Free
<1>5. NoOrphan'
  BY <1>1 DEF NoOrphan, NoBackendFd
<1> QED BY <1>3, <1>4, <1>5

LEMMA OpenFds ==
  ASSUME BackendTypes, FdInv, NoBackendFd, sockfd \in Fd, NEW config,
         NEW r \in Returns, backend_open(config, r), UNCHANGED sockfd
  PROVE  /\ fds'[STDOUT_FILENO] = "std" /\ backend' = backend
         /\ fd' = STDOUT_FILENO => backend = "stdout"
         /\ sockfd # 0 => fds'[sockfd] = "socket" /\ fd' # sockfd
         /\ NoOrphan'
         /\ backend # "file" => NoBackendFd'
<1>0. /\ fds \in [Fd -> FdKind] /\ STDOUT_FILENO \in Fd
      /\ fds[STDOUT_FILENO] = "std"
  BY FdConstants DEF BackendTypes, FdInv
<1>1. CASE backend \in {"alsa", "pulseaudio"}
  <2>1. UNCHANGED <<fds, fd, backend>>
    BY <1>1 DEF backend_open, alsa_open, pulseaudio_open
  <2> QED BY <1>0, <1>1, <2>1 DEF FdInv, NoOrphan, NoBackendFd
<1>2. CASE backend = "file"
  <2>1. NewFd("backend", fd') /\ backend' = backend
    BY <1>2 DEF backend_open, file_open
  <2> QED BY <1>2, <2>1, NewBackendFd
<1>3. CASE backend = "stdout"
  <2>1. fd' = STDOUT_FILENO /\ UNCHANGED <<fds, backend>>
    BY <1>3 DEF backend_open, file_open
  <2>2. sockfd # 0 => fd' # sockfd
    BY <1>0, <2>1 DEF FdInv
  <2> QED BY <1>0, <1>3, <2>1, <2>2 DEF FdInv, NoOrphan, NoBackendFd
<1>4. CASE backend = "pipe"
  <2>1. UNCHANGED <<fds, backend>> /\ fd' \in {0, fd}
    BY <1>4 DEF backend_open, pipe_open_mkfifo
  <2>2. fd' # STDOUT_FILENO
    BY <1>4, <2>1 DEF FdInv, STDOUT_FILENO
  <2> QED BY <1>0, <1>4, <2>1, <2>2 DEF FdInv, NoOrphan, NoBackendFd
<1> QED BY <1>1, <1>2, <1>3, <1>4 DEF backend_open


-----------------------------------------------------------------------------
(* Initial states, and one lemma per step *)

LEMMA FdTypes ==
  IInv => /\ BackendTypes /\ HandleInv /\ sockfd \in Fd
          /\ fds \in [Fd -> FdKind] /\ STDOUT_FILENO \in Fd
BY FdConstants, BackendTypesHold
   DEF IInv, BackendTypes, TypeInv, TypeOK, AudioTypeOK, AudioBackendTypeOK,
       SocketTypeOK

(* What execve hands over. *)
LEMMA InheritedTable ==
  ASSUME NEW stdin \in StdinStates
  PROVE  /\ InheritedFds(stdin)[STDOUT_FILENO] = "std"
         /\ \A f \in Fd : InheritedFds(stdin)[f] # "backend"
<1>1. STDOUT_FILENO \in Fd /\ STDOUT_FILENO # STDIN_FILENO /\ STDOUT_FILENO <= 2
  BY FdConstants DEF STDOUT_FILENO, STDIN_FILENO
<1>2. stdin \in {"std", "free"}
  BY ReceptorAssumption
<1> QED BY <1>1, <1>2 DEF InheritedFds

LEMMA InitFInv == Init => FInv
<1> SUFFICES ASSUME Init PROVE FInv
  OBVIOUS
<1>1. PICK stdin \in StdinStates : fds = InheritedFds(stdin)
  BY DEF Init
<1>2. fds[STDOUT_FILENO] = "std" /\ NoBackendFd
  BY <1>1, InheritedTable DEF NoBackendFd
<1>3. pc = "socket_init" /\ sockfd = 0 /\ fd = 0
  BY DEF Init, SocketInitial, AudioInitial, AudioBackendInitial
<1> QED
  BY <1>2, <1>3 DEF FInv, FdInv, FifoInv, NoOrphan, NoBackendFd, Serving, STDOUT_FILENO

LEMMA SocketInitFStep == IInv /\ FInv /\ SocketInit => FInv'
<1> SUFFICES ASSUME IInv, FInv, SocketInit PROVE FInv'
  OBVIOUS
<1>0. /\ fds \in [Fd -> FdKind] /\ STDOUT_FILENO \in Fd /\ "socket" \in FdKind
      /\ fds[STDOUT_FILENO] = "std" /\ fd = 0 /\ 0 \in Fd
      /\ \A f \in Fd : fds[f] = "backend" => f = fd
      /\ backend \notin {"file", "pipe"} => NoBackendFd
  BY FdTypes, FdConstants DEF FInv, FdInv, SocketInit, NoOrphan
<1>1. PICK r \in Returns : socket_open(r) /\ ret' = r
  BY DEF SocketInit
<1>2. /\ UNCHANGED <<fd, backend, fifo>>
      /\ pc' \in {"exited", "audio_init"}
  BY <1>1 DEF SocketInit, audioVars, backendVars
<1>3. /\ fds'[STDOUT_FILENO] = "std"
      /\ \A f \in Fd : fds'[f] = "backend" => fds[f] = "backend"
      /\ sockfd' # 0 => fds'[sockfd'] = "socket"
  <2>1. ASSUME NEW f, NewFd("socket", f)
        PROVE  /\ fds'[STDOUT_FILENO] = "std"
               /\ \A g \in Fd : fds'[g] = "backend" => fds[g] = "backend"
               /\ f # -1 => fds'[f] = "socket"
    <3>1. /\ f \in Free \cup {-1}
          /\ \A g \in Fd \ {f} : fds'[g] = fds[g]
          /\ f \in Fd => fds'[f] = "socket"
      BY <1>0, <2>1, NewFdEffect
    <3>2. f # STDOUT_FILENO
      BY <1>0, <3>1 DEF Free, STDOUT_FILENO
    <3> QED BY <1>0, <3>1, <3>2 DEF Free
  <2>2. CASE NewFd("socket", -1) /\ sockfd' = 0
    BY <2>1, <2>2
  <2>3. CASE NewFd("socket", sockfd') /\ sockfd' # -1
    BY <2>1, <2>3
  <2>4. CASE /\ sockfd' = 0
             /\ IF STDIN_FILENO \in Free THEN NewFd("socket", STDIN_FILENO) ELSE UNCHANGED fds
    BY <1>0, <2>1, <2>4
  <2> QED BY <1>1, <2>2, <2>3, <2>4 DEF socket_open
<1> QED
  BY <1>0, <1>2, <1>3
     DEF FInv, FdInv, FifoInv, NoOrphan, NoBackendFd, Serving, STDOUT_FILENO

(* The steps that leave descriptors, backend and FIFO alone. *)
LEMMA QuietFStep ==
  ASSUME FInv, UNCHANGED <<fds, fd, sockfd, backend, fifo>>,
         pc' \notin {"socket_init", "open", "connect", "socket_release"},
         Serving' => sockfd # 0
  PROVE  FInv'
BY DEF FInv, FdInv, FifoInv, NoOrphan, NoBackendFd

LEMMA SetStreamConfigFStep == IInv /\ FInv /\ SetStreamConfig => FInv'
<1> SUFFICES ASSUME IInv, FInv, SetStreamConfig PROVE FInv'
  OBVIOUS
<1>1. sockfd # 0 /\ UNCHANGED sockfd
  BY DEF FInv, FdInv, SetStreamConfig, Serving, socketVars
<1>2. CASE pc' = "write" /\ UNCHANGED <<fds, audioVars>>
  BY <1>1, <1>2, QuietFStep DEF audioVars, backendVars
<1>3. ASSUME NEW r \in Returns, audio_set_stream_config_close(stream_config, r),
             pc' = IF r < 0 THEN "audio_release" ELSE "open"
      PROVE  FInv'
  <2>1. backend_close(r)
    BY <1>3 DEF audio_set_stream_config_close
  <2>2. /\ NoBackendFd' /\ fd' = fd /\ backend' = backend
        /\ fds'[STDOUT_FILENO] = "std"
        /\ sockfd # 0 => fds'[sockfd] = "socket"
        /\ backend = "pipe" => ~fifo'
    BY <2>1, FdTypes, CloseFds DEF FInv
  <2>3. pc' \in {"audio_release", "open"}
    BY <1>3
  <2> QED BY <1>1, <2>2, <2>3 DEF FInv, FdInv, FifoInv, NoOrphan, NoBackendFd, Serving
<1> QED BY <1>2, <1>3 DEF SetStreamConfig

LEMMA OpenFStep == IInv /\ FInv /\ Open => FInv'
<1> SUFFICES ASSUME IInv, FInv, Open PROVE FInv'
  OBVIOUS
<1>1. PICK r \in Returns :
        /\ backend_open(get_device_config(stream), r)
        /\ pc' = IF r < 0 THEN "audio_release"
                 ELSE IF backend = "pipe" THEN "connect" ELSE "write"
  BY DEF Open, audio_set_stream_config_open
<1>2. sockfd # 0 /\ UNCHANGED sockfd /\ NoBackendFd
  BY DEF FInv, FdInv, Open, Serving, socketVars
<1>3. /\ fds'[STDOUT_FILENO] = "std" /\ backend' = backend
      /\ fd' = STDOUT_FILENO => backend = "stdout"
      /\ sockfd # 0 => fds'[sockfd] = "socket" /\ fd' # sockfd
      /\ NoOrphan'
      /\ backend # "file" => NoBackendFd'
  BY <1>1, <1>2, FdTypes, OpenFds DEF FInv
<1>4. /\ pc' \in {"audio_release", "connect", "write"}
      /\ pc' = "connect" => backend = "pipe"
  BY <1>1
<1> QED BY <1>2, <1>3, <1>4 DEF FInv, FdInv, FifoInv

LEMMA ConnectFStep == IInv /\ FInv /\ Connect => FInv'
<1> SUFFICES ASSUME IInv, FInv, Connect PROVE FInv'
  OBVIOUS
<1>1. /\ NewFd("backend", fd') /\ UNCHANGED <<backend, sockfd>>
      /\ pc' \in {"audio_release", "write"} /\ backend = "pipe"
  BY DEF Connect, audio_set_stream_config_connect, pipe_open_connect, socketVars,
     IInv, CacheInv
<1>2. sockfd # 0 /\ NoBackendFd
  BY DEF FInv, FdInv, Connect, Serving
<1>3. /\ fds'[STDOUT_FILENO] = "std" /\ fd' # STDOUT_FILENO
      /\ sockfd # 0 => fds'[sockfd] = "socket" /\ fd' # sockfd
      /\ NoOrphan'
  BY <1>1, <1>2, FdTypes, NewBackendFd DEF FInv
<1> QED BY <1>1, <1>2, <1>3 DEF FInv, FdInv, FifoInv

LEMMA AudioReleaseFStep == IInv /\ FInv /\ AudioRelease => FInv'
<1> SUFFICES ASSUME IInv, FInv, AudioRelease PROVE FInv'
  OBVIOUS
<1>1. PICK r \in Returns : backend_close(r)
  BY DEF AudioRelease, audio_release
<1>2. pc = "audio_release" /\ pc' = "socket_release" /\ UNCHANGED sockfd
  BY DEF AudioRelease, socketVars
<1>3. /\ NoBackendFd' /\ fd' = fd /\ backend' = backend
      /\ fds'[STDOUT_FILENO] = "std"
      /\ sockfd # 0 => fds'[sockfd] = "socket"
      /\ backend = "pipe" => ~fifo'
  BY <1>1, FdTypes, CloseFds DEF FInv
<1> QED BY <1>2, <1>3 DEF FInv, FdInv, FifoInv, NoOrphan, NoBackendFd, Serving

LEMMA SocketReleaseFStep == IInv /\ FInv /\ SocketRelease => FInv'
<1> SUFFICES ASSUME IInv, FInv, SocketRelease PROVE FInv'
  OBVIOUS
<1>0. fds \in [Fd -> FdKind] /\ STDOUT_FILENO \in Fd /\ fds[STDOUT_FILENO] = "std"
  BY FdTypes DEF FInv, FdInv
<1>1. /\ NoBackendFd /\ pc' = "exited" /\ sockfd' = 0 /\ UNCHANGED <<fd, backend, fifo>>
  BY DEF FInv, FdInv, SocketRelease, socket_close, audioVars, backendVars
<1>2. fds'[STDOUT_FILENO] = "std" /\ NoBackendFd'
  <2>1. CASE sockfd = 0
    BY <1>0, <1>1, <2>1 DEF SocketRelease, socket_close, NoBackendFd
  <2>2. CASE sockfd # 0
    <3>1. \E r \in Returns : CloseFd(sockfd, r)
      BY <2>2 DEF SocketRelease, socket_close
    <3>2. /\ \A g \in Fd : fds'[g] \in {fds[g], "free"}
          /\ \A g \in Fd \ {sockfd} : fds'[g] = fds[g]
      BY <1>0, <3>1, CloseFdEffect
    <3>3. sockfd # STDOUT_FILENO
      BY <1>0, <2>2 DEF FInv, FdInv
    <3> QED BY <1>0, <1>1, <3>2, <3>3 DEF NoBackendFd
  <2> QED BY <2>1, <2>2
<1> QED BY <1>1, <1>2 DEF FInv, FdInv, FifoInv, NoOrphan, NoBackendFd, Serving

LEMMA RestartFStep == IInv /\ FInv /\ Restart => FInv'
<1> SUFFICES ASSUME IInv, FInv, Restart PROVE FInv'
  OBVIOUS
<1>1. PICK stdin \in StdinStates : fds' = InheritedFds(stdin)
  BY DEF Restart
<1>2. fds'[STDOUT_FILENO] = "std" /\ NoBackendFd'
  BY <1>1, InheritedTable DEF NoBackendFd
<1>3. pc' = "socket_init" /\ sockfd' = 0 /\ fd' = 0
  BY DEF Restart, SocketRestart, AudioRestart, AudioBackendRestart
<1> QED
  BY <1>2, <1>3 DEF FInv, FdInv, FifoInv, NoOrphan, NoBackendFd, Serving, STDOUT_FILENO

LEMMA NextFStep == IInv /\ FInv /\ [Next]_vars => FInv'
<1> SUFFICES ASSUME IInv, FInv, [Next]_vars PROVE FInv'
  OBVIOUS
<1>1. CASE AudioInit
  BY <1>1, QuietFStep
     DEF AudioInit, audio_set_map_config, audioVars, backendVars, socketVars, Serving
<1>2. CASE Receive
  BY <1>2, QuietFStep
     DEF Receive, socket_read, socket_is_open, audioVars, backendVars, Serving
<1>3. ASSUME NEW e, ReceiveFails(e) PROVE FInv'
  BY <1>3, QuietFStep DEF ReceiveFails, audioVars, backendVars, socketVars, Serving
<1>4. CASE Write
  BY <1>4, QuietFStep DEF Write, audioVars, backendVars, socketVars, Serving
<1>5. CASE Kill
  BY <1>5, QuietFStep DEF Kill, audioVars, backendVars, socketVars, Serving
<1>6. CASE Network
  <2>1. UNCHANGED <<pc, fds, fd, sockfd, backend, fifo>>
    BY <1>6 DEF Network, Deliver, audioVars, backendVars
  <2> QED BY <2>1 DEF FInv, FdInv, FifoInv, NoOrphan, NoBackendFd, Serving
<1>7. CASE UNCHANGED vars
  <2>1. UNCHANGED <<pc, fds, fd, sockfd, backend, fifo>>
    BY <1>7 DEF vars, audioVars, backendVars, socketVars
  <2> QED BY <2>1 DEF FInv, FdInv, FifoInv, NoOrphan, NoBackendFd, Serving
<1> QED
  BY <1>1, <1>2, <1>3, <1>4, <1>5, <1>6, <1>7, SocketInitFStep, SetStreamConfigFStep,
     OpenFStep, ConnectFStep, AudioReleaseFStep, SocketReleaseFStep, RestartFStep
     DEF Next, Running, ReceiveNotOpen, ReceiveError

-----------------------------------------------------------------------------
(* The descriptor a payload goes to *)

Owned ==
  \/ fd \in Fd /\ fds[fd] = "backend"
  \/ fd = -1 /\ device = NoStream

(* What the cache stands for was opened, and the number is of that open.    *)
OwnInv ==
  pc \in {"read", "config", "write"} /\ stream # NoStream /\ backend \in {"pipe", "file"}
    => Owned

(* The steps that open and close nothing. *)
LEMMA QuietOStep ==
  ASSUME OwnInv, UNCHANGED <<fds, fd, device, stream, backend>>,
         pc' \in {"read", "config", "write"} =>
           pc \in {"read", "config", "write"} \/ stream = NoStream
  PROVE  OwnInv'
BY DEF OwnInv, Owned

LEMMA OpenOStep == IInv /\ Open => OwnInv'
<1> SUFFICES ASSUME IInv, Open PROVE OwnInv'
  OBVIOUS
<1>1. PICK r \in Returns :
        /\ backend_open(get_device_config(stream), r)
        /\ pc' = IF r < 0 THEN "audio_release"
                 ELSE IF backend = "pipe" THEN "connect" ELSE "write"
  BY DEF Open, audio_set_stream_config_open
<1>2. CASE pc' # "write" \/ backend' \notin {"pipe", "file"}
  <2>1. pc' \in {"audio_release", "connect", "write"}
    BY <1>1
  <2> QED BY <1>2, <2>1 DEF OwnInv
<1>3. CASE pc' = "write" /\ backend' \in {"pipe", "file"}
  <2>1. ~(r < 0) /\ backend # "pipe"
    BY <1>1, <1>3
  <2>2. backend' = backend
    BY <1>1 DEF backend_open
  <2>3. file_open(get_device_config(stream), r) /\ backend = "file"
    BY <1>1, <1>3, <2>1, <2>2 DEF backend_open
  <2>4. NewFd("backend", fd') /\ fd' # -1
    BY <2>1, <2>3 DEF file_open
  <2>5. fds \in [Fd -> FdKind] /\ "backend" \in FdKind
    BY FdTypes, FdConstants
  <2>6. /\ fd' \in Free \cup {-1}
        /\ fd' \in Fd => fds'[fd'] = "backend"
    BY <2>4, <2>5, NewFdEffect
  <2>7. Owned'
    BY <2>4, <2>6 DEF Owned, Free
  <2> QED BY <2>7 DEF OwnInv
<1> QED BY <1>2, <1>3

LEMMA ConnectOStep == IInv /\ Connect => OwnInv'
<1> SUFFICES ASSUME IInv, Connect PROVE Owned'
  BY DEF OwnInv
<1>1. /\ NewFd("backend", fd')
      /\ fd' = -1 => device' = NoStream
  BY DEF Connect, audio_set_stream_config_connect, pipe_open_connect
<1>2. fds \in [Fd -> FdKind] /\ "backend" \in FdKind
  BY FdTypes, FdConstants
<1>3. /\ fd' \in Free \cup {-1}
      /\ fd' \in Fd => fds'[fd'] = "backend"
  BY <1>1, <1>2, NewFdEffect
<1> QED BY <1>1, <1>3 DEF Owned, Free

LEMMA NextOStep == IInv /\ OwnInv /\ [Next]_vars => OwnInv'
<1> SUFFICES ASSUME IInv, OwnInv, [Next]_vars PROVE OwnInv'
  OBVIOUS
<1>1. CASE SocketInit \/ AudioRelease \/ SocketRelease \/ Restart
  BY <1>1 DEF SocketInit, AudioRelease, SocketRelease, Restart, OwnInv
<1>2. CASE AudioInit
  <2>1. stream = NoStream
    BY <1>2 DEF AudioInit, IInv, CacheInv
  <2>2. UNCHANGED <<fds, fd, device, stream, backend>>
    BY <1>2 DEF AudioInit, audio_set_map_config, audioVars, backendVars
  <2> QED BY <2>1, <2>2, QuietOStep
<1>3. CASE Receive
  BY <1>3, QuietOStep DEF Receive, audioVars, backendVars
<1>4. ASSUME NEW e, ReceiveFails(e) PROVE OwnInv'
  BY <1>4, QuietOStep DEF ReceiveFails, audioVars, backendVars
<1>5. CASE SetStreamConfig
  <2>1. CASE pc' = "write" /\ UNCHANGED <<fds, audioVars>>
    <3>1. pc = "config"
      BY <1>5 DEF SetStreamConfig
    <3> QED BY <2>1, <3>1, QuietOStep DEF audioVars, backendVars
  <2>2. CASE pc' \in {"audio_release", "open"}
    BY <2>2 DEF OwnInv
  <2> QED BY <1>5, <2>1, <2>2 DEF SetStreamConfig
<1>6. CASE Write
  <2>1. pc = "write" /\ UNCHANGED <<fds, audioVars>>
    BY <1>6 DEF Write
  <2> QED BY <2>1, QuietOStep DEF audioVars, backendVars
<1>7. CASE Kill
  BY <1>7 DEF Kill, OwnInv
<1>8. CASE Network
  BY <1>8, QuietOStep DEF Network, audioVars, backendVars
<1>9. CASE UNCHANGED vars
  BY <1>9, QuietOStep DEF vars, audioVars, backendVars
<1> QED
  BY <1>1, <1>2, <1>3, <1>4, <1>5, <1>6, <1>7, <1>8, <1>9, OpenOStep, ConnectOStep
     DEF Next, Running, ReceiveNotOpen, ReceiveError

-----------------------------------------------------------------------------
(* The theorems *)

(* Every reachable state satisfies the two invariants on descriptors and FIFO. *)
THEOREM FInvariance == Spec => []FInv
<1>1. Init => FInv
  BY InitFInv
<1>2. IInv /\ FInv /\ [Next]_vars => FInv'
  BY NextFStep
<1> QED BY <1>1, <1>2, Invariance, PTL DEF Spec

(* No close of a backend hits the socket a packet came from, whatever       *)
(* numbers the process inherited, opened and closed before.                 *)
THEOREM SocketKeptHolds == Spec => []SocketKept
<1>1. FInv => SocketKept
  BY DEF FInv, FdInv, SocketKept
<1> QED BY <1>1, FInvariance, PTL

(* Changes of format and failures of open and close leak no descriptor.     *)
THEOREM NoOrphanHolds == Spec => []NoOrphan
<1>1. FInv => NoOrphan
  BY DEF FInv, FdInv
<1> QED BY <1>1, FInvariance, PTL

(* mkfifo never meets the FIFO of a killed run.                             *)
THEOREM FifoFreshHolds == Spec => []FifoFresh
<1>1. FInv => FifoFresh
  BY DEF FInv, FifoInv, FifoFresh
<1> QED BY <1>1, FInvariance, PTL

(* After audio_release no descriptor and no FIFO of the backend is left.    *)
THEOREM ReleasedCleanHolds == Spec => []ReleasedClean
<1>1. FInv => ReleasedClean
  BY DEF FInv, FdInv, FifoInv, NoBackendFd, ReleasedClean
<1> QED BY <1>1, FInvariance, PTL

(* A payload goes to the descriptor the backend opened for it or, after a   *)
(* failed open of the FIFO, to none: never to the socket, nor to standard   *)
(* output, whatever numbers were given away again since.                    *)
THEOREM WritesToItsOwnHolds == Spec => []WritesToItsOwn
<1>1. Init => OwnInv
  BY DEF Init, OwnInv
<1>2. IInv /\ OwnInv /\ [Next]_vars => OwnInv'
  BY NextOStep
<1>3. IInv /\ OwnInv => WritesToItsOwn
  <2> SUFFICES ASSUME IInv, OwnInv, pc = "write", backend \in {"pipe", "file"}
               PROVE  Owned
    BY DEF WritesToItsOwn, Owned
  <2>1. stream = stream_config /\ Accepted(buffer, size)
    BY DEF IInv, CacheInv, Serving
  <2>2. buffer \in Datagrams /\ size \in Int
    BY DEF IInv, TypeInv, TypeOK, SocketTypeOK, ENODEV, VBAN_PROTOCOL_MAX_SIZE
  <2>3. stream # NoStream
    BY <2>1, <2>2, AcceptedPlayable, PlayableNotEmpty DEF stream_config
  <2> QED BY <2>3 DEF OwnInv
<1> QED BY <1>1, <1>2, <1>3, Invariance, PTL DEF Spec

=============================================================================
