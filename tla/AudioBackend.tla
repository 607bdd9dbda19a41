---------------------------- MODULE AudioBackend ----------------------------
(***************************************************************************)
(* The playback side of the synchronous backends of                        *)
(* src/src/common/backend: alsa, pulseaudio, pipe and file, behind the     *)
(* dispatch table of audio_backend.h (jack has threads and a module of its *)
(* own).  An operation is an action with its return value r as last        *)
(* parameter; each backend's state is its descriptor or library handle.    *)
(***************************************************************************)
EXTENDS Vban, Descriptors

CONSTANT Backends           \* what options -b and -d may choose

(* "file" is the file backend with a file name, "stdout" without one. *)
ASSUME BackendAssumption ==
  Backends \subseteq {"alsa", "pulseaudio", "pipe", "file", "stdout"}

VARIABLES
  backend,    \* the entry of the backend list that -b selected
  fd,         \* pipe_backend_t.fd, file_backend_t.fd: 0 after calloc
  handle,     \* whether alsa_handle, pulseaudio_handle is not null
  device,     \* the configuration the device plays in, NoStream if not open
  fifo        \* whether FIFO_FILENAME exists in the file system

backendVars == <<backend, fd, handle, device, fifo>>

Returns == {-1, 0, 1}

(* The state audio_backend_get_by_name leaves: calloc'd, nothing opened. *)
AudioBackendInitial ==
  backend \in Backends /\ fd = 0 /\ handle = FALSE /\ device = NoStream
AudioBackendRestart ==
  backend' \in Backends /\ fd' = 0 /\ handle' = FALSE /\ device' = NoStream

-----------------------------------------------------------------------------
(* open.  A negative r is -errno or an alsa error; PulseAudio's error codes *)
(* are positive.                                                            *)

(* Faulty variant: the error of the failing call is lost to that of the    *)
(* alsa_close that cleans up.                                              *)
alsa_open_lost_error(config, r) ==
  /\ handle' \in BOOLEAN
  /\ r = 0
  /\ device' = IF handle' THEN config ELSE NoStream
  /\ UNCHANGED <<fds, fd, fifo>>

alsa_open(config, r) ==
  /\ handle' \in BOOLEAN
  /\ r = IF handle' THEN 0 ELSE -1
  /\ device' = IF handle' THEN config ELSE NoStream
  /\ UNCHANGED <<fds, fd, fifo>>

pulseaudio_open(config, r) ==
  /\ handle' \in BOOLEAN
  /\ r = IF handle' THEN 0 ELSE 1
  /\ device' = IF handle' THEN config ELSE NoStream
  /\ UNCHANGED <<fds, fd, fifo>>

file_open(config, r) ==
  /\ IF backend = "file"
     THEN NewFd("backend", fd')
     ELSE fd' = STDOUT_FILENO /\ UNCHANGED fds
  /\ r = IF fd' = -1 THEN -1 ELSE 0
  /\ device' = IF fd' = -1 THEN NoStream ELSE config
  /\ UNCHANGED <<handle, fifo>>

(* pipe_open up to its second system call.  mkfifo refuses an existing name *)
(* and may fail for other reasons.                                          *)
pipe_open_mkfifo(r) ==
  /\ \/ r = -1 /\ fd' = 0 /\ UNCHANGED fifo
     \/ r = 0 /\ ~fifo /\ fifo' = TRUE /\ UNCHANGED fd
  /\ UNCHANGED <<fds, handle, device>>

(* Faulty variant: the new number is kept only if it is one. *)
pipe_open_connect_keeps_fd(config, r) ==
  /\ \E f \in Fd \cup {-1} :
       /\ NewFd("backend", f)
       /\ fd' = IF f = -1 THEN fd ELSE f
       /\ device' = IF f = -1 THEN NoStream ELSE config
  /\ r = 0
  /\ UNCHANGED <<handle, fifo>>

(* The open of a FIFO for writing, which waits for a reader.  When it fails *)
(* pipe_open returns ret, still the 0 of the mkfifo.                        *)
pipe_open_connect(config, r) ==
  /\ NewFd("backend", fd')
  /\ r = 0
  /\ device' = IF fd' = -1 THEN NoStream ELSE config
  /\ UNCHANGED <<handle, fifo>>

-----------------------------------------------------------------------------
(* close *)

(* alsa_close and pulseaudio_close: nothing to do without a handle. *)
library_close(r) ==
  /\ IF handle
     THEN IF backend = "alsa" THEN r \in {0, -1} ELSE r = 0
     ELSE r = 0
  /\ handle' = FALSE /\ device' = NoStream
  /\ UNCHANGED <<fds, fd, fifo>>

file_close(r) ==
  /\ IF fd # STDOUT_FILENO THEN CloseFd(fd, r) ELSE r = 0 /\ UNCHANGED fds
  /\ device' = NoStream
  /\ UNCHANGED <<fd, handle, fifo>>

(* Faulty variants of pipe_close: the FIFO is left when nothing was opened, *)
(* or when the close fails.                                                 *)
pipe_close_if_open(r) ==
  /\ IF fd = 0 THEN r = 0 /\ UNCHANGED <<fds, fifo>> ELSE CloseFd(fd, r) /\ fifo' = FALSE
  /\ device' = NoStream
  /\ UNCHANGED <<fd, handle>>

pipe_close_error_first(r) ==
  /\ CloseFd(fd, r)
  /\ fifo' = (fifo /\ r < 0)
  /\ device' = NoStream
  /\ UNCHANGED <<fd, handle>>

pipe_close(r) ==
  /\ CloseFd(fd, r)
  /\ fifo' = FALSE
  /\ device' = NoStream
  /\ UNCHANGED <<fd, handle>>

-----------------------------------------------------------------------------
(* write: the values the call may return for size bytes.  A blocking alsa  *)
(* write is short or fails on an xrun, of which a successful recovery      *)
(* returns 0; write(2) may be short by any number of bytes.                *)
alsa_write(size) ==
  IF ~handle THEN {-ENODEV}
  ELSE {frames * FrameSize(device) : frames \in {-1, 0, 1, size \div FrameSize(device)}}

pulseaudio_write(size) == IF ~handle THEN {-ENODEV} ELSE {-1, size}

fd_write(size) == IF fd \in Fd \ Free THEN {-1, 1, size} ELSE {-1}

-----------------------------------------------------------------------------
(* The dispatch table.  pipe_open is two steps, the others one. *)
backend_open(config, r) ==
  /\ \/ backend = "alsa"       /\ alsa_open(config, r)
     \/ backend = "pulseaudio" /\ pulseaudio_open(config, r)
     \/ backend \in {"file", "stdout"} /\ file_open(config, r)
     \/ backend = "pipe"       /\ pipe_open_mkfifo(r)
  /\ UNCHANGED backend

backend_close(r) ==
  /\ \/ backend \in {"alsa", "pulseaudio"} /\ library_close(r)
     \/ backend \in {"file", "stdout"} /\ file_close(r)
     \/ backend = "pipe" /\ pipe_close(r)
  /\ UNCHANGED backend

backend_write(size) ==
  CASE backend = "alsa"       -> alsa_write(size)
    [] backend = "pulseaudio" -> pulseaudio_write(size)
    [] OTHER                  -> fd_write(size)

AudioBackendTypeOK ==
  /\ fds \in [Fd -> FdKind]
  /\ backend \in Backends
  /\ fd \in Fd \cup {-1}
  /\ handle \in BOOLEAN
  /\ device \in StreamConfig
  /\ fifo \in BOOLEAN
=============================================================================
