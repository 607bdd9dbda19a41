------------------------------ MODULE Receptor ------------------------------
(***************************************************************************)
(* vban_receptor (src/src/receptor/main.c): one thread that receives a     *)
(* datagram, checks it, makes sure the audio device plays in its format    *)
(* and writes its payload.  The process may be killed at any moment - the  *)
(* signal handler of the file is never installed - and started again.      *)
(***************************************************************************)
EXTENDS Packet, Audio, SocketIn

CONSTANTS StreamName,       \* option -s
          StdinStates       \* how descriptor 0 may be inherited: "std", "free"

ASSUME ReceptorAssumption == StdinStates \subseteq {"std", "free"}

VARIABLES pc,               \* where main() is
          size,             \* what socket_read returned
          ret               \* main's ret

vars == <<pc, size, ret, fds, audioVars, socketVars>>

Locations == {"socket_init", "audio_init", "read", "config", "open", "connect",
              "write", "audio_release", "socket_release", "exited"}

stream_config == packet_get_stream_config(buffer.hdr)
payload == PACKET_PAYLOAD_SIZE(size)

(* The memset, calloc and exec state of a new process. *)
Init ==
  /\ pc = "socket_init" /\ size = 0 /\ ret = 0
  /\ SocketInitial /\ rcvq = <<>> /\ AudioInitial
  /\ \E stdin \in StdinStates : fds = InheritedFds(stdin)
  /\ buffer \in Datagrams /\ fifo = FALSE

-----------------------------------------------------------------------------
(* main(), from one call that can block or fail to the next. *)

(* socket_init; any value but 0 ends main. *)
SocketInit ==
  /\ pc = "socket_init"
  /\ \E r \in Returns : socket_open(r) /\ ret' = r
  /\ pc' = IF ret' # 0 THEN "exited" ELSE "audio_init"
  /\ UNCHANGED <<size, rcvq, buffer, audioVars>>

(* audio_init, which fails without memory or for an unknown backend, and    *)
(* audio_set_map_config.                                                    *)
AudioInit ==
  /\ pc = "audio_init"
  /\ \/ /\ \E nb \in MapNbs : audio_set_map_config(nb)
        /\ ret' = 0 /\ pc' = "read"
     \/ ret' = -1 /\ pc' = "exited" /\ UNCHANGED <<fds, audioVars>>
  /\ UNCHANGED <<size, socketVars>>

(* socket_read and packet_check *)
Receive ==
  /\ pc = "read" /\ socket_is_open
  /\ socket_read
  /\ IF ~ socket_from_peer(buffer')
     THEN UNCHANGED <<pc, size>>
     ELSE /\ size' = socket_read_size(buffer')
          /\ pc' = IF packet_check(StreamName, buffer'.hdr, size') = 0
                   THEN "config" ELSE "read"
  /\ UNCHANGED <<ret, fds, audioVars>>

(* socket_read fails, on the null descriptor or in recvfrom; main stops. *)
ReceiveFails(error) ==
  /\ pc = "read"
  /\ size' = error
  /\ pc' = "audio_release"
  /\ UNCHANGED <<ret, fds, audioVars, socketVars>>

ReceiveNotOpen == ~ socket_is_open /\ ReceiveFails(-ENODEV)
ReceiveError   == socket_is_open /\ ReceiveFails(-1)

(* audio_set_stream_config: nothing to do, or close the device. *)
SetStreamConfig ==
  /\ pc = "config"
  /\ \/ /\ audio_config_unchanged(stream_config)
        /\ ret' = 0 /\ pc' = "write"
        /\ UNCHANGED <<fds, audioVars>>
     \/ /\ ~ audio_config_unchanged(stream_config)
        /\ \E r \in Returns :
             /\ audio_set_stream_config_close(stream_config, r)
             /\ ret' = r
             /\ pc' = IF r < 0 THEN "audio_release" ELSE "open"
  /\ UNCHANGED <<size, socketVars>>

(* audio_set_stream_config: open the device. *)
Open ==
  /\ pc = "open"
  /\ \E r \in Returns :
       /\ audio_set_stream_config_open(r)
       /\ ret' = r
       /\ pc' = IF r < 0 THEN "audio_release"
                ELSE IF backend = "pipe" THEN "connect" ELSE "write"
  /\ UNCHANGED <<size, socketVars>>

(* The open of the FIFO returns, at the earliest when a reader opens it. *)
Connect ==
  /\ pc = "connect"
  /\ \E r \in Returns :
       /\ audio_set_stream_config_connect(r)
       /\ ret' = r
       /\ pc' = IF r < 0 THEN "audio_release" ELSE "write"
  /\ UNCHANGED <<size, socketVars>>

(* Faulty variant: a short write is tried again, whole. *)
WriteRetry ==
  /\ pc = "write"
  /\ ret' \in audio_write(payload)
  /\ pc' = IF ret' # payload THEN "write" ELSE "read"
  /\ UNCHANGED <<size, fds, audioVars, socketVars>>

(* audio_write.  The test for a negative value stands in the else branch of *)
(* a test it never fails, so every result goes back to socket_read.         *)
Write ==
  /\ pc = "write"
  /\ ret' \in audio_write(payload)
  /\ pc' = IF ret' # payload THEN "read"
           ELSE IF ret' < 0 THEN "audio_release" ELSE "read"
  /\ UNCHANGED <<size, fds, audioVars, socketVars>>

(* audio_release, whose result is not looked at. *)
AudioRelease ==
  /\ pc = "audio_release"
  /\ \E r \in Returns : audio_release(r)
  /\ pc' = "socket_release"
  /\ UNCHANGED <<size, ret, socketVars>>

SocketRelease ==
  /\ pc = "socket_release"
  /\ \E r \in Returns : socket_close(r)
  /\ pc' = "exited" /\ ret' = 0
  /\ rcvq' = <<>>
  /\ UNCHANGED <<size, buffer, audioVars>>

-----------------------------------------------------------------------------
(* The environment *)

Network ==
  /\ pc # "exited"
  /\ \E d \in Datagrams : Deliver(d)
  /\ UNCHANGED <<pc, size, ret, fds, audioVars>>

(* SIGINT, SIGTERM, or SIGPIPE from a FIFO whose reader left: the process   *)
(* ends where it stands; the FIFO is a file and stays.                      *)
Kill ==
  /\ pc # "exited"
  /\ pc' = "exited"
  /\ UNCHANGED <<size, ret, fds, audioVars, socketVars>>

(* Started again: everything but the FIFO and the bytes of the old buffer,  *)
(* which nothing reads before the next socket_read, is as at the beginning. *)
Restart ==
  /\ pc = "exited"
  /\ pc' = "socket_init" /\ size' = 0 /\ ret' = 0
  /\ SocketRestart /\ rcvq' = <<>> /\ AudioRestart
  /\ \E stdin \in StdinStates : fds' = InheritedFds(stdin)
  /\ UNCHANGED <<buffer, fifo>>

(* The steps of main(), but for the one a reader of the FIFO is needed for. *)
Running ==
  \/ SocketInit \/ AudioInit \/ Receive \/ ReceiveNotOpen \/ SetStreamConfig
  \/ Open \/ Write \/ AudioRelease \/ SocketRelease

Next == Running \/ Connect \/ ReceiveError \/ Network \/ Kill \/ Restart

(* Where main() may stand for ever: the open of a FIFO nobody opens to      *)
(* read, and write(2) to a FIFO, a pipe or a terminal whose reader is there *)
(* and does not read.  A descriptor of -1 fails at once.                    *)
WaitsForReader ==
  \/ pc = "connect"
  \/ pc = "write" /\ backend \in {"pipe", "file", "stdout"} /\ device # NoStream

(* The other steps come, as long as the process lives: recvfrom returns     *)
(* once a datagram is queued, and ALSA's and PulseAudio's write once the    *)
(* device has played.  Nobody promises a reader, a datagram, an error of    *)
(* recvfrom, a signal or a restart.                                         *)
Unhindered == ~ WaitsForReader /\ Running

Spec == Init /\ [][Next]_vars /\ WF_vars(Unhindered)

-----------------------------------------------------------------------------
(* Properties *)

TypeOK ==
  /\ pc \in Locations
  /\ size \in -ENODEV .. VBAN_PROTOCOL_MAX_SIZE
  /\ ret \in Int
  /\ AudioTypeOK /\ SocketTypeOK

Serving == pc \in {"config", "open", "connect", "write"}

(* A payload is only ever written to a device that plays in the format of  *)
(* the packet it came in, after whatever sequence of format changes, open  *)
(* failures and restarts: the comparison of audio_set_stream_config and    *)
(* the cache it compares with see every difference that matters.           *)
FormatAgreement ==
  pc = "write" => /\ stream = stream_config
                  /\ device \in {NoStream, get_device_config(stream_config)}

(* With the alsa and file backends the cached configuration is that of an  *)
(* open device: audio_set_stream_config never skips the open of a device   *)
(* whose last open failed.                                                 *)
CacheCoherent ==
  /\ pc \in {"read", "write"} /\ stream # NoStream
  /\ backend \in {"alsa", "file", "stdout"}
  => device = get_device_config(stream)

(* What reaches audio_write is at least one frame, whole frames, and stays *)
(* whole after the channel map: alsa_write and audio_map_channels divide   *)
(* by frame sizes that depend on an unchecked table entry of size 0.       *)
WholeFrames ==
  pc = "write" =>
    LET frame == FrameSize(get_device_config(stream)) IN
    /\ frame > 0
    /\ payload > 0 /\ payload % FrameSize(stream) = 0
    /\ AUDIO_MAP_OUTPUT_SIZE(payload) % frame = 0

(* A datagram that recvfrom cut to the buffer is never taken for a packet, *)
(* although socket_read does not report the cut: no payload has exactly    *)
(* VBAN_DATA_MAX_SIZE bytes.                                               *)
NeverTruncated == Serving => size = buffer.len

(* While a packet is served the socket's descriptor is the socket: no      *)
(* close of a backend, on a descriptor kept from an earlier open or never  *)
(* opened, hits it.                                                        *)
SocketKept == Serving => fds[sockfd] = "socket"

(* Every descriptor a backend opened is the one it would close next, so    *)
(* changes of format and failed opens leak none.                           *)
NoOrphan == \A f \in Fd : fds[f] = "backend" => f = fd

(* With the pipe and file backends a payload goes to the descriptor the    *)
(* backend opened, or to none: after a failed open of the FIFO, which      *)
(* pipe_open reports as a success, the number is not that of an earlier    *)
(* device, which the socket or standard output may have by now.            *)
WritesToItsOwn ==
  pc = "write" /\ backend \in {"pipe", "file"} =>
    \/ fd \in Fd /\ fds[fd] = "backend"
    \/ fd = -1 /\ device = NoStream

(* mkfifo never finds the FIFO of an earlier run that was killed: the      *)
(* close in front of the first open has removed it.                        *)
FifoFresh == pc = "open" /\ backend = "pipe" => ~fifo

(* After audio_release nothing of the backend is left, whichever step      *)
(* failed before.                                                          *)
ReleasedClean ==
  pc = "socket_release" =>
    /\ \A f \in Fd : fds[f] # "backend"
    /\ backend = "pipe" => ~fifo

(* audio.h: audio_write returns the size written, a negative value on an   *)
(* error: a complete write of the mapped payload is reported as the size   *)
(* of the payload, and an error of the backend as an error.                *)
WriteReported ==
  pc = "write" /\ device # NoStream =>
    LET out == AUDIO_MAP_OUTPUT_SIZE(payload) IN
    /\ AUDIO_MAP_REVERSE_INPUT_SIZE(out) = payload
    /\ \A n \in backend_write(out) : n < 0 => AUDIO_MAP_REVERSE_INPUT_SIZE(n) < 0

(* If every wait for a reader ends, every packet of the stream that the    *)
(* socket has queued is written in the end, unless the process ends:       *)
(* neither other datagrams nor failures in between make main pass it over. *)
Acceptable(d) ==
  socket_from_peer(d) /\ packet_check(StreamName, d.hdr, socket_read_size(d)) = 0

Served ==
  []<>(~ WaitsForReader) =>
    \A d \in Datagrams : Acceptable(d) =>
      ((\E i \in DOMAIN rcvq : rcvq[i] = d)
         ~> (pc = "write" /\ buffer = d) \/ pc = "exited")

-----------------------------------------------------------------------------
(* What comments and documentation say and the code does not do. *)

(* audio.h:101, audio_set_stream_config returns "0 upon success, negative  *)
(* value otherwise": past a result that is not negative a device is open.  *)
OpenReported == pc = "write" => device # NoStream

(* main.c:263: a negative result of audio_write stops the receptor.        *)
WriteErrorStops == pc = "read" => ret >= 0
=============================================================================
