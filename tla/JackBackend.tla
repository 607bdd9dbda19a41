----------------------------- MODULE JackBackend -----------------------------
(***************************************************************************)
(* src/src/common/backend/jack_backend.c.  Three threads share struct      *)
(* jack_backend_t without a lock:                                          *)
(*   main      the receptor's thread: jack_open, jack_write, jack_close;   *)
(*   rt        JACK's realtime thread: jack_process_cb, once per period;   *)
(*   shutdown  JACK's notification that the server went away, which        *)
(*             jack_shutdown_cb answers by calling jack_close itself.      *)
(* Sizes are in bytes, as in the code.  The ring buffer's content is the   *)
(* silence jack_open puts in front, then packets; what matters of it is    *)
(* how long each part is and at which byte of a frame the audio stands.    *)
(***************************************************************************)
EXTENDS Vban

CONSTANTS
  Configs,          \* the device configurations the audio layer may ask for
  Quality,          \* option -q
  Period,           \* jack_get_buffer_size: frames per process callback
  PacketFrames,     \* the frames one packet may carry
  ServerMayDie      \* whether the JACK server can go away

ASSUME JackAssumption ==
  /\ Configs \subseteq [nb_channels : 1 .. VBAN_CHANNELS_MAX_NB,
                        sample_rate : Nat, bit_fmt : 0 .. 5]
  /\ Quality \in Nat
  /\ Period \in 1 .. 2^18     \* the sizes in jack_open fit an int; JACK's end at 8192
  /\ PacketFrames \subseteq 1 .. VBAN_SAMPLES_MAX_NB
  /\ ServerMayDie \in BOOLEAN

VARIABLES
  (* struct jack_backend_t *)
  jack_client,      \* whether the pointer is not null
  config,           \* nb_channels and bit_fmt, and the rate that goes with them
  ports,            \* how many entries of ports[] are not null
  active,
  ring_buffer,      \* what the pointer points to: "null", "live" or "freed"
  (* the ring buffer *)
  ring_size, silence, audio,
  phase,            \* audio bytes already played, modulo the size of a frame
  (* JACK *)
  server,           \* the client as the server sees it
  buffers,          \* ports of which jack_process_cb got a buffer
  out,              \* what the last period played, a record of lengths
  (* the threads *)
  pc,
  request,          \* main: the configuration being opened
  packet,           \* main: size of the packet being written
  after             \* main: what follows jack_close

ringVars == <<ring_size, silence, audio, phase>>
structVars == <<jack_client, config, ports, active, ring_buffer>>
jackVars == <<server, buffers, out>>
mainVars == <<request, packet, after>>
vars == <<structVars, ringVars, jackVars, mainVars, pc>>

Thread == {"main", "rt", "shutdown"}
Frame  == FrameSize(config)
Need   == Period * Frame                    \* bytes jack_process_cb reads
Silent == [silence |-> 0, audio |-> 0, phase |-> 0]

NB_BUFFERS == 2

(* computeSize of receptor/main.c *)
computeSize(quality) ==
  LET nnn == IF quality <= 4 THEN 512 * 2^quality * 3 ELSE 0 IN
  IF nnn < VBAN_PROTOCOL_MAX_SIZE THEN VBAN_PROTOCOL_MAX_SIZE ELSE nnn

(* What jack_ringbuffer_create allocates for a size: a power of two, of     *)
(* which one byte stays unused.                                             *)
PowersOfTwo == {2^k : k \in 1 .. 30}
jack_ringbuffer_create(bytes) ==
  CHOOSE n \in PowersOfTwo :
    n >= bytes /\ \A m \in PowersOfTwo : m >= bytes => n <= m

jack_ringbuffer_read_space  == silence + audio
jack_ringbuffer_write_space == ring_size - 1 - jack_ringbuffer_read_space

Goto(t, location) == pc' = [pc EXCEPT ![t] = location]
At(t, location)   == pc[t] = location

Init ==
  /\ jack_client = FALSE /\ config = NoStream /\ ports = 0 /\ active = FALSE
  /\ ring_buffer = "null" /\ ring_size = 0 /\ silence = 0 /\ audio = 0 /\ phase = 0
  /\ server = "closed" /\ buffers = 0 /\ out = Silent
  /\ request = NoStream /\ packet = 0 /\ after = "open"
  /\ pc = [main |-> "close", rt |-> "idle", shutdown |-> "idle"]

Crash ==
  /\ pc' = [t \in Thread |-> "crashed"]
  /\ UNCHANGED <<structVars, ringVars, jackVars, mainVars>>

-----------------------------------------------------------------------------
(* jack_open, for main *)

(* Faulty variant: main exits without the release. *)
OpenReturnsNoRelease(r) ==
  IF r < 0 THEN Goto("main", "exited") /\ UNCHANGED after
           ELSE Goto("main", "loop") /\ UNCHANGED after

(* A negative result of jack_open makes main release the device and stop;   *)
(* any other lets it go on to write.                                        *)
OpenReturns(r) ==
  IF r < 0 THEN Goto("main", "close") /\ after' = "exit"
           ELSE Goto("main", "loop") /\ UNCHANGED after

(* The client pointer is null here: audio_set_stream_config has closed. *)
ClientOpen ==
  /\ At("main", "client_open") /\ server = "closed"
  /\ jack_client' \in BOOLEAN
  /\ IF jack_client'
     THEN server' = "open" /\ Goto("main", "create") /\ UNCHANGED after
     ELSE UNCHANGED server /\ OpenReturns(-ENODEV)
  /\ UNCHANGED <<config, ports, active, ring_buffer, ringVars, buffers, out, request, packet>>

(* Faulty variant: no room for a second buffer. *)
jack_buffer_size_single(old_nb_channels, new) ==
  LET jack_size == Period * old_nb_channels * VBanBitResolutionSize[new.bit_fmt]
      wanted == computeSize(Quality)
  IN IF wanted > jack_size THEN wanted ELSE jack_size

(* Faulty variant: the byte a ring buffer cannot use is added before the   *)
(* doubling.                                                                *)
jack_buffer_size_spare_byte(old_nb_channels, new) ==
  LET jack_size == Period * old_nb_channels * VBanBitResolutionSize[new.bit_fmt]
      wanted == computeSize(Quality)
  IN ((IF wanted > jack_size THEN wanted ELSE jack_size) + 1) * NB_BUFFERS

(* The argument of jack_ringbuffer_create.  The number of channels is that *)
(* of the previous stream, 0 at first.                                      *)
jack_buffer_size(old_nb_channels, new) ==
  LET jack_size == Period * old_nb_channels * VBanBitResolutionSize[new.bit_fmt]
      wanted == computeSize(Quality)
  IN (IF wanted > jack_size THEN wanted ELSE jack_size) * NB_BUFFERS

(* The ring buffer, its silence and the callbacks. *)
CreateRing ==
  /\ At("main", "create")
  /\ LET size == jack_buffer_size(config.nb_channels, request) IN
       /\ ring_size' = jack_ringbuffer_create(size)
       /\ silence' = size \div NB_BUFFERS
  /\ config' = request
  /\ ring_buffer' = "live" /\ audio' = 0 /\ phase' = 0
  /\ \/ Goto("main", "activate") /\ UNCHANGED after
     \/ Goto("main", "close") /\ after' = "failed"     \* jack_set_process_callback
  /\ out' = Silent
  /\ UNCHANGED <<jack_client, ports, active, server, buffers, request, packet>>

(* jack_start.  When jack_activate fails jack_open just returns its error.  *)
Activate ==
  /\ At("main", "activate")
  /\ \/ /\ server = "open"
        /\ server' = "active" /\ Goto("main", "register") /\ UNCHANGED after
     \/ \E r \in {-1, 1} : OpenReturns(r) /\ UNCHANGED server
  /\ UNCHANGED <<structVars, ringVars, buffers, out, request, packet>>

RegisterPort ==
  /\ At("main", "register") /\ ports # config.nb_channels
  /\ \/ server = "active" /\ ports' = ports + 1 /\ UNCHANGED <<pc, after>>
     \/ Goto("main", "close") /\ after' = "failed" /\ UNCHANGED ports
  /\ UNCHANGED <<jack_client, config, active, ring_buffer, ringVars, jackVars, request, packet>>

(* jack_start returns the result of the last jack_connect, 0 without any. *)
Connect ==
  /\ At("main", "register") /\ ports = config.nb_channels
  /\ \E r \in {-1, 0, 1} : OpenReturns(r)
  /\ UNCHANGED <<structVars, ringVars, jackVars, request, packet>>

-----------------------------------------------------------------------------
(* jack_write, for main *)

WriteBegin ==
  /\ At("main", "loop")
  /\ \E frames \in PacketFrames : packet' = frames * Frame
  /\ Goto("main", IF jack_client /\ active THEN "write_space" ELSE "loop")
  /\ UNCHANGED <<structVars, ringVars, jackVars, request, after>>

write_is_short == jack_ringbuffer_write_space < packet

WriteSpace ==
  /\ At("main", "write_space")
  /\ Goto("main", IF write_is_short THEN "loop" ELSE "write_ring")
  /\ UNCHANGED <<structVars, ringVars, jackVars, mainVars>>

(* jack_ringbuffer_write stores what fits.  *)
WriteRing ==
  /\ At("main", "write_ring")
  /\ audio' = audio + (IF packet <= jack_ringbuffer_write_space
                       THEN packet ELSE jack_ringbuffer_write_space)
  /\ Goto("main", "loop")
  /\ UNCHANGED <<structVars, ring_size, silence, phase, jackVars, mainVars>>

(* jack_write on a ring buffer that the shutdown callback has freed: the    *)
(* freed memory is read and written, or the process dies.                   *)
WriteCrash ==
  pc["main"] \in {"write_space", "write_ring"} /\ ring_buffer = "freed" /\ Crash

-----------------------------------------------------------------------------
(* jack_process_cb, for rt.  JACK calls it once per period while the client *)
(* is active.                                                               *)

CallbackBegin ==
  /\ At("rt", "idle") /\ server = "active"
  /\ active' = TRUE
  /\ buffers' = ports
  /\ Goto("rt", "vector")
  /\ UNCHANGED <<jack_client, config, ports, ring_buffer, ringVars, server, out, mainVars>>

(* Faulty variant: whatever is there is played. *)
CallbackVectorUnchecked ==
  /\ At("rt", "vector")
  /\ Goto("rt", IF jack_ringbuffer_read_space = 0 THEN "idle" ELSE "convert")
  /\ UNCHANGED <<structVars, ringVars, jackVars, mainVars>>

CallbackVector ==
  /\ At("rt", "vector")
  /\ Goto("rt", IF jack_ringbuffer_read_space < Need THEN "idle" ELSE "convert")
  /\ UNCHANGED <<structVars, ringVars, jackVars, mainVars>>

(* The conversion loop, into the buffers of all channels, and the advance.  *)
(* Without a buffer for each channel it writes through a null pointer.      *)
CallbackConvert ==
  /\ At("rt", "convert") /\ buffers = config.nb_channels
  /\ LET quiet == IF silence < Need THEN silence ELSE Need IN
       /\ out' = [silence |-> quiet, audio |-> Need - quiet, phase |-> phase]
       /\ silence' = silence - quiet
       /\ audio' = audio - (Need - quiet)
       /\ phase' = (phase + Need - quiet) % Frame
  /\ Goto("rt", "idle")
  /\ UNCHANGED <<structVars, ring_size, server, buffers, mainVars>>

CallbackCrash ==
  /\ At("rt", "convert") /\ buffers # config.nb_channels
  /\ Crash

-----------------------------------------------------------------------------
(* jack_close, for main or shutdown *)

(* Where a thread goes when jack_close returns. *)
CloseReturns(t) ==
  IF t = "shutdown" THEN Goto(t, "idle") /\ UNCHANGED <<after, request>>
  ELSE \/ after = "open" /\ Goto(t, "client_open") /\ request' \in Configs /\ UNCHANGED after
       \/ after = "failed" /\ Goto(t, "close") /\ after' = "exit" /\ UNCHANGED request
       \/ after = "exit" /\ Goto(t, "exited") /\ UNCHANGED <<after, request>>

CloseNothing(t) ==
  /\ At(t, "close") /\ ~jack_client
  /\ CloseReturns(t)
  /\ UNCHANGED <<structVars, ringVars, jackVars, packet>>

CloseBegin(t) ==
  /\ At(t, "close") /\ jack_client
  /\ active' = FALSE
  /\ Goto(t, "deactivate")
  /\ UNCHANGED <<jack_client, config, ports, ring_buffer, ringVars, jackVars, mainVars>>

(* Faulty variant: the ring buffer is freed between deactivate and close. *)
CloseDeactivateAndFree(t) ==
  /\ At(t, "deactivate")
  /\ server' = IF server = "active" THEN "open" ELSE server
  /\ ring_buffer' = "freed"
  /\ Goto(t, "client_close")
  /\ UNCHANGED <<jack_client, config, ports, active, ringVars, buffers, out, mainVars>>

(* jack_deactivate; its errors are only logged.  A callback in progress may *)
(* still be running when it returns.                                        *)
CloseDeactivate(t) ==
  /\ At(t, "deactivate")
  /\ server' = IF server = "active" THEN "open" ELSE server
  /\ Goto(t, "client_close")
  /\ UNCHANGED <<structVars, ringVars, buffers, out, mainVars>>

(* jack_client_close returns after JACK's own threads have ended: it waits  *)
(* for a process callback and, unless that is the caller, for a shutdown    *)
(* callback.                                                                *)
CloseClient(t) ==
  /\ At(t, "client_close") /\ At("rt", "idle")
  /\ t = "main" => At("shutdown", "idle")
  /\ server' = "closed"
  /\ Goto(t, "free")
  /\ UNCHANGED <<structVars, ringVars, buffers, out, mainVars>>

(* A ring buffer freed twice aborts the process. *)
CloseFreeTwice(t) == At(t, "free") /\ ring_buffer = "freed" /\ Crash

CloseFree(t) ==
  /\ At(t, "free") /\ ring_buffer # "freed"
  /\ ring_buffer' = IF ring_buffer = "null" THEN "null" ELSE "freed"
  /\ Goto(t, "forget")
  /\ UNCHANGED <<jack_client, config, ports, active, ringVars, jackVars, mainVars>>

(* Faulty variant: the ports are not forgotten. *)
CloseForgetKeepsPorts(t) ==
  /\ At(t, "forget")
  /\ jack_client' = FALSE
  /\ CloseReturns(t)
  /\ UNCHANGED <<config, ports, active, ring_buffer, ringVars, jackVars, packet>>

CloseForget(t) ==
  /\ At(t, "forget")
  /\ jack_client' = FALSE /\ ports' = 0
  /\ CloseReturns(t)
  /\ UNCHANGED <<config, active, ring_buffer, ringVars, jackVars, packet>>

jack_close(t) ==
  \/ CloseNothing(t) \/ CloseBegin(t) \/ CloseDeactivate(t)
  \/ CloseClient(t) \/ CloseFree(t) \/ CloseFreeTwice(t) \/ CloseForget(t)

-----------------------------------------------------------------------------
(* A packet in another format, and the end of the receptor. *)
Reconfigure ==
  /\ At("main", "loop")
  /\ Goto("main", "close")
  /\ after' \in {"open", "exit"}
  /\ UNCHANGED <<structVars, ringVars, jackVars, request, packet>>

(* Faulty variant: jack_shutdown_cb does nothing. *)
ServerDiesUnnoticed ==
  /\ ServerMayDie /\ server = "active" /\ At("rt", "idle")
  /\ server' = "dead"
  /\ UNCHANGED <<structVars, ringVars, buffers, out, mainVars, pc>>

(* The server goes away between two callbacks and JACK calls the shutdown   *)
(* callback, which jack_on_shutdown registered.                             *)
ServerDies ==
  /\ ServerMayDie /\ server = "active" /\ At("rt", "idle") /\ At("shutdown", "idle")
  /\ server' = "dead"
  /\ Goto("shutdown", "close")
  /\ UNCHANGED <<structVars, ringVars, buffers, out, mainVars>>

(* A new process. *)
Restart ==
  /\ pc["main"] \in {"exited", "crashed"}
  /\ jack_client' = FALSE /\ config' = NoStream /\ ports' = 0 /\ active' = FALSE
  /\ ring_buffer' = "null" /\ ring_size' = 0 /\ silence' = 0 /\ audio' = 0 /\ phase' = 0
  /\ server' = "closed" /\ buffers' = 0 /\ out' = Silent
  /\ request' = NoStream /\ packet' = 0 /\ after' = "open"
  /\ pc' = [main |-> "close", rt |-> "idle", shutdown |-> "idle"]

jack_open == ClientOpen \/ CreateRing \/ Activate \/ RegisterPort \/ Connect
jack_write == WriteBegin \/ WriteSpace \/ WriteRing \/ WriteCrash
jack_process_cb == CallbackBegin \/ CallbackVector \/ CallbackConvert \/ CallbackCrash

Next ==
  \/ jack_open \/ jack_write \/ jack_process_cb
  \/ jack_close("main") \/ jack_close("shutdown")
  \/ Reconfigure \/ ServerDies \/ Restart

(* Main and the callback run whenever they can; a stream that keeps coming  *)
(* is what WF of jack_write means, a server that keeps calling that of      *)
(* jack_process_cb.  No new format, end or death of the server is promised. *)
Spec ==
  /\ Init /\ [][Next]_vars
  /\ WF_vars(jack_open) /\ WF_vars(jack_write) /\ WF_vars(jack_process_cb)
  /\ WF_vars(jack_close("main")) /\ WF_vars(jack_close("shutdown"))

-----------------------------------------------------------------------------
(* Properties *)

MainLocations == {"close", "client_open", "create", "activate", "register", "loop",
                  "write_space", "write_ring", "deactivate", "client_close", "free",
                  "forget", "exited", "crashed"}
RtLocations == {"idle", "vector", "convert", "crashed"}
ShutdownLocations == {"idle", "close", "deactivate", "client_close", "free", "forget",
                      "crashed"}

TypeOK ==
  /\ jack_client \in BOOLEAN /\ active \in BOOLEAN
  /\ config \in Configs \cup {NoStream} /\ request \in Configs \cup {NoStream}
  /\ ports \in 0 .. config.nb_channels
  /\ buffers \in 0 .. VBAN_CHANNELS_MAX_NB
  /\ ring_buffer \in {"null", "live", "freed"}
  /\ {ring_size, silence, audio, phase, packet} \subseteq Nat
  /\ server \in {"closed", "open", "active", "dead"}
  /\ out \in [silence : Nat, audio : Nat, phase : Nat]
  /\ after \in {"open", "failed", "exit"}
  /\ DOMAIN pc = Thread
  /\ pc["main"] \in MainLocations
  /\ pc["rt"] \in RtLocations
  /\ pc["shutdown"] \in ShutdownLocations

(* Neither jack_write nor the callback ever works on a ring buffer that     *)
(* jack_close has freed, and none is freed twice, although ring_buffer is   *)
(* never set back to null.                                                  *)
RingLive ==
  /\ \/ pc["main"] \in {"write_space", "write_ring"}
     \/ pc["rt"] \in {"vector", "convert"}
     => ring_buffer = "live"
  /\ \A t \in Thread : At(t, "free") => ring_buffer # "freed"

(* Each channel of the stream is heard on the port of its number: the       *)
(* silence in front of the audio, and everything played or refused since,   *)
(* is whole frames.                                                         *)
Aligned == out.audio > 0 => out.silence % Frame = out.phase

(* What a thread found free or ready in the ring buffer still is when it    *)
(* uses it, whatever the other thread did between.                          *)
ChecksHold ==
  /\ At("main", "write_ring") => packet <= jack_ringbuffer_write_space
  /\ At("rt", "convert") => jack_ringbuffer_read_space >= Need

(* A packet is refused only while a whole period waits to be played: else   *)
(* neither side could ever move again, and the device would stay silent.    *)
NoStarvation ==
  At("main", "write_space") /\ write_is_short => jack_ringbuffer_read_space >= Need

(* Whichever step of jack_open failed, the process ends with the client     *)
(* closed and the ring buffer freed.                                        *)
Released ==
  At("main", "exited") => /\ server = "closed" /\ ~jack_client
                          /\ ring_buffer # "live"

(* A client whose server went away is closed in the end.                   *)
ShutdownCloses ==
  server = "dead" ~> server # "dead" \/ At("main", "crashed")

(* While the stream keeps coming and the server keeps calling, the stream   *)
(* is heard in the end.                                                     *)
Plays ==
  At("main", "loop") /\ server = "active"
    ~> \/ out.audio > 0
       \/ pc["main"] \notin {"loop", "write_space", "write_ring"}
=============================================================================
