----------------------------- MODULE JackProofs -----------------------------
(***************************************************************************)
(* Proofs about JackBackend, for every set of formats, period and packet   *)
(* size, with and without a death of the server: what main and the         *)
(* realtime thread found in the ring buffer still holds when they use it,  *)
(* and every end of main has released what jack_open acquired.  Without a  *)
(* death of the server no freed ring buffer is used; with a silence of     *)
(* whole frames each channel stays on its port; with a buffer of a period  *)
(* and a packet the stream never starves.                                  *)
(***************************************************************************)
EXTENDS JackBackend, WellFoundedInduction, TLAPS

-----------------------------------------------------------------------------
(* The inductive invariant *)

Opened  == {"activate", "register", "loop", "write_space", "write_ring"}
Between == {"client_open", "create", "activate", "free", "forget", "exited"}
Serving == {"vector", "convert"}

(* A crash is one of all threads. *)
Crashed == \A t \in Thread : At(t, "crashed")

(* Where the three threads can be at the same time, by what the server      *)
(* says of the client: jack_client_close is what keeps them apart.          *)
ThreadInv ==
  /\ \A t \in Thread : ~At(t, "crashed")
  /\ pc["main"] \in Between => At("rt", "idle") /\ At("shutdown", "idle")
  /\ pc["main"] \in {"client_open", "free", "forget", "exited"} => server = "closed"
  /\ pc["main"] \in {"create", "activate"} => server = "open" /\ jack_client
  /\ pc["main"] \in {"client_open", "exited"} => ~jack_client
  /\ server \in {"closed", "dead"} => At("rt", "idle")
  /\ server = "active"
       => pc["main"] \in (Opened \ {"activate"}) \cup {"close", "deactivate"}
  /\ pc["shutdown"] \in {"close", "deactivate", "client_close"}
       => server = "dead" /\ jack_client
  /\ pc["shutdown"] \in {"free", "forget"} => server = "closed" /\ jack_client
  /\ \A t \in Thread : At(t, "forget") => ring_buffer # "live"

(* Without a client there is nothing to close. *)
ClientInv ==
  /\ ~jack_client => server = "closed" /\ ring_buffer # "live" /\ ports = 0
  /\ At("main", "create") => ports = 0
  /\ pc["main"] \in {"client_open", "create"} => request \in Configs

(* The ring buffer belongs to a format of the stream wherever it is used,   *)
(* and has its unused byte.                                                 *)
SpaceInv ==
  /\ pc["main"] \in Opened \/ server = "active" \/ pc["rt"] \in Serving
       => config \in Configs
  /\ config \in Configs => jack_ringbuffer_read_space < ring_size

JInv == TypeOK /\ (Crashed \/ ThreadInv) /\ ClientInv /\ SpaceInv /\ ChecksHold

(* While the server lives only main closes, and the ring buffer lives from  *)
(* jack_open to that close.                                                 *)
LiveInv ==
  /\ pc["shutdown"] \in {"idle", "crashed"}
  /\ pc["main"] \in Opened \cup {"deactivate", "client_close", "free"} => jack_client
  /\ jack_client /\ pc["main"] \notin {"create", "forget", "crashed"}
       => ring_buffer = "live"

(* What is left of the silence is whole frames, and so is all that was      *)
(* played.                                                                  *)
AlignInv ==
  /\ phase = 0
  /\ config \in Configs => silence % Frame = 0
  /\ out.audio > 0 => out.silence % Frame = 0 /\ out.phase = 0

(* The ring buffer has room for a period and any packet. *)
RoomInv ==
  /\ config \in Configs => \A f \in PacketFrames : (Period + f) * Frame <= ring_size
  /\ At("main", "write_space") => \E f \in PacketFrames : packet = f * Frame

-----------------------------------------------------------------------------
(* Sizes *)

LEMMA SizeTable ==
  \A f \in 0 .. 5 : VBanBitResolutionSize[f] \in 1 .. 8
<1>1. \A f \in 0 .. 5 : VBanBitResolutionSize[f] = <<1, 2, 3, 4, 4, 8, 0, 0>>[f + 1]
  BY DEF VBanBitResolutionSize, VBAN_BIT_RESOLUTION_MAX
<1> QED BY <1>1

(* A frame of a format is between 1 and 2048 bytes. *)
LEMMA FrameRange ==
  ASSUME NEW c \in Configs
  PROVE  FrameSize(c) \in Nat \ {0}
<1>1. c.nb_channels \in 1 .. 256 /\ c.bit_fmt \in 0 .. 5
  BY JackAssumption DEF VBAN_CHANNELS_MAX_NB
<1>2. VBanBitResolutionSize[c.bit_fmt] \in 1 .. 8
  BY <1>1, SizeTable
<1>3. \A a \in 1 .. 256, b \in 1 .. 8 : a * b \in Nat \ {0}
  BY SMTT(30)
<1> QED BY <1>1, <1>2, <1>3 DEF FrameSize

LEMMA PowersAreNat == PowersOfTwo \subseteq Nat
<1>1. /\ 2^1 \in Nat /\ 2^2 \in Nat /\ 2^3 \in Nat /\ 2^4 \in Nat /\ 2^5 \in Nat
      /\ 2^6 \in Nat /\ 2^7 \in Nat /\ 2^8 \in Nat /\ 2^9 \in Nat /\ 2^10 \in Nat
  BY SMT
<1>2. /\ 2^11 \in Nat /\ 2^12 \in Nat /\ 2^13 \in Nat /\ 2^14 \in Nat /\ 2^15 \in Nat
      /\ 2^16 \in Nat /\ 2^17 \in Nat /\ 2^18 \in Nat /\ 2^19 \in Nat /\ 2^20 \in Nat
  BY SMT
<1>3. /\ 2^21 \in Nat /\ 2^22 \in Nat /\ 2^23 \in Nat /\ 2^24 \in Nat /\ 2^25 \in Nat
      /\ 2^26 \in Nat /\ 2^27 \in Nat /\ 2^28 \in Nat /\ 2^29 \in Nat /\ 2^30 \in Nat
  BY SMT
<1>4. ASSUME NEW k \in 1 .. 30 PROVE 2^k \in Nat
  <2>1. \/ k \in 1 .. 10 \/ k \in 11 .. 20 \/ k \in 21 .. 30
    BY SMT
  <2>2. CASE k \in 1 .. 10
    <3>1. \/ k = 1 \/ k = 2 \/ k = 3 \/ k = 4 \/ k = 5
          \/ k = 6 \/ k = 7 \/ k = 8 \/ k = 9 \/ k = 10
      BY <2>2, SMT
    <3> QED BY <1>1, <3>1, Zenon
  <2>3. CASE k \in 11 .. 20
    <3>1. \/ k = 11 \/ k = 12 \/ k = 13 \/ k = 14 \/ k = 15
          \/ k = 16 \/ k = 17 \/ k = 18 \/ k = 19 \/ k = 20
      BY <2>3, SMT
    <3> QED BY <1>2, <3>1, Zenon
  <2>4. CASE k \in 21 .. 30
    <3>1. \/ k = 21 \/ k = 22 \/ k = 23 \/ k = 24 \/ k = 25
          \/ k = 26 \/ k = 27 \/ k = 28 \/ k = 29 \/ k = 30
      BY <2>4, SMT
    <3> QED BY <1>3, <3>1, Zenon
  <2> QED BY <2>1, <2>2, <2>3, <2>4, Zenon
<1> QED BY <1>4 DEF PowersOfTwo

LEMMA Smallest ==
  ASSUME NEW T, T \subseteq Nat, T # {}
  PROVE  \E x \in T : \A y \in T : x <= y
<1>1. PICK x \in T : \A y \in T : ~(<<y, x>> \in OpToRel(<, Nat))
  BY WFMin, NatLessThanWellFounded, Zenon
<1>2. \A y \in T : ~(y < x)
  BY <1>1, Zenon DEF OpToRel
<1> QED BY <1>2

(* What jack_ringbuffer_create allocates is the least power of two that has *)
(* room: enough, and no less for a larger request.                          *)
LEMMA RingCreated ==
  ASSUME NEW bytes \in Nat, bytes <= 2^30
  PROVE  LET n == jack_ringbuffer_create(bytes) IN
         n \in PowersOfTwo /\ n >= bytes /\ \A m \in PowersOfTwo : m >= bytes => n <= m
<1> DEFINE T == {m \in PowersOfTwo : m >= bytes}
<1>1. 2^30 \in T
  BY DEF PowersOfTwo
<1>2. T \subseteq Nat
  BY PowersAreNat
<1>3. PICK x \in T : \A y \in T : x <= y
  <2> HIDE DEF T
  <2> QED BY <1>1, <1>2, Smallest
<1>4. x \in PowersOfTwo /\ x >= bytes /\ \A m \in PowersOfTwo : m >= bytes => x <= m
  BY <1>3
<1>5. /\ jack_ringbuffer_create(bytes) \in PowersOfTwo
      /\ jack_ringbuffer_create(bytes) >= bytes
      /\ \A m \in PowersOfTwo : m >= bytes => jack_ringbuffer_create(bytes) <= m
  BY <1>4, Zenon DEF jack_ringbuffer_create
<1> QED BY <1>5

LEMMA RingMonotone ==
  ASSUME NEW a \in Nat, NEW b \in Nat, a <= b, b <= 2^30
  PROVE  jack_ringbuffer_create(a) <= jack_ringbuffer_create(b)
<1>1. jack_ringbuffer_create(b) \in PowersOfTwo /\ jack_ringbuffer_create(b) >= b
  BY RingCreated
<1>2. jack_ringbuffer_create(b) \in Nat
  BY <1>1, PowersAreNat
<1>3. \A n \in Nat : n >= b => n >= a
  OBVIOUS
<1>4. a <= 2^30
  BY SMT
<1> QED BY <1>1, <1>2, <1>3, <1>4, RingCreated

LEMMA WantedSize == computeSize(Quality) \in 1 .. 2^15
<1>1. 2^0 = 1 /\ 2^1 = 2 /\ 2^2 = 4 /\ 2^3 = 8 /\ 2^4 = 16
  BY SMT
<1>2. 2^15 = 32768
  BY SMT
<1>3. CASE Quality <= 4
  <2>1. Quality = 0 \/ Quality = 1 \/ Quality = 2 \/ Quality = 3 \/ Quality = 4
    BY <1>3, JackAssumption
  <2>2. 2^Quality = 1 \/ 2^Quality = 2 \/ 2^Quality = 4 \/ 2^Quality = 8 \/ 2^Quality = 16
    BY <1>1, <2>1, Zenon
  <2> QED BY <1>2, <1>3, <2>2, SMT DEF computeSize, VBAN_PROTOCOL_MAX_SIZE
<1>4. CASE ~(Quality <= 4)
  BY <1>2, <1>4, SMT DEF computeSize, VBAN_PROTOCOL_MAX_SIZE
<1> QED BY <1>3, <1>4

(* The arithmetic of the sizes. *)
LEMMA PeriodBytes ==
  ASSUME NEW p \in 1 .. 2^18, NEW o \in 0 .. 256, NEW r \in 1 .. 8
  PROVE  p * o * r \in 0 .. 2^29
<1>1. 2^18 = 262144 /\ 2^26 = 67108864 /\ 2^29 = 536870912
  BY SMT
<1>2. p * o \in 0 .. 2^26
  BY <1>1, SMT
<1>3. \A q \in 0 .. 2^26 : q * r \in 0 .. 2^29
  BY <1>1, SMT
<1> QED BY <1>2, <1>3, Zenon

LEMMA Doubled ==
  ASSUME NEW wanted \in 1 .. 2^15, NEW period \in 0 .. 2^29, NEW size,
         size = (IF wanted > period THEN wanted ELSE period) * 2
  PROVE  /\ size \in Nat /\ size <= 2^30 /\ size >= 2 * wanted
         /\ size \div 2 \in Nat /\ size \div 2 < size
<1>1. 2^15 = 32768 /\ 2^29 = 536870912 /\ 2^30 = 1073741824
  BY SMT
<1>2. PICK m : m = IF wanted > period THEN wanted ELSE period
  OBVIOUS
<1>3. m \in 1 .. 2^29 /\ m >= wanted
  BY <1>1, <1>2, SMT
<1>4. (m * 2) \div 2 = m
  <2>1. m \in Nat
    BY <1>3, SMT
  <2> QED BY <2>1, SMT
<1> QED BY <1>1, <1>2, <1>3, <1>4, SMT

(* The ring buffer is asked to be twice as large as the silence.  Its size  *)
(* fits an int: a period has at most 2^29 bytes.                            *)
LEMMA BufferSize ==
  ASSUME NEW old \in 0 .. 256, NEW new \in Configs
  PROVE  LET size == jack_buffer_size(old, new) IN
         /\ size \in Nat /\ size <= 2^30
         /\ size >= NB_BUFFERS * computeSize(Quality)
         /\ size \div NB_BUFFERS \in Nat /\ size \div NB_BUFFERS < size
<1>1. VBanBitResolutionSize[new.bit_fmt] \in 1 .. 8
  <2>1. new.bit_fmt \in 0 .. 5
    BY JackAssumption, Zenon
  <2> QED BY <2>1, SizeTable, Zenon
<1>2. Period \in 1 .. 2^18
  BY JackAssumption, Zenon
<1>3. Period * old * VBanBitResolutionSize[new.bit_fmt] \in 0 .. 2^29
  BY <1>1, <1>2, PeriodBytes, Zenon
<1>4. jack_buffer_size(old, new)
        = (IF computeSize(Quality) > Period * old * VBanBitResolutionSize[new.bit_fmt]
           THEN computeSize(Quality)
           ELSE Period * old * VBanBitResolutionSize[new.bit_fmt]) * 2
  BY Zenon DEF jack_buffer_size, NB_BUFFERS
<1> QED BY <1>3, <1>4, WantedSize, Doubled, Zenon DEF NB_BUFFERS

(* What is created has room for all that was asked, and its unused byte. *)
LEMMA RingSize ==
  ASSUME NEW old \in 0 .. 256, NEW new \in Configs
  PROVE  LET size == jack_buffer_size(old, new) IN
         /\ jack_ringbuffer_create(size) \in Nat
         /\ size \div NB_BUFFERS \in Nat
         /\ size \div NB_BUFFERS < jack_ringbuffer_create(size)
<1> DEFINE size == jack_buffer_size(old, new)
<1>1. /\ size \in Nat /\ size <= 2^30
      /\ size \div NB_BUFFERS \in Nat /\ size \div NB_BUFFERS < size
  BY BufferSize
<1> HIDE DEF size
<1>2. jack_ringbuffer_create(size) \in PowersOfTwo /\ jack_ringbuffer_create(size) >= size
  BY <1>1, RingCreated
<1>3. jack_ringbuffer_create(size) \in Nat
  BY <1>2, PowersAreNat
<1>4. \A h, s, r \in Nat : h < s /\ r >= s => h < r
  OBVIOUS
<1>5. size \div NB_BUFFERS < jack_ringbuffer_create(size)
  <2> DEFINE h == size \div NB_BUFFERS  r == jack_ringbuffer_create(size)
  <2>1. h \in Nat /\ r \in Nat /\ h < size /\ r >= size
    BY <1>1, <1>2, <1>3
  <2> HIDE DEF h, r
  <2>2. h < r
    BY <1>1, <1>4, <2>1
  <2> QED BY <2>2 DEF h, r
<1> QED BY <1>1, <1>3, <1>5 DEF size

(* A step of one thread leaves the others where they are. *)
LEMMA Moves ==
  ASSUME TypeOK, NEW t \in Thread, NEW l, Goto(t, l)
  PROVE  /\ DOMAIN pc' = Thread /\ pc'[t] = l
         /\ \A u \in Thread \ {t} : pc'[u] = pc[u]
BY DEF Goto, TypeOK

(* What the callback reads is a number of whole frames of a format. *)
LEMMA NeedIsNat ==
  ASSUME config \in Configs
  PROVE  Need \in Nat /\ Frame \in Nat \ {0}
<1>1. Frame \in Nat \ {0}
  BY FrameRange DEF Frame
<1>2. Period \in Nat
  BY JackAssumption, SMT
<1>3. \A a, b \in Nat : a * b \in Nat
  BY SMT
<1> QED BY <1>1, <1>2, <1>3, Zenon DEF Need

-----------------------------------------------------------------------------
(* Every step of Next preserves JInv.  Under each step stand the five parts *)
(* of the invariant, after the fact that no thread has crashed and where    *)
(* the threads go.  First jack_open.                                        *)
LEMMA ClientOpenJ ==
  ASSUME JInv, ClientOpen
  PROVE  JInv'
<1> USE DEF JInv
<1>1. ThreadInv
  BY DEF ClientOpen, Crashed, Thread, At
<1>2. PICK l \in {"create", "loop", "close"} : Goto("main", l)
  BY DEF ClientOpen, OpenReturns
<1>3. /\ DOMAIN pc' = Thread /\ pc'["main"] = l
      /\ pc'["rt"] = pc["rt"] /\ pc'["shutdown"] = pc["shutdown"]
  BY <1>2, Moves DEF Thread
<1>4. TypeOK'
  BY <1>1, <1>3 DEF TypeOK, ClientOpen, OpenReturns, ringVars, MainLocations
<1>5. ThreadInv'
  BY <1>1, <1>3 DEF ThreadInv, TypeOK, ClientOpen, OpenReturns, ringVars,
                    MainLocations, ClientInv, Opened, Between, Thread, At,
                    Goto, ENODEV
<1>6. ClientInv'
  BY <1>1, <1>3 DEF ThreadInv, TypeOK, ClientOpen, OpenReturns, ringVars,
                    MainLocations, ClientInv, Opened, Between, Thread, At,
                    ENODEV
<1>7. SpaceInv'
  BY <1>1, <1>3 DEF ThreadInv, TypeOK, ClientOpen, OpenReturns, ringVars,
                    SpaceInv, ClientInv, Opened, Between, Thread, At, Serving,
                    ENODEV, Goto, jack_ringbuffer_read_space
<1>8. ChecksHold'
  BY <1>1, <1>3 DEF ThreadInv, TypeOK, ClientOpen, OpenReturns, ringVars,
                    ChecksHold, ClientInv, Opened, Between, Thread, At,
                    Serving, ENODEV
<1> QED BY <1>4, <1>5, <1>6, <1>7, <1>8

LEMMA CreateJ ==
  ASSUME JInv, CreateRing
  PROVE  JInv'
<1> USE DEF JInv
<1>1. ThreadInv
  BY DEF CreateRing, Crashed, Thread, At
<1>2. /\ ring_size' \in Nat /\ silence' \in Nat /\ silence' < ring_size'
  <2>1. config.nb_channels \in 0 .. 256
    BY JackAssumption DEF TypeOK, NoStream, VBAN_CHANNELS_MAX_NB
  <2>2. request \in Configs
    BY DEF ClientInv, CreateRing, At
  <2> QED BY <2>1, <2>2, RingSize DEF CreateRing
<1>3. /\ DOMAIN pc' = Thread /\ pc'["main"] \in {"activate", "close"}
      /\ pc'["rt"] = pc["rt"] /\ pc'["shutdown"] = pc["shutdown"]
  BY Moves DEF CreateRing, Thread
<1>4. TypeOK'
  BY <1>1, <1>2, <1>3, JackAssumption DEF TypeOK, CreateRing, ClientInv,
                                          MainLocations, At, Silent, NoStream
<1>5. ThreadInv'
  BY <1>1, <1>3 DEF ThreadInv, TypeOK, CreateRing, MainLocations, ClientInv,
                    Opened, Between, Thread, At
<1>6. ClientInv'
  BY <1>1, <1>3 DEF ThreadInv, TypeOK, CreateRing, MainLocations, ClientInv,
                    Opened, Between, Thread, At
<1>7. SpaceInv'
  BY <1>1, <1>2, <1>3 DEF ThreadInv, TypeOK, CreateRing, SpaceInv, ClientInv,
                          Opened, Between, Thread, At, Serving,
                          jack_ringbuffer_read_space
<1>8. ChecksHold'
  BY <1>1, <1>3 DEF ThreadInv, TypeOK, CreateRing, ChecksHold, ClientInv,
                    Opened, Between, Thread, At, Serving
<1> QED BY <1>4, <1>5, <1>6, <1>7, <1>8

LEMMA ActivateJ ==
  ASSUME JInv, Activate
  PROVE  JInv'
<1> USE DEF JInv
<1>1. ThreadInv
  BY DEF Activate, Crashed, Thread, At
<1>2. \E l \in {"register", "close", "loop"} : Goto("main", l)
  BY DEF Activate, OpenReturns
<1>3. /\ DOMAIN pc' = Thread /\ pc'["main"] \in {"register", "close", "loop"}
      /\ pc'["rt"] = pc["rt"] /\ pc'["shutdown"] = pc["shutdown"]
  BY <1>2, Moves DEF Thread
<1>4. TypeOK'
  BY <1>1, <1>3, JackAssumption DEF TypeOK, Activate, OpenReturns,
                                    MainLocations, At, structVars, ringVars
<1>5. ThreadInv'
  BY <1>1, <1>3 DEF ThreadInv, TypeOK, Activate, OpenReturns, MainLocations,
                    ClientInv, Opened, Between, Thread, At, Goto, structVars
<1>6. ClientInv'
  BY <1>1, <1>3 DEF ThreadInv, TypeOK, Activate, OpenReturns, ClientInv,
                    Opened, Between, Thread, At, structVars
<1>7. SpaceInv'
  BY <1>1, <1>3 DEF ThreadInv, TypeOK, Activate, OpenReturns, SpaceInv,
                    ClientInv, Opened, Between, Thread, At, Serving,
                    jack_ringbuffer_read_space, structVars, ringVars
<1>8. ChecksHold'
  BY <1>1, <1>3 DEF ThreadInv, TypeOK, Activate, ChecksHold, Between, Thread,
                    At, Serving
<1> QED BY <1>4, <1>5, <1>6, <1>7, <1>8

LEMMA RegisterJ ==
  ASSUME JInv, RegisterPort
  PROVE  JInv'
<1> USE DEF JInv
<1>1. ThreadInv
  BY DEF RegisterPort, Crashed, Thread, At
<1>2. /\ DOMAIN pc' = Thread /\ pc'["main"] \in {"register", "close"}
      /\ pc'["rt"] = pc["rt"] /\ pc'["shutdown"] = pc["shutdown"]
  BY Moves DEF Thread, RegisterPort, At, TypeOK
<1>3. TypeOK'
  BY <1>1, <1>2, JackAssumption DEF TypeOK, RegisterPort, NoStream,
                                    MainLocations, At, jackVars, ringVars
<1>4. ThreadInv'
  BY <1>1, <1>2 DEF ThreadInv, TypeOK, RegisterPort, MainLocations, ClientInv,
                    Opened, Between, Thread, At, Goto, jackVars
<1>5. ClientInv'
  BY <1>1, <1>2 DEF ThreadInv, TypeOK, RegisterPort, ClientInv, Opened,
                    Between, Thread, At, jackVars
<1>6. SpaceInv'
  BY <1>1, <1>2 DEF ThreadInv, TypeOK, RegisterPort, SpaceInv, ClientInv,
                    Opened, Between, Thread, At, Serving,
                    jack_ringbuffer_read_space, jackVars, ringVars
<1>7. ChecksHold'
  BY <1>1, <1>2 DEF ThreadInv, TypeOK, RegisterPort, ChecksHold, Between,
                    Thread, At, Serving, Need, Frame,
                    jack_ringbuffer_read_space, ringVars, jackVars
<1> QED BY <1>3, <1>4, <1>5, <1>6, <1>7

LEMMA ConnectJ ==
  ASSUME JInv, Connect
  PROVE  JInv'
<1> USE DEF JInv
<1>1. ThreadInv
  BY DEF Connect, Crashed, Thread, At
<1>2. \E l \in {"close", "loop"} : Goto("main", l)
  BY DEF Connect, OpenReturns
<1>3. /\ DOMAIN pc' = Thread /\ pc'["main"] \in {"close", "loop"}
      /\ pc'["rt"] = pc["rt"] /\ pc'["shutdown"] = pc["shutdown"]
  BY <1>2, Moves DEF Thread
<1>4. TypeOK'
  BY <1>1, <1>3, JackAssumption DEF TypeOK, Connect, OpenReturns, NoStream,
                                    MainLocations, At, jackVars, ringVars,
                                    structVars
<1>5. ThreadInv'
  BY <1>1, <1>3 DEF ThreadInv, TypeOK, Connect, OpenReturns, MainLocations,
                    ClientInv, Opened, Between, Thread, At, Goto, jackVars,
                    structVars
<1>6. ClientInv'
  BY <1>1, <1>3 DEF ThreadInv, TypeOK, Connect, OpenReturns, ClientInv, Opened,
                    Between, Thread, At, jackVars, structVars
<1>7. SpaceInv'
  BY <1>1, <1>3 DEF ThreadInv, TypeOK, Connect, OpenReturns, SpaceInv,
                    ClientInv, Opened, Between, Thread, At, Serving,
                    jack_ringbuffer_read_space, jackVars, ringVars, structVars
<1>8. ChecksHold'
  BY <1>1, <1>3 DEF ThreadInv, TypeOK, Connect, ChecksHold, Between, Thread,
                    At, Serving, Need, Frame, jack_ringbuffer_read_space,
                    ringVars, structVars
<1> QED BY <1>4, <1>5, <1>6, <1>7, <1>8

(* jack_write.  What WriteSpace found is still free at WriteRing, since the *)
(* callback only takes away.                                                *)
LEMMA WriteBeginJ ==
  ASSUME JInv, WriteBegin
  PROVE  JInv'
<1> USE DEF JInv
<1>1. ThreadInv
  BY DEF WriteBegin, Crashed, Thread, At
<1>2. /\ DOMAIN pc' = Thread /\ pc'["main"] \in {"write_space", "loop"}
      /\ pc'["rt"] = pc["rt"] /\ pc'["shutdown"] = pc["shutdown"]
  BY Moves DEF WriteBegin, Thread
<1>3. packet' \in Nat
  <2>1. Frame \in Nat
    BY NeedIsNat DEF SpaceInv, Opened, WriteBegin, At
  <2>2. PICK frames \in PacketFrames : packet' = frames * Frame
    BY DEF WriteBegin
  <2>3. frames \in Nat
    BY JackAssumption, SMT
  <2>4. \A a, b \in Nat : a * b \in Nat
    BY SMT
  <2> QED BY <2>1, <2>2, <2>3, <2>4, Zenon
<1>4. TypeOK'
  BY <1>1, <1>3, <1>2 DEF TypeOK, WriteBegin, MainLocations, At, jackVars,
                          ringVars, structVars
<1>5. ThreadInv'
  BY <1>1, <1>2 DEF ThreadInv, TypeOK, WriteBegin, MainLocations, ClientInv,
                    Opened, Between, Thread, At, jackVars, structVars
<1>6. ClientInv'
  BY <1>1, <1>2 DEF ThreadInv, TypeOK, WriteBegin, ClientInv, Opened, Between,
                    Thread, At, jackVars, structVars
<1>7. SpaceInv'
  BY <1>1, <1>2 DEF ThreadInv, TypeOK, WriteBegin, SpaceInv, ClientInv, Opened,
                    Between, Thread, At, Serving, jack_ringbuffer_read_space,
                    jackVars, ringVars, structVars
<1>8. ChecksHold'
  BY <1>1, <1>2 DEF ThreadInv, TypeOK, WriteBegin, ChecksHold, Between, Thread,
                    At, Serving, Need, Frame, jack_ringbuffer_read_space,
                    ringVars, structVars
<1> QED BY <1>4, <1>5, <1>6, <1>7, <1>8

LEMMA WriteSpaceJ ==
  ASSUME JInv, WriteSpace
  PROVE  JInv'
<1> USE DEF JInv
<1>1. ThreadInv
  BY DEF WriteSpace, Crashed, Thread, At
<1>2. /\ DOMAIN pc' = Thread
      /\ pc'["main"] = IF write_is_short THEN "loop" ELSE "write_ring"
      /\ pc'["rt"] = pc["rt"] /\ pc'["shutdown"] = pc["shutdown"]
  BY Moves DEF WriteSpace, Thread
<1>3. TypeOK'
  BY <1>1, <1>2 DEF TypeOK, WriteSpace, MainLocations, At, jackVars, ringVars,
                    structVars, mainVars
<1>4. ThreadInv'
  BY <1>1, <1>2 DEF ThreadInv, TypeOK, WriteSpace, MainLocations, ClientInv,
                    Opened, Between, Thread, At, jackVars, structVars
<1>5. ClientInv'
  BY <1>1, <1>2 DEF ThreadInv, TypeOK, WriteSpace, ClientInv, Opened, Between,
                    Thread, At, jackVars, structVars
<1>6. SpaceInv'
  BY <1>1, <1>2 DEF ThreadInv, TypeOK, WriteSpace, SpaceInv, ClientInv, Opened,
                    Between, Thread, At, Serving, jack_ringbuffer_read_space,
                    jackVars, ringVars, structVars
<1>7. ChecksHold'
  BY <1>1, <1>2 DEF ThreadInv, TypeOK, WriteSpace, ChecksHold, Between, Thread,
                    At, Serving, Need, Frame, jack_ringbuffer_read_space,
                    jack_ringbuffer_write_space, write_is_short, ringVars,
                    structVars, mainVars
<1> QED BY <1>3, <1>4, <1>5, <1>6, <1>7

LEMMA WriteRingJ ==
  ASSUME JInv, WriteRing
  PROVE  JInv'
<1> USE DEF JInv
<1>1. ThreadInv
  BY DEF WriteRing, Crashed, Thread, At
<1>2. audio' = audio + packet /\ silence + audio + packet < ring_size /\ audio' \in Nat
  BY DEF WriteRing, ChecksHold, TypeOK, jack_ringbuffer_write_space,
         jack_ringbuffer_read_space
<1>3. /\ DOMAIN pc' = Thread /\ pc'["main"] = "loop"
      /\ pc'["rt"] = pc["rt"] /\ pc'["shutdown"] = pc["shutdown"]
  BY Moves DEF WriteRing, Thread
<1>4. TypeOK'
  BY <1>1, <1>2, <1>3 DEF TypeOK, WriteRing, MainLocations, At, jackVars,
                          ringVars, structVars, mainVars
<1>5. ThreadInv'
  BY <1>1, <1>3 DEF ThreadInv, TypeOK, WriteRing, MainLocations, ClientInv,
                    Opened, Between, Thread, At, jackVars, structVars
<1>6. ClientInv'
  BY <1>1, <1>3 DEF ThreadInv, TypeOK, WriteRing, ClientInv, Opened, Between,
                    Thread, At, jackVars, structVars
<1>7. SpaceInv'
  BY <1>1, <1>2, <1>3 DEF ThreadInv, TypeOK, WriteRing, SpaceInv, ClientInv,
                          Opened, Between, Thread, At, Serving,
                          jack_ringbuffer_read_space, jackVars, ringVars,
                          structVars
<1>8. ChecksHold'
  <2>1. At("rt", "convert") => config \in Configs
    BY DEF SpaceInv, Serving, At
  <2>2. Need' = Need /\ (config \in Configs => Need \in Nat)
    BY NeedIsNat DEF Need, Frame, WriteRing, structVars
  <2>3. jack_ringbuffer_read_space' = jack_ringbuffer_read_space + packet
    BY <1>2 DEF jack_ringbuffer_read_space, WriteRing, TypeOK
  <2> QED
    BY <1>1, <1>2, <1>3, <2>1, <2>2, <2>3 DEF TypeOK, ChecksHold, At,
                                              jack_ringbuffer_read_space
<1> QED BY <1>4, <1>5, <1>6, <1>7, <1>8

(* A crash of the process, wherever it comes from. *)
LEMMA CrashJ ==
  ASSUME JInv, Crash
  PROVE  JInv'
<1> USE DEF JInv
<1>1. DOMAIN pc' = Thread /\ \A t \in Thread : pc'[t] = "crashed"
  BY DEF Crash
<1>2. pc'["main"] = "crashed" /\ pc'["rt"] = "crashed" /\ pc'["shutdown"] = "crashed"
  BY <1>1 DEF Thread
<1>3. TypeOK'
  BY <1>1, <1>2 DEF TypeOK, Crash, MainLocations, RtLocations,
                    ShutdownLocations, jackVars, ringVars, structVars, mainVars
<1>4. Crashed'
  BY <1>1 DEF Crashed, At
<1>5. ClientInv'
  BY <1>2 DEF Crash, ClientInv, At, jackVars, structVars
<1>6. SpaceInv'
  BY <1>2 DEF TypeOK, Crash, SpaceInv, Opened, Serving, At,
              jack_ringbuffer_read_space, jackVars, ringVars, structVars
<1>7. ChecksHold'
  BY <1>2 DEF ChecksHold, At
<1> QED BY <1>3, <1>4, <1>5, <1>6, <1>7
(* jack_process_cb.  What CallbackVector found is still there at            *)
(* CallbackConvert, since jack_write only adds.                             *)
LEMMA CallbackBeginJ ==
  ASSUME JInv, CallbackBegin
  PROVE  JInv'
<1> USE DEF JInv
<1>1. ThreadInv
  BY DEF CallbackBegin, Crashed, Thread, At
<1>2. /\ DOMAIN pc' = Thread /\ pc'["rt"] = "vector"
      /\ pc'["main"] = pc["main"] /\ pc'["shutdown"] = pc["shutdown"]
  BY Moves DEF CallbackBegin, Thread
<1>3. buffers' \in 0 .. VBAN_CHANNELS_MAX_NB
  BY JackAssumption DEF CallbackBegin, TypeOK, NoStream, VBAN_CHANNELS_MAX_NB
<1>4. TypeOK'
  BY <1>1, <1>3, <1>2 DEF TypeOK, CallbackBegin, MainLocations, RtLocations,
                          ShutdownLocations, At, jackVars, ringVars,
                          structVars, mainVars
<1>5. ThreadInv'
  BY <1>1, <1>2 DEF ThreadInv, TypeOK, CallbackBegin, MainLocations, ClientInv,
                    Opened, Between, Thread, At, Goto, jackVars, structVars
<1>6. ClientInv'
  BY <1>1, <1>2 DEF ThreadInv, TypeOK, CallbackBegin, ClientInv, Opened,
                    Between, Thread, At, Goto, jackVars, structVars, mainVars
<1>7. SpaceInv'
  BY <1>1, <1>2 DEF ThreadInv, TypeOK, CallbackBegin, SpaceInv, ClientInv,
                    Opened, Between, Thread, At, Serving,
                    jack_ringbuffer_read_space, jackVars, ringVars, structVars
<1>8. ChecksHold'
  BY <1>1, <1>2 DEF ThreadInv, TypeOK, CallbackBegin, ChecksHold, Between,
                    Thread, At, Goto, Serving, Need, Frame,
                    jack_ringbuffer_read_space, jack_ringbuffer_write_space,
                    ringVars, structVars, mainVars, write_is_short
<1> QED BY <1>4, <1>5, <1>6, <1>7, <1>8

LEMMA CallbackVectorJ ==
  ASSUME JInv, CallbackVector
  PROVE  JInv'
<1> USE DEF JInv
<1>1. ThreadInv
  BY DEF CallbackVector, Crashed, Thread, At
<1>2. /\ DOMAIN pc' = Thread
      /\ pc'["rt"] = IF jack_ringbuffer_read_space < Need THEN "idle" ELSE "convert"
      /\ pc'["main"] = pc["main"] /\ pc'["shutdown"] = pc["shutdown"]
  BY Moves DEF CallbackVector, Thread
<1>3. Need \in Nat /\ jack_ringbuffer_read_space \in Nat
  BY NeedIsNat DEF CallbackVector, SpaceInv, Serving, At, TypeOK,
                   jack_ringbuffer_read_space
<1>4. TypeOK'
  BY <1>1, <1>2 DEF TypeOK, CallbackVector, MainLocations, RtLocations,
                    ShutdownLocations, At, jackVars, ringVars, structVars,
                    mainVars
<1>5. ThreadInv'
  BY <1>1, <1>2 DEF ThreadInv, TypeOK, CallbackVector, MainLocations,
                    ClientInv, Opened, Between, Thread, At, Goto, jackVars,
                    structVars
<1>6. ClientInv'
  BY <1>1, <1>2 DEF ThreadInv, TypeOK, CallbackVector, ClientInv, Opened,
                    Between, Thread, At, Goto, jackVars, structVars, mainVars
<1>7. SpaceInv'
  BY <1>1, <1>2 DEF ThreadInv, TypeOK, CallbackVector, SpaceInv, ClientInv,
                    Opened, Between, Thread, At, Serving,
                    jack_ringbuffer_read_space, jackVars, ringVars, structVars
<1>8. ChecksHold'
  BY <1>1, <1>3, <1>2 DEF ThreadInv, TypeOK, CallbackVector, ChecksHold,
                          Between, Thread, At, Goto, Serving, Need, Frame,
                          jack_ringbuffer_read_space,
                          jack_ringbuffer_write_space, ringVars, structVars,
                          mainVars, write_is_short
<1> QED BY <1>4, <1>5, <1>6, <1>7, <1>8

LEMMA CallbackConvertJ ==
  ASSUME JInv, CallbackConvert
  PROVE  JInv'
<1> USE DEF JInv
<1>1. ThreadInv
  BY DEF CallbackConvert, Crashed, Thread, At
<1>2. /\ DOMAIN pc' = Thread /\ pc'["rt"] = "idle"
      /\ pc'["main"] = pc["main"] /\ pc'["shutdown"] = pc["shutdown"]
  BY Moves DEF CallbackConvert, Thread
<1>3. PICK quiet \in Nat :
        /\ quiet = (IF silence < Need THEN silence ELSE Need)
        /\ quiet <= silence /\ quiet <= Need /\ Need - quiet <= audio
        /\ Need \in Nat /\ Frame \in Nat \ {0}
  <2>1. Need \in Nat /\ Frame \in Nat \ {0}
    BY NeedIsNat DEF CallbackConvert, SpaceInv, Serving, At
  <2>2. silence \in Nat /\ audio \in Nat
    BY DEF TypeOK
  <2>3. silence + audio >= Need
    BY DEF CallbackConvert, ChecksHold, jack_ringbuffer_read_space
  <2> QED BY <2>1, <2>2, <2>3
<1>4. /\ out' = [silence |-> quiet, audio |-> Need - quiet, phase |-> phase]
      /\ silence' = silence - quiet /\ audio' = audio - (Need - quiet)
      /\ phase' = (phase + Need - quiet) % Frame
  BY <1>3 DEF CallbackConvert
<1>5. silence' \in Nat /\ audio' \in Nat /\ phase' \in Nat /\ Need - quiet \in Nat
  <2>1. silence \in Nat /\ audio \in Nat /\ phase \in Nat
    BY DEF TypeOK
  <2>2. \A a \in Nat, b \in Nat \ {0} : a % b \in Nat
    BY SMT
  <2>3. /\ phase + Need - quiet \in Nat /\ Need - quiet \in Nat
        /\ silence' \in Nat /\ audio' \in Nat
    BY <1>3, <1>4, <2>1
  <2>4. phase' \in Nat
    BY <1>3, <1>4, <2>2, <2>3, Zenon
  <2> QED BY <2>3, <2>4
<1>6. TypeOK'
  <2>1. out' \in [silence : Nat, audio : Nat, phase : Nat]
    BY <1>4, <1>5 DEF TypeOK
  <2> QED BY <1>2, <1>5, <2>1 DEF TypeOK, CallbackConvert, RtLocations,
                                  structVars, mainVars
<1>7. ThreadInv'
  BY <1>1, <1>2 DEF ThreadInv, TypeOK, CallbackConvert, Between, Thread, At,
                    structVars
<1>8. ClientInv'
  BY <1>1, <1>2 DEF CallbackConvert, ClientInv, At, structVars, mainVars
<1>9. SpaceInv'
  BY <1>3, <1>2, <1>4, <1>5 DEF TypeOK, CallbackConvert, SpaceInv, Opened, At,
                                Serving, jack_ringbuffer_read_space, structVars
<1>10. ChecksHold'
  BY <1>3, <1>2, <1>4, <1>5 DEF TypeOK, CallbackConvert, ChecksHold, At,
                                jack_ringbuffer_read_space,
                                jack_ringbuffer_write_space, structVars,
                                mainVars
<1> QED BY <1>6, <1>7, <1>8, <1>9, <1>10

(* jack_close, by main or by the shutdown callback. *)
LEMMA CloseBeginJ ==
  ASSUME JInv, NEW t \in {"main", "shutdown"}, CloseBegin(t)
  PROVE  JInv'
<1> USE DEF JInv
<1>1. ThreadInv
  BY DEF CloseBegin, Crashed, Thread, At
<1>2. /\ DOMAIN pc' = Thread /\ pc'[t] = "deactivate"
      /\ pc'["rt"] = pc["rt"]
      /\ t = "main" => pc'["shutdown"] = pc["shutdown"]
      /\ t = "shutdown" => pc'["main"] = pc["main"]
  BY Moves DEF CloseBegin, Thread
<1>3. TypeOK'
  <2>1. /\ pc'["main"] \in MainLocations /\ pc'["rt"] \in RtLocations
        /\ pc'["shutdown"] \in ShutdownLocations
    BY <1>1, <1>2 DEF TypeOK, MainLocations, ShutdownLocations
  <2>2. /\ active' = FALSE
        /\ UNCHANGED <<jack_client, config, ports, ring_buffer, ringVars, jackVars, mainVars>>
    BY DEF CloseBegin
  <2> QED
    BY <1>2, <2>1, <2>2 DEF TypeOK, jackVars, ringVars, mainVars
<1>4. ThreadInv'
  BY <1>1, <1>2 DEF ThreadInv, TypeOK, CloseBegin, MainLocations, ClientInv,
                    Opened, Between, Thread, At, Goto, jackVars, structVars
<1>5. ClientInv'
  BY <1>1, <1>2 DEF ThreadInv, TypeOK, CloseBegin, ClientInv, Opened, Between,
                    Thread, At, Goto, jackVars, structVars, mainVars
<1>6. SpaceInv'
  BY <1>1, <1>2 DEF ThreadInv, TypeOK, CloseBegin, SpaceInv, ClientInv, Opened,
                    Between, Thread, At, Serving, jack_ringbuffer_read_space,
                    jackVars, ringVars, structVars
<1>7. ChecksHold'
  BY <1>1, <1>2 DEF ThreadInv, TypeOK, CloseBegin, ChecksHold, Between, Thread,
                    At, Goto, Serving, Need, Frame, jack_ringbuffer_read_space,
                    jack_ringbuffer_write_space, ringVars, structVars,
                    mainVars, write_is_short
<1> QED BY <1>3, <1>4, <1>5, <1>6, <1>7

LEMMA CloseDeactivateJ ==
  ASSUME JInv, NEW t \in {"main", "shutdown"}, CloseDeactivate(t)
  PROVE  JInv'
<1> USE DEF JInv
<1>1. ThreadInv
  BY DEF CloseDeactivate, Crashed, Thread, At
<1>2. /\ DOMAIN pc' = Thread /\ pc'[t] = "client_close"
      /\ pc'["rt"] = pc["rt"]
      /\ t = "main" => pc'["shutdown"] = pc["shutdown"]
      /\ t = "shutdown" => pc'["main"] = pc["main"]
  BY Moves DEF CloseDeactivate, Thread
<1>3. TypeOK'
  BY <1>1, <1>2 DEF TypeOK, CloseDeactivate, MainLocations, RtLocations,
                    ShutdownLocations, At, jackVars, ringVars, structVars,
                    mainVars
<1>4. ThreadInv'
  BY <1>1, <1>2 DEF ThreadInv, TypeOK, CloseDeactivate, MainLocations,
                    ClientInv, Opened, Between, Thread, At, Goto, jackVars,
                    structVars
<1>5. ClientInv'
  BY <1>1, <1>2 DEF ThreadInv, TypeOK, CloseDeactivate, ClientInv, Opened,
                    Between, Thread, At, Goto, jackVars, structVars, mainVars
<1>6. SpaceInv'
  BY <1>1, <1>2 DEF ThreadInv, TypeOK, CloseDeactivate, SpaceInv, ClientInv,
                    Opened, Between, Thread, At, Serving,
                    jack_ringbuffer_read_space, jackVars, ringVars, structVars
<1>7. ChecksHold'
  BY <1>1, <1>2 DEF ThreadInv, TypeOK, CloseDeactivate, ChecksHold, Between,
                    Thread, At, Goto, Serving, Need, Frame,
                    jack_ringbuffer_read_space, jack_ringbuffer_write_space,
                    ringVars, structVars, mainVars, write_is_short
<1> QED BY <1>3, <1>4, <1>5, <1>6, <1>7

LEMMA CloseClientJ ==
  ASSUME JInv, NEW t \in {"main", "shutdown"}, CloseClient(t)
  PROVE  JInv'
<1> USE DEF JInv
<1>1. ThreadInv
  BY DEF CloseClient, Crashed, Thread, At
<1>2. /\ DOMAIN pc' = Thread /\ pc'[t] = "free"
      /\ pc'["rt"] = pc["rt"]
      /\ t = "main" => pc'["shutdown"] = pc["shutdown"]
      /\ t = "shutdown" => pc'["main"] = pc["main"]
  BY Moves DEF CloseClient, Thread
<1>3. TypeOK'
  BY <1>1, <1>2 DEF TypeOK, CloseClient, MainLocations, RtLocations,
                    ShutdownLocations, At, jackVars, ringVars, structVars,
                    mainVars
<1>4. ThreadInv'
  BY <1>1, <1>2 DEF ThreadInv, TypeOK, CloseClient, MainLocations, ClientInv,
                    Opened, Between, Thread, At, Goto, jackVars, structVars
<1>5. ClientInv'
  BY <1>1, <1>2 DEF ThreadInv, TypeOK, CloseClient, ClientInv, Opened, Between,
                    Thread, At, Goto, jackVars, structVars, mainVars
<1>6. SpaceInv'
  BY <1>1, <1>2 DEF ThreadInv, TypeOK, CloseClient, SpaceInv, ClientInv,
                    Opened, Between, Thread, At, Serving,
                    jack_ringbuffer_read_space, jackVars, ringVars, structVars
<1>7. ChecksHold'
  BY <1>1, <1>2 DEF ThreadInv, TypeOK, CloseClient, ChecksHold, Between,
                    Thread, At, Goto, Serving, Need, Frame,
                    jack_ringbuffer_read_space, jack_ringbuffer_write_space,
                    ringVars, structVars, mainVars, write_is_short
<1> QED BY <1>3, <1>4, <1>5, <1>6, <1>7

LEMMA CloseFreeJ ==
  ASSUME JInv, NEW t \in {"main", "shutdown"}, CloseFree(t)
  PROVE  JInv'
<1> USE DEF JInv
<1>1. ThreadInv
  BY DEF CloseFree, Crashed, Thread, At
<1>2. /\ DOMAIN pc' = Thread /\ pc'[t] = "forget"
      /\ pc'["rt"] = pc["rt"]
      /\ t = "main" => pc'["shutdown"] = pc["shutdown"]
      /\ t = "shutdown" => pc'["main"] = pc["main"]
  BY Moves DEF CloseFree, Thread
<1>3. TypeOK'
  BY <1>1, <1>2 DEF TypeOK, CloseFree, MainLocations, RtLocations,
                    ShutdownLocations, At, jackVars, ringVars, structVars,
                    mainVars
<1>4. ThreadInv'
  BY <1>1, <1>2 DEF ThreadInv, TypeOK, CloseFree, MainLocations, ClientInv,
                    Opened, Between, Thread, At, Goto, jackVars, structVars
<1>5. ClientInv'
  BY <1>1, <1>2 DEF ThreadInv, TypeOK, CloseFree, ClientInv, Opened, Between,
                    Thread, At, Goto, jackVars, structVars, mainVars
<1>6. SpaceInv'
  BY <1>1, <1>2 DEF ThreadInv, TypeOK, CloseFree, SpaceInv, ClientInv, Opened,
                    Between, Thread, At, Serving, jack_ringbuffer_read_space,
                    jackVars, ringVars, structVars
<1>7. ChecksHold'
  BY <1>1, <1>2 DEF ThreadInv, TypeOK, CloseFree, ChecksHold, Between, Thread,
                    At, Goto, Serving, Need, Frame, jack_ringbuffer_read_space,
                    jack_ringbuffer_write_space, ringVars, structVars,
                    mainVars, write_is_short
<1> QED BY <1>3, <1>4, <1>5, <1>6, <1>7

(* Only main closes without a client: the shutdown callback comes with one. *)
LEMMA CloseNothingJ ==
  ASSUME JInv, NEW t \in {"main", "shutdown"}, CloseNothing(t)
  PROVE  JInv'
<1> USE DEF JInv
<1>1. ThreadInv
  BY DEF CloseNothing, Crashed, Thread, At
<1>2. /\ DOMAIN pc' = Thread
      /\ pc'["rt"] = pc["rt"]
      /\ t = "main" => pc'["shutdown"] = pc["shutdown"]
      /\ t = "shutdown" => pc'["main"] = pc["main"]
      /\ t = "main" => pc'[t] \in {"client_open", "close", "exited"}
      /\ t = "shutdown" => pc'[t] = "idle"
  BY Moves DEF CloseNothing, CloseReturns, Thread
<1>3. 0 \in 0 .. config.nb_channels
  BY JackAssumption DEF TypeOK, NoStream, VBAN_CHANNELS_MAX_NB
<1>4. t = "main" /\ server = "closed" /\ At("rt", "idle") /\ At("shutdown", "idle")
  BY <1>1 DEF CloseNothing, ThreadInv, ClientInv, TypeOK, ShutdownLocations,
              Thread, At
<1>5. TypeOK'
  BY <1>1, <1>3, <1>2 DEF TypeOK, CloseNothing, CloseReturns, MainLocations,
                          RtLocations, ShutdownLocations, At, jackVars,
                          ringVars, structVars, mainVars
<1>6. ThreadInv'
  BY <1>1, <1>2, <1>4 DEF ThreadInv, TypeOK, CloseNothing, CloseReturns,
                          MainLocations, ClientInv, Opened, Between, Thread,
                          At, Goto, jackVars, structVars
<1>7. ClientInv'
  BY <1>1, <1>2 DEF ThreadInv, TypeOK, CloseNothing, CloseReturns, ClientInv,
                    Opened, Between, Thread, At, Goto, jackVars, structVars,
                    mainVars
<1>8. SpaceInv'
  BY <1>1, <1>2 DEF ThreadInv, TypeOK, CloseNothing, CloseReturns, SpaceInv,
                    ClientInv, Opened, Between, Thread, At, Serving,
                    jack_ringbuffer_read_space, jackVars, ringVars, structVars
<1>9. ChecksHold'
  BY <1>1, <1>2 DEF ThreadInv, TypeOK, CloseNothing, CloseReturns, ChecksHold,
                    Between, Thread, At, Goto, Serving, Need, Frame,
                    jack_ringbuffer_read_space, jack_ringbuffer_write_space,
                    ringVars, structVars, mainVars, write_is_short
<1> QED BY <1>5, <1>6, <1>7, <1>8, <1>9

LEMMA CloseForgetJ ==
  ASSUME JInv, NEW t \in {"main", "shutdown"}, CloseForget(t)
  PROVE  JInv'
<1> USE DEF JInv
<1>1. ThreadInv
  BY DEF CloseForget, Crashed, Thread, At
<1>2. /\ DOMAIN pc' = Thread
      /\ pc'["rt"] = pc["rt"]
      /\ t = "main" => pc'["shutdown"] = pc["shutdown"]
      /\ t = "shutdown" => pc'["main"] = pc["main"]
      /\ t = "main" => pc'[t] \in {"client_open", "close", "exited"}
      /\ t = "shutdown" => pc'[t] = "idle"
  BY Moves DEF CloseForget, CloseReturns, Thread
<1>3. 0 \in 0 .. config.nb_channels
  BY JackAssumption DEF TypeOK, NoStream, VBAN_CHANNELS_MAX_NB
<1>4. TypeOK'
  BY <1>1, <1>3, <1>2 DEF TypeOK, CloseForget, CloseReturns, MainLocations,
                          RtLocations, ShutdownLocations, At, jackVars,
                          ringVars, structVars, mainVars
<1>5. ThreadInv'
  BY <1>1, <1>2 DEF ThreadInv, TypeOK, CloseForget, CloseReturns,
                    MainLocations, ClientInv, Opened, Between, Thread, At,
                    Goto, jackVars, structVars
<1>6. ClientInv'
  BY <1>1, <1>2 DEF ThreadInv, TypeOK, CloseForget, CloseReturns, ClientInv,
                    Opened, Between, Thread, At, Goto, jackVars, structVars,
                    mainVars
<1>7. SpaceInv'
  BY <1>1, <1>2 DEF ThreadInv, TypeOK, CloseForget, CloseReturns, SpaceInv,
                    ClientInv, Opened, Between, Thread, At, Serving,
                    jack_ringbuffer_read_space, jackVars, ringVars, structVars
<1>8. ChecksHold'
  BY <1>1, <1>2 DEF ThreadInv, TypeOK, CloseForget, CloseReturns, ChecksHold,
                    Between, Thread, At, Goto, Serving, Need, Frame,
                    jack_ringbuffer_read_space, jack_ringbuffer_write_space,
                    ringVars, structVars, mainVars, write_is_short
<1> QED BY <1>4, <1>5, <1>6, <1>7, <1>8

(* The other steps. *)
LEMMA ReconfigureJ ==
  ASSUME JInv, Reconfigure
  PROVE  JInv'
<1> USE DEF JInv
<1>1. ThreadInv
  BY DEF Reconfigure, Crashed, Thread, At
<1>2. /\ DOMAIN pc' = Thread /\ pc'["main"] = "close"
      /\ pc'["rt"] = pc["rt"] /\ pc'["shutdown"] = pc["shutdown"]
  BY Moves DEF Reconfigure, Thread
<1>3. TypeOK'
  BY <1>1, <1>2 DEF TypeOK, Reconfigure, MainLocations, RtLocations,
                    ShutdownLocations, At, jackVars, ringVars, structVars,
                    mainVars
<1>4. ThreadInv'
  BY <1>1, <1>2 DEF ThreadInv, TypeOK, Reconfigure, MainLocations, ClientInv,
                    Opened, Between, Thread, At, Goto, jackVars, structVars
<1>5. ClientInv'
  BY <1>1, <1>2 DEF ThreadInv, TypeOK, Reconfigure, ClientInv, Opened, Between,
                    Thread, At, Goto, jackVars, structVars, mainVars
<1>6. SpaceInv'
  BY <1>1, <1>2 DEF ThreadInv, TypeOK, Reconfigure, SpaceInv, ClientInv,
                    Opened, Between, Thread, At, Serving,
                    jack_ringbuffer_read_space, jackVars, ringVars, structVars
<1>7. ChecksHold'
  BY <1>1, <1>2 DEF ThreadInv, TypeOK, Reconfigure, ChecksHold, Between,
                    Thread, At, Goto, Serving, Need, Frame,
                    jack_ringbuffer_read_space, jack_ringbuffer_write_space,
                    ringVars, structVars, mainVars, write_is_short
<1> QED BY <1>3, <1>4, <1>5, <1>6, <1>7

LEMMA ServerDiesJ ==
  ASSUME JInv, ServerDies
  PROVE  JInv'
<1> USE DEF JInv
<1>1. ThreadInv
  BY DEF ServerDies, Crashed, Thread, At
<1>2. /\ DOMAIN pc' = Thread /\ pc'["shutdown"] = "close"
      /\ pc'["rt"] = pc["rt"] /\ pc'["main"] = pc["main"]
  BY Moves DEF ServerDies, Thread
<1>3. TypeOK'
  BY <1>1, <1>2 DEF TypeOK, ServerDies, MainLocations, RtLocations,
                    ShutdownLocations, At, jackVars, ringVars, structVars,
                    mainVars
<1>4. ThreadInv'
  BY <1>1, <1>2 DEF ThreadInv, TypeOK, ServerDies, MainLocations, ClientInv,
                    Opened, Between, Thread, At, Goto, jackVars, structVars
<1>5. ClientInv'
  BY <1>1, <1>2 DEF ThreadInv, TypeOK, ServerDies, ClientInv, Opened, Between,
                    Thread, At, Goto, jackVars, structVars, mainVars
<1>6. SpaceInv'
  BY <1>1, <1>2 DEF ThreadInv, TypeOK, ServerDies, SpaceInv, ClientInv, Opened,
                    Between, Thread, At, Serving, jack_ringbuffer_read_space,
                    jackVars, ringVars, structVars
<1>7. ChecksHold'
  BY <1>1, <1>2 DEF ThreadInv, TypeOK, ServerDies, ChecksHold, Between, Thread,
                    At, Goto, Serving, Need, Frame, jack_ringbuffer_read_space,
                    jack_ringbuffer_write_space, ringVars, structVars,
                    mainVars, write_is_short
<1> QED BY <1>3, <1>4, <1>5, <1>6, <1>7


(* Before the first stream there is no format. *)
LEMMA NoStreamIsNone == NoStream \notin Configs /\ 0 \in 0 .. NoStream.nb_channels
BY JackAssumption DEF NoStream, VBAN_CHANNELS_MAX_NB

LEMMA InitJ == Init => JInv
<1> SUFFICES ASSUME Init PROVE JInv
  OBVIOUS
<1>1. TypeOK
  <2>1. DOMAIN pc = Thread
    BY DEF Init, Thread
  <2>2. out \in [silence : Nat, audio : Nat, phase : Nat]
    BY DEF Init, Silent
  <2>3. /\ pc["main"] \in MainLocations /\ pc["rt"] \in RtLocations
        /\ pc["shutdown"] \in ShutdownLocations
    BY DEF Init, MainLocations, RtLocations, ShutdownLocations
  <2>4. ports \in 0 .. config.nb_channels
    BY NoStreamIsNone DEF Init
  <2>5. buffers \in 0 .. VBAN_CHANNELS_MAX_NB
    BY DEF Init, VBAN_CHANNELS_MAX_NB
  <2>6. {ring_size, silence, audio, phase, packet} \subseteq Nat
    BY DEF Init
  <2>7. /\ ring_buffer \in {"null", "live", "freed"}
        /\ after \in {"open", "failed", "exit"}
        /\ server \in {"closed", "open", "active", "dead"}
    BY DEF Init
  <2>8. /\ jack_client \in BOOLEAN /\ active \in BOOLEAN
        /\ config \in Configs \cup {NoStream} /\ request \in Configs \cup {NoStream}
    BY DEF Init
  <2> QED BY <2>1, <2>2, <2>3, <2>4, <2>5, <2>6, <2>7, <2>8 DEF TypeOK
<1>2. ThreadInv
  BY DEF Init, ThreadInv, At, Thread, Between, Opened
<1>3. ClientInv
  BY DEF Init, ClientInv, At
<1>4. SpaceInv
  BY NoStreamIsNone DEF Init, SpaceInv, Opened, Serving
<1>5. ChecksHold
  BY DEF Init, ChecksHold, At
<1> QED BY <1>1, <1>2, <1>3, <1>4, <1>5 DEF JInv

LEMMA RestartJ ==
  ASSUME Restart
  PROVE  JInv'
<1>1. TypeOK'
  <2>1. DOMAIN pc' = Thread
    BY DEF Restart, Thread
  <2>2. out' \in [silence : Nat, audio : Nat, phase : Nat]
    BY DEF Restart, Silent
  <2>3. /\ pc'["main"] \in MainLocations /\ pc'["rt"] \in RtLocations
        /\ pc'["shutdown"] \in ShutdownLocations
    BY DEF Restart, MainLocations, RtLocations, ShutdownLocations
  <2>4. ports' \in 0 .. config'.nb_channels
    BY NoStreamIsNone DEF Restart
  <2>5. buffers' \in 0 .. VBAN_CHANNELS_MAX_NB
    BY DEF Restart, VBAN_CHANNELS_MAX_NB
  <2>6. {ring_size', silence', audio', phase', packet'} \subseteq Nat
    BY DEF Restart
  <2>7. /\ ring_buffer' \in {"null", "live", "freed"}
        /\ after' \in {"open", "failed", "exit"}
        /\ server' \in {"closed", "open", "active", "dead"}
    BY DEF Restart
  <2>8. /\ jack_client' \in BOOLEAN /\ active' \in BOOLEAN
        /\ config' \in Configs \cup {NoStream} /\ request' \in Configs \cup {NoStream}
    BY DEF Restart
  <2> QED BY <2>1, <2>2, <2>3, <2>4, <2>5, <2>6, <2>7, <2>8 DEF TypeOK
<1>2. ThreadInv'
  BY DEF Restart, ThreadInv, At, Thread, Between, Opened
<1>3. ClientInv'
  BY DEF Restart, ClientInv, At
<1>4. SpaceInv'
  BY NoStreamIsNone DEF Restart, SpaceInv, Opened, Serving
<1>5. ChecksHold'
  BY DEF Restart, ChecksHold, At
<1> QED BY <1>1, <1>2, <1>3, <1>4, <1>5 DEF JInv

LEMMA StutterJ ==
  ASSUME JInv, UNCHANGED vars
  PROVE  JInv'
BY DEF JInv, vars, structVars, ringVars, jackVars, mainVars, TypeOK, Crashed,
       ThreadInv, ClientInv, SpaceInv, ChecksHold, At, Need, Frame,
       jack_ringbuffer_read_space, jack_ringbuffer_write_space

LEMMA CloseJ ==
  ASSUME JInv, NEW t \in {"main", "shutdown"}, jack_close(t)
  PROVE  JInv'
BY CloseNothingJ, CloseBeginJ, CloseDeactivateJ, CloseClientJ, CloseFreeJ, CrashJ,
   CloseForgetJ
   DEF jack_close, CloseFreeTwice

(* JInv is inductive. *)
LEMMA NextJ ==
  ASSUME JInv, [Next]_vars
  PROVE  JInv'
<1>1. CASE jack_open
  BY <1>1, ClientOpenJ, CreateJ, ActivateJ, RegisterJ, ConnectJ DEF jack_open
<1>2. CASE jack_write
  BY <1>2, WriteBeginJ, WriteSpaceJ, WriteRingJ, CrashJ
     DEF jack_write, WriteCrash
<1>3. CASE jack_process_cb
  BY <1>3, CallbackBeginJ, CallbackVectorJ, CallbackConvertJ, CrashJ
     DEF jack_process_cb, CallbackCrash
<1>4. CASE jack_close("main") \/ jack_close("shutdown")
  BY <1>4, CloseJ
<1>5. CASE Reconfigure \/ ServerDies \/ Restart
  BY <1>5, ReconfigureJ, ServerDiesJ, RestartJ
<1>6. CASE UNCHANGED vars
  BY <1>6, StutterJ
<1> QED BY <1>1, <1>2, <1>3, <1>4, <1>5, <1>6 DEF Next

(* JInv holds in every state of every behaviour. *)
THEOREM JackInvariance == Spec => []JInv
<1>1. JInv /\ [Next]_vars => JInv'
  BY NextJ
<1> QED BY InitJ, <1>1, PTL DEF Spec

(* Every field of jack_backend_t and every thread stays in its type. *)
THEOREM JackTypeCorrect == Spec => []TypeOK
<1>1. JInv => TypeOK
  BY DEF JInv
<1> QED BY <1>1, JackInvariance, PTL

(* jack_write and the callback find the room and the bytes they checked     *)
(* for, whatever the other thread did between the check and the use.        *)
THEOREM ChecksHoldHolds == Spec => []ChecksHold
<1>1. JInv => ChecksHold
  BY DEF JInv
<1> QED BY <1>1, JackInvariance, PTL

(* However jack_open fails and whoever closes, main ends with the client    *)
(* closed and the ring buffer freed.                                        *)
THEOREM ReleasedHolds == Spec => []Released
<1>1. JInv => Released
  BY DEF JInv, Crashed, ThreadInv, ClientInv, Released, At, Thread, Between
<1> QED BY <1>1, JackInvariance, PTL
-----------------------------------------------------------------------------
(* Whole frames *)

LEMMA Multiple ==
  ASSUME NEW a \in Nat, NEW f \in Nat \ {0} PROVE (a * f) % f = 0
BY SMT

LEMMA Difference ==
  ASSUME NEW a \in Nat, NEW b \in Nat, NEW f \in Nat \ {0}, a % f = 0, b % f = 0, b <= a
  PROVE  (a - b) % f = 0
<1>1. PICK p \in Nat, q \in Nat : a = p * f /\ b = q * f
  <2>1. a = f * (a \div f) + (a % f) /\ b = f * (b \div f) + (b % f)
    BY SMT
  <2>2. a \div f \in Nat /\ b \div f \in Nat
    BY SMT
  <2>3. a = (a \div f) * f /\ b = (b \div f) * f
    BY <2>1, <2>2, SMT
  <2> QED BY <2>2, <2>3
<1>2. p - q \in Nat
  <2>1. CASE p < q
    <3>1. p * f < q * f
      BY <2>1, SMT
    <3> QED BY <1>1, <3>1, SMT
  <2> QED BY <2>1, SMT
<1>3. a - b = (p - q) * f
  BY <1>1, SMT
<1> QED BY <1>2, <1>3, Multiple

-----------------------------------------------------------------------------
(* The life of the ring buffer *)

(* After a crash nothing runs but a new process. *)
LEMMA NotCrashed ==
  ASSUME JInv, [Next]_vars
  PROVE  ThreadInv \/ Restart \/ UNCHANGED vars
BY DEF JInv, Crashed, Thread, At, Next, jack_open, jack_write, jack_process_cb,
       jack_close,
       ClientOpen, CreateRing, Activate, RegisterPort, Connect,
       WriteBegin, WriteSpace, WriteRing, WriteCrash,
       CallbackBegin, CallbackVector, CallbackConvert, CallbackCrash,
       CloseNothing, CloseBegin, CloseDeactivate, CloseClient, CloseFree, CloseFreeTwice,
       CloseForget,
       Reconfigure, ServerDies

(* While the server lives, only main closes. *)
LEMMA LiveNext ==
  ASSUME JInv, LiveInv, ServerMayDie = FALSE, [Next]_vars
  PROVE  LiveInv'
<1> USE DEF JInv
<1>1. CASE Restart
  BY <1>1 DEF Restart, LiveInv, Opened
<1>2. CASE UNCHANGED vars
  BY <1>2 DEF vars, structVars, LiveInv, Opened
<1>3. CASE ThreadInv /\ jack_open
  <2>1. CASE ClientOpen
    BY <1>3, <2>1 DEF ClientOpen, OpenReturns, ENODEV, LiveInv, TypeOK,
                      ThreadInv, Thread, Opened, Between, At, Goto, structVars,
                      ringVars, jackVars, mainVars
  <2>2. CASE CreateRing
    BY <1>3, <2>2 DEF CreateRing, LiveInv, TypeOK, ThreadInv, Thread, Opened,
                      Between, At, Goto, structVars, ringVars, jackVars,
                      mainVars
  <2>3. CASE Activate
    BY <1>3, <2>3 DEF Activate, OpenReturns, LiveInv, TypeOK, ThreadInv,
                      Thread, Opened, Between, At, Goto, structVars, ringVars,
                      jackVars, mainVars
  <2>4. CASE RegisterPort
    BY <1>3, <2>4 DEF RegisterPort, LiveInv, TypeOK, ThreadInv, Thread, Opened,
                      Between, At, Goto, structVars, ringVars, jackVars,
                      mainVars
  <2>5. CASE Connect
    BY <1>3, <2>5 DEF Connect, OpenReturns, LiveInv, TypeOK, ThreadInv, Thread,
                      Opened, Between, At, Goto, structVars, ringVars,
                      jackVars, mainVars
  <2> QED BY <1>3, <2>1, <2>2, <2>3, <2>4, <2>5 DEF jack_open
<1>4. CASE ThreadInv /\ Crash
  BY <1>4 DEF Crash, LiveInv, TypeOK, ThreadInv, Thread, Opened, Between, At,
              Goto, structVars, ringVars, jackVars, mainVars
<1>5. CASE ThreadInv /\ jack_write
  <2>1. CASE WriteBegin
    BY <1>5, <2>1 DEF WriteBegin, LiveInv, TypeOK, ThreadInv, Thread, Opened,
                      Between, At, Goto, structVars, ringVars, jackVars,
                      mainVars
  <2>2. CASE WriteSpace
    BY <1>5, <2>2 DEF WriteSpace, LiveInv, TypeOK, ThreadInv, Thread, Opened,
                      Between, At, Goto, structVars, ringVars, jackVars,
                      mainVars
  <2>3. CASE WriteRing
    BY <1>5, <2>3 DEF WriteRing, LiveInv, TypeOK, ThreadInv, Thread, Opened,
                      Between, At, Goto, structVars, ringVars, jackVars,
                      mainVars
  <2> QED BY <1>4, <1>5, <2>1, <2>2, <2>3 DEF jack_write, WriteCrash
<1>6. CASE ThreadInv /\ jack_process_cb
  <2>1. CASE CallbackBegin
    BY <1>6, <2>1 DEF CallbackBegin, LiveInv, TypeOK, ThreadInv, Thread,
                      Opened, Between, At, Goto, structVars, ringVars,
                      jackVars, mainVars
  <2>2. CASE CallbackVector
    BY <1>6, <2>2 DEF CallbackVector, LiveInv, TypeOK, ThreadInv, Thread,
                      Opened, Between, At, Goto, structVars, ringVars,
                      jackVars, mainVars
  <2>3. CASE CallbackConvert
    BY <1>6, <2>3 DEF CallbackConvert, LiveInv, TypeOK, ThreadInv, Thread,
                      Opened, Between, At, Goto, structVars, ringVars,
                      jackVars, mainVars
  <2> QED BY <1>4, <1>6, <2>1, <2>2, <2>3 DEF jack_process_cb, CallbackCrash
<1>7. CASE ThreadInv /\ (jack_close("main") \/ jack_close("shutdown"))
  <2>1. PICK t \in {"main", "shutdown"} : jack_close(t)
    BY <1>7
  <2>2. At("shutdown", "idle")
    BY <1>7 DEF LiveInv, TypeOK, ThreadInv, Thread, Opened, Between, At, Goto,
                ShutdownLocations
  <2>3. CASE CloseNothing(t)
    BY <1>7, <2>2, <2>3 DEF CloseNothing, CloseReturns, LiveInv, TypeOK,
                            ThreadInv, Thread, Opened, Between, At, Goto,
                            structVars, ringVars, jackVars, mainVars
  <2>4. CASE CloseBegin(t)
    BY <1>7, <2>2, <2>4 DEF CloseBegin, LiveInv, TypeOK, ThreadInv, Thread,
                            Opened, Between, At, Goto, structVars, ringVars,
                            jackVars, mainVars
  <2>5. CASE CloseDeactivate(t)
    BY <1>7, <2>2, <2>5 DEF CloseDeactivate, LiveInv, TypeOK, ThreadInv,
                            Thread, Opened, Between, At, Goto, structVars,
                            ringVars, jackVars, mainVars
  <2>6. CASE CloseClient(t)
    BY <1>7, <2>2, <2>6 DEF CloseClient, LiveInv, TypeOK, ThreadInv, Thread,
                            Opened, Between, At, Goto, structVars, ringVars,
                            jackVars, mainVars
  <2>7. CASE CloseFree(t)
    BY <1>7, <2>2, <2>7 DEF CloseFree, LiveInv, TypeOK, ThreadInv, Thread,
                            Opened, Between, At, Goto, structVars, ringVars,
                            jackVars, mainVars
  <2>8. CASE CloseForget(t)
    BY <1>7, <2>2, <2>8 DEF CloseForget, CloseReturns, LiveInv, TypeOK,
                            ThreadInv, Thread, Opened, Between, At, Goto,
                            structVars, ringVars, jackVars, mainVars
  <2> QED
    BY <1>4, <1>7, <2>1, <2>3, <2>4, <2>5, <2>6, <2>7, <2>8
       DEF jack_close, CloseFreeTwice
<1>8. CASE ThreadInv /\ Reconfigure
  BY <1>8 DEF Reconfigure, LiveInv, TypeOK, ThreadInv, Thread, Opened, Between,
              At, Goto, structVars, ringVars, jackVars, mainVars
<1>9. ~ServerDies
  BY DEF ServerDies
<1> QED
  BY <1>1, <1>2, <1>3, <1>5, <1>6, <1>7, <1>8, <1>9, NotCrashed DEF Next

(* While the server lives, no thread uses a ring buffer that jack_close has *)
(* freed and none is freed twice.                                           *)
THEOREM RingLiveHolds ==
  ASSUME ServerMayDie = FALSE
  PROVE  Spec => []RingLive
<1>1. Init => LiveInv
  BY DEF Init, LiveInv, Opened
<1>2. JInv /\ LiveInv /\ [Next]_vars => LiveInv'
  BY LiveNext
<1>3. JInv /\ LiveInv => RingLive
  BY DEF LiveInv, TypeOK, ThreadInv, Thread, Opened, Between, At, Goto, JInv,
         Crashed, RingLive, Serving, ClientInv, RtLocations, ShutdownLocations
<1> QED BY <1>1, <1>2, <1>3, JackInvariance, PTL DEF Spec

(* A silence of whole frames, for every change of format the audio layer    *)
(* can ask for.                                                             *)
SilenceFits ==
  \A old \in Configs \cup {NoStream}, new \in Configs :
    (jack_buffer_size(old.nb_channels, new) \div NB_BUFFERS) % FrameSize(new) = 0

(* So it is when the numbers of channels divide the period and the frames   *)
(* the size that goes with the quality, as with one, two or four channels   *)
(* of 16 bits; five channels divide no power of two.                        *)
LEMMA SilenceOfDivisors ==
  ASSUME \A c \in Configs : /\ Period % c.nb_channels = 0
                            /\ computeSize(Quality) % FrameSize(c) = 0
  PROVE  SilenceFits
<1> SUFFICES ASSUME NEW old \in Configs \cup {NoStream}, NEW new \in Configs
             PROVE  (jack_buffer_size(old.nb_channels, new) \div NB_BUFFERS)
                      % FrameSize(new) = 0
  BY DEF SilenceFits
<1> DEFINE wanted == computeSize(Quality)
           nb     == new.nb_channels
           bytes  == VBanBitResolutionSize[new.bit_fmt]
           size   == Period * old.nb_channels * bytes
           larger == IF wanted > size THEN wanted ELSE size
<1>1. /\ Period \in Nat /\ old.nb_channels \in Nat /\ nb \in Nat \ {0} /\ bytes \in Nat \ {0}
      /\ wanted \in Nat
  <2>1. Period \in Nat /\ nb \in 1 .. 256 /\ new.bit_fmt \in 0 .. 5
    BY JackAssumption DEF VBAN_CHANNELS_MAX_NB
  <2>2. old.nb_channels \in Nat
    BY JackAssumption DEF VBAN_CHANNELS_MAX_NB, NoStream
  <2>3. bytes \in 1 .. 8
    BY <2>1, SizeTable, Zenon
  <2>4. wanted \in 1 .. 2^15
    BY WantedSize, Zenon
  <2> HIDE DEF wanted, bytes, nb
  <2> QED BY <2>1, <2>2, <2>3, <2>4, SMT
<1>2. FrameSize(new) = nb * bytes /\ Period % nb = 0 /\ wanted % FrameSize(new) = 0
  BY DEF FrameSize
<1>3. jack_buffer_size(old.nb_channels, new) = larger * 2
  BY DEF jack_buffer_size, NB_BUFFERS
<1> HIDE DEF wanted, nb, bytes
<1>4. nb * bytes \in Nat \ {0}
  BY <1>1, SMT
<1>5. size \in Nat /\ size % (nb * bytes) = 0
  <2> DEFINE k == Period \div nb
             channels == old.nb_channels
  <2>1. k \in Nat /\ Period = k * nb /\ channels \in Nat
    BY <1>1, <1>2, SMT
  <2> HIDE DEF k, channels
  <2>2. \A a, b, c, d \in Nat : a * b * c * d = (a * c) * (b * d)
    BY SMT
  <2>3. size = (k * channels) * (nb * bytes)
    BY <1>1, <2>1, <2>2 DEF channels
  <2>4. k * channels \in Nat
    BY <2>1, SMT
  <2>5. size \in Nat
    BY <1>4, <2>3, <2>4, SMT
  <2> QED BY <1>4, <2>3, <2>4, <2>5, Multiple
<1> HIDE DEF size
<1>6. larger \in Nat /\ larger % (nb * bytes) = 0
  BY <1>1, <1>2, <1>5 DEF larger
<1> HIDE DEF larger
<1>7. (larger * 2) \div NB_BUFFERS = larger
  BY <1>6, SMT DEF NB_BUFFERS
<1> QED BY <1>2, <1>3, <1>6, <1>7

(* No step but CreateRing and CallbackConvert moves the silence. *)
Quiet == UNCHANGED <<silence, phase, out, config>>

LEMMA QuietSteps ==
  ASSUME [Next]_vars
  PROVE  CreateRing \/ CallbackConvert \/ Restart \/ Quiet
BY DEF Next, jack_open, jack_write, jack_process_cb, jack_close, Crash,
       ClientOpen, Activate, RegisterPort, Connect,
       WriteBegin, WriteSpace, WriteRing, WriteCrash,
       CallbackBegin, CallbackVector, CallbackCrash,
       CloseNothing, CloseBegin, CloseDeactivate, CloseClient, CloseFree, CloseFreeTwice,
       CloseForget,
       Reconfigure, ServerDies, Quiet, vars, structVars, ringVars, jackVars, mainVars

(* Each period takes whole frames of silence, then whole frames of audio. *)
LEMMA AlignNext ==
  ASSUME JInv, AlignInv, SilenceFits, [Next]_vars
  PROVE  AlignInv'
<1> USE DEF JInv
<1>1. CASE CreateRing
  <2>1. request \in Configs
    BY <1>1 DEF CreateRing, ClientInv, At
  <2>2. silence' = jack_buffer_size(config.nb_channels, request) \div NB_BUFFERS
        /\ Frame' = FrameSize(request)
    BY <1>1 DEF CreateRing, Frame
  <2>3. silence' % Frame' = 0
    BY <2>1, <2>2 DEF SilenceFits, TypeOK
  <2> QED BY <1>1, <2>3 DEF CreateRing, AlignInv, Silent
<1>2. CASE CallbackConvert
  <2> DEFINE quiet == IF silence < Need THEN silence ELSE Need
  <2>1. config \in Configs
    BY <1>2 DEF CallbackConvert, SpaceInv, Serving, At
  <2>2. Need \in Nat /\ Frame \in Nat \ {0} /\ Period \in Nat
    BY <2>1, NeedIsNat, JackAssumption, SMT
  <2>3. silence \in Nat /\ phase = 0 /\ silence % Frame = 0
    BY <2>1 DEF TypeOK, AlignInv
  <2>4. Need % Frame = 0 /\ 0 % Frame = 0
    BY <2>2, Multiple, SMT DEF Need
  <2>5. quiet \in Nat /\ quiet <= Need /\ quiet <= silence /\ quiet % Frame = 0
    <3>1. CASE silence < Need
      BY <2>2, <2>3, <3>1
    <3>2. CASE ~(silence < Need)
      BY <2>2, <2>3, <2>4, <3>2
    <3> QED BY <3>1, <3>2
  <2>6. /\ out' = [silence |-> quiet, audio |-> Need - quiet, phase |-> phase]
        /\ silence' = silence - quiet /\ phase' = (phase + Need - quiet) % Frame
        /\ config' = config /\ Frame' = Frame
    BY <1>2 DEF CallbackConvert, structVars, Frame
  <2> HIDE DEF quiet
  <2>7. (silence - quiet) % Frame = 0 /\ (Need - quiet) % Frame = 0
    BY <2>2, <2>3, <2>4, <2>5, Difference
  <2>8. phase' = 0
    <3>1. phase + Need - quiet = Need - quiet
      BY <2>2, <2>3, <2>5
    <3> QED BY <2>6, <2>7, <3>1
  <2>9. out'.silence = quiet /\ out'.phase = 0
    BY <2>3, <2>6
  <2> QED BY <2>5, <2>6, <2>7, <2>8, <2>9 DEF AlignInv
<1>3. CASE Restart
  BY <1>3, NoStreamIsNone DEF Restart, AlignInv, Silent
<1>4. CASE Quiet
  BY <1>4 DEF Quiet, AlignInv, Frame
<1> QED BY <1>1, <1>2, <1>3, <1>4, QuietSteps

(* With a silence of whole frames each channel is heard on its own port. *)
THEOREM AlignedHolds ==
  ASSUME SilenceFits
  PROVE  Spec => []Aligned
<1>1. Init => AlignInv
  BY NoStreamIsNone DEF Init, AlignInv, Silent
<1>2. JInv /\ AlignInv /\ [Next]_vars => AlignInv'
  BY AlignNext
<1>3. AlignInv => Aligned
  BY DEF AlignInv, Aligned
<1> QED BY <1>1, <1>2, <1>3, JackInvariance, PTL DEF Spec

-----------------------------------------------------------------------------
(* The least ring buffer has room for a period and any packet. *)
PeriodFits ==
  \A c \in Configs, f \in PacketFrames :
    (Period + f) * FrameSize(c)
      <= jack_ringbuffer_create(NB_BUFFERS * computeSize(Quality))

(* No ring buffer is smaller than the first one, asked for when the number  *)
(* of channels is still 0.                                                  *)
LEMMA LeastRing ==
  ASSUME NEW old \in 0 .. 256, NEW new \in Configs
  PROVE  /\ jack_ringbuffer_create(NB_BUFFERS * computeSize(Quality)) \in Nat
         /\ jack_ringbuffer_create(NB_BUFFERS * computeSize(Quality))
              <= jack_ringbuffer_create(jack_buffer_size(old, new))
<1> DEFINE least == NB_BUFFERS * computeSize(Quality)
           size  == jack_buffer_size(old, new)
<1>1. least \in Nat
  BY WantedSize, SMT DEF NB_BUFFERS
<1>2. size \in Nat /\ size <= 2^30 /\ least <= size
  <2>1. size \in Nat /\ size <= 2^30 /\ size >= least
    BY BufferSize
  <2> HIDE DEF size, least
  <2> QED BY <1>1, <2>1
<1> HIDE DEF least, size
<1>3. least <= 2^30
  BY <1>1, <1>2, SMT
<1>4. jack_ringbuffer_create(least) \in Nat
  BY <1>1, <1>3, RingCreated, PowersAreNat
<1> QED BY <1>1, <1>2, <1>4, RingMonotone DEF least, size

(* The room only changes with the ring buffer, the packet with jack_write. *)
LEMMA RoomNext ==
  ASSUME JInv, RoomInv, PeriodFits, [Next]_vars
  PROVE  RoomInv'
<1> USE DEF JInv
<1>1. CASE CreateRing
  <2> DEFINE least == jack_ringbuffer_create(NB_BUFFERS * computeSize(Quality))
  <2>1. request \in Configs /\ config.nb_channels \in 0 .. 256
    BY <1>1, JackAssumption DEF CreateRing, ClientInv, At, TypeOK, NoStream,
                                VBAN_CHANNELS_MAX_NB
  <2>2. /\ least \in Nat /\ ring_size' \in Nat /\ least <= ring_size'
        /\ Frame' = FrameSize(request)
    BY <1>1, <2>1, LeastRing, RingSize DEF CreateRing, Frame
  <2>3. \A f \in PacketFrames : (Period + f) * Frame' <= least
    BY <2>1, <2>2 DEF PeriodFits
  <2>4. \A f \in PacketFrames : (Period + f) * Frame' \in Nat
    <3>1. Frame' \in Nat
      BY <2>1, <2>2, FrameRange
    <3>2. \A f \in PacketFrames : Period + f \in Nat
      BY JackAssumption, SMT
    <3>3. \A a, b \in Nat : a * b \in Nat
      BY SMT
    <3> QED BY <3>1, <3>2, <3>3, Zenon
  <2>5. \A n \in Nat : n <= least => n <= ring_size'
    <3> HIDE DEF least
    <3> QED BY <2>2
  <2>6. \A f \in PacketFrames : (Period + f) * Frame' <= ring_size'
    BY <2>3, <2>4, <2>5, Zenon
  <2>7. ~At("main", "write_space")'
    BY <1>1, Moves DEF CreateRing, At, Thread
  <2> QED BY <2>6, <2>7 DEF RoomInv, At
<1>2. CASE Restart
  BY <1>2, NoStreamIsNone DEF Restart, RoomInv, At
<1>3. CASE WriteBegin
  <2>1. \E f \in PacketFrames : packet' = f * Frame
    BY <1>3 DEF WriteBegin
  <2>2. UNCHANGED <<config, ring_size>> /\ Frame' = Frame
    BY <1>3 DEF WriteBegin, structVars, ringVars, Frame
  <2> QED BY <2>1, <2>2 DEF RoomInv
<1>4. CASE /\ UNCHANGED <<config, ring_size, packet>>
           /\ At("main", "write_space")' => At("main", "write_space")
  <2>1. Frame' = Frame
    BY <1>4 DEF Frame
  <2> QED BY <1>4, <2>1 DEF RoomInv
<1>5. \/ CreateRing \/ Restart \/ WriteBegin
      \/ /\ UNCHANGED <<config, ring_size, packet>>
         /\ At("main", "write_space")' => At("main", "write_space")
  <2> USE DEF TypeOK, Thread, At, Goto, structVars, ringVars, jackVars, mainVars
  <2>1. CASE jack_open
    BY <2>1 DEF jack_open, ClientOpen, Activate, RegisterPort, Connect,
                OpenReturns
  <2>2. CASE jack_write
    BY <2>2 DEF jack_write, WriteSpace, WriteRing, WriteCrash, Crash
  <2>3. CASE jack_process_cb
    BY <2>3 DEF jack_process_cb, CallbackBegin, CallbackVector,
                CallbackConvert, CallbackCrash, Crash
  <2>4. ASSUME NEW t \in {"main", "shutdown"}, jack_close(t)
        PROVE  /\ UNCHANGED <<config, ring_size, packet>>
               /\ At("main", "write_space")' => At("main", "write_space")
    BY <2>4 DEF jack_close, CloseNothing, CloseBegin, CloseDeactivate,
                CloseClient, CloseFree,
                CloseFreeTwice, CloseForget, CloseReturns, Crash
  <2>5. CASE Reconfigure \/ ServerDies
    BY <2>5 DEF Reconfigure, ServerDies
  <2>6. CASE UNCHANGED vars
    BY <2>6 DEF vars
  <2> QED BY <2>1, <2>2, <2>3, <2>4, <2>5, <2>6 DEF Next
<1> QED BY <1>1, <1>2, <1>3, <1>4, <1>5

(* A packet that finds no room leaves a whole period to be read. *)
LEMMA RoomEnough ==
  ASSUME JInv, RoomInv
  PROVE  NoStarvation
<1> SUFFICES ASSUME At("main", "write_space"), write_is_short
             PROVE  jack_ringbuffer_read_space >= Need
  BY DEF NoStarvation
<1>1. config \in Configs
  BY DEF JInv, SpaceInv, Opened, At
<1>2. PICK f \in PacketFrames : packet = f * Frame
  BY DEF RoomInv
<1>3. (Period + f) * Frame <= ring_size
  BY <1>1, <1>2 DEF RoomInv
<1>4. Frame \in Nat /\ Need \in Nat /\ Period \in Nat /\ f \in Nat
  BY <1>1, NeedIsNat, JackAssumption, SMT
<1>5. (Period + f) * Frame = Need + packet
  <2>1. \A p, q, r \in Nat : (p + q) * r = p * r + q * r
    BY SMT
  <2> QED BY <1>2, <1>4, <2>1 DEF Need
<1>6. ring_size - 1 - jack_ringbuffer_read_space < packet
  BY DEF write_is_short, jack_ringbuffer_write_space
<1>7. ring_size \in Nat /\ packet \in Nat /\ jack_ringbuffer_read_space \in Nat
  BY DEF JInv, TypeOK, jack_ringbuffer_read_space
<1> QED BY <1>3, <1>4, <1>5, <1>6, <1>7

(* When the least ring buffer holds a period and any packet, a packet is    *)
(* refused only while the callback has something to play.                   *)
THEOREM NoStarvationHolds ==
  ASSUME PeriodFits
  PROVE  Spec => []NoStarvation
<1>1. Init => RoomInv
  BY NoStreamIsNone DEF Init, RoomInv, At
<1>2. JInv /\ RoomInv /\ [Next]_vars => RoomInv'
  BY RoomNext
<1>3. JInv /\ RoomInv => NoStarvation
  BY RoomEnough
<1> QED BY <1>1, <1>2, <1>3, JackInvariance, PTL DEF Spec
=============================================================================
