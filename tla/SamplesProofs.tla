--------------------------- MODULE SamplesProofs ---------------------------
(***************************************************************************)
(* Heard and MissingSilent of Samples, for every size of the buffers, of   *)
(* the packets and of the periods, and every sound.                        *)
(***************************************************************************)
EXTENDS SampleLemmas

(* What jack_convert_sample makes a number of: the formats of floats are    *)
(* taken over bit by bit, those from 6 on have no size.                     *)
IntegerFormats == \A c \in Configs : c.bit_fmt \in 0 .. 3

(* The build in which the highest byte of 24 bits has its sign. *)
SignKept == CharSigned \/ \A c \in Configs : c.bit_fmt # 2

-----------------------------------------------------------------------------
Channel == 0 .. VBAN_CHANNELS_MAX_NB - 1

(* The operators of Samples of a list and a format, whatever the state. *)
Mapping(l)    == audio_parse_map_config(l)
PortsOf(l, c) == IF Mapping(l) = <<>> THEN c.nb_channels ELSE Len(Mapping(l))
SizeOf(c)     == VBanBitResolutionSize[c.bit_fmt]
Chan(l, port) == IF Mapping(l) = <<>> THEN port - 1 ELSE Mapping(l)[port]
Absent(l, c, port) == Chan(l, port) >= c.nb_channels /\ Len(Mapping(l)) <= c.nb_channels

(* The byte b of what a port is to play of a frame. *)
IsByteOf(l, c, frame, port, b, x) ==
  /\ Chan(l, port) < c.nb_channels => x = ByteOf(Sound(frame, Chan(l, port), SizeOf(c)), b)
  /\ Absent(l, c, port) => x = 0

(* Where the ring buffer has the byte that is so far behind ptr. *)
RingAt(ptr, j) == ((ptr + j) % RingSize) + 1

(* The bytes in a ring buffer are those of the frames from first on. *)
Contents(l, c, r, ptr, length, first) ==
  \A frame \in Nat, port \in 1 .. PortsOf(l, c), b \in 1 .. SizeOf(c) :
    LET j == Place(frame, port, b, PortsOf(l, c), SizeOf(c)) IN
    j < length =>
      IsByteOf(l, c, (first + frame) % Loop, port, b, r[RingAt(ptr, j)])

(* The ring buffer holds whole frames, those between played and written. *)
WholeFrames(l, c, length, first, last) ==
  \E q \in Nat : /\ length = q * (PortsOf(l, c) * SizeOf(c))
                 /\ last = (first + q) % Loop

(* What a port was given is the sample it is to play, as a float has it. *)
IsSampleOf(l, c, frame, port, x) ==
  /\ Chan(l, port) < c.nb_channels /\ (c.bit_fmt = 2 => CharSigned) =>
       /\ IsLevel(x, Sound(frame, Chan(l, port), SizeOf(c)), SizeOf(c))
       /\ x.inverted => c.bit_fmt = 3
  /\ Absent(l, c, port) => x.value = 0

OutIs(l, c, last, o) ==
  o # <<>> =>
    \A k \in 1 .. Period, port \in 1 .. PortsOf(l, c) :
      IsSampleOf(l, c, (last - Period + k - 1) % Loop, port,
                 o[(k - 1) * PortsOf(l, c) + port])

TypesOK ==
  /\ list \in Lists /\ config \in Configs
  /\ buffer \in [1 .. DataMax -> Byte]
  /\ ring \in [1 .. RingSize -> Byte]
  /\ read_ptr \in 0 .. RingSize - 1 /\ fill \in 0 .. RingSize - 1
  /\ written \in 0 .. Loop - 1 /\ played \in 0 .. Loop - 1

SamplesInv ==
  /\ TypesOK
  /\ WholeFrames(list, config, fill, played, written)
  /\ Contents(list, config, ring, read_ptr, fill, played)
  /\ OutIs(list, config, played, out)

-----------------------------------------------------------------------------
(* The constants *)

(* The sizes are positive. *)
LEMMA Sizes ==
  DataMax \in Nat \ {0} /\ RingSize \in Nat \ {0} /\ Period \in Nat \ {0}
    /\ PacketFrames \in Nat \ {0} /\ Loop \in Nat \ {0}
BY SamplesAssumption

(* Channels and ports as numbers. *)
LEMMA ChannelNumber ==
  ASSUME NEW chan \in Channel
  PROVE  chan \in Int /\ chan >= 0
BY DEF Channel, VBAN_CHANNELS_MAX_NB

LEMMA PortNumbers ==
  ASSUME NEW n \in 1 .. 256
  PROVE  n \in Nat \ {0} /\ \A port \in 1 .. n : port - 1 \in Channel
BY DEF Channel, VBAN_CHANNELS_MAX_NB

LEMMA ListNumbers ==
  ASSUME NEW m \in Seq(Channel), m # <<>>
  PROVE  Len(m) \in Nat \ {0} /\ \A port \in 1 .. Len(m) : m[port] \in Channel
<1>1. Len(m) \in Nat /\ \A port \in 1 .. Len(m) : m[port] \in Channel
  OBVIOUS
<1>2. Len(m) # 0
  OBVIOUS
<1> QED BY <1>1, <1>2

(* What a list and a format give: sizes, ports and the channel of each. *)
LEMMA Formats ==
  ASSUME IntegerFormats, NEW l \in Lists, NEW c \in Configs
  PROVE  /\ c.nb_channels \in 1 .. 256 /\ c.bit_fmt \in 0 .. 3 /\ SizeOf(c) \in 1 .. 4
         /\ PortsOf(l, c) \in Nat \ {0}
         /\ Mapping(l) \in Seq(Channel)
         /\ \A port \in 1 .. PortsOf(l, c) : Chan(l, port) \in Channel
<1>1. c.nb_channels \in 1 .. 256 /\ c.bit_fmt \in 0 .. 3
  BY SamplesAssumption DEF IntegerFormats, VBAN_CHANNELS_MAX_NB
<1>2. SizeOf(c) \in 1 .. 4
  BY <1>1 DEF SizeOf, VBanBitResolutionSize, VBAN_BIT_RESOLUTION_MAX
<1>3. Mapping(l) \in Seq(Channel)
  BY SamplesAssumption, ParsedMap DEF Mapping, Channel, VBAN_CHANNELS_MAX_NB
<1>4. /\ PortsOf(l, c) \in Nat \ {0}
      /\ \A port \in 1 .. PortsOf(l, c) : Chan(l, port) \in Channel
  <2>1. CASE Mapping(l) = <<>>
    <3>1. PortsOf(l, c) = c.nb_channels /\ \A port : Chan(l, port) = port - 1
      BY <2>1, Zenon DEF PortsOf, Chan
    <3>2. c.nb_channels \in Nat \ {0} /\ \A port \in 1 .. c.nb_channels : port - 1 \in Channel
      BY <1>1, PortNumbers, Zenon
    <3> QED BY <3>1, <3>2, Zenon
  <2>2. CASE Mapping(l) # <<>>
    <3>1. /\ PortsOf(l, c) = Len(Mapping(l))
          /\ \A port : Chan(l, port) = Mapping(l)[port]
      BY <2>2, Zenon DEF PortsOf, Chan
    <3>2. /\ Len(Mapping(l)) \in Nat \ {0}
          /\ \A port \in 1 .. Len(Mapping(l)) : Mapping(l)[port] \in Channel
      BY <1>3, <2>2, ListNumbers, Zenon
    <3> QED BY <3>1, <3>2, Zenon
  <2> QED BY <2>1, <2>2
<1> QED BY <1>1, <1>2, <1>3, <1>4

LEMMA FormatSizes ==
  ASSUME IntegerFormats, NEW c \in Configs
  PROVE  /\ c.nb_channels \in 1 .. 256 /\ c.nb_channels \in Nat \ {0}
         /\ SizeOf(c) \in 1 .. 4 /\ SizeOf(c) \in Nat \ {0}
<1>1. c.nb_channels \in 1 .. 256 /\ c.bit_fmt \in 0 .. 3
  BY SamplesAssumption DEF IntegerFormats, VBAN_CHANNELS_MAX_NB
<1>2. SizeOf(c) \in 1 .. 4
  BY <1>1 DEF SizeOf, VBanBitResolutionSize, VBAN_BIT_RESOLUTION_MAX
<1> QED BY <1>1, <1>2

(* A sound fits the width of its format. *)
LEMMA SoundWidth ==
  ASSUME NEW frame \in 0 .. Loop - 1, NEW chan \in Channel, NEW size \in 1 .. 4
  PROVE  InWidth(Sound(frame, chan, size), size) /\ Sound(frame, chan, size) \in Int
<1>1. InWidth(Sound(frame, chan, size), size)
  <2>1. chan \in 0 .. VBAN_CHANNELS_MAX_NB - 1
    BY DEF VBAN_CHANNELS_MAX_NB, Channel
  <2> QED BY <2>1, SamplesAssumption
<1>2. -(Greatest[size]) - 1 \in Int
  BY DEF Greatest
<1> QED BY <1>1, <1>2 DEF InWidth

(* Frames are counted modulo Loop. *)
LEMMA FrameNumber ==
  ASSUME NEW x \in Int
  PROVE  x % Loop \in 0 .. Loop - 1
BY Sizes, DivModParts

-----------------------------------------------------------------------------
(* The ring buffer *)

(* Remainders of the ring buffer may be taken early. *)
LEMMA RingInside ==
  ASSUME NEW x \in Int, NEW y \in Int
  PROVE  /\ x % RingSize \in Int
         /\ ((x % RingSize) + y) % RingSize = (x + y) % RingSize
<1>1. x % RingSize \in 0 .. RingSize - 1
  BY Sizes, DivModParts
<1>2. x % RingSize \in Int
  BY <1>1, Sizes
<1>3. ((x % RingSize) + y) % RingSize = (x + y) % RingSize
  BY Sizes, ModInside, Zenon
<1> QED BY <1>2, <1>3, Zenon

(* Every distance from ptr is a place of the ring buffer. *)
LEMMA RingPlaces ==
  ASSUME NEW ptr \in Int, NEW j \in Int
  PROVE  RingAt(ptr, j) \in 1 .. RingSize
<1>1. ptr + j \in Int
  OBVIOUS
<1>2. PICK x \in 0 .. RingSize - 1 : x = (ptr + j) % RingSize
  BY <1>1, Sizes, DivModParts
<1> QED BY <1>2, Sizes DEF RingAt

(* Distances may be counted from a pointer that wrapped. *)
LEMMA RingWraps ==
  ASSUME NEW ptr \in Int, NEW need \in Int, NEW j \in Int
  PROVE  RingAt((ptr + need) % RingSize, j) = RingAt(ptr, need + j)
<1>1. ptr + need \in Int
  OBVIOUS
<1>2. (((ptr + need) % RingSize) + j) % RingSize = ((ptr + need) + j) % RingSize
  BY <1>1, RingInside, Zenon
<1>3. (ptr + need) + j = ptr + (need + j)
  OBVIOUS
<1> QED BY <1>2, <1>3, Zenon DEF RingAt

(* How far a place of the ring buffer is behind another one. *)
BehindBy(i, ptr, length) == (i - 1 - ptr - length) % RingSize

(* A place is as far behind as its distance says, within the ring buffer *)
(* or one turn before.                                                   *)
LEMMA Behind ==
  ASSUME NEW ptr \in Int, NEW j \in Int, NEW e \in Int,
         NEW i \in Int, i = RingAt(ptr, j)
  PROVE  BehindBy(i, ptr, e) = (j - e) % RingSize
<1>0. PICK a \in Int, z \in Int : a = ptr + j /\ z = -ptr - e
  <2>1. ptr + j \in Int /\ -ptr - e \in Int
    OBVIOUS
  <2> QED BY <2>1, Zenon
<1>1. ((a % RingSize) + z) % RingSize = (a + z) % RingSize
  BY RingInside
<1>2. a + z = j - e
  BY <1>0
<1>3. PICK x \in Int : x = a % RingSize /\ i = x + 1
  <2>1. a % RingSize \in Int
    BY RingInside
  <2> QED BY <1>0, <2>1, Zenon DEF RingAt
<1>4. i - 1 - ptr - e = x + z
  BY <1>0, <1>3
<1> QED BY <1>1, <1>2, <1>3, <1>4, Zenon DEF BehindBy

LEMMA BehindWithin ==
  ASSUME NEW ptr \in Int, NEW j \in Int, NEW e \in Int,
         NEW k \in 0 .. RingSize - 1, k = j - e,
         NEW i \in Int, i = RingAt(ptr, j)
  PROVE  BehindBy(i, ptr, e) = k
<1>2. k % RingSize = k
  BY Sizes, ModSmall, Zenon
<1>3. BehindBy(i, ptr, e) = (j - e) % RingSize
  BY Behind
<1> QED BY <1>2, <1>3, Zenon

LEMMA BehindBefore ==
  ASSUME NEW ptr \in Int, NEW j \in Nat, NEW e \in Nat, j < e, e < RingSize,
         NEW k, k = RingSize + (j - e), NEW i \in Int, i = RingAt(ptr, j)
  PROVE  BehindBy(i, ptr, e) = k
<1>0. RingSize \in Nat \ {0} /\ j \in Int /\ e \in Int
  BY Sizes
<1>1. k \in 0 .. RingSize - 1 /\ k - RingSize = j - e
  BY <1>0
<1>2. (k - RingSize) % RingSize = k
  BY <1>0, <1>1, ModSmall, Zenon
<1>3. BehindBy(i, ptr, e) = (j - e) % RingSize
  BY <1>0, Behind
<1> QED BY <1>1, <1>2, <1>3, Zenon

(* The effect of jack_ringbuffer_write and of a read. *)
IsWritten(new, r, ptr, length, bytes, n) ==
  new = [i \in 1 .. RingSize |->
           IF BehindBy(i, ptr, length) < n
           THEN bytes[BehindBy(i, ptr, length) + 1] ELSE r[i]]

IsRead(new, r, ptr, need) ==
  new = [i \in 1 .. RingSize |-> IF BehindBy(i, ptr, 0) < need THEN 0 ELSE r[i]]

(* What a write and a read do to a place. *)
LEMMA WrittenAt ==
  ASSUME NEW new, NEW r, NEW ptr, NEW length, NEW bytes, NEW n,
         IsWritten(new, r, ptr, length, bytes, n),
         NEW i \in 1 .. RingSize, NEW k, BehindBy(i, ptr, length) = k
  PROVE  /\ k < n => new[i] = bytes[k + 1]
         /\ ~(k < n) => new[i] = r[i]
BY Zenon DEF IsWritten

LEMMA ReadAt ==
  ASSUME NEW new, NEW r, NEW ptr, NEW need, IsRead(new, r, ptr, need),
         NEW i \in 1 .. RingSize, NEW k, BehindBy(i, ptr, 0) = k, ~(k < need)
  PROVE  new[i] = r[i]
BY Zenon DEF IsRead

RingWritten(new, r, ptr, length, bytes, n) ==
  /\ \A j \in Nat : j < length => new[RingAt(ptr, j)] = r[RingAt(ptr, j)]
  /\ \A j \in Nat : j < n => new[RingAt(ptr, length + j)] = bytes[j + 1]

(* A write keeps what is in the ring buffer and puts its bytes behind. *)
LEMMA WrittenRing ==
  ASSUME NEW r, NEW ptr \in 0 .. RingSize - 1, NEW length \in Nat,
         NEW bytes, NEW n \in Nat, length + n < RingSize,
         NEW new, IsWritten(new, r, ptr, length, bytes, n)
  PROVE  RingWritten(new, r, ptr, length, bytes, n)
<1>0. RingSize \in Nat \ {0} /\ ptr \in Int /\ length \in Int /\ length < RingSize
  BY Sizes
<1>1. ASSUME NEW j \in Nat, j < length
      PROVE new[RingAt(ptr, j)] = r[RingAt(ptr, j)]
  <2>0. j \in Int
    OBVIOUS
  <2>1. PICK i \in 1 .. RingSize : i = RingAt(ptr, j)
    BY <1>0, <2>0, RingPlaces, Zenon
  <2>2. i \in Int
    BY <1>0
  <2>3. PICK k \in Int : k = RingSize + (j - length) /\ ~(k < n)
    <3>1. ~(RingSize + (j - length) < n) /\ RingSize + (j - length) \in Int
      BY <1>0
    <3> QED BY <3>1
  <2>4. BehindBy(i, ptr, length) = k
    BY <1>0, <1>1, <2>1, <2>2, <2>3, BehindBefore
  <2>5. new[i] = r[i]
    BY <2>1, <2>3, <2>4, WrittenAt
  <2> QED BY <2>1, <2>5, Zenon
<1>2. ASSUME NEW j \in Nat, j < n
      PROVE new[RingAt(ptr, length + j)] = bytes[j + 1]
  <2>0. length + j \in Int
    BY <1>0
  <2>1. PICK i \in 1 .. RingSize : i = RingAt(ptr, length + j)
    BY <1>0, <2>0, RingPlaces, Zenon
  <2>2. i \in Int /\ j \in 0 .. RingSize - 1 /\ j = (length + j) - length
    BY <1>0, <1>2
  <2>4. BehindBy(i, ptr, length) = j
    BY <1>0, <2>0, <2>1, <2>2, BehindWithin
  <2>5. new[i] = bytes[j + 1]
    BY <1>2, <2>1, <2>4, WrittenAt
  <2> QED BY <2>1, <2>5, Zenon
<1> QED BY <1>1, <1>2, Zenon DEF RingWritten

(* What jack_process_cb takes out of the ring buffer leaves the rest. *)
RingRead(new, r, ptr, length, need) ==
  \A j \in Nat : j < length - need =>
    new[RingAt((ptr + need) % RingSize, j)] = r[RingAt(ptr, need + j)]

(* A read leaves what is behind the bytes it takes. *)
LEMMA ReadRing ==
  ASSUME NEW r, NEW ptr \in 0 .. RingSize - 1, NEW length \in 0 .. RingSize - 1,
         NEW need \in Nat, need <= length,
         NEW new, IsRead(new, r, ptr, need)
  PROVE  RingRead(new, r, ptr, length, need)
<1>0. RingSize \in Nat \ {0} /\ ptr \in Int /\ 0 \in Int /\ need \in Int
  BY Sizes
<1> SUFFICES ASSUME NEW j \in Nat, j < length - need
             PROVE  new[RingAt((ptr + need) % RingSize, j)] = r[RingAt(ptr, need + j)]
  BY Zenon DEF RingRead
<1>1. RingAt((ptr + need) % RingSize, j) = RingAt(ptr, need + j)
  <2>1. j \in Int
    OBVIOUS
  <2> QED BY <1>0, <2>1, RingWraps, Zenon
<1>2. need + j \in Int
  BY <1>0
<1>3. PICK i \in 1 .. RingSize : i = RingAt(ptr, need + j)
  BY <1>0, <1>2, RingPlaces, Zenon
<1>4. i \in Int /\ need + j \in 0 .. RingSize - 1 /\ need + j = (need + j) - 0
  BY <1>0
<1>5. BehindBy(i, ptr, 0) = need + j
  BY <1>0, <1>2, <1>3, <1>4, BehindWithin
<1>6. ~(need + j < need)
  OBVIOUS
<1>7. new[i] = r[i]
  BY <1>3, <1>5, <1>6, ReadAt
<1> QED BY <1>1, <1>3, <1>7, Zenon

(* jack_ringbuffer_get_read_vector: how much lies in front of the end of    *)
(* the ring buffer, and both parts one behind the other.                    *)
FirstPart(ptr, length)      == IF length > RingSize - ptr THEN RingSize - ptr ELSE length
ReadFirst(r, ptr, length)   == SubSeq(r, ptr + 1, ptr + FirstPart(ptr, length))
ReadSecond(r, ptr, length)  == SubSeq(r, 1, length - FirstPart(ptr, length))

IsVector(p1, p2, r, ptr, length) ==
  /\ p1 \in Seq(Byte) /\ p2 \in Seq(Byte) /\ Len(p1) + Len(p2) = length
  /\ \A j \in Nat : j < length => ByteAt(p1, p2, j + 1) = r[RingAt(ptr, j)]

(* The read vector has the bytes of the ring buffer in their order. *)
LEMMA VectorBytes ==
  ASSUME NEW r \in [1 .. RingSize -> Byte], NEW ptr \in 0 .. RingSize - 1,
         NEW length \in 0 .. RingSize - 1,
         NEW p1, p1 = ReadFirst(r, ptr, length), NEW p2, p2 = ReadSecond(r, ptr, length)
  PROVE  IsVector(p1, p2, r, ptr, length)
<1>0. RingSize \in Nat \ {0}
  BY Sizes
<1>1. r \in Seq(Byte) /\ Len(r) = RingSize
  BY <1>0
<1>2. PICK first \in Nat, rest \in Nat :
        /\ first = FirstPart(ptr, length) /\ rest = length - first
        /\ ptr + first <= RingSize /\ rest <= RingSize
        /\ rest # 0 => first = RingSize - ptr
  <2>1. PICK first \in Nat : /\ first = FirstPart(ptr, length) /\ ptr + first <= RingSize
                             /\ first <= length /\ (length - first # 0 => first = RingSize - ptr)
    <3>1. CASE length > RingSize - ptr
      <4>1. FirstPart(ptr, length) = RingSize - ptr
        BY <3>1, Zenon DEF FirstPart
      <4>2. PICK f \in Nat : f = RingSize - ptr
        BY <1>0
      <4> QED BY <1>0, <3>1, <4>1, <4>2
    <3>2. CASE ~(length > RingSize - ptr)
      <4>1. FirstPart(ptr, length) = length
        BY <3>2, Zenon DEF FirstPart
      <4> QED BY <1>0, <3>2, <4>1
    <3> QED BY <3>1, <3>2
  <2>2. length - first \in Nat /\ length - first <= RingSize
    <3>1. first <= length
      BY <2>1, Zenon
    <3> QED BY <1>0, <3>1
  <2> QED BY <2>1, <2>2
<1>3. /\ p1 \in Seq(Byte) /\ Len(p1) = first
      /\ \A b \in 1 .. first : p1[b] = r[ptr + b]
  <2>1. ptr \in Nat
    BY <1>0
  <2>2. ptr + first <= Len(r)
    BY <1>1, <1>2, Zenon
  <2>3. p1 = SubSeq(r, ptr + 1, ptr + first)
    BY <1>2, Zenon DEF ReadFirst
  <2>4. /\ SubSeq(r, ptr + 1, ptr + first) \in Seq(Byte)
        /\ Len(SubSeq(r, ptr + 1, ptr + first)) = first
        /\ \A b \in 1 .. first : SubSeq(r, ptr + 1, ptr + first)[b] = r[ptr + b]
    BY <1>1, <2>1, <2>2, SubSeqBytes, Zenon
  <2> QED BY <2>3, <2>4, Zenon
<1>5. /\ p2 \in Seq(Byte) /\ Len(p2) = rest
      /\ \A b \in 1 .. rest : p2[b] = r[b]
  <2>1. 0 + rest <= Len(r) /\ 0 \in Nat
    BY <1>1, <1>2
  <2>2. /\ SubSeq(r, 0 + 1, 0 + rest) \in Seq(Byte)
        /\ Len(SubSeq(r, 0 + 1, 0 + rest)) = rest
        /\ \A b \in 1 .. rest : SubSeq(r, 0 + 1, 0 + rest)[b] = r[0 + b]
    BY <1>1, <2>1, SubSeqBytes, Zenon
  <2>3. 0 + 1 = 1 /\ 0 + rest = rest /\ \A b \in 1 .. rest : 0 + b = b
    OBVIOUS
  <2>4. p2 = SubSeq(r, 1, rest)
    BY <1>2, Zenon DEF ReadSecond
  <2> QED BY <2>2, <2>3, <2>4, Zenon
<1>6. ASSUME NEW j \in Nat, j < length
      PROVE ByteAt(p1, p2, j + 1) = r[RingAt(ptr, j)]
  <2>1. CASE j < first
    <3>1. j + 1 \in 1 .. first /\ j + 1 <= first /\ ptr + (j + 1) = (ptr + j) + 1
      BY <2>1
    <3>2. (ptr + j) % RingSize = ptr + j
      <4>1. ptr + j \in 0 .. RingSize - 1
        BY <1>0, <1>2, <2>1
      <4> QED BY <1>0, <4>1, ModSmall, Zenon
    <3>3. ByteAt(p1, p2, j + 1) = p1[j + 1]
      <4>1. j + 1 <= Len(p1)
        BY <1>3, <3>1, Zenon
      <4> QED BY <4>1, ByteInFirst, Zenon
    <3>4. RingAt(ptr, j) = ptr + (j + 1)
      BY <3>1, <3>2, Zenon DEF RingAt
    <3> QED BY <1>3, <3>1, <3>3, <3>4, Zenon
  <2>2. CASE ~(j < first)
    <3>1. PICK c \in 1 .. rest : c = j + 1 - first /\ first = RingSize - ptr
      <4>1. j + 1 - first \in 1 .. rest
        BY <1>2, <1>6, <2>2
      <4>2. rest # 0
        BY <1>2, <1>6, <2>2
      <4> QED BY <1>2, <4>1, <4>2
    <3>2. ~(j + 1 <= first) /\ j + 1 - first = c
      BY <1>2, <2>2, <3>1
    <3>3. ByteAt(p1, p2, j + 1) = p2[c]
      <4>1. ~(j + 1 <= Len(p1)) /\ j + 1 - Len(p1) = c
        BY <1>3, <3>2, Zenon
      <4> QED BY <4>1 DEF ByteAt
    <3>4. /\ ptr + j = 1 * RingSize + (c - 1) /\ c - 1 \in 0 .. RingSize - 1
          /\ 1 \in Int /\ (c - 1) + 1 = c
      BY <1>0, <1>2, <3>1
    <3>5. (1 * RingSize + (c - 1)) % RingSize = c - 1
      BY <1>0, <3>4, DivModUnique, Zenon
    <3>6. RingAt(ptr, j) = c
      BY <3>4, <3>5, Zenon DEF RingAt
    <3> QED BY <1>5, <3>1, <3>3, <3>6, Zenon
  <2> QED BY <2>1, <2>2
<1>7. first + rest = length
  BY <1>2
<1> QED BY <1>3, <1>5, <1>6, <1>7, Zenon DEF IsVector

-----------------------------------------------------------------------------
(* The packets *)

(* The byte at a place of a packet whose first frame is w. *)
PayByte(c, w, place) ==
  ByteOf(Sound((w + ((place \div SizeOf(c)) \div c.nb_channels)) % Loop,
               (place \div SizeOf(c)) % c.nb_channels, SizeOf(c)),
         (place % SizeOf(c)) + 1)

IsPayload(bytes, c, w, frames) ==
  /\ bytes \in Seq(Byte)
  /\ Len(bytes) = frames * (c.nb_channels * SizeOf(c))
  /\ \A place \in Nat : place < frames * (c.nb_channels * SizeOf(c)) =>
       bytes[place + 1] = PayByte(c, w, place)

(* The bytes of a packet. *)
LEMMA PayByteIsByte ==
  ASSUME IntegerFormats, NEW c \in Configs, NEW w \in Int, NEW place \in Nat
  PROVE  PayByte(c, w, place) \in Byte
<1>1. PICK nb \in Nat \ {0}, size \in Nat \ {0} :
        nb = c.nb_channels /\ size = SizeOf(c) /\ nb \in 1 .. 256 /\ size \in 1 .. 4
  BY FormatSizes
<1>2. PICK k \in Int : k = place \div size
  BY DivModParts
<1>3. PICK b \in 1 .. 4 : b = (place % size) + 1
  <2>1. place % size \in 0 .. size - 1
    BY DivModParts
  <2>2. size <= 4
    BY <1>1
  <2> QED BY <2>1, <2>2
<1>4. PICK ch \in Channel : ch = k % nb
  <2>1. k % nb \in 0 .. nb - 1
    BY DivModParts
  <2>2. nb <= 256
    BY <1>1
  <2> QED BY <2>1, <2>2 DEF Channel, VBAN_CHANNELS_MAX_NB
<1>5. PICK f \in 0 .. Loop - 1 : f = (w + (k \div nb)) % Loop
  <2>1. k \div nb \in Int
    BY DivModParts
  <2>2. w + (k \div nb) \in Int
    BY <2>1
  <2> QED BY <2>2, FrameNumber
<1>6. Sound(f, ch, size) \in Int
  BY <1>1, SoundWidth
<1>7. ByteOf(Sound(f, ch, size), b) \in Byte
  BY <1>6, ByteIsByte
<1>8. PayByte(c, w, place) = ByteOf(Sound(f, ch, size), b)
  BY <1>1, <1>2, <1>3, <1>4, <1>5, Zenon DEF PayByte
<1> QED BY <1>7, <1>8, Zenon

LEMMA SoundByte ==
  ASSUME IntegerFormats, NEW c \in Configs, NEW w \in Int, NEW f \in Nat,
         NEW ch \in 0 .. c.nb_channels - 1, NEW b \in 1 .. SizeOf(c)
  PROVE  ByteOf(Sound((w + f) % Loop, ch, SizeOf(c)), b) \in Byte
<1>1. c.nb_channels \in 1 .. 256 /\ SizeOf(c) \in 1 .. 4
  BY FormatSizes
<1>2. ch \in Channel /\ b \in 1 .. 4
  BY <1>1 DEF Channel, VBAN_CHANNELS_MAX_NB
<1>3. w + f \in Int
  OBVIOUS
<1>4. (w + f) % Loop \in 0 .. Loop - 1
  BY <1>3, FrameNumber
<1>5. Sound((w + f) % Loop, ch, SizeOf(c)) \in Int
  BY <1>1, <1>2, <1>4, SoundWidth
<1> QED BY <1>2, <1>5, ByteIsByte

(* The byte of a channel. *)
IsPayByte(c, w, f, ch, b) ==
  PayByte(c, w, Place(f, ch + 1, b, c.nb_channels, SizeOf(c)))
    = ByteOf(Sound((w + f) % Loop, ch, SizeOf(c)), b)

(* A place of a packet has the byte of the frame and the channel it *)
(* stands for.                                                      *)
LEMMA PayByteAt ==
  ASSUME IntegerFormats, NEW c \in Configs, NEW w \in Int, NEW f \in Nat,
         NEW ch \in 0 .. c.nb_channels - 1, NEW b \in 1 .. SizeOf(c)
  PROVE  IsPayByte(c, w, f, ch, b)
<1>1. PICK nb, size : nb = c.nb_channels /\ size = SizeOf(c)
  OBVIOUS
<1>2. nb \in Nat \ {0} /\ size \in Nat \ {0}
  BY <1>1, FormatSizes
<1>3. PICK place : place = Place(f, ch + 1, b, nb, size)
  OBVIOUS
<1>4. /\ place % size = b - 1 /\ (place \div size) \div nb = f
      /\ (place \div size) % nb = (ch + 1) - 1
  <2>1. ch + 1 \in 1 .. nb /\ b \in 1 .. size
    BY <1>1, <1>2
  <2>2. HasParts(place, f, ch + 1, b, nb, size)
    BY <1>2, <1>3, <2>1, PlaceParts
  <2> QED BY <2>2, Zenon DEF HasParts
<1>5. (b - 1) + 1 = b /\ (ch + 1) - 1 = ch
  BY <1>1, <1>2
<1> QED BY <1>1, <1>3, <1>4, <1>5, Zenon DEF PayByte, IsPayByte

(* Functions and sequences of bytes. *)
LEMMA BytesAreSeq ==
  ASSUME NEW n \in Nat, NEW f \in [1 .. n -> Byte]
  PROVE  f \in Seq(Byte) /\ Len(f) = n
OBVIOUS

LEMMA BytesOfSeq ==
  ASSUME NEW q \in Seq(Byte)
  PROVE  \A b \in 1 .. Len(q) : q[b] \in Byte
OBVIOUS

LEMMA SamplesDomain ==
  ASSUME NEW q \in Seq(Seq(Byte))
  PROVE  DOMAIN q = 1 .. Len(q)
OBVIOUS

LEMMA FirstBytesOf ==
  ASSUME NEW q \in Seq(Byte), NEW n \in Nat, n <= Len(q)
  PROVE  /\ SubSeq(q, 1, n) \in Seq(Byte) /\ Len(SubSeq(q, 1, n)) = n
         /\ \A b \in 1 .. n : SubSeq(q, 1, n)[b] = q[b]
<1>1. 0 + n <= Len(q) /\ 0 \in Nat
  OBVIOUS
<1>2. /\ SubSeq(q, 0 + 1, 0 + n) \in Seq(Byte)
      /\ Len(SubSeq(q, 0 + 1, 0 + n)) = n
      /\ \A b \in 1 .. n : SubSeq(q, 0 + 1, 0 + n)[b] = q[0 + b]
  BY <1>1, SubSeqBytes
<1>3. 0 + 1 = 1 /\ 0 + n = n /\ \A b \in 1 .. n : 0 + b = b
  OBVIOUS
<1> QED BY <1>2, <1>3

(* A payload has each byte at its place. *)
LEMMA PayloadIs ==
  ASSUME IntegerFormats, TypesOK, NEW frames \in Nat
  PROVE  IsPayload(Payload(frames), config, written, frames)
<1>1. config \in Configs /\ written \in Int
  BY Sizes DEF TypesOK
<1>2. PICK nb \in Nat \ {0}, size \in Nat \ {0} : nb = config.nb_channels /\ size = SizeOf(config)
  BY <1>1, FormatSizes
<1>3. PICK n \in Nat : n = frames * (nb * size)
  <2>1. frames * (nb * size) \in Nat
    BY SMT
  <2> QED BY <2>1
<1>4. Payload(frames) = [i \in 1 .. n |-> PayByte(config, written, i - 1)]
  <2>1. FrameSize(config) = nb * size
    BY <1>2 DEF FrameSize, SizeOf
  <2>2. \A i \in 1 .. n : ((i - 1) % size) + 1 \in 1 .. size
    <3> TAKE i \in 1 .. n
    <3>1. i - 1 \in Int
      OBVIOUS
    <3>2. (i - 1) % size \in 0 .. size - 1
      BY <3>1, DivModParts
    <3> QED BY <3>2
  <2>3. SampleSize = size
    BY <1>2 DEF SampleSize, SizeOf
  <2>4. \A value, b : b \in 1 .. size => SampleBytes(value)[b] = ByteOf(value, b)
    BY <2>3, Zenon DEF SampleBytes
  <2> QED BY <1>2, <1>3, <2>1, <2>2, <2>3, <2>4, Zenon DEF Payload, PayByte
<1>5. \A i \in 1 .. n : PayByte(config, written, i - 1) \in Byte
  <2> TAKE i \in 1 .. n
  <2>1. i - 1 \in Nat
    OBVIOUS
  <2> QED BY <1>1, <2>1, PayByteIsByte
<1>6. PICK f : f = Payload(frames)
  OBVIOUS
<1>7. f \in [1 .. n -> Byte]
  BY <1>4, <1>5, <1>6, Zenon
<1>8. f \in Seq(Byte) /\ Len(f) = n
  BY <1>7, BytesAreSeq
<1>9. ASSUME NEW place \in Nat, place < n
      PROVE f[place + 1] = PayByte(config, written, place)
  <2>1. place + 1 \in 1 .. n /\ (place + 1) - 1 = place
    BY <1>9
  <2> QED BY <1>4, <1>6, <2>1, Zenon
<1> QED BY <1>2, <1>3, <1>6, <1>8, <1>9, Zenon DEF IsPayload

-----------------------------------------------------------------------------
(* audio_map_channels *)

(* The byte of dest at a place. *)
MapByte(m, c, orig, length, dest, i) ==
  LET frame == i \div (SizeOf(c) * Len(m))
      chan  == m[(i % (SizeOf(c) * Len(m))) \div SizeOf(c) + 1]
  IN IF frame < length \div (SizeOf(c) * c.nb_channels) /\ chan < c.nb_channels
     THEN orig[frame * (SizeOf(c) * c.nb_channels) + chan * SizeOf(c) + (i % SizeOf(c)) + 1]
     ELSE MapCleared(dest, length, i)

(* Where the byte of a channel is in the packet. *)
IsOrigByte(orig, c, w, f, ch, b) ==
  orig[f * (SizeOf(c) * c.nb_channels) + ch * SizeOf(c) + (b - 1) + 1]
    = ByteOf(Sound((w + f) % Loop, ch, SizeOf(c)), b)

(* The byte audio_map_channels copies. *)
LEMMA OrigByte ==
  ASSUME IntegerFormats, NEW c \in Configs, NEW w \in Int, NEW frames \in Nat,
         NEW orig, IsPayload(orig, c, w, frames),
         NEW f \in Nat, f < frames, NEW ch \in 0 .. c.nb_channels - 1, NEW b \in 1 .. SizeOf(c)
  PROVE  IsOrigByte(orig, c, w, f, ch, b)
<1>1. PICK nb \in Nat \ {0}, size \in Nat \ {0} : nb = c.nb_channels /\ size = SizeOf(c)
  BY FormatSizes
<1>2. PICK place : place = Place(f, ch + 1, b, nb, size)
  OBVIOUS
<1>3. place \in Nat /\ place < frames * (nb * size)
  <2>1. ch + 1 \in 1 .. nb /\ b \in 1 .. size
    BY <1>1
  <2> QED BY <1>2, <2>1, PlaceInFrames
<1>4. orig[place + 1] = PayByte(c, w, place)
  BY <1>1, <1>3, Zenon DEF IsPayload
<1>5. PayByte(c, w, place) = ByteOf(Sound((w + f) % Loop, ch, size), b)
  <2>1. IsPayByte(c, w, f, ch, b)
    BY PayByteAt
  <2> QED BY <1>1, <1>2, <2>1, Zenon DEF IsPayByte
<1>6. f * (size * nb) + ch * size + (b - 1) + 1 = place + 1
  <2>1. ch \in Int /\ b \in Int
    BY <1>1
  <2>2. (f * nb + ch) * size = f * (size * nb) + ch * size
    BY <2>1, SMT
  <2>3. (ch + 1) - 1 = ch /\ f * nb + (ch + 1) - 1 = f * nb + ch
    BY <2>1, SMT
  <2>4. place = (f * nb + ch) * size + b - 1
    BY <1>2, <2>3, Zenon DEF Place
  <2>5. PICK x \in Int : x = (f * nb + ch) * size
    BY <2>1
  <2>6. x + (b - 1) + 1 = (x + b - 1) + 1
    BY <2>1
  <2> QED BY <2>2, <2>4, <2>5, <2>6, Zenon
<1> QED BY <1>1, <1>4, <1>5, <1>6, Zenon DEF IsOrigByte

(* audio_map_channels has the number of frames back. *)
LEMMA WholeSize ==
  ASSUME NEW frames \in Nat, NEW nb \in Nat \ {0}, NEW size \in Nat \ {0}
  PROVE  (frames * nb * size) \div (size * nb) = frames /\ size * nb \in Nat \ {0}
<1>1. PICK m \in Nat \ {0} : m = size * nb
  <2>1. size * nb \in Nat /\ size * nb # 0
    BY SMT
  <2> QED BY <2>1
<1>2. 0 \in 0 .. m - 1 /\ frames \in Int
  OBVIOUS
<1>3. (frames * m + 0) \div m = frames
  BY <1>2, DivModUnique
<1>4. frames * nb * size = frames * m + 0
  BY <1>1, SMT
<1> QED BY <1>1, <1>3, <1>4, Zenon

(* The byte audio_map_channels puts where a port has the byte b of a frame. *)
LEMMA MapByteAt ==
  ASSUME IntegerFormats, NEW l \in Lists, NEW c \in Configs, Mapping(l) # <<>>,
         NEW w \in Int, NEW frames \in Nat,
         NEW orig, IsPayload(orig, c, w, frames), NEW dest, NEW length,
         length = frames * c.nb_channels * SizeOf(c),
         NEW f \in Nat, f < frames, NEW port \in 1 .. PortsOf(l, c), NEW b \in 1 .. SizeOf(c),
         NEW place, place = Place(f, port, b, PortsOf(l, c), SizeOf(c))
  PROVE  IsByteOf(l, c, (w + f) % Loop, port, b,
                  MapByte(Mapping(l), c, orig, length, dest, place))
<1>1. PICK nb \in Nat \ {0}, size \in Nat \ {0} : nb = c.nb_channels /\ size = SizeOf(c)
  BY FormatSizes
<1>2. PICK ports \in Nat \ {0} : /\ ports = PortsOf(l, c) /\ ports = Len(Mapping(l))
                                /\ Chan(l, port) = Mapping(l)[port]
                                /\ Chan(l, port) \in Channel
  <2>1. PortsOf(l, c) = Len(Mapping(l)) /\ Chan(l, port) = Mapping(l)[port]
    BY Zenon DEF PortsOf, Chan
  <2> QED BY <2>1, Formats
<1>3. HasParts(place, f, port, b, ports, size)
  BY <1>1, <1>2, PlaceParts
<1>4. PICK ch \in Int : ch = Chan(l, port) /\ ch >= 0
  BY <1>2, ChannelNumber, Zenon
<1>5. length \div (size * nb) = frames
  BY <1>1, WholeSize, Zenon
<1>6. MapByte(Mapping(l), c, orig, length, dest, place)
        = IF f < frames /\ ch < nb
          THEN orig[f * (size * nb) + ch * size + (b - 1) + 1]
          ELSE MapCleared(dest, length, place)
  <2>1. (port - 1) + 1 = port
    BY <1>2
  <2> QED BY <1>1, <1>2, <1>3, <1>4, <1>5, <2>1, Zenon DEF MapByte, HasParts
<1>7. CASE ch < nb
  <2>1. MapByte(Mapping(l), c, orig, length, dest, place)
          = orig[f * (size * nb) + ch * size + (b - 1) + 1]
    BY <1>6, <1>7, Zenon
  <2>2. ch \in 0 .. nb - 1
    BY <1>4, <1>7
  <2>3. orig[f * (size * nb) + ch * size + (b - 1) + 1]
          = ByteOf(Sound((w + f) % Loop, ch, size), b)
    <3>1. IsOrigByte(orig, c, w, f, ch, b)
      BY <1>1, <2>2, OrigByte
    <3> QED BY <1>1, <3>1, Zenon DEF IsOrigByte
  <2>4. ~(ch >= nb)
    BY <1>4, <1>7
  <2> QED BY <1>1, <1>4, <2>1, <2>3, <2>4, Zenon DEF IsByteOf, Absent
<1>8. CASE ~(ch < nb)
  <2>1. MapByte(Mapping(l), c, orig, length, dest, place) = MapCleared(dest, length, place)
    BY <1>6, <1>8, Zenon
  <2>2. ASSUME ports <= nb PROVE MapCleared(dest, length, place) = 0
    <3>1. place \in Nat /\ place < frames * (ports * size)
      BY <1>1, <1>2, PlaceInFrames
    <3>2. frames * (ports * size) <= frames * nb * size
      <4>1. ports * size <= nb * size
        BY <2>2, SMT
      <4>2. PICK x \in Int, y \in Int : x = ports * size /\ y = nb * size
        OBVIOUS
      <4>3. frames * x <= frames * y
        BY <4>1, <4>2, SMT
      <4>4. frames * nb * size = frames * (nb * size)
        BY SMT
      <4> QED BY <4>2, <4>3, <4>4, Zenon
    <3>3. place < length
      <4>1. PICK x \in Int, y \in Int : x = frames * (ports * size) /\ y = frames * nb * size
        OBVIOUS
      <4>2. place < y
        BY <3>1, <3>2, <4>1
      <4> QED BY <1>1, <4>1, <4>2, Zenon
    <3> QED BY <3>3, Zenon DEF MapCleared
  <2> QED BY <1>1, <1>2, <1>4, <1>8, <2>1, <2>2, Zenon DEF IsByteOf, Absent
<1> QED BY <1>7, <1>8

(* Whatever the map, the mapped buffer holds bytes. *)
LEMMA MapByteIsByte ==
  ASSUME IntegerFormats, NEW l \in Lists, NEW c \in Configs, Mapping(l) # <<>>,
         NEW w \in Int, NEW frames \in Nat,
         NEW orig, IsPayload(orig, c, w, frames), NEW dest \in [1 .. DataMax -> Byte],
         NEW length, length = frames * c.nb_channels * SizeOf(c),
         NEW i \in 1 .. DataMax
  PROVE  MapByte(Mapping(l), c, orig, length, dest, i - 1) \in Byte
<1>1. PICK nb \in Nat \ {0}, size \in Nat \ {0} : nb = c.nb_channels /\ size = SizeOf(c)
  BY FormatSizes
<1>2. PICK ports \in Nat \ {0} : /\ ports = PortsOf(l, c) /\ ports = Len(Mapping(l))
                                /\ \A port \in 1 .. ports : Mapping(l)[port] \in Channel
  <2>1. PortsOf(l, c) = Len(Mapping(l)) /\ \A port : Chan(l, port) = Mapping(l)[port]
    BY Zenon DEF PortsOf, Chan
  <2> QED BY <2>1, Formats
<1>3. PICK place \in Nat : place = i - 1
  BY Sizes
<1>4. PICK m \in Nat \ {0} : m = size * ports
  <2>1. size * ports \in Nat /\ size * ports # 0
    BY SMT
  <2> QED BY <2>1
<1>5. PICK f \in Int, r \in Int : /\ f = place \div m /\ r = place % m
                                 /\ 0 <= r /\ r < m /\ place = f * m + r
  <2>1. place \in Int
    OBVIOUS
  <2>2. place \div m \in Int /\ place % m \in 0 .. m - 1 /\ place = (place \div m) * m + (place % m)
    BY <2>1, DivModParts
  <2>3. place % m \in Int /\ 0 <= place % m /\ place % m < m
    BY <2>2
  <2> QED BY <2>2, <2>3, Zenon
<1>6. f >= 0
  BY <1>5, QuotientBounds
<1>7. PICK port \in 1 .. ports : port = r \div size + 1
  <2>1. PICK q \in Int, e \in Int : /\ q = r \div size /\ 0 <= e /\ e < size
                                   /\ r = q * size + e
    <3>1. r \div size \in Int /\ r % size \in 0 .. size - 1 /\ r = (r \div size) * size + (r % size)
      BY <1>5, DivModParts
    <3> QED BY <3>1
  <2>2. q >= 0
    BY <1>5, <2>1, QuotientBounds
  <2>3. q < ports
    <3>1. r < ports * size
      <4>1. ports * size = m
        BY <1>4, SMT
      <4> QED BY <1>5, <4>1, Zenon
    <3> QED BY <2>1, <3>1, QuotientBounds
  <2>4. q + 1 \in 1 .. ports
    BY <2>1, <2>2, <2>3
  <2> QED BY <2>1, <2>4, Zenon
<1>8. PICK b \in 1 .. size : b - 1 = place % size
  <2>1. place % size \in 0 .. size - 1
    BY DivModParts
  <2>2. PICK e \in 0 .. size - 1 : e = place % size
    BY <2>1
  <2>3. e + 1 \in 1 .. size /\ (e + 1) - 1 = e
    OBVIOUS
  <2> QED BY <2>2, <2>3, Zenon
<1>9. PICK ch \in Int : ch = Mapping(l)[port] /\ ch >= 0
  <2>1. Mapping(l)[port] \in Channel
    BY <1>2, <1>7, Zenon
  <2>2. \A x \in Channel : x \in Int /\ x >= 0
    BY DEF Channel, VBAN_CHANNELS_MAX_NB
  <2> QED BY <2>1, <2>2, Zenon
<1>10. length \div (size * nb) = frames
  BY <1>1, WholeSize, Zenon
<1>11. MapByte(Mapping(l), c, orig, length, dest, i - 1)
         = IF f < frames /\ ch < nb
           THEN orig[f * (size * nb) + ch * size + (b - 1) + 1]
           ELSE MapCleared(dest, length, place)
  BY <1>1, <1>2, <1>3, <1>4, <1>5, <1>7, <1>8, <1>9, <1>10, Zenon DEF MapByte
<1>12. CASE f < frames /\ ch < nb
  <2>1. ch \in 0 .. nb - 1 /\ f \in Nat
    BY <1>5, <1>6, <1>9, <1>12
  <2>2. orig[f * (size * nb) + ch * size + (b - 1) + 1]
          = ByteOf(Sound((w + f) % Loop, ch, size), b)
    <3>1. IsOrigByte(orig, c, w, f, ch, b)
      BY <1>1, <1>8, <1>12, <2>1, OrigByte
    <3> QED BY <1>1, <3>1, Zenon DEF IsOrigByte
  <2>3. ByteOf(Sound((w + f) % Loop, ch, size), b) \in Byte
    BY <1>1, <1>8, <2>1, SoundByte
  <2> QED BY <1>11, <1>12, <2>2, <2>3, Zenon
<1>13. CASE ~(f < frames /\ ch < nb)
  <2>1. place + 1 = i /\ dest[i] \in Byte
    BY <1>3
  <2>2. MapCleared(dest, length, place) \in Byte
    <3>1. 0 \in Byte
      BY DEF Byte
    <3> QED BY <2>1, <3>1, Zenon DEF MapCleared
  <2> QED BY <1>11, <1>13, <2>2, Zenon
<1> QED BY <1>12, <1>13

-----------------------------------------------------------------------------
(* A packet is written *)

(* What goes into the ring buffer: the frames from w on. *)
AreFrames(bytes, l, c, w, frames) ==
  /\ bytes \in Seq(Byte) /\ Len(bytes) = frames * (PortsOf(l, c) * SizeOf(c))
  /\ \A f \in Nat, port \in 1 .. PortsOf(l, c), b \in 1 .. SizeOf(c) :
       f < frames =>
         IsByteOf(l, c, (w + f) % Loop, port, b,
                  bytes[Place(f, port, b, PortsOf(l, c), SizeOf(c)) + 1])

(* Without a map a payload is frames of the ports. *)
LEMMA UnmappedFrames ==
  ASSUME IntegerFormats, NEW l \in Lists, NEW c \in Configs, Mapping(l) = <<>>,
         NEW w \in Int, NEW frames \in Nat, NEW bytes, IsPayload(bytes, c, w, frames)
  PROVE  AreFrames(bytes, l, c, w, frames)
<1>1. PICK nb \in Nat \ {0}, size \in Nat \ {0} : nb = c.nb_channels /\ size = SizeOf(c)
  BY FormatSizes
<1>2. PortsOf(l, c) = nb /\ \A port : Chan(l, port) = port - 1
  BY <1>1, Zenon DEF PortsOf, Chan
<1>3. ASSUME NEW f \in Nat, f < frames, NEW port \in 1 .. nb, NEW b \in 1 .. size,
             NEW place, place = Place(f, port, b, nb, size)
      PROVE  IsByteOf(l, c, (w + f) % Loop, port, b, bytes[place + 1])
  <2>1. port - 1 \in 0 .. nb - 1 /\ (port - 1) + 1 = port /\ ~(port - 1 >= nb)
    OBVIOUS
  <2>2. place \in Nat /\ place < frames * (nb * size)
    BY <1>3, PlaceInFrames
  <2>3. bytes[place + 1] = PayByte(c, w, place)
    BY <1>1, <2>2, Zenon DEF IsPayload
  <2>4. PayByte(c, w, place) = ByteOf(Sound((w + f) % Loop, port - 1, size), b)
    <3>1. IsPayByte(c, w, f, port - 1, b)
      BY <1>1, <2>1, PayByteAt
    <3> QED BY <1>1, <1>3, <2>1, <3>1, Zenon DEF IsPayByte
  <2> QED BY <1>1, <1>2, <2>1, <2>3, <2>4, Zenon DEF IsByteOf, Absent
<1> QED BY <1>1, <1>2, <1>3, Zenon DEF AreFrames, IsPayload

(* What audio_map_channels makes of a payload is frames of the ports. *)
LEMMA MappedFrames ==
  ASSUME IntegerFormats, NEW l \in Lists, NEW c \in Configs, Mapping(l) # <<>>,
         NEW w \in Int, NEW frames \in Nat,
         NEW orig, IsPayload(orig, c, w, frames), NEW dest \in [1 .. DataMax -> Byte],
         NEW length, length = frames * c.nb_channels * SizeOf(c),
         NEW n \in Nat, n = frames * (PortsOf(l, c) * SizeOf(c)), n <= DataMax,
         NEW mapped, mapped = audio_map_channels(Mapping(l), c, orig, length, dest),
         NEW bytes, bytes = SubSeq(mapped, 1, n)
  PROVE  mapped \in [1 .. DataMax -> Byte] /\ AreFrames(bytes, l, c, w, frames)
<1>1. PICK nb \in Nat \ {0}, size \in Nat \ {0} : nb = c.nb_channels /\ size = SizeOf(c)
  BY FormatSizes
<1>2. PICK ports \in Nat \ {0} : ports = PortsOf(l, c)
  BY Formats
<1>3. mapped = [i \in 1 .. DataMax |-> MapByte(Mapping(l), c, orig, length, dest, i - 1)]
  <2>1. DOMAIN dest = 1 .. DataMax
    OBVIOUS
  <2>2. mapped = [i \in DOMAIN dest |-> MapByte(Mapping(l), c, orig, length, dest, i - 1)]
    BY Zenon DEF audio_map_channels, MapByte, SizeOf
  <2> QED BY <2>1, <2>2, Zenon
<1>4. mapped \in [1 .. DataMax -> Byte]
  <2>1. \A i \in 1 .. DataMax : MapByte(Mapping(l), c, orig, length, dest, i - 1) \in Byte
    BY MapByteIsByte
  <2> QED BY <1>3, <2>1, Zenon
<1>5. /\ bytes \in Seq(Byte) /\ Len(bytes) = n
      /\ \A b \in 1 .. n : bytes[b] = mapped[b]
  <2>1. DataMax \in Nat
    BY Sizes
  <2>2. mapped \in Seq(Byte) /\ Len(mapped) = DataMax
    BY <1>4, <2>1, BytesAreSeq
  <2>3. /\ SubSeq(mapped, 1, n) \in Seq(Byte) /\ Len(SubSeq(mapped, 1, n)) = n
        /\ \A b \in 1 .. n : SubSeq(mapped, 1, n)[b] = mapped[b]
    BY <2>2, FirstBytesOf, Zenon
  <2> QED BY <2>3, Zenon
<1>6. ASSUME NEW f \in Nat, f < frames, NEW port \in 1 .. ports, NEW b \in 1 .. size,
             NEW place, place = Place(f, port, b, ports, size)
      PROVE  IsByteOf(l, c, (w + f) % Loop, port, b, bytes[place + 1])
  <2>1. place \in Nat /\ place < n
    BY <1>1, <1>2, <1>6, PlaceInFrames
  <2>2. place + 1 \in 1 .. n /\ place + 1 \in 1 .. DataMax /\ (place + 1) - 1 = place
    BY <2>1, Sizes
  <2>3. bytes[place + 1] = MapByte(Mapping(l), c, orig, length, dest, place)
    BY <1>3, <1>5, <2>2, Zenon
  <2>4. IsByteOf(l, c, (w + f) % Loop, port, b,
                 MapByte(Mapping(l), c, orig, length, dest, place))
    BY <1>1, <1>2, <1>6, MapByteAt
  <2> QED BY <2>3, <2>4, Zenon
<1> QED BY <1>1, <1>2, <1>4, <1>5, <1>6, Zenon DEF AreFrames

(* A write puts frames behind those in the ring buffer. *)
LEMMA FramesWritten ==
  ASSUME IntegerFormats, NEW l \in Lists, NEW c \in Configs,
         NEW r \in [1 .. RingSize -> Byte], NEW ptr \in 0 .. RingSize - 1,
         NEW length \in Nat, NEW first \in Int, NEW last \in Int, NEW frames \in Nat,
         WholeFrames(l, c, length, first, last), Contents(l, c, r, ptr, length, first),
         NEW bytes, AreFrames(bytes, l, c, last, frames),
         length + Len(bytes) < RingSize,
         NEW new, IsWritten(new, r, ptr, length, bytes, Len(bytes))
  PROVE  /\ new \in [1 .. RingSize -> Byte]
         /\ WholeFrames(l, c, length + Len(bytes), first, (last + frames) % Loop)
         /\ Contents(l, c, new, ptr, length + Len(bytes), first)
<1>1. PICK ports \in Nat \ {0}, size \in Nat \ {0} : ports = PortsOf(l, c) /\ size = SizeOf(c)
  BY Formats, FormatSizes
<1>2. PICK n \in Nat : n = Len(bytes) /\ n = frames * (ports * size)
  <2>1. Len(bytes) = frames * (ports * size)
    BY <1>1, Zenon DEF AreFrames
  <2>2. frames * (ports * size) \in Nat
    BY SMT
  <2> QED BY <2>1, <2>2, Zenon
<1>3. PICK q \in Nat : length = q * (ports * size) /\ last = (first + q) % Loop
  BY <1>1, Zenon DEF WholeFrames
<1>4. new \in [1 .. RingSize -> Byte]
  <2>1. \A b \in 1 .. n : bytes[b] \in Byte
    <3>1. bytes \in Seq(Byte)
      BY Zenon DEF AreFrames
    <3> QED BY <1>2, <3>1, BytesOfSeq, Zenon
  <2>2. \A i \in 1 .. RingSize : BehindBy(i, ptr, length) < n => BehindBy(i, ptr, length) + 1 \in 1 .. n
    <3> TAKE i \in 1 .. RingSize
    <3>1. i - 1 - ptr - length \in Int
      BY Sizes
    <3>2. BehindBy(i, ptr, length) \in 0 .. RingSize - 1
      BY <3>1, Sizes, DivModParts DEF BehindBy
    <3> QED BY <3>2, Sizes
  <2>3. \A i \in 1 .. RingSize : r[i] \in Byte
    OBVIOUS
  <2> QED BY <1>2, <2>1, <2>2, <2>3, Zenon DEF IsWritten
<1>5. WholeFrames(l, c, length + n, first, (last + frames) % Loop)
  <2>1. length + n = (q + frames) * (ports * size) /\ q + frames \in Nat
    BY <1>2, <1>3, SMT
  <2>2. (last + frames) % Loop = (first + (q + frames)) % Loop
    <3>1. first + q \in Int /\ frames \in Int /\ (first + q) + frames = first + (q + frames)
      OBVIOUS
    <3>2. (((first + q) % Loop) + frames) % Loop = ((first + q) + frames) % Loop
      BY <3>1, Sizes, ModInside, Zenon
    <3> QED BY <1>3, <3>1, <3>2, Zenon
  <2> QED BY <1>1, <2>1, <2>2, Zenon DEF WholeFrames
<1>6. ASSUME NEW frame \in Nat, NEW port \in 1 .. ports, NEW b \in 1 .. size,
             NEW j, j = Place(frame, port, b, ports, size), j < length + n
      PROVE  IsByteOf(l, c, (first + frame) % Loop, port, b, new[RingAt(ptr, j)])
  <2>1. j \in Nat
    BY <1>6, PlaceInFrames
  <2>2. /\ \A x \in Nat : x < length => new[RingAt(ptr, x)] = r[RingAt(ptr, x)]
        /\ \A x \in Nat : x < n => new[RingAt(ptr, length + x)] = bytes[x + 1]
    <3>1. length + n < RingSize /\ IsWritten(new, r, ptr, length, bytes, n)
      BY <1>2, Zenon
    <3>2. RingWritten(new, r, ptr, length, bytes, n)
      BY <3>1, WrittenRing
    <3> QED BY <3>2, Zenon DEF RingWritten
  <2>3. CASE frame < q
    <3>1. j < length
      BY <1>3, <1>6, <2>3, PlaceInFrames
    <3>2. new[RingAt(ptr, j)] = r[RingAt(ptr, j)]
      BY <2>1, <2>2, <3>1, Zenon
    <3>3. IsByteOf(l, c, (first + frame) % Loop, port, b, r[RingAt(ptr, j)])
      BY <1>1, <1>6, <3>1, Zenon DEF Contents
    <3> QED BY <3>2, <3>3, Zenon
  <2>4. CASE ~(frame < q)
    <3>1. PICK f \in Nat : frame = q + f
      <4>1. frame - q \in Nat /\ frame = q + (frame - q)
        BY <2>4
      <4> QED BY <4>1
    <3>2. PICK x \in Nat : x = Place(f, port, b, ports, size)
      BY PlaceInFrames
    <3>3. j = length + x
      <4>1. Place(q + f, port, b, ports, size) = q * (ports * size) + Place(f, port, b, ports, size)
        BY PlaceShift
      <4> QED BY <1>3, <1>6, <3>1, <3>2, <4>1, Zenon
    <3>4. x < n /\ f < frames
      <4>1. x < n
        BY <1>6, <3>3
      <4>2. f >= frames => x >= n
        <5>1. f >= frames => Place(f, port, b, ports, size) >= frames * (ports * size)
          BY PlaceInFrames
        <5> QED BY <1>2, <3>2, <5>1, Zenon
      <4> QED BY <4>1, <4>2
    <3>5. new[RingAt(ptr, j)] = bytes[x + 1]
      BY <2>2, <3>3, <3>4, Zenon
    <3>6. IsByteOf(l, c, (last + f) % Loop, port, b, bytes[x + 1])
      BY <1>1, <3>2, <3>4, Zenon DEF AreFrames
    <3>7. (last + f) % Loop = (first + frame) % Loop
      <4>1. first + q \in Int /\ f \in Int /\ (first + q) + f = first + frame
        BY <3>1
      <4>2. (((first + q) % Loop) + f) % Loop = ((first + q) + f) % Loop
        BY <4>1, Sizes, ModInside, Zenon
      <4> QED BY <1>3, <4>1, <4>2, Zenon
    <3> QED BY <3>5, <3>6, <3>7, Zenon
  <2> QED BY <2>3, <2>4
<1>7. Contents(l, c, new, ptr, length + n, first)
  BY <1>1, <1>6, Zenon DEF Contents
<1> QED BY <1>2, <1>4, <1>5, <1>7, Zenon

(* A packet written. *)
LEMMA WriteStep ==
  ASSUME IntegerFormats, SamplesInv, Write
  PROVE  SamplesInv'
<1>1. PICK frames, mapped, bytes :
        /\ frames \in 1 .. PacketFrames
        /\ mapped = audio_map_channels(map, config, Payload(frames),
                                       frames * config.nb_channels * SampleSize, buffer)
        /\ bytes = (IF map = <<>> THEN Payload(frames)
                    ELSE SubSeq(mapped, 1, frames * Ports * SampleSize))
        /\ frames * Ports * SampleSize <= DataMax
        /\ fill + frames * Ports * SampleSize < RingSize
        /\ buffer' = mapped
        /\ jack_ringbuffer_write(bytes)
        /\ written' = (written + frames) % Loop
        /\ UNCHANGED <<list, config, played, out>>
  BY Zenon DEF Write, streamVars
<1>2. /\ TypesOK /\ list \in Lists /\ config \in Configs /\ written \in Int /\ played \in Int
      /\ fill \in Nat
  BY Sizes DEF SamplesInv, TypesOK
<1>3. frames \in Nat /\ PacketFrames \in Nat
  <2>1. frames \in 1 .. PacketFrames
    BY <1>1, Zenon
  <2> QED BY <2>1, Sizes
<1>4. PICK ports \in Nat \ {0}, size \in Nat \ {0} :
        /\ ports = PortsOf(list, config) /\ size = SizeOf(config)
        /\ ports = Ports /\ size = SampleSize
  BY <1>2, Formats, FormatSizes DEF Ports, PortsOf, SampleSize, SizeOf, map, Mapping
<1>5. PICK n \in Nat : n = frames * (ports * size) /\ n = frames * ports * size
  <2>1. frames * (ports * size) \in Nat /\ frames * (ports * size) = frames * ports * size
    BY <1>3, SMT
  <2> QED BY <2>1, Zenon
<1>6. IsPayload(Payload(frames), config, written, frames)
  BY <1>2, <1>3, PayloadIs
<1>7. mapped \in [1 .. DataMax -> Byte] /\ AreFrames(bytes, list, config, written, frames)
  <2>0. buffer \in [1 .. DataMax -> Byte]
    BY <1>2 DEF TypesOK
  <2>1. CASE map = <<>>
    <3>1. mapped = buffer /\ bytes = Payload(frames)
      BY <1>1, <2>1, Zenon DEF audio_map_channels
    <3>2. Mapping(list) = <<>>
      BY <2>1, Zenon DEF map, Mapping
    <3> QED BY <1>2, <1>3, <1>6, <2>0, <3>1, <3>2, UnmappedFrames, Zenon
  <2>2. CASE map # <<>>
    <3>1. bytes = SubSeq(mapped, 1, n) /\ n <= DataMax
      BY <1>1, <1>4, <1>5, <2>2, Zenon
    <3>2. Mapping(list) # <<>> /\ map = Mapping(list)
      BY <2>2, Zenon DEF map, Mapping
    <3>3. PICK length : length = frames * config.nb_channels * SizeOf(config)
      OBVIOUS
    <3>4. mapped = audio_map_channels(Mapping(list), config, Payload(frames), length, buffer)
      BY <1>1, <1>4, <3>2, <3>3, Zenon
    <3>5. n = frames * (PortsOf(list, config) * SizeOf(config))
      BY <1>4, <1>5, Zenon
    <3> QED BY <1>2, <1>3, <1>6, <2>0, <3>1, <3>2, <3>3, <3>4, <3>5, MappedFrames, Zenon
  <2> QED BY <2>1, <2>2
<1>8. Len(bytes) = n
  BY <1>4, <1>5, <1>7, Zenon DEF AreFrames
<1>9. /\ fill' = fill + Len(bytes) /\ read_ptr' = read_ptr
      /\ fill + Len(bytes) < RingSize
      /\ IsWritten(ring', ring, read_ptr, fill, bytes, Len(bytes))
  <2>1. fill + Len(bytes) < RingSize
    BY <1>1, <1>4, <1>5, <1>8, Zenon
  <2>2. jack_ringbuffer_write(bytes)
    BY <1>1, Zenon
  <2> QED BY <2>1, <2>2, Zenon DEF jack_ringbuffer_write, IsWritten, BehindBy
<1>10. /\ ring' \in [1 .. RingSize -> Byte]
       /\ WholeFrames(list, config, fill', played, written')
       /\ Contents(list, config, ring', read_ptr, fill', played)
  <2>1. /\ ring \in [1 .. RingSize -> Byte] /\ read_ptr \in 0 .. RingSize - 1
        /\ WholeFrames(list, config, fill, played, written)
        /\ Contents(list, config, ring, read_ptr, fill, played)
    BY Zenon DEF SamplesInv, TypesOK
  <2>2. /\ ring' \in [1 .. RingSize -> Byte]
        /\ WholeFrames(list, config, fill + Len(bytes), played, (written + frames) % Loop)
        /\ Contents(list, config, ring', read_ptr, fill + Len(bytes), played)
    BY <1>2, <1>3, <1>7, <1>9, <2>1, FramesWritten, Zenon
  <2> QED BY <1>1, <1>9, <2>2, Zenon
<1>11. fill' \in 0 .. RingSize - 1
  BY <1>2, <1>8, <1>9, Sizes
<1>12. written' \in 0 .. Loop - 1
  <2>1. written + frames \in Int
    BY <1>2, <1>3
  <2> QED BY <1>1, <2>1, FrameNumber
<1>13. TypesOK'
  BY <1>1, <1>2, <1>7, <1>9, <1>10, <1>11, <1>12, Zenon DEF TypesOK
<1> QED BY <1>1, <1>9, <1>10, <1>13, Zenon DEF SamplesInv

-----------------------------------------------------------------------------
(* A period is played *)

(* The size of a period. *)
LEMMA PeriodSize ==
  ASSUME NEW ports \in Nat \ {0}, NEW size \in Nat \ {0}
  PROVE  /\ Period * (ports * size) \in Nat /\ Period * ports \in Nat
         /\ Period * ports * size = Period * (ports * size)
<1>1. Period \in Nat
  BY Sizes
<1> QED BY <1>1, SMT

LEMMA SumBelow ==
  ASSUME NEW n \in Int, NEW j \in Int, NEW length \in Int, j < length - n
  PROVE  n + j < length
OBVIOUS

(* The frames behind the period stay in the ring buffer. *)
LEMMA FramesLeft ==
  ASSUME IntegerFormats, NEW l \in Lists, NEW c \in Configs,
         NEW r \in [1 .. RingSize -> Byte], NEW ptr \in 0 .. RingSize - 1,
         NEW length \in 0 .. RingSize - 1, NEW first \in Int, NEW last \in Int,
         WholeFrames(l, c, length, first, last), Contents(l, c, r, ptr, length, first),
         NEW need \in Nat, need = Period * (PortsOf(l, c) * SizeOf(c)), need <= length,
         NEW new, IsRead(new, r, ptr, need)
  PROVE  /\ new \in [1 .. RingSize -> Byte]
         /\ WholeFrames(l, c, length - need, (first + Period) % Loop, last)
         /\ Contents(l, c, new, (ptr + need) % RingSize, length - need, (first + Period) % Loop)
<1>0. Period \in Nat \ {0} /\ Loop \in Nat \ {0} /\ length \in Nat
  BY Sizes
<1>1. PICK ports \in Nat \ {0}, size \in Nat \ {0} : ports = PortsOf(l, c) /\ size = SizeOf(c)
  BY Formats, FormatSizes
<1>2. PICK q \in Nat : length = q * (ports * size) /\ last = (first + q) % Loop
  BY <1>1, Zenon DEF WholeFrames
<1>3. new \in [1 .. RingSize -> Byte]
  <2>1. 0 \in Byte
    BY DEF Byte
  <2>2. \A i \in 1 .. RingSize : r[i] \in Byte
    OBVIOUS
  <2> QED BY <2>1, <2>2, Zenon DEF IsRead
<1>4. PICK m \in Nat \ {0} : m = ports * size
  <2>1. ports * size \in Nat /\ ports * size # 0
    BY SMT
  <2> QED BY <2>1
<1>5. PICK rest \in Nat : q = Period + rest
  <2>1. ~(q <= Period - 1)
    <3> SUFFICES ASSUME q <= Period - 1 PROVE FALSE
      OBVIOUS
    <3>1. q * m <= (Period - 1) * m
      BY <1>0, SMT
    <3>2. (Period - 1) * m = Period * m - m
      BY <1>0, SMT
    <3>3. PICK x \in Int, y \in Int : x = q * m /\ y = Period * m
      BY <1>0
    <3>4. y <= x
      BY <1>1, <1>2, <1>4, <3>3, Zenon
    <3> QED BY <1>4, <3>1, <3>2, <3>3, <3>4
  <2>2. q - Period \in Nat /\ q = Period + (q - Period)
    BY <1>0, <2>1
  <2> QED BY <2>2
<1>6. length - need = rest * m
  <2>1. (Period + rest) * m = Period * m + rest * m
    BY <1>0, SMT
  <2>2. length = Period * m + rest * m /\ need = Period * m
    BY <1>1, <1>2, <1>4, <1>5, <2>1, Zenon
  <2>3. PICK x \in Int, y \in Int : x = Period * m /\ y = rest * m
    BY <1>0
  <2> QED BY <2>2, <2>3
<1>7. \A x \in Int : (((first + Period) % Loop) + x) % Loop = (first + (Period + x)) % Loop
  <2> TAKE x \in Int
  <2>1. first + Period \in Int /\ (first + Period) + x = first + (Period + x)
    BY <1>0
  <2>2. (((first + Period) % Loop) + x) % Loop = ((first + Period) + x) % Loop
    BY <1>0, <2>1, ModInside, Zenon
  <2> QED BY <2>1, <2>2, Zenon
<1>8. WholeFrames(l, c, length - need, (first + Period) % Loop, last)
  <2>1. rest \in Int
    OBVIOUS
  <2> QED BY <1>1, <1>2, <1>4, <1>5, <1>6, <1>7, <2>1, Zenon DEF WholeFrames
<1>9. ASSUME NEW frame \in Nat, NEW port \in 1 .. ports, NEW b \in 1 .. size,
             NEW j, j = Place(frame, port, b, ports, size), j < length - need
      PROVE  IsByteOf(l, c, (((first + Period) % Loop) + frame) % Loop, port, b,
                      new[RingAt((ptr + need) % RingSize, j)])
  <2>1. j \in Nat
    BY <1>9, PlaceInFrames
  <2>2. new[RingAt((ptr + need) % RingSize, j)] = r[RingAt(ptr, need + j)]
    <3>1. \A x \in Nat : x < length - need =>
            new[RingAt((ptr + need) % RingSize, x)] = r[RingAt(ptr, need + x)]
      <4>1. RingRead(new, r, ptr, length, need)
        BY ReadRing
      <4> QED BY <4>1, Zenon DEF RingRead
    <3> QED BY <1>9, <2>1, <3>1, Zenon
  <2>3. PICK f \in Nat : f = Period + frame
    BY <1>0
  <2>4. need + j = Place(f, port, b, ports, size)
    <3>1. Place(Period + frame, port, b, ports, size)
            = Period * (ports * size) + Place(frame, port, b, ports, size)
      <4>1. PICK p \in Nat : p = Period
        BY <1>0
      <4>2. Place(p + frame, port, b, ports, size)
              = p * (ports * size) + Place(frame, port, b, ports, size)
        BY PlaceShift
      <4> QED BY <4>1, <4>2, Zenon
    <3> QED BY <1>1, <1>9, <2>3, <3>1, Zenon
  <2>5. need + j < length
    <3>1. need \in Int /\ j \in Int /\ length \in Int
      BY <2>1
    <3> QED BY <1>9, <3>1, SumBelow, Zenon
  <2>6. IsByteOf(l, c, (first + f) % Loop, port, b, r[RingAt(ptr, need + j)])
    BY <1>1, <2>4, <2>5, Zenon DEF Contents
  <2>7. (((first + Period) % Loop) + frame) % Loop = (first + f) % Loop
    <3>1. frame \in Int
      OBVIOUS
    <3> QED BY <1>7, <2>3, <3>1, Zenon
  <2> QED BY <2>2, <2>6, <2>7, Zenon
<1>10. Contents(l, c, new, (ptr + need) % RingSize, length - need, (first + Period) % Loop)
  BY <1>1, <1>9, Zenon DEF Contents
<1> QED BY <1>3, <1>8, <1>10

(* A sample whose bytes are those of a port is the sample of the port. *)
LEMMA SampleIs ==
  ASSUME IntegerFormats, NEW l \in Lists, NEW c \in Configs, NEW port \in 1 .. PortsOf(l, c),
         NEW frame \in 0 .. Loop - 1, NEW bytes,
         \A b \in 1 .. SizeOf(c) : IsByteOf(l, c, frame, port, b, bytes[b])
  PROVE  IsSampleOf(l, c, frame, port, jack_convert_sample(bytes, c.bit_fmt))
<1>1. PICK fmt \in 0 .. 3 : fmt = c.bit_fmt /\ SizeOf(c) = VBanBitResolutionSize[fmt]
  BY Zenon DEF IntegerFormats, SizeOf
<1>2. ASSUME Chan(l, port) < c.nb_channels, c.bit_fmt = 2 => CharSigned
      PROVE  /\ IsLevel(jack_convert_sample(bytes, fmt),
                        Sound(frame, Chan(l, port), SizeOf(c)), SizeOf(c))
             /\ jack_convert_sample(bytes, fmt).inverted => fmt = 3
  <2>1. PICK v : v = Sound(frame, Chan(l, port), SizeOf(c))
    OBVIOUS
  <2>2. InWidth(v, VBanBitResolutionSize[fmt])
    <3>1. Chan(l, port) \in Channel /\ SizeOf(c) \in 1 .. 4
      BY Formats
    <3> QED BY <1>1, <2>1, <3>1, SoundWidth
  <2>3. LittleEndian(bytes, v, VBanBitResolutionSize[fmt])
    BY <1>1, <1>2, <2>1, Zenon DEF IsByteOf, LittleEndian
  <2>4. fmt = 2 => CharSigned
    BY <1>1, <1>2, Zenon
  <2>5. /\ IsLevel(jack_convert_sample(bytes, fmt), v, VBanBitResolutionSize[fmt])
        /\ jack_convert_sample(bytes, fmt).inverted => fmt = 3
    BY <2>2, <2>3, <2>4, Converted
  <2> QED BY <1>1, <2>1, <2>5, Zenon
<1>3. ASSUME Absent(l, c, port) PROVE jack_convert_sample(bytes, fmt).value = 0
  <2>1. \A b \in 1 .. VBanBitResolutionSize[fmt] : bytes[b] = 0
    BY <1>1, <1>3, Zenon DEF IsByteOf
  <2> QED BY <2>1, ConvertedSilence
<1> QED BY <1>1, <1>2, <1>3, Zenon DEF IsSampleOf

(* What the callback gives the ports are the samples of the frames it took. *)
LEMMA PeriodPlayed ==
  ASSUME IntegerFormats, NEW l \in Lists, NEW c \in Configs,
         NEW r \in [1 .. RingSize -> Byte], NEW ptr \in 0 .. RingSize - 1,
         NEW length \in 0 .. RingSize - 1, NEW first \in Int,
         Contents(l, c, r, ptr, length, first),
         Period * (PortsOf(l, c) * SizeOf(c)) <= length,
         NEW o, o = jack_process(<<ReadFirst(r, ptr, length), ReadSecond(r, ptr, length)>>,
                                 Period, PortsOf(l, c), c.bit_fmt)
  PROVE  OutIs(l, c, (first + Period) % Loop, o)
<1>0. Period \in Nat \ {0} /\ Loop \in Nat \ {0} /\ length \in Nat
  BY Sizes
<1>1. PICK ports \in Nat \ {0}, size \in Nat \ {0} : ports = PortsOf(l, c) /\ size = SizeOf(c)
  BY Formats, FormatSizes
<1>2. PICK p1, p2 : p1 = ReadFirst(r, ptr, length) /\ p2 = ReadSecond(r, ptr, length)
  OBVIOUS
<1>3. /\ p1 \in Seq(Byte) /\ p2 \in Seq(Byte) /\ Len(p1) + Len(p2) = length
      /\ \A j \in Nat : j < length => ByteAt(p1, p2, j + 1) = r[RingAt(ptr, j)]
  <2>1. IsVector(p1, p2, r, ptr, length)
    BY <1>2, VectorBytes
  <2> QED BY <2>1, Zenon DEF IsVector
<1>4. PICK n \in Nat : n = Period * ports /\ n * size <= Len(p1) + Len(p2)
  <2>1. Period * ports \in Nat /\ Period * ports * size = Period * (ports * size)
    BY PeriodSize
  <2> QED BY <1>1, <1>3, <2>1, Zenon
<1>5. PICK samples : samples = ReadSamples(<<p1, p2>>, n, size)
  OBVIOUS
<1>6. /\ DOMAIN samples = 1 .. n
      /\ \A i \in 1 .. n, b \in 1 .. size : samples[i][b] = ByteAt(p1, p2, (i - 1) * size + b)
  <2>1. /\ samples \in Seq(Seq(Byte)) /\ Len(samples) = n
        /\ \A i \in 1 .. n, b \in 1 .. size : samples[i][b] = ByteAt(p1, p2, (i - 1) * size + b)
    <3>1. AreSamples(samples, p1, p2, n, size)
      BY <1>3, <1>4, <1>5, SamplesRead
    <3> QED BY <3>1, Zenon DEF AreSamples
  <2>2. DOMAIN samples = 1 .. Len(samples)
    BY <2>1, SamplesDomain, Zenon
  <2> QED BY <2>1, <2>2, Zenon
<1>7. o = [i \in 1 .. n |-> jack_convert_sample(samples[i], c.bit_fmt)]
  BY <1>1, <1>2, <1>4, <1>5, <1>6, Zenon DEF jack_process, SizeOf
<1>8. ASSUME NEW k \in 1 .. Period, NEW port \in 1 .. ports
      PROVE  IsSampleOf(l, c, (((first + Period) % Loop) - Period + k - 1) % Loop, port,
                        o[(k - 1) * ports + port])
  <2>1. PICK f \in Nat : f = k - 1 /\ f < Period
    BY <1>0
  <2>2. PICK frame \in 0 .. Loop - 1 :
          /\ frame = (((first + Period) % Loop) - Period + k - 1) % Loop
          /\ frame = (first + f) % Loop
    <3>1. first + Period \in Int /\ f - Period \in Int /\ (first + Period) + (f - Period) = first + f
      BY <1>0
    <3>2. (((first + Period) % Loop) + (f - Period)) % Loop
            = ((first + Period) + (f - Period)) % Loop
      BY <1>0, <3>1, ModInside, Zenon
    <3>3. PICK x \in Int : x = (first + Period) % Loop
      <4>1. (first + Period) % Loop \in 0 .. Loop - 1
        BY <3>1, FrameNumber
      <4> QED BY <1>0, <4>1
    <3>4. x - Period + k - 1 = x + (f - Period)
      BY <1>0, <2>1
    <3>5. first + f \in Int
      OBVIOUS
    <3>6. (first + f) % Loop \in 0 .. Loop - 1
      BY <3>5, FrameNumber
    <3> QED BY <3>1, <3>2, <3>3, <3>4, <3>6, Zenon
  <2>3. PICK i \in 1 .. n : i = f * ports + port
    <3>1. (f + 1) * ports <= Period * ports
      BY <1>0, <2>1, SMT
    <3>2. (f + 1) * ports = f * ports + ports /\ f * ports >= 0
      BY SMT
    <3>3. PICK x \in Int : x = f * ports
      OBVIOUS
    <3>4. x + port \in 1 .. n
      BY <1>4, <3>1, <3>2, <3>3
    <3> QED BY <3>3, <3>4, Zenon
  <2>4. ASSUME NEW b \in 1 .. size
        PROVE  IsByteOf(l, c, frame, port, b, samples[i][b])
    <3>1. PICK j \in Nat : j = Place(f, port, b, ports, size)
      BY PlaceInFrames
    <3>2. j < length
      <4>1. j < Period * (ports * size)
        BY <1>0, <2>1, <3>1, PlaceInFrames
      <4>2. Period * (ports * size) <= length /\ Period * (ports * size) \in Nat
        BY <1>1, PeriodSize, Zenon
      <4>3. PICK x \in Nat : x = Period * (ports * size)
        BY <4>2
      <4> QED BY <1>0, <4>1, <4>2, <4>3
    <3>3. (i - 1) * size + b = j + 1
      <4>1. PICK x \in Int : x = f * ports
        OBVIOUS
      <4>2. j = (x + port - 1) * size + b - 1
        BY <3>1, <4>1, Zenon DEF Place
      <4>3. i - 1 = x + port - 1
        BY <2>3, <4>1
      <4>4. PICK y \in Int : y = (x + port - 1) * size
        BY SMT
      <4>5. j = y + b - 1 /\ (i - 1) * size + b = y + b
        BY <4>2, <4>3, <4>4, Zenon
      <4> QED BY <4>5
    <3>4. samples[i][b] = r[RingAt(ptr, j)]
      BY <1>3, <1>6, <3>2, <3>3, Zenon
    <3>5. IsByteOf(l, c, (first + f) % Loop, port, b, r[RingAt(ptr, j)])
      BY <1>1, <3>1, <3>2, Zenon DEF Contents
    <3> QED BY <2>2, <3>4, <3>5, Zenon
  <2>5. IsSampleOf(l, c, frame, port, jack_convert_sample(samples[i], c.bit_fmt))
    BY <1>1, <2>4, SampleIs
  <2>6. o[i] = jack_convert_sample(samples[i], c.bit_fmt)
    BY <1>7, Zenon
  <2> QED BY <2>1, <2>2, <2>3, <2>5, <2>6, Zenon
<1> QED BY <1>1, <1>8, Zenon DEF OutIs

(* A period played. *)
LEMMA CallbackStep ==
  ASSUME IntegerFormats, SamplesInv, Callback
  PROVE  SamplesInv'
<1>1. PICK need :
        /\ need = Period * Ports * SampleSize /\ fill >= need
        /\ out' = jack_process(ReadVector, Period, Ports, config.bit_fmt)
        /\ read_ptr' = (read_ptr + need) % RingSize /\ fill' = fill - need
        /\ ring' = [i \in 1 .. RingSize |->
             IF (i - 1 - read_ptr) % RingSize < need THEN 0 ELSE ring[i]]
        /\ played' = (played + Period) % Loop
        /\ UNCHANGED <<list, config, buffer, written>>
  BY Zenon DEF Callback, streamVars
<1>2. /\ list \in Lists /\ config \in Configs
      /\ ring \in [1 .. RingSize -> Byte] /\ read_ptr \in 0 .. RingSize - 1
      /\ fill \in 0 .. RingSize - 1
      /\ WholeFrames(list, config, fill, played, written)
      /\ Contents(list, config, ring, read_ptr, fill, played)
      /\ buffer \in [1 .. DataMax -> Byte]
      /\ written \in 0 .. Loop - 1 /\ played \in 0 .. Loop - 1
  BY Zenon DEF SamplesInv, TypesOK
<1>3. /\ written \in Int /\ played \in Int /\ fill \in Int /\ Period \in Int
      /\ RingSize \in Nat \ {0}
  BY <1>2, Sizes
<1>4. PICK ports \in Nat \ {0}, size \in Nat \ {0} :
        /\ ports = PortsOf(list, config) /\ size = SizeOf(config)
        /\ ports = Ports /\ size = SampleSize
  BY <1>2, Formats, FormatSizes DEF Ports, PortsOf, SampleSize, SizeOf, map, Mapping
<1>5. /\ need \in Nat /\ need = Period * (ports * size)
  <2>1. /\ Period * (ports * size) \in Nat
        /\ Period * ports * size = Period * (ports * size)
    BY <1>4, PeriodSize
  <2>2. need = Period * ports * size
    BY <1>1, <1>4, Zenon
  <2> QED BY <2>1, <2>2, Zenon
<1>6. need <= fill
  BY <1>1, <1>3, <1>5
<1>7. IsRead(ring', ring, read_ptr, need)
  <2>1. \A i \in 1 .. RingSize : i - 1 - read_ptr - 0 = i - 1 - read_ptr
    BY <1>2, <1>3
  <2> QED BY <1>1, <2>1, Zenon DEF IsRead, BehindBy
<1>8. /\ ring' \in [1 .. RingSize -> Byte]
      /\ WholeFrames(list, config, fill - need, (played + Period) % Loop, written)
      /\ Contents(list, config, ring', (read_ptr + need) % RingSize, fill - need,
                  (played + Period) % Loop)
  BY <1>2, <1>3, <1>4, <1>5, <1>6, <1>7, FramesLeft, Zenon
<1>9. OutIs(list, config, (played + Period) % Loop, out')
  <2>1. ReadVector = <<ReadFirst(ring, read_ptr, fill), ReadSecond(ring, read_ptr, fill)>>
    BY Zenon DEF ReadVector, ReadFirst, ReadSecond, FirstPart
  <2> QED BY <1>1, <1>2, <1>3, <1>4, <1>5, <1>6, <2>1, PeriodPlayed, Zenon
<1>10. /\ read_ptr' \in 0 .. RingSize - 1 /\ fill' \in 0 .. RingSize - 1
       /\ played' \in 0 .. Loop - 1
  <2>1. read_ptr + need \in Int /\ played + Period \in Int
    BY <1>2, <1>3, <1>5
  <2>2. (read_ptr + need) % RingSize \in 0 .. RingSize - 1
    BY <1>3, <2>1, DivModParts
  <2>3. (played + Period) % Loop \in 0 .. Loop - 1
    BY <2>1, FrameNumber
  <2>4. fill - need \in 0 .. RingSize - 1
    BY <1>2, <1>3, <1>5, <1>6
  <2> QED BY <1>1, <2>2, <2>3, <2>4, Zenon
<1>11. TypesOK'
  BY <1>1, <1>2, <1>8, <1>10, Zenon DEF TypesOK
<1> QED BY <1>1, <1>8, <1>9, <1>11, Zenon DEF SamplesInv

-----------------------------------------------------------------------------
(* The invariant *)

(* The ring buffer of a new stream. *)
LEMMA EmptyRing ==
  ASSUME NEW l, NEW c
  PROVE  /\ [i \in 1 .. RingSize |-> 0] \in [1 .. RingSize -> Byte]
         /\ [i \in 1 .. DataMax |-> 0] \in [1 .. DataMax -> Byte]
         /\ 0 \in 0 .. RingSize - 1 /\ 0 \in 0 .. Loop - 1
         /\ OutIs(l, c, 0, <<>>)
<1>1. 0 \in Byte
  BY DEF Byte
<1>2. 0 \in 0 .. RingSize - 1 /\ 0 \in 0 .. Loop - 1
  BY Sizes
<1>3. OutIs(l, c, 0, <<>>)
  BY Zenon DEF OutIs
<1> QED BY <1>1, <1>2, <1>3, Zenon

LEMMA NoFrames ==
  ASSUME IntegerFormats, NEW l \in Lists, NEW c \in Configs, NEW r
  PROVE  WholeFrames(l, c, 0, 0, 0) /\ Contents(l, c, r, 0, 0, 0)
<1>1. PICK ports \in Nat \ {0}, size \in Nat \ {0} : ports = PortsOf(l, c) /\ size = SizeOf(c)
  BY Formats, FormatSizes
<1>2. 0 = 0 * (ports * size) /\ 0 = (0 + 0) % Loop /\ 0 \in Nat
  <2>1. 0 + 0 = 0 /\ 0 \in 0 .. Loop - 1
    BY Sizes
  <2>2. 0 % Loop = 0
    BY <2>1, Sizes, ModSmall
  <2>3. 0 * (ports * size) = 0
    BY SMT
  <2> QED BY <2>1, <2>2, <2>3
<1>3. WholeFrames(l, c, 0, 0, 0)
  BY <1>1, <1>2, Zenon DEF WholeFrames
<1>4. ASSUME NEW frame \in Nat, NEW port \in 1 .. ports, NEW b \in 1 .. size
      PROVE  ~(Place(frame, port, b, ports, size) < 0)
  <2>1. PICK j \in Nat : j = Place(frame, port, b, ports, size)
    BY PlaceInFrames
  <2>2. ~(j < 0)
    OBVIOUS
  <2> QED BY <2>1, <2>2, Zenon
<1>5. Contents(l, c, r, 0, 0, 0)
  BY <1>1, <1>4, Zenon DEF Contents
<1> QED BY <1>3, <1>5

(* The other steps leave an empty ring buffer. *)
LEMMA SamplesInit == ASSUME IntegerFormats, Init PROVE SamplesInv
<1>1. TypesOK
  BY EmptyRing, Zenon DEF Init, TypesOK
<1>2. /\ WholeFrames(list, config, 0, 0, 0) /\ Contents(list, config, ring, 0, 0, 0)
      /\ OutIs(list, config, 0, <<>>)
  BY NoFrames, EmptyRing, Zenon DEF Init
<1> QED BY <1>1, <1>2, Zenon DEF Init, SamplesInv

LEMMA ReconfigureStep == ASSUME IntegerFormats, SamplesInv, Reconfigure PROVE SamplesInv'
<1>1. /\ list' = list /\ list' \in Lists /\ config' \in Configs /\ buffer' = buffer
      /\ buffer \in [1 .. DataMax -> Byte]
  BY Zenon DEF Reconfigure, SamplesInv, TypesOK
<1>2. TypesOK'
  BY <1>1, EmptyRing, Zenon DEF Reconfigure, TypesOK
<1>3. /\ WholeFrames(list', config', 0, 0, 0) /\ Contents(list', config', ring', 0, 0, 0)
      /\ OutIs(list', config', 0, <<>>)
  BY <1>1, NoFrames, EmptyRing, Zenon
<1> QED BY <1>2, <1>3, Zenon DEF Reconfigure, SamplesInv

LEMMA RestartStep == ASSUME IntegerFormats, SamplesInv, Restart PROVE SamplesInv'
<1>1. list' \in Lists /\ config' \in Configs
  BY Zenon DEF Restart
<1>2. TypesOK'
  BY <1>1, EmptyRing, Zenon DEF Restart, TypesOK
<1>3. /\ WholeFrames(list', config', 0, 0, 0) /\ Contents(list', config', ring', 0, 0, 0)
      /\ OutIs(list', config', 0, <<>>)
  BY <1>1, NoFrames, EmptyRing, Zenon
<1> QED BY <1>2, <1>3, Zenon DEF Restart, SamplesInv

(* The bytes in the ring buffer are those of the frames written and not yet *)
(* played, each at its place, and what the last callback gave the ports are *)
(* the samples of the frames it played.                                     *)
THEOREM SamplesInvariant ==
  ASSUME IntegerFormats
  PROVE  Spec => []SamplesInv
<1>1. Init => SamplesInv
  BY SamplesInit
<1>2. SamplesInv /\ [Next]_vars => SamplesInv'
  <2> SUFFICES ASSUME SamplesInv, [Next]_vars PROVE SamplesInv'
    OBVIOUS
  <2>1. CASE Write
    BY <2>1, WriteStep
  <2>2. CASE WriteOverrun
    BY <2>2, Zenon DEF WriteOverrun, streamVars, ringVars, SamplesInv, TypesOK
  <2>3. CASE Callback
    BY <2>3, CallbackStep
  <2>4. CASE Reconfigure
    BY <2>4, ReconfigureStep
  <2>5. CASE Restart
    BY <2>5, RestartStep
  <2>6. CASE UNCHANGED vars
    BY <2>6, Zenon DEF vars, streamVars, ringVars, SamplesInv, TypesOK
  <2> QED BY <2>1, <2>2, <2>3, <2>4, <2>5, <2>6 DEF Next
<1> QED BY <1>1, <1>2, PTL DEF Spec

-----------------------------------------------------------------------------
(* What the ports are given *)

(* A port whose tokens are numbers plays the channel asked for. *)
LEMMA RequestedIs ==
  ASSUME SamplesInv, NEW port \in OutPorts
  PROVE  /\ port \in 1 .. PortsOf(list, config) /\ out # <<>>
         /\ Requested(port) = Chan(list, port)
<1>1. port \in 1 .. Ports /\ out # <<>> /\ IsRequested(port)
  BY Zenon DEF OutPorts
<1>2. Ports = PortsOf(list, config) /\ map = Mapping(list)
  BY Zenon DEF Ports, PortsOf, map, Mapping
<1>3. CASE map = <<>>
  BY <1>1, <1>2, <1>3, Zenon DEF Requested, Chan
<1>4. CASE map # <<>>
  <2>1. port \in 1 .. Len(map)
    BY <1>1, <1>4, Zenon DEF Ports
  <2>2. list[port].kind = "number"
    <3>1. port \in 1 .. port
      BY <1>1
    <3> QED BY <1>1, <1>4, <3>1, Zenon DEF IsRequested
  <2>3. list \in Seq(Token)
    BY SamplesAssumption DEF SamplesInv, TypesOK
  <2>4. map[port] = list[port].value - 1
    BY <2>1, <2>2, <2>3, ParsedMap, Zenon DEF map
  <2> QED BY <1>1, <1>2, <1>4, <2>4, Zenon DEF Requested, Chan
<1> QED BY <1>3, <1>4

(* What a port was given last. *)
LEMMA GivenSample ==
  ASSUME SamplesInv, NEW port \in OutPorts, NEW k \in 1 .. Period
  PROVE  IsSampleOf(list, config, (played - Period + k - 1) % Loop, port, Played(k, port))
<1>1. Ports = PortsOf(list, config)
  BY Zenon DEF Ports, PortsOf, map, Mapping
<1> QED BY <1>1, RequestedIs, Zenon DEF SamplesInv, OutIs, Played

(* Each port plays the samples of its channel, frame by frame, at their     *)
(* level, of 32 bits at the nearest float's, and but for 32 bits with their *)
(* polarity: what jack_process_cb reads across the end of the ring buffer   *)
(* is what audio_write had put there.                                       *)
THEOREM HeardHolds ==
  ASSUME IntegerFormats, SignKept
  PROVE  Spec => []Heard
<1>1. SamplesInv => Heard
  <2> SUFFICES ASSUME SamplesInv, NEW port \in OutPorts, NEW k \in 1 .. Period,
                      Requested(port) < config.nb_channels
               PROVE  /\ IsLevel(Played(k, port), Expected(k, port), SampleSize)
                      /\ Played(k, port).inverted => config.bit_fmt = 3
    BY Zenon DEF Heard
  <2>1. IsSampleOf(list, config, (played - Period + k - 1) % Loop, port, Played(k, port))
    BY GivenSample
  <2>2. Requested(port) = Chan(list, port)
    BY RequestedIs
  <2>3. config.bit_fmt = 2 => CharSigned
    BY Zenon DEF SignKept, SamplesInv, TypesOK
  <2>4. /\ IsLevel(Played(k, port),
                   Sound((played - Period + k - 1) % Loop, Requested(port), SizeOf(config)),
                   SizeOf(config))
        /\ Played(k, port).inverted => config.bit_fmt = 3
    BY <2>1, <2>2, <2>3, Zenon DEF IsSampleOf
  <2> QED BY <2>4, Zenon DEF Expected, SampleSize, SizeOf
<1> QED BY <1>1, SamplesInvariant, PTL

(* A port whose channel the stream does not have is silent, unless the map  *)
(* is wider than the stream: MapCleared has cleared what it is to play.     *)
THEOREM MissingSilentHolds ==
  ASSUME IntegerFormats
  PROVE  Spec => []MissingSilent
<1>1. SamplesInv => MissingSilent
  <2> SUFFICES ASSUME SamplesInv, NEW port \in OutPorts, NEW k \in 1 .. Period,
                      Requested(port) >= config.nb_channels, Len(map) <= config.nb_channels
               PROVE  Played(k, port).value = 0
    BY Zenon DEF MissingSilent
  <2>1. IsSampleOf(list, config, (played - Period + k - 1) % Loop, port, Played(k, port))
    BY GivenSample
  <2>2. Requested(port) = Chan(list, port)
    BY RequestedIs
  <2>3. Absent(list, config, port)
    BY <2>2, Zenon DEF Absent, map, Mapping
  <2> QED BY <2>1, <2>3, Zenon DEF IsSampleOf
<1> QED BY <1>1, SamplesInvariant, PTL
=============================================================================
