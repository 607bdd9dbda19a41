------------------------------ MODULE Samples ------------------------------
(***************************************************************************)
(* The way of the bytes from the packets of a stream through audio_write   *)
(* and its channel map, the ring buffer of the jack backend and            *)
(* jack_process_cb to JACK's ports.  The stream changes its format now and *)
(* then, which empties the ring buffer but not audio_t.buffer.  The sizes  *)
(* are constants: the program's are VBAN_DATA_MAX_SIZE and a power of two. *)
(***************************************************************************)
EXTENDS ChannelMap, JackSamples

CONSTANTS Configs,          \* formats of the stream
          Lists,            \* what option -c may be, sequences of tokens
          DataMax,          \* bytes in audio_t.buffer
          RingSize,         \* bytes in the ring buffer
          Period,           \* frames of one jack_process_cb
          PacketFrames,     \* bound: frames of one packet
          Loop,             \* bound: the frames are counted modulo Loop
          Sound(_, _, _)    \* the sample a frame and a channel carry in so many bytes

(* The extremes of a sample of one to four bytes. *)
Greatest == <<127, 32767, 8388607, 2147483647>>
InWidth(value, size) == value \in -(Greatest[size]) - 1 .. Greatest[size]

ASSUME SamplesAssumption ==
  /\ \A c \in Configs : c.nb_channels \in 1 .. VBAN_CHANNELS_MAX_NB /\ c.bit_fmt \in 0 .. 5
  /\ Lists \subseteq Seq(Token)
  /\ {DataMax, RingSize, Period, PacketFrames, Loop} \subseteq Nat \ {0}
  /\ \A frame \in 0 .. Loop - 1, chan \in 0 .. VBAN_CHANNELS_MAX_NB - 1, size \in 1 .. 4 :
       InWidth(Sound(frame, chan, size), size)

VARIABLES list,             \* option -c
          config,           \* the format of the stream
          buffer,           \* audio_t.buffer
          ring, read_ptr, fill,
          written,          \* frames put into the ring buffer
          played,           \* frames taken out
          out,              \* what the last callback gave the ports
          crashed

streamVars == <<list, config>>
ringVars == <<ring, read_ptr, fill>>
vars == <<streamVars, buffer, ringVars, written, played, out, crashed>>

map        == audio_parse_map_config(list)
SampleSize == VBanBitResolutionSize[config.bit_fmt]
Ports      == IF map = <<>> THEN config.nb_channels ELSE Len(map)

Init ==
  /\ list \in Lists /\ config \in Configs
  /\ buffer = [i \in 1 .. DataMax |-> 0]
  /\ ring = [i \in 1 .. RingSize |-> 0] /\ read_ptr = 0 /\ fill = 0
  /\ written = 0 /\ played = 0 /\ out = <<>> /\ crashed = FALSE

-----------------------------------------------------------------------------
(* The bytes of a sample, the lowest first. *)
ByteOf(value, b) == (value \div 256^(b - 1)) % 256
SampleBytes(value) == [b \in 1 .. SampleSize |-> ByteOf(value, b)]

Payload(frames) ==
  [i \in 1 .. frames * FrameSize(config) |->
    LET k == (i - 1) \div SampleSize     \* the sample of the byte
    IN SampleBytes(Sound((written + (k \div config.nb_channels)) % Loop,
                         k % config.nb_channels, SampleSize))[((i - 1) % SampleSize) + 1]]

(* jack_ringbuffer_write of bytes there is room for. *)
jack_ringbuffer_write(bytes) ==
  /\ ring' = [i \in 1 .. RingSize |->
       LET k == (i - 1 - read_ptr - fill) % RingSize
       IN IF k < Len(bytes) THEN bytes[k + 1] ELSE ring[i]]
  /\ fill' = fill + Len(bytes)
  /\ UNCHANGED read_ptr

(* audio_write and jack_write of a packet for which the ring buffer has     *)
(* room; any other is refused whole.                                        *)
Write ==
  /\ ~crashed
  /\ \E frames \in 1 .. PacketFrames :
       LET size     == frames * config.nb_channels * SampleSize
           out_size == frames * Ports * SampleSize
           mapped   == audio_map_channels(map, config, Payload(frames), size, buffer)
       IN /\ size <= DataMax /\ out_size <= DataMax
          /\ fill + out_size < RingSize
          /\ buffer' = mapped
          /\ jack_ringbuffer_write(IF map = <<>> THEN Payload(frames)
                                   ELSE SubSeq(mapped, 1, out_size))
          /\ written' = (written + frames) % Loop
  /\ UNCHANGED <<streamVars, played, out, crashed>>

(* The mapped frames are longer than audio_t.buffer: the copy runs over its *)
(* end, which is that of the allocated audio_t.  What a process becomes     *)
(* that survives it, with the bytes of others overwritten, is left out.     *)
WriteOverrun ==
  /\ ~crashed
  /\ \E frames \in 1 .. PacketFrames :
       /\ frames * config.nb_channels * SampleSize <= DataMax
       /\ map # <<>> /\ frames * Ports * SampleSize > DataMax
  /\ crashed' = TRUE
  /\ UNCHANGED <<streamVars, buffer, ringVars, written, played, out>>

(* jack_ringbuffer_get_read_vector *)
ReadVector ==
  LET first == IF fill > RingSize - read_ptr THEN RingSize - read_ptr ELSE fill IN
  <<SubSeq(ring, read_ptr + 1, read_ptr + first), SubSeq(ring, 1, fill - first)>>

(* jack_process_cb with a whole period in the ring buffer.  The bytes it has *)
(* read are not read again before they are written: 0 stands for them.       *)
Callback ==
  LET need == Period * Ports * SampleSize IN
  /\ ~crashed /\ fill >= need
  /\ out' = jack_process(ReadVector, Period, Ports, config.bit_fmt)
  /\ read_ptr' = (read_ptr + need) % RingSize /\ fill' = fill - need
  /\ ring' = [i \in 1 .. RingSize |->
       IF (i - 1 - read_ptr) % RingSize < need THEN 0 ELSE ring[i]]
  /\ played' = (played + Period) % Loop
  /\ UNCHANGED <<streamVars, buffer, written, crashed>>

(* Another format: jack_close frees the ring buffer and jack_open makes a   *)
(* new one; the silence in it is JackBackend's matter.                      *)
Reconfigure ==
  /\ ~crashed
  /\ config' \in Configs \ {config}
  /\ read_ptr' = 0 /\ fill' = 0 /\ ring' = [i \in 1 .. RingSize |-> 0]
  /\ written' = 0 /\ played' = 0 /\ out' = <<>>
  /\ UNCHANGED <<list, buffer, crashed>>

(* The process is started again. *)
Restart ==
  /\ crashed
  /\ list' \in Lists /\ config' \in Configs
  /\ buffer' = [i \in 1 .. DataMax |-> 0]
  /\ ring' = [i \in 1 .. RingSize |-> 0] /\ read_ptr' = 0 /\ fill' = 0
  /\ written' = 0 /\ played' = 0 /\ out' = <<>> /\ crashed' = FALSE

Next == Write \/ WriteOverrun \/ Callback \/ Reconfigure \/ Restart

Spec == Init /\ [][Next]_vars

-----------------------------------------------------------------------------
(* Properties *)

(* The channel a port is to play, counted from 0: the numbers of option -c *)
(* as far as they are numbers, or all of the stream without a map.         *)
Requested(port) ==
  IF map = <<>> THEN port - 1 ELSE list[port].value - 1
IsRequested(port) ==
  map # <<>> => \A k \in 1 .. port : list[k].kind = "number"

(* The sample of a port in frame k of the last period. *)
Played(k, port) == out[(k - 1) * Ports + port]
Expected(k, port) ==
  Sound((played - Period + k - 1) % Loop, Requested(port), SampleSize)

OutPorts == {port \in 1 .. Ports : out # <<>> /\ IsRequested(port)}

(* A number over a step, rounded to an integer, up or down from half way. *)
Nearest(x, n, step) ==
  \/ x = n \div step /\ 2 * (n % step) <= step
  \/ x = n \div step + 1 /\ 2 * (n % step) >= step

(* A float has the level of a number of so many bytes: it is the number    *)
(* itself, or the number has more than 24 bits and none of a float's is    *)
(* lost.  Up to three bytes only the first is possible.                    *)
IsLevel(float, n, size) ==
  \E k \in 0 .. 7 :
    /\ float.bits = 8 * size - 1 - k
    /\ Nearest(float.value, n, 2^k)
    /\ k > 0 => float.value <= -(2^23) \/ 2^23 <= float.value

(* Each port plays the samples of its channel, frame by frame, at their    *)
(* level and, but for 32 bits, their polarity, however packets and periods *)
(* lie to each other and wherever the ring buffer ends in a sample.  Of    *)
(* 32 bits the level is that of the nearest float.                         *)
Heard ==
  \A port \in OutPorts, k \in 1 .. Period :
    Requested(port) < config.nb_channels =>
      /\ IsLevel(Played(k, port), Expected(k, port), SampleSize)
      /\ Played(k, port).inverted => config.bit_fmt = 3

(* A port whose channel the stream does not have is silent, unless the map *)
(* is wider than the stream, whatever was played before: src/README.md:86  *)
(* promises that silence whatever the map.                                 *)
MissingSilent ==
  \A port \in OutPorts, k \in 1 .. Period :
    Requested(port) >= config.nb_channels /\ Len(map) <= config.nb_channels
      => Played(k, port).value = 0
=============================================================================
