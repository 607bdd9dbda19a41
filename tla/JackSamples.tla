----------------------------- MODULE JackSamples -----------------------------
(***************************************************************************)
(* What jack_process_cb of src/src/common/backend/jack_backend.c makes of  *)
(* the bytes in the ring buffer: the loop that reads samples across its    *)
(* end, and the conversion to float.  JackBackend has the threads and the  *)
(* lengths; here are the bytes.                                            *)
(*                                                                         *)
(* A float is [value, bits, inverted]: value over 2 to the power of bits,  *)
(* with the other sign if inverted; or 32 bits taken over, as [copy].  The *)
(* value is its significand, which has 24 bits and a sign: an int of more  *)
(* is rounded to the nearest float, the even one of two, as IEEE 754 does  *)
(* unless told otherwise.                                                  *)
(***************************************************************************)
EXTENDS Vban, Sequences

CONSTANT CharSigned         \* whether the plain char of the build has a sign
ASSUME CharAssumption == CharSigned \in BOOLEAN

(* What an int8_t, or the highest byte of an int, stands for. *)
SignedByte(byte) == IF byte >= 128 THEN byte - 256 ELSE byte
PlainChar(byte)  == IF CharSigned THEN SignedByte(byte) ELSE byte

Float(value, bits) == [value |-> value, bits |-> bits, inverted |-> FALSE]
Zero == Float(0, 0)

(* Such a number and the next one are both exact as a float. *)
IsSignificand(n) == -(2^24) <= n /\ n < 2^24

(* The bits of an int that are too many. *)
DroppedBits(n) ==
  CHOOSE k \in 0 .. 7 : /\ IsSignificand(n \div 2^k)
                        /\ k > 0 => ~ IsSignificand(n \div 2^(k - 1))

Rounded(n, k) ==
  LET lower == n \div 2^k
      rest  == n % 2^k
  IN IF 2 * rest > 2^k \/ (2 * rest = 2^k /\ lower % 2 = 1) THEN lower + 1 ELSE lower

(* (float)n over 2 to the power of bits; the division is exact. *)
ToFloat(n, bits) ==
  LET k == DroppedBits(n) IN Float(Rounded(n, k), bits - k)

(* (float)(1 << 31) is a negative number where the shift leaves INT_MIN. *)
jack_convert_sample(bytes, bit_fmt) ==
  CASE bit_fmt = 0 -> ToFloat(SignedByte(bytes[1]), 7)
    [] bit_fmt = 1 -> ToFloat(SignedByte(bytes[2]) * 256 + bytes[1], 15)
    [] bit_fmt = 2 -> ToFloat(PlainChar(bytes[3]) * 65536 + bytes[2] * 256 + bytes[1], 23)
    [] bit_fmt = 3 -> [ToFloat(SignedByte(bytes[4]) * 16777216 + bytes[3] * 65536
                                 + bytes[2] * 256 + bytes[1], 31) EXCEPT !.inverted = TRUE]
    [] bit_fmt = 4 -> [copy |-> bytes]
    [] OTHER       -> Zero

-----------------------------------------------------------------------------
(* The loop over the two parts of a read vector.  ptr is the offset in the  *)
(* part it points to, index whether that is the second one.                 *)

(* Faulty variant: what a sample takes from the second part is read again. *)
ReadSplitKeepsPtr(parts, cursor, size) ==
  LET first == SubSeq(parts[1], cursor.ptr + 1, Len(parts[1]))
      rest  == size - Len(first)
  IN [ptr |-> 0, len |-> cursor.len + size, index |-> 1,
      samples |-> Append(cursor.samples, first \o SubSeq(parts[2], 1, rest))]

(* The sample that does not fit in the first part, or only begins behind    *)
(* it; so the test len == rb_data[0].len that follows is never true.        *)
ReadSplit(parts, cursor, size) ==
  LET first == SubSeq(parts[1], cursor.ptr + 1, Len(parts[1]))
      rest  == size - Len(first)
  IN [ptr |-> rest, len |-> cursor.len + size, index |-> 1,
      samples |-> Append(cursor.samples, first \o SubSeq(parts[2], 1, rest))]

ReadWhole(parts, cursor, size) ==
  [cursor EXCEPT !.ptr = @ + size, !.len = @ + size,
     !.samples = Append(@, SubSeq(parts[cursor.index + 1], cursor.ptr + 1, cursor.ptr + size))]

ReadSample(parts, cursor, size) ==
  IF cursor.index = 0 /\ cursor.len + size > Len(parts[1])
  THEN ReadSplit(parts, cursor, size) ELSE ReadWhole(parts, cursor, size)

(* The bytes of n samples, one turn of the loop after the other. *)
ReadSamples(parts, n, size) ==
  LET cursor[k \in 0 .. n] ==
        IF k = 0 THEN [ptr |-> 0, len |-> 0, index |-> 0, samples |-> <<>>]
        ELSE ReadSample(parts, cursor[k - 1], size)
  IN cursor[n].samples

(* buffers[channel][sample], the frames one behind the other. *)
jack_process(parts, nframes, nb_channels, bit_fmt) ==
  LET samples == ReadSamples(parts, nframes * nb_channels, VBanBitResolutionSize[bit_fmt])
  IN [k \in DOMAIN samples |-> jack_convert_sample(samples[k], bit_fmt)]
=============================================================================
