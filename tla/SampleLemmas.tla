---------------------------- MODULE SampleLemmas ----------------------------
(***************************************************************************)
(* Lemmas about the operators of Samples: division, the places of the      *)
(* bytes of frames, the loop that parses option -c, the loop of            *)
(* jack_process_cb that cuts a read vector into samples, and the           *)
(* conversion of a sample to float.                                        *)
(***************************************************************************)
EXTENDS Samples, WellFoundedInduction, TLAPS

(* Division *)

(* A number is its quotient and its remainder. *)
LEMMA DivModParts ==
  ASSUME NEW x \in Int, NEW m \in Nat \ {0}
  PROVE  /\ x \div m \in Int /\ x % m \in 0 .. m - 1
         /\ x = (x \div m) * m + (x % m)
BY SMT

(* What the bounds of a number say of its quotient. *)
LEMMA QuotientBounds ==
  ASSUME NEW m \in Nat \ {0}, NEW q \in Int, NEW e \in Int, 0 <= e, e < m,
         NEW n \in Nat, NEW x, x = q * m + e
  PROVE  (x >= 0 => q >= 0) /\ (x < n * m => q < n)
<1>1. PICK y \in Int : y = q * m
  OBVIOUS
<1>2. q <= -1 => y <= -m
  <2>1. q <= -1 => q * m <= -m
    BY SMT
  <2> QED BY <1>1, <2>1
<1>3. x >= 0 => q >= 0
  BY <1>1, <1>2
<1>4. q >= n => q * m >= n * m
  BY SMT
<1>5. PICK z \in Int : z = n * m
  OBVIOUS
<1>6. q >= n => y >= z
  BY <1>1, <1>4, <1>5, Zenon
<1>7. x < z => q < n
  BY <1>1, <1>6
<1> QED BY <1>3, <1>5, <1>7, Zenon

(* Only one quotient and one remainder make a number. *)
LEMMA DivModUnique ==
  ASSUME NEW m \in Nat \ {0}, NEW q \in Int, NEW r \in 0 .. m - 1
  PROVE  (q * m + r) \div m = q /\ (q * m + r) % m = r
<1> DEFINE x == q * m + r
           d == x \div m
           e == x % m
<1>0. x \in Int
  BY SMT
<1>1. d \in Int /\ e \in 0 .. m - 1 /\ x = d * m + e
  BY <1>0, DivModParts
<1>2. (d - q) * m = r - e
  <2>1. q * m + r = d * m + e
    BY <1>1
  <2> HIDE DEF d, e, x
  <2>2. (d - q) * m = d * m - q * m
    BY <1>1, SMT
  <2>3. q * m \in Int /\ d * m \in Int
    BY <1>1, SMT
  <2> QED BY <1>1, <2>1, <2>2, <2>3, SMT
<1> HIDE DEF d, e
<1>3. ~ (d - q >= 1)
  <2> SUFFICES ASSUME d - q >= 1 PROVE FALSE
    OBVIOUS
  <2>1. (d - q) * m >= m
    BY <1>1, SMT
  <2> QED BY <1>1, <1>2, <2>1, SMT
<1>4. ~ (d - q <= -1)
  <2> SUFFICES ASSUME d - q <= -1 PROVE FALSE
    OBVIOUS
  <2>1. (d - q) * m <= -m
    BY <1>1, SMT
  <2> QED BY <1>1, <1>2, <2>1, SMT
<1>5. d = q
  BY <1>1, <1>3, <1>4, SMT
<1>6. e = r
  BY <1>1, <1>2, <1>5, SMT
<1> QED BY <1>5, <1>6 DEF d, e

(* Whole multiples do not change a remainder. *)
LEMMA ModOfSum ==
  ASSUME NEW x \in Int, NEW q \in Int, NEW m \in Nat \ {0}
  PROVE  (x + q * m) % m = x % m
<1>1. x \div m \in Int /\ x % m \in 0 .. m - 1 /\ x = (x \div m) * m + (x % m)
  BY DivModParts
<1> DEFINE d == x \div m
           e == x % m
<1>2. d \in Int /\ e \in 0 .. m - 1 /\ x = d * m + e
  BY <1>1
<1> HIDE DEF d, e
<1>3. x + q * m = (d + q) * m + e
  BY <1>2, SMT
<1>4. d + q \in Int
  BY <1>2
<1>5. ((d + q) * m + e) % m = e
  BY <1>2, <1>4, DivModUnique
<1> QED BY <1>3, <1>5 DEF e

(* A reduction inside a sum may be left out. *)
LEMMA ModInside ==
  ASSUME NEW x \in Int, NEW y \in Int, NEW m \in Nat \ {0}
  PROVE  ((x % m) + y) % m = (x + y) % m
<1> DEFINE d == x \div m
           e == x % m
<1>1. d \in Int /\ e \in 0 .. m - 1 /\ x = d * m + e
  BY DivModParts
<1> HIDE DEF d, e
<1>2. x + y = (e + y) + d * m
  BY <1>1, SMT
<1>3. e + y \in Int
  BY <1>1
<1>4. ((e + y) + d * m) % m = (e + y) % m
  BY <1>1, <1>3, ModOfSum
<1> QED BY <1>2, <1>4 DEF e

(* A number below the modulus, and one a modulus below 0. *)
LEMMA ModSmall ==
  ASSUME NEW m \in Nat \ {0}, NEW r \in 0 .. m - 1
  PROVE  r % m = r /\ (r - m) % m = r
<1>1. r % m = r
  BY DivModUnique, 0 * m + r = r
<1>2. \A q \in Int : (r + q * m) % m = r % m
  <2>1. r \in Int
    OBVIOUS
  <2> QED BY <2>1, ModOfSum
<1>3. -1 \in Int /\ r + (-1) * m = r - m
  OBVIOUS
<1> QED BY <1>1, <1>2, <1>3

-----------------------------------------------------------------------------
(* The places of bytes *)

(* The place, from 0, of the byte b of a sample of frames of nb samples of  *)
(* so many bytes.                                                           *)
Place(frame, port, b, nb, size) == (frame * nb + port - 1) * size + b - 1

(* Places are bounded by the frames they belong to. *)
LEMMA PlaceInFrames ==
  ASSUME NEW nb \in Nat \ {0}, NEW size \in Nat \ {0}, NEW frame \in Nat,
         NEW port \in 1 .. nb, NEW b \in 1 .. size, NEW q \in Nat
  PROVE  /\ Place(frame, port, b, nb, size) \in Nat
         /\ frame < q => Place(frame, port, b, nb, size) < q * (nb * size)
         /\ frame >= q => Place(frame, port, b, nb, size) >= q * (nb * size)
<1>1. PICK s \in Int : s = frame * nb + port - 1
  OBVIOUS
<1>2. s >= 0 /\ (frame < q => s + 1 <= q * nb) /\ (frame >= q => s >= q * nb)
  <2>1. frame * nb >= 0
    BY SMT
  <2>2. frame < q => (frame + 1) * nb <= q * nb
    BY SMT
  <2>3. (frame + 1) * nb = frame * nb + nb
    BY SMT
  <2>4. frame >= q => frame * nb >= q * nb
    BY SMT
  <2>5. PICK u \in Int, w \in Int : u = frame * nb /\ w = q * nb
    OBVIOUS
  <2> QED BY <1>1, <2>1, <2>2, <2>3, <2>4, <2>5, SMT
<1>3. PICK t \in Int : t = q * nb
  OBVIOUS
<1>4. t * size = q * (nb * size)
  BY <1>3, SMT
<1>5. s * size >= 0 /\ s * size \in Int /\ t * size \in Int
  BY <1>2, SMT
<1>6. s + 1 <= t => s * size + size <= t * size
  <2>1. s + 1 <= t => (s + 1) * size <= t * size
    BY SMT
  <2>2. (s + 1) * size = s * size + size
    BY SMT
  <2> QED BY <2>1, <2>2, <1>5, SMT
<1>7. s >= t => s * size >= t * size
  BY SMT
<1>8. Place(frame, port, b, nb, size) = s * size + b - 1
  BY <1>1 DEF Place
<1>9. PICK x \in Int, y \in Int : x = s * size /\ y = t * size
  BY <1>5
<1> QED BY <1>2, <1>3, <1>4, <1>5, <1>6, <1>7, <1>8, <1>9, SMT

(* Frames further on lie by whole frames further on. *)
LEMMA PlaceShift ==
  ASSUME NEW nb \in Nat \ {0}, NEW size \in Nat \ {0}, NEW frame \in Nat,
         NEW port \in 1 .. nb, NEW b \in 1 .. size, NEW q \in Nat
  PROVE  Place(q + frame, port, b, nb, size)
           = q * (nb * size) + Place(frame, port, b, nb, size)
BY SMT DEF Place

(* The parts of a place. *)
HasParts(place, frame, port, b, nb, size) ==
  /\ place % size = b - 1
  /\ (place \div size) \div nb = frame
  /\ (place \div size) % nb = port - 1
  /\ place \div (size * nb) = frame
  /\ (place % (size * nb)) \div size = port - 1

(* The frame, the port and the byte of a place are those it was made of. *)
LEMMA PlaceParts ==
  ASSUME NEW nb \in Nat \ {0}, NEW size \in Nat \ {0}, NEW frame \in Nat,
         NEW port \in 1 .. nb, NEW b \in 1 .. size
  PROVE  HasParts(Place(frame, port, b, nb, size), frame, port, b, nb, size)
<1>1. PICK s \in Int : s = frame * nb + (port - 1)
  OBVIOUS
<1>2. b - 1 \in 0 .. size - 1 /\ port - 1 \in 0 .. nb - 1
  OBVIOUS
<1>3. Place(frame, port, b, nb, size) = s * size + (b - 1)
  BY <1>1 DEF Place
<1>4. (s * size + (b - 1)) \div size = s /\ (s * size + (b - 1)) % size = b - 1
  BY <1>2, DivModUnique
<1>5. s \div nb = frame /\ s % nb = port - 1
  BY <1>1, <1>2, DivModUnique
<1>6. PICK m \in Nat \ {0} : m = size * nb
  <2>1. size * nb \in Nat /\ size * nb # 0
    BY SMT
  <2> QED BY <2>1
<1>7. PICK r \in Int : r = (port - 1) * size + (b - 1)
  OBVIOUS
<1>8. r \in 0 .. m - 1
  <2>1. (port - 1) * size >= 0 /\ (port - 1) * size \in Int
    BY SMT
  <2>2. port * size <= nb * size
    BY SMT
  <2>3. port * size = (port - 1) * size + size /\ nb * size = m
    BY <1>6, SMT
  <2>4. (port - 1) * size + size <= m
    BY <2>2, <2>3
  <2>5. PICK x \in Int : x = (port - 1) * size
    BY <2>1
  <2> QED BY <1>7, <2>1, <2>4, <2>5, SMT
<1>9. s * size + (b - 1) = frame * m + r
  <2>1. s * size = frame * (nb * size) + (port - 1) * size
    BY <1>1, SMT
  <2>2. nb * size = m
    BY <1>6, SMT
  <2> QED BY <1>7, <2>1, <2>2, SMT
<1>10. (frame * m + r) \div m = frame /\ (frame * m + r) % m = r
  BY <1>8, DivModUnique
<1>11. r \div size = port - 1
  BY <1>2, <1>7, DivModUnique
<1> QED BY <1>3, <1>4, <1>5, <1>6, <1>9, <1>10, <1>11 DEF HasParts

-----------------------------------------------------------------------------
(* audio_parse_map_config *)

(* Induction over a set: without a least number outside, none is. *)
LEMMA Induction ==
  ASSUME NEW S, 0 \in S, \A n \in Nat : n \in S => n + 1 \in S
  PROVE  Nat \subseteq S
<1> SUFFICES ASSUME Nat \ S # {} PROVE FALSE
  OBVIOUS
<1>1. PICK x \in Nat \ S : \A y \in Nat \ S : ~(<<y, x>> \in OpToRel(<, Nat))
  BY WFMin, NatLessThanWellFounded, Zenon
<1>2. \A y \in Nat \ S : ~(y < x)
  BY <1>1, Zenon DEF OpToRel
<1>3. x \in Nat /\ x # 0
  OBVIOUS
<1>a. x - 1 \in Nat /\ x - 1 < x /\ (x - 1) + 1 = x
  BY <1>3
<1>4. x - 1 \in S
  BY <1>2, <1>a
<1> QED BY <1>a, <1>4

ParseStart == [channels |-> <<>>, chan |-> 0, stopped |-> FALSE]

(* What the recursion of audio_parse_map_config says of a prefix. *)
IsParse(f, tokens, n) ==
  f = [k \in 0 .. n |-> IF k = 0 THEN ParseStart ELSE ParseToken(f[k - 1], tokens[k])]

(* The recursion of audio_parse_map_config has a solution for every list. *)
LEMMA ParseExists ==
  ASSUME NEW tokens, NEW n \in Nat
  PROVE  \E f : IsParse(f, tokens, n)
<1> DEFINE S == {m \in Nat : \E f : IsParse(f, tokens, m)}
<1>1. 0 \in S
  <2> DEFINE f == [k \in 0 .. 0 |-> ParseStart]
  <2>1. IsParse(f, tokens, 0)
    BY DEF IsParse
  <2> QED BY <2>1
<1>2. ASSUME NEW m \in Nat, m \in S PROVE m + 1 \in S
  <2>1. PICK f : IsParse(f, tokens, m)
    BY <1>2
  <2> DEFINE g == [k \in 0 .. m + 1 |->
                     IF k = m + 1 THEN ParseToken(f[m], tokens[m + 1]) ELSE f[k]]
  <2>2. g = [k \in 0 .. m + 1 |->
               IF k = 0 THEN ParseStart ELSE ParseToken(g[k - 1], tokens[k])]
    <3>1. ASSUME NEW k \in 0 .. m + 1
          PROVE g[k] = IF k = 0 THEN ParseStart ELSE ParseToken(g[k - 1], tokens[k])
      <4>1. CASE k = m + 1
        BY <4>1
      <4>2. CASE k # m + 1
        <5>1. k \in 0 .. m /\ k # 0 => k - 1 \in 0 .. m /\ k - 1 # m + 1
          BY <4>2
        <5>2. f[k] = IF k = 0 THEN ParseStart ELSE ParseToken(f[k - 1], tokens[k])
          BY <2>1, <4>2 DEF IsParse
        <5> QED BY <4>2, <5>1, <5>2
      <4> QED BY <4>1, <4>2
    <3> QED BY <3>1
  <2>3. IsParse(g, tokens, m + 1)
    BY <2>2 DEF IsParse
  <2> HIDE DEF g
  <2> QED BY <2>3
<1> QED 
  <2> HIDE DEF S
  <2>1. Nat \subseteq S
    BY <1>1, <1>2, Induction
  <2> QED BY <2>1 DEF S

(* So audio_parse_map_config is what the recursion computes. *)
LEMMA ParseIs ==
  ASSUME NEW tokens, Len(tokens) \in Nat
  PROVE  \E f : /\ IsParse(f, tokens, Len(tokens))
                /\ audio_parse_map_config(tokens) = f[Len(tokens)].channels
<1>1. \E f : IsParse(f, tokens, Len(tokens))
  BY ParseExists
<1> DEFINE f == CHOOSE g : IsParse(g, tokens, Len(tokens))
<1>2. IsParse(f, tokens, Len(tokens))
  BY <1>1
<1>3. audio_parse_map_config(tokens) = f[Len(tokens)].channels
  BY DEF audio_parse_map_config, IsParse, ParseStart
<1> QED BY <1>2, <1>3

(* The channel of every token, as far as the tokens are numbers. *)
ParseInv(tokens, k, parsed) ==
  /\ parsed \in [channels : Seq(0 .. 255), chan : Nat, stopped : BOOLEAN]
  /\ Len(parsed.channels) <= k /\ Len(parsed.channels) <= 256
  /\ ~parsed.stopped => Len(parsed.channels) = k
  /\ \A p \in 1 .. Len(parsed.channels) :
       tokens[p].kind = "number" => parsed.channels[p] = tokens[p].value - 1

(* A token takes one step of the loop. *)
LEMMA ParseStep ==
  ASSUME NEW tokens \in Seq(Token), NEW k \in Nat, k + 1 \in 1 .. Len(tokens),
         NEW parsed, ParseInv(tokens, k, parsed)
  PROVE  ParseInv(tokens, k + 1, ParseToken(parsed, tokens[k + 1]))
<1> DEFINE token == tokens[k + 1]
           chan  == TokenChannel(token, parsed.chan)
           new   == ParseToken(parsed, token)
           old   == parsed.channels
<1> SUFFICES ParseInv(tokens, k + 1, new)
  OBVIOUS
<1>0. old \in Seq(0 .. 255) /\ Len(old) \in Nat /\ Len(old) <= k /\ Len(old) <= 256
  BY DEF ParseInv
<1>1. token \in Token
  OBVIOUS
<1>2. chan \in Nat /\ (token.kind = "number" => chan = token.value)
  BY <1>1 DEF Token, TokenChannel, ParseInv
<1>3. CASE \/ parsed.stopped \/ token.kind = "blank"
           \/ Len(parsed.channels) = VBAN_CHANNELS_MAX_NB
           \/ chan \notin 1 .. VBAN_CHANNELS_MAX_NB
  <2>1. new = [parsed EXCEPT !.stopped = TRUE]
    BY <1>3 DEF ParseToken
  <2>2. /\ new \in [channels : Seq(0 .. 255), chan : Nat, stopped : BOOLEAN]
        /\ new.channels = old /\ new.stopped
    <3> HIDE DEF new, chan, token
    <3> QED BY <2>1 DEF ParseInv
  <2> HIDE DEF new, chan, token
  <2>3. Len(old) <= k + 1
    BY <1>0
  <2> QED BY <1>0, <2>2, <2>3 DEF ParseInv
<1>4. CASE ~ \/ parsed.stopped \/ token.kind = "blank"
             \/ Len(parsed.channels) = VBAN_CHANNELS_MAX_NB
             \/ chan \notin 1 .. VBAN_CHANNELS_MAX_NB
  <2>1. new = [parsed EXCEPT !.channels = Append(@, chan - 1), !.chan = chan]
    BY <1>4 DEF ParseToken
  <2>a. chan - 1 \in 0 .. 255 /\ Len(old) # 256
    <3>1. \A c \in 1 .. 256 : c - 1 \in 0 .. 255
      OBVIOUS
    <3>2. chan \in 1 .. 256
      BY <1>4, Zenon DEF VBAN_CHANNELS_MAX_NB
    <3> HIDE DEF chan
    <3> QED BY <1>4, <3>1, <3>2 DEF VBAN_CHANNELS_MAX_NB
  <2>b. Len(old) = k
    BY <1>4 DEF ParseInv
  <2>2. old \in Seq(0 .. 255) /\ Len(old) = k /\ k < 256 /\ chan - 1 \in 0 .. 255
    <3> HIDE DEF chan, old
    <3> QED BY <1>0, <2>a, <2>b
  <2>3. /\ new.channels = Append(old, chan - 1) /\ new.chan = chan
        /\ new.stopped = parsed.stopped
        /\ new \in [channels : Seq(0 .. 255), chan : Nat, stopped : BOOLEAN]
    <3>1. Append(old, chan - 1) \in Seq(0 .. 255)
      BY <2>2
    <3> HIDE DEF new, chan, token
    <3> QED BY <1>2, <2>1, <3>1 DEF ParseInv
  <2> HIDE DEF new, chan, token, old
  <2>4. /\ new.channels \in Seq(0 .. 255) /\ Len(new.channels) = k + 1
        /\ new.channels[k + 1] = chan - 1
        /\ \A p \in 1 .. k : new.channels[p] = old[p]
    BY <2>2, <2>3
  <2>5. \A p \in 1 .. k + 1 :
          tokens[p].kind = "number" => new.channels[p] = tokens[p].value - 1
    <3>1. \A p \in 1 .. k : 
            tokens[p].kind = "number" => new.channels[p] = tokens[p].value - 1
      BY <2>2, <2>4 DEF ParseInv, old
    <3>2. tokens[k + 1].kind = "number" => new.channels[k + 1] = tokens[k + 1].value - 1
      BY <1>2, <2>4 DEF token
    <3>3. \A p \in 1 .. k + 1 : p \in 1 .. k \/ p = k + 1
      OBVIOUS
    <3> QED BY <3>1, <3>2, <3>3
  <2>6. new.stopped = FALSE
    BY <1>4, <2>3 DEF ParseInv
  <2> QED BY <1>2, <2>2, <2>3, <2>4, <2>5, <2>6 DEF ParseInv
<1> QED BY <1>3, <1>4

(* What option -c becomes: channels counted from 0, and of the tokens that  *)
(* are numbers those of the user.                                           *)
THEOREM ParsedMap ==
  ASSUME NEW tokens \in Seq(Token)
  PROVE  LET channels == audio_parse_map_config(tokens) IN
         /\ channels \in Seq(0 .. 255) /\ Len(channels) <= 256
         /\ \A p \in 1 .. Len(channels) :
              tokens[p].kind = "number" => channels[p] = tokens[p].value - 1
<1> DEFINE n == Len(tokens)
<1>1. n \in Nat
  OBVIOUS
<1>2. PICK f : IsParse(f, tokens, n) /\ audio_parse_map_config(tokens) = f[n].channels
  BY <1>1, ParseIs
<1> DEFINE S == {k \in Nat : k <= n => ParseInv(tokens, k, f[k])}
<1>3. 0 \in S
  <2>1. f[0] = ParseStart
    BY <1>1, <1>2 DEF IsParse
  <2>2. ParseInv(tokens, 0, ParseStart)
    BY DEF ParseInv, ParseStart
  <2> QED BY <2>1, <2>2
<1>4. ASSUME NEW k \in Nat, k \in S PROVE k + 1 \in S
  <2> SUFFICES ASSUME k + 1 <= n PROVE ParseInv(tokens, k + 1, f[k + 1])
    OBVIOUS
  <2>1. f[k + 1] = ParseToken(f[k], tokens[k + 1])
    BY <1>1, <1>2 DEF IsParse
  <2>2. ParseInv(tokens, k, f[k]) /\ k + 1 \in 1 .. n
    BY <1>1, <1>4
  <2> QED BY <2>1, <2>2, ParseStep
<1>5. n \in S
  <2> HIDE DEF S
  <2> QED BY <1>1, <1>3, <1>4, Induction
<1>6. ParseInv(tokens, n, f[n])
  BY <1>1, <1>5
<1> QED BY <1>2, <1>6 DEF ParseInv

-----------------------------------------------------------------------------
(* jack_process_cb *)

(* A part of a sequence. *)
LEMMA SubSeqBytes ==
  ASSUME NEW q \in Seq(Byte), NEW a \in Nat, NEW n \in Nat, a + n <= Len(q)
  PROVE  /\ SubSeq(q, a + 1, a + n) \in Seq(Byte)
         /\ Len(SubSeq(q, a + 1, a + n)) = n
         /\ \A b \in 1 .. n : SubSeq(q, a + 1, a + n)[b] = q[a + b]
BY SMTT(30)

(* Two sequences, one behind the other. *)
LEMMA ConcatBytes ==
  ASSUME NEW s \in Seq(Byte), NEW t \in Seq(Byte)
  PROVE  /\ s \o t \in Seq(Byte) /\ Len(s \o t) = Len(s) + Len(t)
         /\ \A b \in 1 .. Len(s) : (s \o t)[b] = s[b]
         /\ \A b \in 1 .. Len(t) : (s \o t)[Len(s) + b] = t[b]
BY SMTT(30)

ReadStart == [ptr |-> 0, len |-> 0, index |-> 0, samples |-> <<>>]

(* What the recursion of ReadSamples says of its first n samples. *)
IsReading(f, parts, n, size) ==
  f = [k \in 0 .. n |-> IF k = 0 THEN ReadStart ELSE ReadSample(parts, f[k - 1], size)]

(* The recursion of ReadSamples has a solution for every number of samples. *)
LEMMA ReadingExists ==
  ASSUME NEW parts, NEW size, NEW n \in Nat
  PROVE  \E f : IsReading(f, parts, n, size)
<1> DEFINE S == {m \in Nat : \E f : IsReading(f, parts, m, size)}
<1>1. 0 \in S
  <2> DEFINE f == [k \in 0 .. 0 |-> ReadStart]
  <2>1. IsReading(f, parts, 0, size)
    BY DEF IsReading
  <2> QED BY <2>1
<1>2. ASSUME NEW m \in Nat, m \in S PROVE m + 1 \in S
  <2>1. PICK f : IsReading(f, parts, m, size)
    BY <1>2
  <2> DEFINE g == [k \in 0 .. m + 1 |->
                     IF k = m + 1 THEN ReadSample(parts, f[m], size) ELSE f[k]]
  <2>2. g = [k \in 0 .. m + 1 |->
               IF k = 0 THEN ReadStart ELSE ReadSample(parts, g[k - 1], size)]
    <3>1. ASSUME NEW k \in 0 .. m + 1
          PROVE g[k] = IF k = 0 THEN ReadStart ELSE ReadSample(parts, g[k - 1], size)
      <4>1. CASE k = m + 1
        BY <4>1
      <4>2. CASE k # m + 1
        <5>1. k \in 0 .. m /\ (k # 0 => k - 1 \in 0 .. m /\ k - 1 # m + 1)
          BY <4>2
        <5>2. f[k] = IF k = 0 THEN ReadStart ELSE ReadSample(parts, f[k - 1], size)
          BY <2>1, <5>1 DEF IsReading
        <5> QED BY <4>2, <5>1, <5>2
      <4> QED BY <4>1, <4>2
    <3> QED BY <3>1
  <2>3. IsReading(g, parts, m + 1, size)
    BY <2>2 DEF IsReading
  <2> HIDE DEF g
  <2> QED BY <2>3
<1> HIDE DEF S
<1>3. n \in S
  BY <1>1, <1>2, Induction
<1> QED BY <1>3 DEF S

(* So ReadSamples is what the recursion computes. *)
LEMMA ReadingIs ==
  ASSUME NEW parts, NEW size, NEW n \in Nat
  PROVE  \E f : /\ IsReading(f, parts, n, size)
                /\ ReadSamples(parts, n, size) = f[n].samples
<1>1. \E f : IsReading(f, parts, n, size)
  BY ReadingExists
<1> DEFINE f == CHOOSE g : IsReading(g, parts, n, size)
<1>2. IsReading(f, parts, n, size)
  BY <1>1
<1>3. ReadSamples(parts, n, size) = f[n].samples
  BY DEF ReadSamples, IsReading, ReadStart
<1> QED BY <1>2, <1>3

(* The byte at a place of a read vector, its parts taken together. *)
ByteAt(p1, p2, i) == IF i <= Len(p1) THEN p1[i] ELSE p2[i - Len(p1)]

Cursor == [ptr : Nat, len : Nat, index : {0, 1}, samples : Seq(Seq(Byte))]

(* Where the loop is after k samples, and what it has read. *)
CursorInv(p1, p2, size, k, cursor) ==
  /\ cursor \in Cursor
  /\ cursor.len = k * size /\ Len(cursor.samples) = k
  /\ cursor.index = 0 => cursor.ptr = cursor.len /\ cursor.len <= Len(p1)
  /\ cursor.index = 1 => cursor.ptr = cursor.len - Len(p1)
  /\ \A j \in 1 .. k, b \in 1 .. size :
       cursor.samples[j][b] = ByteAt(p1, p2, (j - 1) * size + b)

(* The bytes of a read vector by the part they are in. *)
LEMMA ByteInFirst ==
  ASSUME NEW p1, NEW p2, NEW i, i <= Len(p1)
  PROVE  ByteAt(p1, p2, i) = p1[i]
BY DEF ByteAt

LEMMA ByteInSecond ==
  ASSUME NEW p1, NEW p2, NEW i, NEW c, ~(i <= Len(p1)), i - Len(p1) = c
  PROVE  ByteAt(p1, p2, i) = p2[c]
BY DEF ByteAt

(* What a turn takes: bytes of one part, or the end of the first and what   *)
(* the sample lacks of the second.                                          *)
WholeBytes(p, ptr, size) == SubSeq(p, ptr + 1, ptr + size)
FirstBytes(p1, ptr)      == SubSeq(p1, ptr + 1, Len(p1))
SplitBytes(p1, p2, ptr, size) ==
  FirstBytes(p1, ptr) \o SubSeq(p2, 1, size - Len(FirstBytes(p1, ptr)))

(* A sample that lies in one part. *)
LEMMA WholeInFirst ==
  ASSUME NEW p1 \in Seq(Byte), NEW p2 \in Seq(Byte), NEW ptr \in Nat, NEW size \in Nat \ {0},
         ptr + size <= Len(p1)
  PROVE  /\ WholeBytes(p1, ptr, size) \in Seq(Byte)
         /\ \A b \in 1 .. size : WholeBytes(p1, ptr, size)[b] = ByteAt(p1, p2, ptr + b)
<1>1. PICK s : s = WholeBytes(p1, ptr, size)
  OBVIOUS
<1>2. s \in Seq(Byte) /\ \A b \in 1 .. size : s[b] = p1[ptr + b]
  BY <1>1, SubSeqBytes DEF WholeBytes
<1>3. ASSUME NEW b \in 1 .. size PROVE s[b] = ByteAt(p1, p2, ptr + b)
  <2>1. Len(p1) \in Nat
    OBVIOUS
  <2>2. ptr + b <= Len(p1)
    BY <2>1
  <2> QED BY <1>2, <2>2, ByteInFirst
<1> QED BY <1>1, <1>2, <1>3

LEMMA WholeInSecond ==
  ASSUME NEW p1 \in Seq(Byte), NEW p2 \in Seq(Byte), NEW ptr \in Nat, NEW size \in Nat \ {0},
         ptr + size <= Len(p2)
  PROVE  /\ WholeBytes(p2, ptr, size) \in Seq(Byte)
         /\ \A b \in 1 .. size :
              WholeBytes(p2, ptr, size)[b] = ByteAt(p1, p2, Len(p1) + ptr + b)
<1>1. PICK s : s = WholeBytes(p2, ptr, size)
  OBVIOUS
<1>2. s \in Seq(Byte) /\ \A b \in 1 .. size : s[b] = p2[ptr + b]
  BY <1>1, SubSeqBytes DEF WholeBytes
<1>3. ASSUME NEW b \in 1 .. size PROVE s[b] = ByteAt(p1, p2, Len(p1) + ptr + b)
  <2>1. Len(p1) \in Nat
    OBVIOUS
  <2>2. ~(Len(p1) + ptr + b <= Len(p1)) /\ Len(p1) + ptr + b - Len(p1) = ptr + b
    BY <2>1
  <2>3. ByteAt(p1, p2, Len(p1) + ptr + b) = p2[ptr + b]
    BY <2>2, ByteInSecond
  <2> QED BY <1>2, <2>3, Zenon
<1> QED BY <1>1, <1>2, <1>3

(* The sample that begins in the first part and does not end there. *)
LEMMA SplitSample ==
  ASSUME NEW p1 \in Seq(Byte), NEW p2 \in Seq(Byte), NEW ptr \in Nat, NEW size \in Nat \ {0},
         ptr <= Len(p1), ptr + size > Len(p1), ptr + size <= Len(p1) + Len(p2)
  PROVE  /\ size - Len(FirstBytes(p1, ptr)) = ptr + size - Len(p1)
         /\ ptr + size - Len(p1) \in Nat
         /\ SplitBytes(p1, p2, ptr, size) \in Seq(Byte)
         /\ \A b \in 1 .. size : SplitBytes(p1, p2, ptr, size)[b] = ByteAt(p1, p2, ptr + b)
<1>1. Len(p1) \in Nat /\ Len(p2) \in Nat
  OBVIOUS
<1>2. PICK n \in Nat : n = Len(p1) - ptr /\ ptr + n = Len(p1)
  <2>1. Len(p1) - ptr \in Nat /\ ptr + (Len(p1) - ptr) = Len(p1)
    BY <1>1
  <2> QED BY <2>1
<1>3. PICK first : first = FirstBytes(p1, ptr)
  OBVIOUS
<1>4. first \in Seq(Byte) /\ Len(first) = n /\ \A b \in 1 .. n : first[b] = p1[ptr + b]
  <2>1. /\ SubSeq(p1, ptr + 1, ptr + n) \in Seq(Byte)
        /\ Len(SubSeq(p1, ptr + 1, ptr + n)) = n
        /\ \A b \in 1 .. n : SubSeq(p1, ptr + 1, ptr + n)[b] = p1[ptr + b]
    BY <1>1, <1>2, SubSeqBytes
  <2> QED BY <1>2, <1>3, <2>1 DEF FirstBytes
<1>5. PICK rest \in Nat : rest = size - n
  <2>1. size - n \in Nat
    BY <1>1, <1>2
  <2> QED BY <2>1
<1>6. rest = ptr + size - Len(p1) /\ rest <= Len(p2) /\ size = n + rest
  BY <1>1, <1>2, <1>5
<1>7. PICK tail : tail = SubSeq(p2, 1, rest)
  OBVIOUS
<1>8. tail \in Seq(Byte) /\ Len(tail) = rest /\ \A b \in 1 .. rest : tail[b] = p2[b]
  <2>1. 0 + rest <= Len(p2) /\ 0 \in Nat
    BY <1>6
  <2>2. /\ SubSeq(p2, 0 + 1, 0 + rest) \in Seq(Byte)
        /\ Len(SubSeq(p2, 0 + 1, 0 + rest)) = rest
        /\ \A b \in 1 .. rest : SubSeq(p2, 0 + 1, 0 + rest)[b] = p2[0 + b]
    BY <2>1, SubSeqBytes
  <2>3. 0 + 1 = 1 /\ 0 + rest = rest /\ \A b \in 1 .. rest : 0 + b = b
    OBVIOUS
  <2> QED BY <1>7, <2>2, <2>3
<1>9. PICK s : s = SplitBytes(p1, p2, ptr, size)
  OBVIOUS
<1>10. s = first \o tail
  BY <1>3, <1>4, <1>5, <1>7, <1>9, Zenon DEF SplitBytes
<1>11. /\ s \in Seq(Byte)
       /\ \A b \in 1 .. n : s[b] = first[b]
       /\ \A b \in 1 .. rest : s[n + b] = tail[b]
  <2>1. first \in Seq(Byte) /\ tail \in Seq(Byte) /\ Len(first) = n /\ Len(tail) = rest
    BY <1>4, <1>8
  <2>2. /\ first \o tail \in Seq(Byte)
        /\ \A b \in 1 .. Len(first) : (first \o tail)[b] = first[b]
        /\ \A b \in 1 .. Len(tail) : (first \o tail)[Len(first) + b] = tail[b]
    BY <2>1, ConcatBytes, Zenon
  <2> QED BY <1>10, <2>1, <2>2, Zenon
<1>12. ASSUME NEW b \in 1 .. size PROVE s[b] = ByteAt(p1, p2, ptr + b)
  <2>1. CASE b <= n
    <3>1. b \in 1 .. n /\ ptr + b <= Len(p1)
      BY <1>1, <1>2, <2>1
    <3>2. s[b] = p1[ptr + b]
      BY <1>4, <1>11, <3>1, Zenon
    <3> QED BY <3>1, <3>2, ByteInFirst
  <2>2. CASE ~(b <= n)
    <3>1. PICK c \in 1 .. rest : b = n + c
      <4>1. b - n \in 1 .. rest /\ b = n + (b - n)
        BY <1>6, <2>2
      <4> QED BY <4>1
    <3>2. ~(ptr + b <= Len(p1)) /\ ptr + b - Len(p1) = c
      BY <1>1, <1>2, <2>2, <3>1
    <3>3. s[b] = p2[c]
      BY <1>8, <1>11, <3>1, Zenon
    <3>4. ByteAt(p1, p2, ptr + b) = p2[c]
      BY <3>2, ByteInSecond
    <3> QED BY <3>3, <3>4, Zenon
  <2> QED BY <2>1, <2>2
<1> QED BY <1>3, <1>4, <1>5, <1>6, <1>9, <1>11, <1>12, Zenon

(* A turn of the loop: the next sample is taken, ptr follows. *)
Taken(p1, p2, size, cursor, new) ==
  /\ new.ptr \in Nat /\ new.index \in {0, 1}
  /\ new = [ptr |-> new.ptr, len |-> cursor.len + size, index |-> new.index,
            samples |-> new.samples]
  /\ \E s \in Seq(Byte) :
       /\ new.samples = Append(cursor.samples, s)
       /\ \A b \in 1 .. size : s[b] = ByteAt(p1, p2, cursor.len + b)
  /\ new.index = 0 => new.ptr = new.len /\ new.len <= Len(p1)
  /\ new.index = 1 => new.ptr = new.len - Len(p1)

(* A sequence with one element more. *)
LEMMA AppendParts ==
  ASSUME NEW S, NEW seq \in Seq(S), NEW x \in S, NEW n \in Nat, Len(seq) = n
  PROVE  /\ Append(seq, x) \in Seq(S) /\ Len(Append(seq, x)) = n + 1
         /\ Append(seq, x)[n + 1] = x /\ \A j \in 1 .. n : Append(seq, x)[j] = seq[j]
OBVIOUS

(* One sample more keeps the invariant of the loop. *)
LEMMA SampleTaken ==
  ASSUME NEW p1 \in Seq(Byte), NEW p2 \in Seq(Byte), NEW size \in Nat \ {0}, NEW k \in Nat,
         NEW cursor, CursorInv(p1, p2, size, k, cursor),
         NEW new, Taken(p1, p2, size, cursor, new)
  PROVE  CursorInv(p1, p2, size, k + 1, new)
<1>1. PICK old, len : old = cursor.samples /\ len = cursor.len
  OBVIOUS
<1>2. len = k * size /\ len \in Nat /\ old \in Seq(Seq(Byte)) /\ Len(old) = k
  BY <1>1 DEF CursorInv, Cursor
<1>3. /\ (k + 1) * size = len + size /\ ((k + 1) - 1) * size = len
      /\ len + size \in Nat
  <2>1. (k + 1) * size = k * size + size /\ (k + 1) - 1 = k
    BY SMT
  <2> QED BY <1>2, <2>1
<1>4. \A j \in 1 .. k, b \in 1 .. size : old[j][b] = ByteAt(p1, p2, (j - 1) * size + b)
  BY <1>1 DEF CursorInv
<1>5. PICK s \in Seq(Byte) : /\ new.samples = Append(old, s)
                            /\ \A b \in 1 .. size : s[b] = ByteAt(p1, p2, len + b)
  BY <1>1, Zenon DEF Taken
<1>6. PICK more : more = new.samples
  OBVIOUS
<1>7. /\ more \in Seq(Seq(Byte)) /\ Len(more) = k + 1 /\ more[k + 1] = s
      /\ \A j \in 1 .. k : more[j] = old[j]
  <2>1. more = Append(old, s)
    BY <1>5, <1>6, Zenon
  <2> QED BY <1>2, <1>5, <2>1, AppendParts
<1>8. ASSUME NEW j \in 1 .. k + 1, NEW b \in 1 .. size
      PROVE more[j][b] = ByteAt(p1, p2, (j - 1) * size + b)
  <2>1. CASE j = k + 1
    <3>1. (j - 1) * size = len /\ more[j] = s
      BY <1>3, <1>7, <2>1, Zenon
    <3> QED BY <1>5, <3>1, Zenon
  <2>2. CASE j # k + 1
    <3>1. j \in 1 .. k
      BY <2>2
    <3> QED BY <1>4, <1>7, <3>1, Zenon
  <2> QED BY <2>1, <2>2
<1>9. /\ new.len = len + size /\ new.ptr \in Nat /\ new.index \in {0, 1}
      /\ new = [ptr |-> new.ptr, len |-> len + size, index |-> new.index, samples |-> more]
      /\ new.index = 0 => new.ptr = new.len /\ new.len <= Len(p1)
      /\ new.index = 1 => new.ptr = new.len - Len(p1)
  <2>1. new = [ptr |-> new.ptr, len |-> len + size, index |-> new.index, samples |-> more]
    BY <1>1, <1>6, Zenon DEF Taken
  <2>2. new.len = len + size
    BY <2>1
  <2> QED BY <2>1, <2>2, Zenon DEF Taken
<1>10. new \in Cursor
  BY <1>3, <1>7, <1>9 DEF Cursor
<1> QED BY <1>3, <1>6, <1>7, <1>8, <1>9, <1>10, Zenon DEF CursorInv

(* A turn of the loop takes the next bytes, across the end of the first *)
(* part too.                                                            *)
LEMMA ReadStep ==
  ASSUME NEW p1 \in Seq(Byte), NEW p2 \in Seq(Byte), NEW parts, parts = <<p1, p2>>,
         NEW size \in Nat \ {0}, NEW k \in Nat,
         NEW cursor, cursor.len + size <= Len(p1) + Len(p2),
         CursorInv(p1, p2, size, k, cursor)
  PROVE  Taken(p1, p2, size, cursor, ReadSample(parts, cursor, size))
<1>1. PICK ptr, len, index, old : ptr = cursor.ptr /\ len = cursor.len
                                  /\ index = cursor.index /\ old = cursor.samples
  OBVIOUS
<1>2. /\ ptr \in Nat /\ len \in Nat /\ index \in {0, 1}
      /\ cursor = [ptr |-> ptr, len |-> len, index |-> index, samples |-> old]
  BY <1>1 DEF CursorInv, Cursor
<1>3. /\ index = 0 => ptr = len /\ len <= Len(p1)
      /\ index = 1 => ptr = len - Len(p1)
  BY <1>1 DEF CursorInv
<1>4. len + size <= Len(p1) + Len(p2) /\ Len(p1) \in Nat /\ Len(p2) \in Nat
  BY <1>1
<1>5. parts[1] = p1 /\ parts[2] = p2
  OBVIOUS
<1>6. PICK new : new = ReadSample(parts, cursor, size)
  OBVIOUS
<1> SUFFICES Taken(p1, p2, size, cursor, new)
  BY <1>6
(* It is enough to name the sample and the new ptr. *)
<1>7. ASSUME NEW s \in Seq(Byte), NEW q \in Nat, NEW i \in {0, 1},
             new = [ptr |-> q, len |-> len + size, index |-> i, samples |-> Append(old, s)],
             i = 0 => q = len + size /\ len + size <= Len(p1),
             i = 1 => q = len + size - Len(p1),
             \A b \in 1 .. size : s[b] = ByteAt(p1, p2, len + b)
      PROVE  Taken(p1, p2, size, cursor, new)
  <2>1. /\ new.ptr = q /\ new.len = len + size /\ new.index = i
        /\ new.samples = Append(old, s)
    BY <1>7, Zenon
  <2>2. new = [ptr |-> new.ptr, len |-> len + size, index |-> new.index,
               samples |-> new.samples]
    BY <1>7, <2>1, Zenon
  <2>3. /\ new.index = 0 => new.ptr = new.len /\ new.len <= Len(p1)
        /\ new.index = 1 => new.ptr = new.len - Len(p1)
    <3>1. /\ i = 0 => q = len + size /\ len + size <= Len(p1)
          /\ i = 1 => q = len + size - Len(p1)
      BY <1>7, Zenon
    <3>2. CASE i = 0
      BY <1>2, <1>4, <2>1, <3>1, <3>2
    <3>3. CASE i = 1
      BY <1>2, <1>4, <2>1, <3>1, <3>3
    <3> QED BY <3>2, <3>3
  <2>4. \E t \in Seq(Byte) : /\ new.samples = Append(old, t)
                            /\ \A b \in 1 .. size : t[b] = ByteAt(p1, p2, len + b)
    BY <1>7, <2>1, Zenon
  <2> QED BY <1>1, <1>7, <2>1, <2>2, <2>3, <2>4, Zenon DEF Taken
<1>8. CASE index = 0 /\ len + size > Len(p1)
  <2>1. new = [ptr |-> size - Len(FirstBytes(p1, ptr)), len |-> len + size, index |-> 1,
               samples |-> Append(old, SplitBytes(p1, p2, ptr, size))]
    <3>1. new = ReadSplit(parts, cursor, size)
      BY <1>1, <1>5, <1>6, <1>8 DEF ReadSample
    <3> QED BY <1>1, <1>5, <3>1, Zenon DEF ReadSplit, FirstBytes, SplitBytes
  <2>2. ptr = len /\ ptr <= Len(p1) /\ ptr + size > Len(p1) /\ ptr + size <= Len(p1) + Len(p2)
    BY <1>3, <1>4, <1>8, Zenon
  <2>3. /\ size - Len(FirstBytes(p1, ptr)) = ptr + size - Len(p1)
        /\ ptr + size - Len(p1) \in Nat
        /\ SplitBytes(p1, p2, ptr, size) \in Seq(Byte)
        /\ \A b \in 1 .. size : SplitBytes(p1, p2, ptr, size)[b] = ByteAt(p1, p2, ptr + b)
    BY <1>2, <2>2, SplitSample
  <2>4. 1 \in {0, 1} /\ 1 # 0
    OBVIOUS
  <2> QED BY <1>7, <2>1, <2>2, <2>3, <2>4, Zenon
<1>9. CASE ~(index = 0 /\ len + size > Len(p1))
  <2>1. new = [ptr |-> ptr + size, len |-> len + size, index |-> index,
               samples |-> Append(old, WholeBytes(parts[index + 1], ptr, size))]
    <3>1. new = ReadWhole(parts, cursor, size)
      BY <1>1, <1>5, <1>6, <1>9, Zenon DEF ReadSample
    <3> QED BY <1>2, <3>1 DEF ReadWhole, WholeBytes
  <2>2. ptr + size \in Nat
    BY <1>2
  <2>3. CASE index = 0
    <3>1. parts[index + 1] = p1 /\ ptr = len
      BY <1>3, <1>5, <2>3
    <3>2. ptr + size <= Len(p1)
      BY <1>2, <1>4, <1>9, <2>3, <3>1
    <3>3. /\ WholeBytes(p1, ptr, size) \in Seq(Byte)
          /\ \A b \in 1 .. size : WholeBytes(p1, ptr, size)[b] = ByteAt(p1, p2, len + b)
      <4>1. ptr \in Nat /\ ptr = len
        BY <1>2, <3>1
      <4>2. /\ WholeBytes(p1, ptr, size) \in Seq(Byte)
            /\ \A b \in 1 .. size : WholeBytes(p1, ptr, size)[b] = ByteAt(p1, p2, ptr + b)
        BY <3>2, <4>1, WholeInFirst
      <4> QED BY <4>1, <4>2, Zenon
    <3>4. index # 1 /\ ptr + size = len + size /\ len + size <= Len(p1)
      BY <2>3, <3>1, <3>2
    <3> QED BY <1>2, <1>7, <2>1, <2>2, <3>1, <3>3, <3>4, Zenon
  <2>4. CASE index = 1
    <3>1. parts[index + 1] = p2 /\ ptr = len - Len(p1)
      BY <1>3, <1>5, <2>4
    <3>2. ptr + size <= Len(p2) /\ len = Len(p1) + ptr
      BY <1>2, <1>4, <3>1
    <3>3. /\ WholeBytes(p2, ptr, size) \in Seq(Byte)
          /\ \A b \in 1 .. size : WholeBytes(p2, ptr, size)[b] = ByteAt(p1, p2, len + b)
      BY <1>2, <3>2, WholeInSecond
    <3>4. index # 0 /\ ptr + size = len + size - Len(p1)
      BY <1>2, <1>4, <2>4, <3>1
    <3> QED BY <1>2, <1>7, <2>1, <2>2, <3>1, <3>3, <3>4, Zenon
  <2> QED BY <1>2, <2>3, <2>4
<1> QED BY <1>8, <1>9

(* The loop cuts the bytes of both parts, one behind the other, into        *)
(* samples, wherever the first part ends.                                   *)
AreSamples(samples, p1, p2, n, size) ==
  /\ samples \in Seq(Seq(Byte)) /\ Len(samples) = n
  /\ \A j \in 1 .. n, b \in 1 .. size :
       samples[j][b] = ByteAt(p1, p2, (j - 1) * size + b)

(* The samples of jack_process_cb are the bytes of the read vector in *)
(* their order, wherever its first part ends.                         *)
THEOREM SamplesRead ==
  ASSUME NEW p1 \in Seq(Byte), NEW p2 \in Seq(Byte), NEW size \in Nat \ {0}, NEW n \in Nat,
         n * size <= Len(p1) + Len(p2)
  PROVE  AreSamples(ReadSamples(<<p1, p2>>, n, size), p1, p2, n, size)
<1>1. PICK parts : parts = <<p1, p2>>
  OBVIOUS
<1>2. PICK f : IsReading(f, parts, n, size) /\ ReadSamples(parts, n, size) = f[n].samples
  BY ReadingIs
<1> DEFINE S == {k \in Nat : k <= n => CursorInv(p1, p2, size, k, f[k])}
<1>3. 0 \in S
  <2>1. f[0] = ReadStart
    BY <1>2 DEF IsReading
  <2>2. CursorInv(p1, p2, size, 0, ReadStart)
    <3>1. 0 * size = 0 /\ Len(p1) \in Nat
      OBVIOUS
    <3>2. ReadStart \in Cursor
      BY DEF ReadStart, Cursor
    <3> QED BY <3>1, <3>2 DEF CursorInv, ReadStart
  <2> QED BY <2>1, <2>2
<1>4. ASSUME NEW k \in Nat, k \in S PROVE k + 1 \in S
  <2> SUFFICES ASSUME k + 1 <= n PROVE CursorInv(p1, p2, size, k + 1, f[k + 1])
    OBVIOUS
  <2>1. f[k + 1] = ReadSample(parts, f[k], size)
    BY <1>2 DEF IsReading
  <2>2. CursorInv(p1, p2, size, k, f[k])
    BY <1>4
  <2>3. (k + 1) * size <= n * size
    BY SMT
  <2>4. (k + 1) * size <= Len(p1) + Len(p2)
    <3>1. /\ (k + 1) * size \in Int /\ n * size \in Int
          /\ Len(p1) \in Nat /\ Len(p2) \in Nat
      OBVIOUS
    <3> QED BY <2>3, <3>1
  <2>5. (k + 1) * size = k * size + size
    BY SMT
  <2>6. f[k].len + size <= Len(p1) + Len(p2)
    <3>1. f[k].len = k * size
      BY <2>2 DEF CursorInv
    <3> QED BY <2>4, <2>5, <3>1, Zenon
  <2>7. Taken(p1, p2, size, f[k], f[k + 1])
    BY <1>1, <2>1, <2>2, <2>6, ReadStep
  <2> QED BY <2>2, <2>7, SampleTaken
<1> HIDE DEF S
<1>5. n \in S
  BY <1>3, <1>4, Induction
<1>6. CursorInv(p1, p2, size, n, f[n])
  BY <1>5 DEF S
<1> QED BY <1>1, <1>2, <1>6 DEF CursorInv, Cursor, AreSamples

-----------------------------------------------------------------------------
(* jack_convert_sample *)

LittleEndian(bytes, v, n) == \A b \in 1 .. n : bytes[b] = ByteOf(v, b)

(* The powers of 256 there are. *)
LEMMA BytesOf ==
  ASSUME NEW v \in Int
  PROVE  /\ ByteOf(v, 1) = v % 256
         /\ ByteOf(v, 2) = (v \div 256) % 256
         /\ ByteOf(v, 3) = (v \div 65536) % 256
         /\ ByteOf(v, 4) = (v \div 16777216) % 256
<1>1. ByteOf(v, 1) = v % 256
  BY SMT DEF ByteOf
<1>2. ByteOf(v, 2) = (v \div 256) % 256
  BY SMT DEF ByteOf
<1>3. ByteOf(v, 3) = (v \div 65536) % 256
  BY SMT DEF ByteOf
<1>4. ByteOf(v, 4) = (v \div 16777216) % 256
  BY SMT DEF ByteOf
<1> QED BY <1>1, <1>2, <1>3, <1>4, SMT

(* The bytes of a number are bytes. *)
LEMMA ByteIsByte ==
  ASSUME NEW v \in Int, NEW b \in 1 .. 4 PROVE ByteOf(v, b) \in Byte
<1>1. \A w \in Int : w % 256 \in 0 .. 255
  BY SMT
<1>2. v \div 256^(b - 1) \in Int
  <2>1. CASE b = 1
    BY <2>1, SMT
  <2>2. CASE b = 2
    BY <2>2, SMT
  <2>3. CASE b = 3
    BY <2>3, SMT
  <2>4. CASE b = 4
    BY <2>4, SMT
  <2> QED BY <2>1, <2>2, <2>3, <2>4, SMT
<1> QED BY <1>1, <1>2, SMT DEF ByteOf, Byte

(* A number is what its bytes add up to, the highest one with its sign. *)
LEMMA AddUp1 ==
  ASSUME NEW v, InWidth(v, 1)
  PROVE  SignedByte(ByteOf(v, 1)) = v
<1>1. v \in Int /\ v >= -128 /\ v <= 127
  BY SMT DEF InWidth, Greatest
<1>2. SignedByte(v % 256) = v
  BY <1>1, SMT DEF SignedByte
<1>3. ByteOf(v, 1) = v % 256
  BY <1>1, SMT DEF ByteOf
<1> QED BY <1>2, <1>3, SMT

(* Two bytes. *)
LEMMA AddUp2 ==
  ASSUME NEW v, InWidth(v, 2)
  PROVE  SignedByte(ByteOf(v, 2)) * 256 + ByteOf(v, 1) = v
<1>1. v \in Int /\ v >= -32768 /\ v <= 32767
  BY SMT DEF InWidth, Greatest
<1>2. SignedByte((v \div 256) % 256) * 256 + (v % 256) = v
  BY <1>1, SMT DEF SignedByte
<1>3. /\ ByteOf(v, 1) = v % 256
      /\ ByteOf(v, 2) = (v \div 256) % 256
  BY <1>1, BytesOf, SMT
<1> QED BY <1>2, <1>3, SMT

(* Three bytes, if char has a sign. *)
LEMMA AddUp3 ==
  ASSUME NEW v, InWidth(v, 3)
  PROVE  SignedByte(ByteOf(v, 3)) * 65536 + ByteOf(v, 2) * 256 + ByteOf(v, 1) = v
<1>1. v \in Int /\ v >= -8388608 /\ v <= 8388607
  BY SMT DEF InWidth, Greatest
<1>2. SignedByte((v \div 65536) % 256) * 65536 + ((v \div 256) % 256) * 256 + (v % 256) = v
  BY <1>1, SMT DEF SignedByte
<1>3. /\ ByteOf(v, 1) = v % 256
      /\ ByteOf(v, 2) = (v \div 256) % 256
      /\ ByteOf(v, 3) = (v \div 65536) % 256
  BY <1>1, BytesOf, SMT
<1> QED BY <1>2, <1>3, SMT

(* Four bytes. *)
LEMMA AddUp4 ==
  ASSUME NEW v, InWidth(v, 4)
  PROVE  SignedByte(ByteOf(v, 4)) * 16777216 + ByteOf(v, 3) * 65536
           + ByteOf(v, 2) * 256 + ByteOf(v, 1) = v
<1>1. v \in Int /\ v >= -2147483648 /\ v <= 2147483647
  BY SMT DEF InWidth, Greatest
<1>2. SignedByte((v \div 16777216) % 256) * 16777216 + ((v \div 65536) % 256) * 65536
        + ((v \div 256) % 256) * 256 + (v % 256) = v
  BY <1>1, SMT DEF SignedByte
<1>3. /\ ByteOf(v, 1) = v % 256
      /\ ByteOf(v, 2) = (v \div 256) % 256
      /\ ByteOf(v, 3) = (v \div 65536) % 256
      /\ ByteOf(v, 4) = (v \div 16777216) % 256
  BY <1>1, BytesOf, SMT
<1> QED BY <1>2, <1>3, SMT

(* The steps between floats there are. *)
LEMMA Steps ==
  /\ 2^0 = 1 /\ 2^1 = 2 /\ 2^2 = 4 /\ 2^3 = 8
  /\ 2^4 = 16 /\ 2^5 = 32 /\ 2^6 = 64 /\ 2^7 = 128
BY SMT

(* The step of so many dropped bits. *)
LEMMA StepOf ==
  ASSUME NEW k \in 0 .. 7
  PROVE  \/ k = 0 /\ 2^k = 1
         \/ k = 1 /\ 2^k = 2
         \/ k = 2 /\ 2^k = 4
         \/ k = 3 /\ 2^k = 8
         \/ k = 4 /\ 2^k = 16
         \/ k = 5 /\ 2^k = 32
         \/ k = 6 /\ 2^k = 64
         \/ k = 7 /\ 2^k = 128
<1>0. CASE k = 0
  BY <1>0, Steps, Zenon
<1>1. CASE k = 1
  BY <1>1, Steps, Zenon
<1>2. CASE k = 2
  BY <1>2, Steps, Zenon
<1>3. CASE k = 3
  BY <1>3, Steps, Zenon
<1>4. CASE k = 4
  BY <1>4, Steps, Zenon
<1>5. CASE k = 5
  BY <1>5, Steps, Zenon
<1>6. CASE k = 6
  BY <1>6, Steps, Zenon
<1>7. CASE k = 7
  BY <1>7, Steps, Zenon
<1>8. k = 0 \/ k = 1 \/ k = 2 \/ k = 3 \/ k = 4 \/ k = 5 \/ k = 6 \/ k = 7
  BY SMT
<1> QED BY <1>0, <1>1, <1>2, <1>3, <1>4, <1>5, <1>6, <1>7, <1>8

(* What dividing by a step leaves. *)
LEMMA Quotient ==
  ASSUME NEW n \in Int, NEW k \in 0 .. 7
  PROVE  2^k \in Int /\ 2^k > 0 /\ n \div 2^k \in Int /\ n % 2^k \in Int
<1>1. 2^k \in {1, 2, 4, 8, 16, 32, 64, 128}
  BY StepOf, Zenon
<1>2. ASSUME NEW step \in {1, 2, 4, 8, 16, 32, 64, 128}
      PROVE  step \in Int /\ step > 0 /\ n \div step \in Int /\ n % step \in Int
  BY SMT
<1> QED BY <1>1, <1>2, Zenon

(* Significands are integers of 24 bits and a sign. *)
LEMMA Significand ==
  ASSUME NEW n \in Int
  PROVE  IsSignificand(n) <=> n >= -16777216 /\ n <= 16777215
BY SMT DEF IsSignificand

(* Dropping seven bits is enough for an int; so DroppedBits has a choice,   *)
(* and drops no more than it must.                                         *)
LEMMA Dropped ==
  ASSUME NEW n, InWidth(n, 4)
  PROVE  /\ DroppedBits(n) \in 0 .. 7
         /\ IsSignificand(n \div 2^DroppedBits(n))
         /\ DroppedBits(n) > 0 => ~ IsSignificand(n \div 2^(DroppedBits(n) - 1))
<1> DEFINE Fits(k) == IsSignificand(n \div 2^k)
<1>1. Fits(7)
  <2>1. n \in Int /\ n >= -2147483648 /\ n <= 2147483647
    BY SMT DEF InWidth, Greatest
  <2>2. n \div 128 \in Int /\ n \div 128 >= -16777216 /\ n \div 128 <= 16777215
    BY <2>1, SMT
  <2>3. IsSignificand(n \div 128)
    BY <2>2, Significand, SMT
  <2> QED BY <2>3, Steps, SMT
<1> HIDE DEF Fits
<1>2. \E k \in 0 .. 7 : Fits(k) /\ (k > 0 => ~ Fits(k - 1))
  BY <1>1, SMT
<1>3. /\ DroppedBits(n) \in 0 .. 7
      /\ Fits(DroppedBits(n))
      /\ DroppedBits(n) > 0 => ~ Fits(DroppedBits(n) - 1)
  BY <1>2, Zenon DEF DroppedBits, Fits
<1> QED BY <1>3 DEF Fits

(* A number of 24 bits and a sign keeps them all. *)
LEMMA KeptBits ==
  ASSUME NEW n \in Int, IsSignificand(n), NEW bits \in Int
  PROVE  ToFloat(n, bits) = Float(n, bits)
<1>1. n >= -16777216 /\ n <= 16777215
  BY Significand, SMT
<1>2. DroppedBits(n) = 0
  <2>1. InWidth(n, 4)
    BY <1>1, SMT DEF InWidth, Greatest
  <2>2. ASSUME NEW j \in 0 .. 6 PROVE IsSignificand(n \div 2^j)
    <3>1. 2^j \in {1, 2, 4, 8, 16, 32, 64}
      <4>1. j \in 0 .. 7 /\ j # 7
        BY SMT
      <4> QED BY <4>1, StepOf, Zenon
    <3>2. ASSUME NEW step \in {1, 2, 4, 8, 16, 32, 64}
          PROVE  /\ n \div step \in Int
                 /\ n \div step >= -16777216 /\ n \div step <= 16777215
      BY <1>1, SMT
    <3>3. ASSUME NEW step \in {1, 2, 4, 8, 16, 32, 64} PROVE IsSignificand(n \div step)
      BY <3>2, Significand, SMT
    <3> QED BY <3>1, <3>3, Zenon
  <2>3. /\ DroppedBits(n) \in 0 .. 7
        /\ DroppedBits(n) > 0 => ~ IsSignificand(n \div 2^(DroppedBits(n) - 1))
    BY <2>1, Dropped, Zenon
  <2>4. ASSUME DroppedBits(n) > 0 PROVE FALSE
    <3>1. DroppedBits(n) - 1 \in 0 .. 6
      BY <2>3, <2>4, SMT
    <3> QED BY <2>2, <2>3, <2>4, <3>1, Zenon
  <2> QED BY <2>3, <2>4, SMT
<1>3. Rounded(n, 0) = n
  <2>1. n \div 1 = n /\ n % 1 = 0
    BY SMT
  <2> QED BY <2>1, Steps, SMT DEF Rounded
<1> QED BY <1>2, <1>3, SMT DEF ToFloat

(* An int is rounded to the nearest of the numbers a step apart. *)
LEMMA RoundedNear ==
  ASSUME NEW n \in Int, NEW k \in 0 .. 7
  PROVE  /\ Nearest(Rounded(n, k), n, 2^k)
         /\ Rounded(n, k) \in {n \div 2^k, n \div 2^k + 1}
<1> DEFINE step == 2^k
           lower == n \div step
           rest  == n % step
<1>1. step \in Int /\ lower \in Int /\ rest \in Int
  BY Quotient
<1>2. Rounded(n, k)
        = IF 2 * rest > step \/ (2 * rest = step /\ lower % 2 = 1) THEN lower + 1 ELSE lower
  BY Zenon DEF Rounded
<1>3. Nearest(Rounded(n, k), n, step)
        <=> \/ Rounded(n, k) = lower /\ 2 * rest <= step
            \/ Rounded(n, k) = lower + 1 /\ 2 * rest >= step
  BY Zenon DEF Nearest
<1> HIDE DEF step, lower, rest
<1>4. /\ \/ Rounded(n, k) = lower /\ 2 * rest <= step
         \/ Rounded(n, k) = lower + 1 /\ 2 * rest >= step
      /\ Rounded(n, k) \in {lower, lower + 1}
  BY <1>1, <1>2, SMT
<1> QED BY <1>3, <1>4, Zenon DEF step, lower

(* Where bits are dropped the significand has all of its 24. *)
LEMMA FullSignificand ==
  ASSUME NEW n \in Int, NEW k \in 1 .. 7,
         ~ IsSignificand(n \div 2^(k - 1)),
         NEW x \in {n \div 2^k, n \div 2^k + 1}
  PROVE  x <= -(2^23) \/ 2^23 <= x
<1>1. ASSUME NEW a \in Int, NEW b \in Int, ~ IsSignificand(a), b = a \div 2,
             NEW y \in {b, b + 1}
      PROVE  y <= -(2^23) \/ 2^23 <= y
  <2>1. a < -16777216 \/ a > 16777215
    BY <1>1, Significand, SMT
  <2>2. b < -8388608 \/ b >= 8388608
    BY <1>1, <2>1, SMT
  <2> QED BY <1>1, <2>2, SMT
<1>2. /\ n \div 2^(k - 1) \in Int /\ n \div 2^k \in Int
      /\ n \div 2^k = (n \div 2^(k - 1)) \div 2
  <2>1. k \in 0 .. 7 /\ k - 1 \in 0 .. 7
    BY SMT
  <2>2. /\ n \div 2 = (n \div 1) \div 2 /\ n \div 4 = (n \div 2) \div 2
        /\ n \div 8 = (n \div 4) \div 2 /\ n \div 16 = (n \div 8) \div 2
        /\ n \div 32 = (n \div 16) \div 2 /\ n \div 64 = (n \div 32) \div 2
        /\ n \div 128 = (n \div 64) \div 2
    BY SMT
  <2>3. n \div 2^k = (n \div 2^(k - 1)) \div 2
    <3> DEFINE p == 2^k
               q == 2^(k - 1)
    <3>1. \/ k = 0 /\ p = 1
          \/ k = 1 /\ p = 2
          \/ k = 2 /\ p = 4
          \/ k = 3 /\ p = 8
          \/ k = 4 /\ p = 16
          \/ k = 5 /\ p = 32
          \/ k = 6 /\ p = 64
          \/ k = 7 /\ p = 128
      BY <2>1, StepOf, Zenon
    <3>2. \/ k - 1 = 0 /\ q = 1
          \/ k - 1 = 1 /\ q = 2
          \/ k - 1 = 2 /\ q = 4
          \/ k - 1 = 3 /\ q = 8
          \/ k - 1 = 4 /\ q = 16
          \/ k - 1 = 5 /\ q = 32
          \/ k - 1 = 6 /\ q = 64
          \/ k - 1 = 7 /\ q = 128
      BY <2>1, StepOf, Zenon
    <3> HIDE DEF p, q
    <3>3. \/ q = 1 /\ p = 2
          \/ q = 2 /\ p = 4
          \/ q = 4 /\ p = 8
          \/ q = 8 /\ p = 16
          \/ q = 16 /\ p = 32
          \/ q = 32 /\ p = 64
          \/ q = 64 /\ p = 128
      BY <3>1, <3>2, SMT
    <3>4. n \div p = (n \div q) \div 2
      BY <2>2, <3>3, SMT
    <3> QED BY <3>4 DEF p, q
  <2> QED BY <2>1, <2>3, Quotient
<1> QED BY <1>1, <1>2

(* (float) of an int, over a power of 2: the nearest float. *)
LEMMA NearestFloat ==
  ASSUME NEW n, NEW size \in 1 .. 4, InWidth(n, size)
  PROVE  IsLevel(ToFloat(n, 8 * size - 1), n, size)
<1>1. n \in Int /\ InWidth(n, 4)
  BY SMT DEF InWidth, Greatest
<1> DEFINE k == DroppedBits(n)
           float == ToFloat(n, 8 * size - 1)
<1>2. /\ k \in 0 .. 7
      /\ k > 0 => ~ IsSignificand(n \div 2^(k - 1))
  BY <1>1, Dropped, Zenon
<1>3. float.value = Rounded(n, k) /\ float.bits = 8 * size - 1 - k
  BY Zenon DEF ToFloat, Float
<1>4. /\ Nearest(Rounded(n, k), n, 2^k)
      /\ Rounded(n, k) \in {n \div 2^k, n \div 2^k + 1}
  BY <1>1, <1>2, RoundedNear, Zenon
<1>5. k > 0 => Rounded(n, k) <= -(2^23) \/ 2^23 <= Rounded(n, k)
  <2> SUFFICES ASSUME k > 0 PROVE Rounded(n, k) <= -(2^23) \/ 2^23 <= Rounded(n, k)
    OBVIOUS
  <2>1. k \in 1 .. 7
    BY <1>2, SMT
  <2> QED BY <1>1, <1>2, <1>4, <2>1, FullSignificand, Zenon
<1> QED BY <1>2, <1>3, <1>4, <1>5, Zenon DEF IsLevel

(* jack_convert_sample has the number back the bytes were made of: the      *)
(* number itself from up to 24 bits, the nearest float from 32, and only    *)
(* there may it have the other sign.                                        *)
THEOREM Converted ==
  ASSUME NEW v, NEW fmt \in 0 .. 3, InWidth(v, VBanBitResolutionSize[fmt]),
         fmt = 2 => CharSigned,
         NEW bytes, LittleEndian(bytes, v, VBanBitResolutionSize[fmt])
  PROVE  LET float == jack_convert_sample(bytes, fmt) IN
         /\ fmt < 3 => float = Float(v, 8 * VBanBitResolutionSize[fmt] - 1)
         /\ IsLevel(float, v, VBanBitResolutionSize[fmt])
         /\ float.inverted => fmt = 3
<1> DEFINE float == jack_convert_sample(bytes, fmt)
<1>s. v \in Int /\ (fmt < 3 => IsSignificand(v))
  <2>1. CASE fmt = 0
    BY <2>1, SMT DEF InWidth, Greatest, IsSignificand, VBanBitResolutionSize,
         VBAN_BIT_RESOLUTION_MAX
  <2>2. CASE fmt = 1
    BY <2>2, SMT DEF InWidth, Greatest, IsSignificand, VBanBitResolutionSize,
         VBAN_BIT_RESOLUTION_MAX
  <2>3. CASE fmt = 2
    BY <2>3, SMT DEF InWidth, Greatest, IsSignificand, VBanBitResolutionSize,
         VBAN_BIT_RESOLUTION_MAX
  <2>4. CASE fmt = 3
    BY <2>4, SMT DEF InWidth, Greatest, VBanBitResolutionSize, VBAN_BIT_RESOLUTION_MAX
  <2> QED BY <2>1, <2>2, <2>3, <2>4, SMT
<1>1. CASE fmt = 0
  <2>1. VBanBitResolutionSize[fmt] = 1
    BY <1>1, SMT DEF VBanBitResolutionSize, VBAN_BIT_RESOLUTION_MAX
  <2>2. bytes[1] = ByteOf(v, 1)
    BY <2>1, SMT DEF LittleEndian
  <2>3. SignedByte(bytes[1]) = v
    BY <2>1, <2>2, AddUp1
  <2>4. jack_convert_sample(bytes, 0) = ToFloat(SignedByte(bytes[1]), 7)
    BY SMT DEF jack_convert_sample
  <2>5. float = ToFloat(v, 7) /\ 8 * 1 - 1 = 7
    BY <1>1, <2>3, <2>4, SMT
  <2>6. float = Float(v, 7)
    BY <1>1, <1>s, <2>5, KeptBits, SMT
  <2>7. IsLevel(float, v, 1)
    BY <2>1, <2>5, NearestFloat, SMT
  <2> QED BY <1>1, <2>1, <2>5, <2>6, <2>7, SMT DEF Float
<1>2. CASE fmt = 1
  <2>1. VBanBitResolutionSize[fmt] = 2
    BY <1>2, SMT DEF VBanBitResolutionSize, VBAN_BIT_RESOLUTION_MAX
  <2>2. bytes[1] = ByteOf(v, 1) /\ bytes[2] = ByteOf(v, 2)
    BY <2>1, SMT DEF LittleEndian
  <2>3. SignedByte(bytes[2]) * 256 + bytes[1] = v
    BY <2>1, <2>2, AddUp2, SMT
  <2>4. jack_convert_sample(bytes, 1) = ToFloat(SignedByte(bytes[2]) * 256 + bytes[1], 15)
    BY SMT DEF jack_convert_sample
  <2>5. float = ToFloat(v, 15) /\ 8 * 2 - 1 = 15
    BY <1>2, <2>3, <2>4, SMT
  <2>6. float = Float(v, 15)
    BY <1>2, <1>s, <2>5, KeptBits, SMT
  <2>7. IsLevel(float, v, 2)
    BY <2>1, <2>5, NearestFloat, SMT
  <2> QED BY <1>2, <2>1, <2>5, <2>6, <2>7, SMT DEF Float
<1>3. CASE fmt = 2
  <2>1. VBanBitResolutionSize[fmt] = 3
    BY <1>3, SMT DEF VBanBitResolutionSize, VBAN_BIT_RESOLUTION_MAX
  <2>2. bytes[1] = ByteOf(v, 1) /\ bytes[2] = ByteOf(v, 2) /\ bytes[3] = ByteOf(v, 3)
    BY <2>1, SMT DEF LittleEndian
  <2>3. PlainChar(bytes[3]) * 65536 + bytes[2] * 256 + bytes[1] = v
    BY <1>3, <2>1, <2>2, AddUp3, SMT DEF PlainChar
  <2>4. jack_convert_sample(bytes, 2)
          = ToFloat(PlainChar(bytes[3]) * 65536 + bytes[2] * 256 + bytes[1], 23)
    BY SMT DEF jack_convert_sample
  <2>5. float = ToFloat(v, 23) /\ 8 * 3 - 1 = 23
    BY <1>3, <2>3, <2>4, SMT
  <2>6. float = Float(v, 23)
    BY <1>3, <1>s, <2>5, KeptBits, SMT
  <2>7. IsLevel(float, v, 3)
    BY <2>1, <2>5, NearestFloat, SMT
  <2> QED BY <1>3, <2>1, <2>5, <2>6, <2>7, SMT DEF Float
<1>4. CASE fmt = 3
  <2>1. VBanBitResolutionSize[fmt] = 4
    BY <1>4, SMT DEF VBanBitResolutionSize, VBAN_BIT_RESOLUTION_MAX
  <2>2. /\ bytes[1] = ByteOf(v, 1) /\ bytes[2] = ByteOf(v, 2)
        /\ bytes[3] = ByteOf(v, 3) /\ bytes[4] = ByteOf(v, 4)
    BY <2>1, SMT DEF LittleEndian
  <2>3. SignedByte(bytes[4]) * 16777216 + bytes[3] * 65536 + bytes[2] * 256 + bytes[1] = v
    BY <2>1, <2>2, AddUp4, SMT
  <2>4. jack_convert_sample(bytes, 3)
          = [ToFloat(SignedByte(bytes[4]) * 16777216 + bytes[3] * 65536
                       + bytes[2] * 256 + bytes[1], 31) EXCEPT !.inverted = TRUE]
    BY SMT DEF jack_convert_sample
  <2>5. float = [ToFloat(v, 31) EXCEPT !.inverted = TRUE] /\ 8 * 4 - 1 = 31
    BY <1>4, <2>3, <2>4, SMT
  <2>6. IsLevel(ToFloat(v, 31), v, 4)
    BY <2>1, <2>5, NearestFloat, SMT
  <2>7. float.value = ToFloat(v, 31).value /\ float.bits = ToFloat(v, 31).bits
    BY <2>5, SMT DEF ToFloat, Float
  <2>8. IsLevel(float, v, 4)
    BY <2>6, <2>7, Zenon DEF IsLevel
  <2> QED BY <1>4, <2>1, <2>8, SMT
<1> QED BY <1>1, <1>2, <1>3, <1>4, SMT

(* Silence stays silence in every format. *)
LEMMA ConvertedSilence ==
  ASSUME NEW fmt \in 0 .. 3, NEW bytes,
         \A b \in 1 .. VBanBitResolutionSize[fmt] : bytes[b] = 0
  PROVE  jack_convert_sample(bytes, fmt).value = 0
<1>z. ASSUME NEW bits \in Int PROVE ToFloat(0, bits) = Float(0, bits)
  <2>1. IsSignificand(0)
    BY SMT DEF IsSignificand
  <2> QED BY <2>1, KeptBits, SMT
<1>1. CASE fmt = 0
  <2>1. VBanBitResolutionSize[fmt] = 1
    BY <1>1, SMT DEF VBanBitResolutionSize, VBAN_BIT_RESOLUTION_MAX
  <2>2. bytes[1] = 0
    BY <2>1, SMT
  <2>3. jack_convert_sample(bytes, 0) = ToFloat(SignedByte(bytes[1]), 7)
    BY SMT DEF jack_convert_sample
  <2>4. SignedByte(0) = 0
    BY SMT DEF SignedByte
  <2>5. jack_convert_sample(bytes, 0) = ToFloat(0, 7)
    BY <2>2, <2>3, <2>4, SMT
  <2> QED BY <1>1, <1>z, <2>5, SMT DEF Float
<1>2. CASE fmt = 1
  <2>1. VBanBitResolutionSize[fmt] = 2
    BY <1>2, SMT DEF VBanBitResolutionSize, VBAN_BIT_RESOLUTION_MAX
  <2>2. bytes[1] = 0 /\ bytes[2] = 0
    BY <2>1, SMT
  <2>3. jack_convert_sample(bytes, 1) = ToFloat(SignedByte(bytes[2]) * 256 + bytes[1], 15)
    BY SMT DEF jack_convert_sample
  <2>4. SignedByte(0) * 256 + 0 = 0
    BY SMT DEF SignedByte
  <2>5. jack_convert_sample(bytes, 1) = ToFloat(0, 15)
    BY <2>2, <2>3, <2>4, SMT
  <2> QED BY <1>2, <1>z, <2>5, SMT DEF Float
<1>3. CASE fmt = 2
  <2>1. VBanBitResolutionSize[fmt] = 3
    BY <1>3, SMT DEF VBanBitResolutionSize, VBAN_BIT_RESOLUTION_MAX
  <2>2. bytes[1] = 0 /\ bytes[2] = 0 /\ bytes[3] = 0
    BY <2>1, SMT
  <2>3. jack_convert_sample(bytes, 2)
          = ToFloat(PlainChar(bytes[3]) * 65536 + bytes[2] * 256 + bytes[1], 23)
    BY SMT DEF jack_convert_sample
  <2>4. PlainChar(0) * 65536 + 0 * 256 + 0 = 0
    BY SMT DEF PlainChar, SignedByte
  <2>5. jack_convert_sample(bytes, 2) = ToFloat(0, 23)
    BY <2>2, <2>3, <2>4, SMT
  <2> QED BY <1>3, <1>z, <2>5, SMT DEF Float
<1>4. CASE fmt = 3
  <2>1. VBanBitResolutionSize[fmt] = 4
    BY <1>4, SMT DEF VBanBitResolutionSize, VBAN_BIT_RESOLUTION_MAX
  <2>2. bytes[1] = 0 /\ bytes[2] = 0 /\ bytes[3] = 0 /\ bytes[4] = 0
    BY <2>1, SMT
  <2>3. jack_convert_sample(bytes, 3)
          = [ToFloat(SignedByte(bytes[4]) * 16777216 + bytes[3] * 65536
                       + bytes[2] * 256 + bytes[1], 31) EXCEPT !.inverted = TRUE]
    BY SMT DEF jack_convert_sample
  <2>4. SignedByte(0) * 16777216 + 0 * 65536 + 0 * 256 + 0 = 0
    BY SMT DEF SignedByte
  <2>5. jack_convert_sample(bytes, 3) = [ToFloat(0, 31) EXCEPT !.inverted = TRUE]
    BY <2>2, <2>3, <2>4, SMT
  <2> QED BY <1>4, <1>z, <2>5, SMT DEF Float
<1> QED BY <1>1, <1>2, <1>3, <1>4, SMT
=============================================================================
