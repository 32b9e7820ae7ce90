--------------------------- MODULE H2HpackProofs ---------------------------
(***************************************************************************)
(* The integer decoder of hpack.c is exact for every base, word size and   *)
(* prefix.                                                                 *)
(***************************************************************************)
EXTENDS H2HpackCodec, TLAPS

(* What the decoder knows of the bytes it has read: its sum and its weight *)
(* are the true ones as long as it has not failed, and the sum fits.  The  *)
(* weight is needed because the next group is multiplied by it.            *)
DecoderInv ==
    /\ sum \in Nat /\ scale \in Nat \ {0}
    /\ decoder.ret # "error" =>
          /\ decoder.result = sum /\ decoder.weight = scale
          /\ sum <= MaxWord
    /\ value = NoValue \/ value \in 0 .. MaxWord
    /\ pc \in {"encode", "decode"} => decoder.ret = "more"
    /\ wire \in Seq(Nat) /\ rest \in Nat
    /\ decoder \in Decoder /\ decoder.pos >= 1

(* A group that passes the checks of the decoder's loop adds, shifted, no  *)
(* more than the word has room for (h2_hpack_decode_integer).              *)
LEMMA FitsBound ==
    ASSUME NEW d \in Decoder, NEW b \in Nat, d.result <= MaxWord, FitsWord(d, b)
    PROVE  d.result + Low(b) * d.weight <= MaxWord
<1>1. Low(b) \in Nat
  BY HpackIntAssumption DEF Low
<1>2. Low(b) * d.weight \in Nat
  BY <1>1 DEF Decoder
<1> DEFINE a == Low(b) * d.weight
<1>3. a \in Nat /\ d.result <= MaxWord - a
  BY <1>2 DEF FitsWord
<1> HIDE DEF a
<1>4. d.result + a <= MaxWord
  BY <1>3, HpackIntAssumption DEF Decoder
<1> QED  BY <1>4 DEF a

(* One byte keeps what the decoder knows (one turn of the loop). *)
LEMMA ReadKeeps ==
    ASSUME DecoderInv, NEW b \in Nat, Read(b), decoder.ret = "more"
    PROVE  DecoderInv'
<1>1. Low(b) \in Nat /\ Base \in Nat \ {0} /\ MaxWord \in Nat
  BY HpackIntAssumption DEF Low
<1>2. /\ decoder.result = sum /\ decoder.weight = scale /\ sum <= MaxWord
      /\ decoder \in Decoder
      /\ sum \in Nat /\ scale \in Nat \ {0}
      /\ decoder.pos >= 1
  BY DEF DecoderInv, Decoder
<1> DEFINE a == Low(b) * scale
           s == scale * Base
<1>3. a \in Nat /\ s \in Nat \ {0}
  <2>1. a \in Nat
    BY <1>1, <1>2
  <2>2. \A x, y \in Nat \ {0} : x * y \in Nat \ {0}
    OBVIOUS
  <2> QED  BY <1>1, <1>2, <2>1, <2>2
<1>4. /\ sum' = sum + a /\ scale' = s /\ UNCHANGED <<value, rest, wire>>
      /\ pc' \in {"encode", "decode"} => decoder'.ret = "more"
  BY DEF Read, input
<1>5. decoder' = DecodeByte(decoder, b)
  BY DEF Read
<1>6. CASE ~FitsWord(decoder, b)
  <2>1. decoder' = [decoder EXCEPT !.ret = "error"]
    BY <1>5, <1>6 DEF DecodeByte, Failed
  <2>2. /\ decoder'.ret = "error" /\ decoder' \in Decoder
        /\ decoder'.pos >= 1
    BY <1>2, <2>1 DEF Decoder
  <2> HIDE DEF a, s
  <2> QED  BY <1>2, <1>3, <1>4, <2>2 DEF DecoderInv, Decoder
<1>7. CASE FitsWord(decoder, b)
  <2>1. decoder' = [ret |-> IF More(b) THEN "more" ELSE "ok",
                    pos |-> decoder.pos + 1,
                    result |-> sum + a, weight |-> s]
    BY <1>2, <1>5, <1>7 DEF DecodeByte
  <2>2. sum + a <= MaxWord
    BY <1>2, <1>7, FitsBound
  <2> HIDE DEF a, s
  <2>3. /\ decoder' \in Decoder /\ decoder'.pos >= 1
        /\ decoder'.result = sum' /\ decoder'.weight = scale'
    BY <1>2, <1>3, <1>4, <2>1 DEF Decoder
  <2> QED  BY <1>2, <1>3, <1>4, <2>2, <2>3 DEF DecoderInv, Decoder
<1> QED  BY <1>6, <1>7

LEMMA DecoderInit == Init => DecoderInv
<1> SUFFICES ASSUME Init PROVE DecoderInv
  OBVIOUS
<1>1. /\ prefix_max \in 1 .. MaxWord /\ MaxWord \in Nat
      /\ wire = << >> /\ scale = 1
  BY HpackIntAssumption, HpackCodecAssumption DEF Init
<1>2. CASE value = NoValue /\ rest = 0 /\ sum = prefix_max
           /\ decoder = DecodePrefix(prefix_max, prefix_max)
  BY <1>1, <1>2 DEF DecodePrefix, DecoderInv, Decoder
<1>3. ASSUME NEW v \in Values,
             value = v,
             pc = IF v < prefix_max THEN "done" ELSE "encode",
             rest = IF v < prefix_max THEN 0 ELSE v - prefix_max,
             decoder = DecodePrefix(IF v < prefix_max THEN v ELSE prefix_max,
                                    prefix_max),
             sum = decoder.result
      PROVE  DecoderInv
  <2>1. v \in 0 .. MaxWord
    BY HpackCodecAssumption
  <2> DEFINE p == IF v < prefix_max THEN v ELSE prefix_max
  <2>2. p \in 0 .. MaxWord
    BY <1>1, <2>1
  <2>3. decoder = [ret |-> IF p < prefix_max THEN "ok" ELSE "more",
                   pos |-> 1, result |-> p, weight |-> 1]
    BY <1>3 DEF DecodePrefix
  <2>4. rest \in Nat /\ (pc \in {"encode", "decode"} => p = prefix_max)
    BY <1>1, <1>3, <2>1
  <2> QED  BY <1>1, <1>3, <2>1, <2>2, <2>3, <2>4 DEF DecoderInv, Decoder
<1> QED  BY <1>2, <1>3 DEF Init

LEMMA DecoderStep == DecoderInv /\ [Next]_vars => DecoderInv'
<1> SUFFICES ASSUME DecoderInv, [Next]_vars PROVE DecoderInv'
  OBVIOUS
<1> USE HpackIntAssumption
<1>1. CASE EncodeByte
  <2>1. UNCHANGED <<value, decoder, sum, scale>>
    BY <1>1 DEF EncodeByte, input
  <2>2. /\ rest \in Nat /\ wire \in Seq(Nat)
        /\ pc = "encode" /\ pc' \in {"encode", "decode"}
        /\ decoder.ret = "more"
    BY <1>1 DEF EncodeByte, DecoderInv
  <2>3. Base + Low(rest) \in Nat /\ rest \div Base \in Nat
    BY <2>2 DEF Low
  <2>4. /\ rest' = 0 \/ rest' = rest \div Base
        /\ \/ wire' = Append(wire, rest)
           \/ wire' = Append(wire, Base + Low(rest))
    BY <1>1 DEF EncodeByte
  <2>5. \A n \in Nat : Append(wire, n) \in Seq(Nat)
    BY <2>2
  <2>6. rest' \in Nat
    BY <2>3, <2>4
  <2>7. wire' \in Seq(Nat)
    BY <2>2, <2>3, <2>4, <2>5
  <2> QED  BY <2>1, <2>2, <2>6, <2>7 DEF DecoderInv
<1>2. CASE EncodeFull
  BY <1>2 DEF EncodeFull, DecoderInv, input
<1>3. CASE DecodeEncoded
  <2>1. decoder.pos \in 1 .. Len(wire)
    BY <1>3 DEF DecodeEncoded, DecoderInv, Decoder
  <2>2. wire[decoder.pos] \in Nat /\ Read(wire[decoder.pos])
    BY <1>3, <2>1 DEF DecodeEncoded, DecoderInv
  <2>3. decoder.ret = "more"
    BY <1>3 DEF DecodeEncoded, DecoderInv
  <2> QED  BY <2>2, <2>3, ReadKeeps
<1>4. CASE \E b \in Bytes : DecodeAny(b)
  <2>1. PICK b \in Bytes : DecodeAny(b)
    BY <1>4
  <2>2. b \in Nat /\ Read(b) /\ decoder.ret = "more"
    BY <2>1 DEF DecodeAny, Bytes, DecoderInv
  <2> QED  BY <2>2, ReadKeeps
<1>5. CASE DecodeEnd
  BY <1>5 DEF DecodeEnd, DecoderInv, Decoder, Failed, input
<1>6. CASE UNCHANGED vars
  BY <1>6 DEF vars, DecoderInv, input
<1> QED  BY <1>1, <1>2, <1>3, <1>4, <1>5, <1>6 DEF Next

(* For every base, word size, prefix and sequence of bytes: what           *)
(* h2_hpack_decode_integer has computed when it has not failed is the true *)
(* value of the bytes, and it fits the word.                               *)
THEOREM DecodeCorrect == Spec => []DecodeExact
<1>1. DecoderInv => DecodeExact
  BY DEF DecoderInv, DecodeExact
<1> QED  BY <1>1, DecoderInit, DecoderStep, PTL DEF Spec

-----------------------------------------------------------------------------
(* The word and the number of groups.                                      *)

(* Both assumptions on them hold for the constants of hpack.c. *)
LEMMA CodeGroups ==
    ASSUME Base = 128, MaxWord = 4294967295, MaxPos = 5
    PROVE  GroupsFit /\ GroupsSuffice
<1> DEFINE P == [n \in 1 .. 6 |-> CASE n = 1 -> 1
                                    [] n = 2 -> 128
                                    [] n = 3 -> 16384
                                    [] n = 4 -> 2097152
                                    [] n = 5 -> 268435456
                                    [] n = 6 -> 34359738368]
<1>1. /\ P[1] = 1 /\ P[2] = 128 /\ P[3] = 16384 /\ P[4] = 2097152
      /\ P[5] = 268435456 /\ P[6] = 34359738368
  OBVIOUS
<1>2. P \in [1 .. 6 -> Nat \ {0}]
  OBVIOUS
<1> HIDE DEF P
<1>3. \A n \in 1 .. 5 : n = 1 \/ n = 2 \/ n = 3 \/ n = 4 \/ n = 5
  OBVIOUS
<1>4. \A n \in 1 .. 5 : P[n + 1] = P[n] * 128 /\ P[n] <= 4294967295
  BY <1>1, <1>3
<1>5. Powers(P)
  BY <1>1, <1>2, <1>4 DEF Powers
<1> QED  BY <1>1, <1>4, <1>5 DEF GroupsFit, GroupsSuffice

(* As long as the decoder goes on, its weight is the power of Base of its  *)
(* position: one factor for every byte that it has read.                   *)
WeightInv(P) ==
    decoder.ret = "more"
    => decoder.pos <= MaxPos + 1 /\ decoder.weight = P[decoder.pos]

LEMMA ReadWeight ==
    ASSUME NEW P, Powers(P), DecoderInv, WeightInv(P), NEW b \in Nat, Read(b),
           decoder.ret = "more"
    PROVE  WeightInv(P)'
<1>1. decoder' = DecodeByte(decoder, b) /\ decoder \in Decoder /\ decoder.pos >= 1
  BY DEF Read, DecoderInv
<1>2. CASE ~FitsWord(decoder, b)
  <2>1. decoder' = [decoder EXCEPT !.ret = "error"]
    BY <1>1, <1>2 DEF DecodeByte, Failed
  <2>2. decoder'.ret = "error"
    BY <1>1, <2>1 DEF Decoder
  <2> QED  BY <2>2 DEF WeightInv
<1>3. CASE FitsWord(decoder, b)
  <2>1. /\ decoder'.pos = decoder.pos + 1
        /\ decoder'.weight = decoder.weight * Base
    BY <1>1, <1>3 DEF DecodeByte
  <2>2. decoder.pos \in 1 .. MaxPos
    BY <1>1, <1>3, HpackIntAssumption DEF FitsWord, Decoder
  <2>3. decoder.weight = P[decoder.pos]
    BY <2>2, HpackIntAssumption DEF WeightInv
  <2>4. P[decoder.pos + 1] = P[decoder.pos] * Base
    BY <2>2 DEF Powers
  <2> QED  BY <2>1, <2>2, <2>3, <2>4, HpackIntAssumption DEF WeightInv
<1> QED  BY <1>2, <1>3

LEMMA WeightInit ==
    ASSUME NEW P, Powers(P), Init
    PROVE  WeightInv(P)
<1>1. decoder.pos = 1 /\ decoder.weight = 1
  BY DEF Init, DecodePrefix
<1> QED  BY <1>1, HpackIntAssumption DEF WeightInv, Powers

LEMMA WeightStep ==
    ASSUME NEW P, Powers(P), DecoderInv, WeightInv(P), [Next]_vars
    PROVE  WeightInv(P)'
<1>1. CASE EncodeByte \/ EncodeFull \/ UNCHANGED vars
  BY <1>1 DEF EncodeByte, EncodeFull, vars, WeightInv
<1>2. CASE DecodeEncoded
  <2>1. decoder.pos \in 1 .. Len(wire)
    BY <1>2 DEF DecodeEncoded, DecoderInv, Decoder
  <2>2. wire[decoder.pos] \in Nat /\ Read(wire[decoder.pos])
    BY <1>2, <2>1 DEF DecodeEncoded, DecoderInv
  <2>3. decoder.ret = "more"
    BY <1>2 DEF DecodeEncoded, DecoderInv
  <2> QED  BY <2>2, <2>3, ReadWeight
<1>3. CASE \E b \in Bytes : DecodeAny(b)
  <2>1. PICK b \in Bytes : DecodeAny(b)
    BY <1>3
  <2>2. b \in Nat /\ Read(b) /\ decoder.ret = "more"
    BY <2>1, HpackIntAssumption DEF DecodeAny, Bytes, DecoderInv
  <2> QED  BY <2>2, ReadWeight
<1>4. CASE DecodeEnd
  <2>1. decoder' = [decoder EXCEPT !.ret = "error"] /\ decoder \in Decoder
    BY <1>4 DEF DecodeEnd, Failed, DecoderInv
  <2>2. decoder'.ret = "error"
    BY <2>1 DEF Decoder
  <2> QED  BY <2>2 DEF WeightInv
<1> QED  BY <1>1, <1>2, <1>3, <1>4 DEF Next

(* A group above the quotient of the word by its weight exceeds the word   *)
(* once it is shifted: the division of h2_hpack_decode_integer loses       *)
(* nothing.                                                                *)
LEMMA AboveQuotient ==
    ASSUME NEW m \in Nat, NEW w \in Nat \ {0}, NEW a \in Nat, a > m \div w
    PROVE  a * w > m
<1> DEFINE k == m \div w
<1>1. k \in Nat /\ m < (k + 1) * w
  OBVIOUS
<1> HIDE DEF k
<1>2. a >= k + 1
  BY <1>1 DEF k
<1>3. \A x, y, z \in Nat : x >= y => x * z >= y * z
  OBVIOUS
<1>4. a * w >= (k + 1) * w
  BY <1>1, <1>2, <1>3
<1>5. (k + 1) * w \in Nat /\ a * w \in Nat
  BY <1>1
<1> QED  BY <1>1, <1>4, <1>5

LEMMA ReadRejects ==
    ASSUME NEW P, Powers(P), \A n \in 1 .. MaxPos : P[n] <= MaxWord,
           DecoderInv, WeightInv(P), NEW b \in Nat, Read(b),
           decoder.ret = "more", decoder'.ret = "error"
    PROVE  sum' > MaxWord \/ decoder.pos > MaxPos
<1> USE HpackIntAssumption
<1>1. /\ decoder' = DecodeByte(decoder, b) /\ decoder \in Decoder
      /\ decoder.pos >= 1 /\ decoder.result = sum /\ decoder.weight = scale
      /\ sum \in Nat /\ scale \in Nat \ {0} /\ sum' = sum + Low(b) * scale
  BY DEF Read, DecoderInv
<1>2. ~FitsWord(decoder, b)
  BY <1>1 DEF DecodeByte
<1>3. CASE decoder.pos > MaxPos
  BY <1>3
<1>4. CASE ~(decoder.pos > MaxPos)
  <2>1. decoder.pos \in 1 .. MaxPos
    BY <1>1, <1>4 DEF Decoder
  <2>2. scale <= MaxWord
    BY <1>1, <2>1 DEF WeightInv
  <2>3. Low(b) \in Nat
    BY DEF Low
  <2>4. \/ Low(b) > MaxWord \div scale
        \/ sum > MaxWord - Low(b) * scale
    <3> DEFINE l == Low(b)
               m == MaxWord \div scale
               a == Low(b) * scale
    <3>1. l \in Nat /\ m \in Int /\ a \in Int
      BY <1>1, <2>3
    <3>2. ~(l <= m /\ sum <= MaxWord - a)
      BY <1>1, <1>2, <2>1, <2>2 DEF FitsWord
    <3> HIDE DEF l, m, a
    <3>3. l > m \/ sum > MaxWord - a
      BY <1>1, <3>1, <3>2
    <3> QED  BY <3>3 DEF l, m, a
  <2>5. CASE Low(b) > MaxWord \div scale
    <3>1. Low(b) * scale > MaxWord /\ Low(b) * scale \in Nat
      BY <1>1, <2>3, <2>5, AboveQuotient
    <3> QED  BY <1>1, <3>1
  <2>6. CASE sum > MaxWord - Low(b) * scale
    <3>1. Low(b) * scale \in Nat
      BY <1>1, <2>3
    <3> QED  BY <1>1, <2>6, <3>1
  <2> QED  BY <2>4, <2>5, <2>6
<1> QED  BY <1>3, <1>4

(* If the last group an integer may have still counts in the word, then    *)
(* h2_hpack_decode_integer rejects a byte only for one of two reasons: the *)
(* integer with it does not fit the word, or it is one byte too many.      *)
THEOREM RejectsCorrect ==
    ASSUME GroupsFit
    PROVE  Spec => RejectsOnly
<1>1. PICK P : Powers(P) /\ \A n \in 1 .. MaxPos : P[n] <= MaxWord
  BY DEF GroupsFit
<1>2. Init => DecoderInv /\ WeightInv(P)
  BY <1>1, DecoderInit, WeightInit
<1>3. DecoderInv /\ WeightInv(P) /\ [Next]_vars => (DecoderInv /\ WeightInv(P))'
  BY <1>1, DecoderStep, WeightStep
<1>4. DecoderInv /\ WeightInv(P) /\ [Next]_vars
      => [decoder'.ret = "error" /\ scale' # scale
          => sum' > MaxWord \/ decoder.pos > MaxPos]_vars
  <2> SUFFICES ASSUME DecoderInv, WeightInv(P), Next,
                      decoder'.ret = "error", scale' # scale
               PROVE  sum' > MaxWord \/ decoder.pos > MaxPos
    OBVIOUS
  <2>1. CASE DecodeEncoded
    <3>1. decoder.pos \in 1 .. Len(wire)
      BY <2>1 DEF DecodeEncoded, DecoderInv, Decoder
    <3>2. wire[decoder.pos] \in Nat /\ Read(wire[decoder.pos])
      BY <2>1, <3>1 DEF DecodeEncoded, DecoderInv
    <3>3. decoder.ret = "more"
      BY <2>1 DEF DecodeEncoded, DecoderInv
    <3> QED  BY <1>1, <3>2, <3>3, ReadRejects
  <2>2. CASE \E b \in Bytes : DecodeAny(b)
    <3>1. PICK b \in Bytes : DecodeAny(b)
      BY <2>2
    <3>2. b \in Nat /\ Read(b) /\ decoder.ret = "more"
      BY <3>1, HpackIntAssumption DEF DecodeAny, Bytes, DecoderInv
    <3> QED  BY <1>1, <3>2, ReadRejects
  <2>3. CASE EncodeByte \/ EncodeFull \/ DecodeEnd
    BY <2>3 DEF EncodeByte, EncodeFull, DecodeEnd
  <2> QED  BY <2>1, <2>2, <2>3 DEF Next
<1> QED  BY <1>2, <1>3, <1>4, PTL DEF Spec, RejectsOnly

-----------------------------------------------------------------------------
(* The encoder and the decoder.                                            *)

(* q holds what the encoder had still to write before each of its bytes:   *)
(* the value without the prefix, divided by Base again and again.  The     *)
(* first n bytes of the wire are the low parts of q[1 .. n], each with the *)
(* bit that says that more follow.                                         *)
Groups(q, n) ==
    /\ n \in Nat /\ q \in [1 .. n + 1 -> Nat]
    /\ q[1] = value - prefix_max
    /\ \A i \in 1 .. n : /\ wire[i] = Base + Low(q[i])
                         /\ q[i] >= Base
                         /\ q[i + 1] = q[i] \div Base

Encoding == \E q, n : Groups(q, n) /\ Len(wire) = n /\ rest = q[n + 1]

(* The encoding is complete, and what the decoder has read with what it    *)
(* has still to read is the value.                                         *)
Decoding ==
    \E q, n : /\ Groups(q, n) /\ Len(wire) = n + 1
              /\ wire[n + 1] = q[n + 1] /\ q[n + 1] < Base
              /\ decoder.pos <= n + 1
              /\ value = sum + q[decoder.pos] * scale

(* What the encoder and the decoder of one value know of each other. *)
TripInv ==
    value # NoValue =>
       /\ pc = "encode" => Encoding /\ sum = prefix_max /\ scale = 1
                           /\ decoder.pos = 1
       /\ pc = "decode" => Decoding
       /\ RoundTrip

LEMMA TripInit == Init => TripInv
<1> SUFFICES ASSUME Init, value # NoValue PROVE TripInv
  BY DEF TripInv
<1> USE HpackIntAssumption
<1>1. PICK v \in Values :
             /\ value = v
             /\ pc = IF v < prefix_max THEN "done" ELSE "encode"
             /\ rest = IF v < prefix_max THEN 0 ELSE v - prefix_max
             /\ decoder = DecodePrefix(IF v < prefix_max THEN v
                                       ELSE prefix_max, prefix_max)
             /\ sum = decoder.result
  BY DEF Init
<1>2. /\ prefix_max \in 1 .. MaxWord /\ v \in 0 .. MaxWord
      /\ wire = << >> /\ scale = 1
  BY HpackCodecAssumption DEF Init
<1>3. CASE v < prefix_max
  <2>1. pc = "done" /\ decoder = DecodePrefix(v, prefix_max)
    BY <1>1, <1>3
  <2>2. decoder.ret = "ok" /\ decoder.result = v /\ decoder.pos = 1
    BY <1>3, <2>1 DEF DecodePrefix
  <2> QED  BY <1>1, <1>2, <2>1, <2>2 DEF TripInv, RoundTrip
<1>4. CASE ~(v < prefix_max)
  <2>1. /\ pc = "encode" /\ rest = v - prefix_max
        /\ decoder = DecodePrefix(prefix_max, prefix_max)
    BY <1>1, <1>4
  <2>2. decoder.result = prefix_max /\ decoder.pos = 1
    BY <2>1 DEF DecodePrefix
  <2>3. rest \in Nat
    BY <1>2, <1>4, <2>1
  <2> DEFINE q == [i \in 1 .. 0 + 1 |-> rest]
  <2>4. q \in [1 .. 0 + 1 -> Nat] /\ q[1] = rest /\ q[0 + 1] = rest
    BY <2>3
  <2>5. Groups(q, 0)
    BY <1>1, <2>1, <2>4 DEF Groups
  <2>6. Encoding
    BY <1>2, <2>4, <2>5 DEF Encoding
  <2> QED  BY <1>1, <1>2, <2>1, <2>2, <2>6 DEF TripInv, RoundTrip
<1> QED  BY <1>3, <1>4

(* One turn of the encoder's loop. *)
LEMMA EncodeTrip ==
    ASSUME DecoderInv, TripInv, EncodeByte, value # NoValue
    PROVE  TripInv'
<1> USE HpackIntAssumption
<1>1. /\ pc = "encode" /\ UNCHANGED <<value, prefix_max, decoder, sum, scale>>
      /\ Encoding /\ sum = prefix_max /\ scale = 1 /\ decoder.pos = 1
      /\ rest \in Nat /\ wire \in Seq(Nat) /\ value \in 0 .. MaxWord
  BY DEF EncodeByte, TripInv, DecoderInv, input
<1>2. PICK q, n : Groups(q, n) /\ Len(wire) = n /\ rest = q[n + 1]
  BY <1>1 DEF Encoding
<1>3. /\ n \in Nat /\ q \in [1 .. n + 1 -> Nat] /\ q[1] = value - prefix_max
      /\ \A i \in 1 .. n : /\ wire[i] = Base + Low(q[i])
                           /\ q[i] >= Base
                           /\ q[i + 1] = q[i] \div Base
  BY <1>2 DEF Groups
<1>4. CASE rest >= Base
  <2>1. wire' = Append(wire, Base + Low(rest)) /\ rest' = rest \div Base
        /\ pc' = "encode"
    BY <1>1, <1>4 DEF EncodeByte
  <2>2. rest \div Base \in Nat /\ Base + Low(rest) \in Nat
    BY <1>1 DEF Low
  <2>d. PICK d \in Nat : d = rest \div Base
    BY <2>2
  <2> DEFINE r == [i \in 1 .. (n + 1) + 1 |-> IF i <= n + 1 THEN q[i] ELSE d]
  <2>3. /\ Len(wire') = n + 1 /\ wire'[n + 1] = Base + Low(rest)
        /\ \A i \in 1 .. n : wire'[i] = wire[i]
    BY <1>1, <1>2, <1>3, <2>1, <2>2
  <2>4. /\ r \in [1 .. (n + 1) + 1 -> Nat] /\ r[(n + 1) + 1] = rest \div Base
        /\ \A i \in 1 .. n + 1 : r[i] = q[i]
    <3>1. r \in [1 .. (n + 1) + 1 -> Nat]
      BY <1>3
    <3>2. r[(n + 1) + 1] = d
      BY <1>3
    <3>3. \A i \in 1 .. n + 1 : r[i] = q[i]
      BY <1>3
    <3> QED  BY <2>d, <3>1, <3>2, <3>3
  <2> HIDE DEF r
  <2>5. \A i \in 1 .. n + 1 : /\ wire'[i] = Base + Low(r[i])
                              /\ r[i] >= Base
                              /\ r[i + 1] = r[i] \div Base
    <3> TAKE i \in 1 .. n + 1
    <3>1. CASE i = n + 1
      BY <1>2, <1>3, <1>4, <2>3, <2>4, <3>1
    <3>2. CASE i # n + 1
      <4>1. i \in 1 .. n /\ i + 1 \in 1 .. n + 1
        BY <1>3, <3>2
      <4> QED  BY <1>3, <2>3, <2>4, <4>1
    <3> QED  BY <3>1, <3>2
  <2>6. n + 1 \in Nat /\ r[1] = value' - prefix_max'
    BY <1>1, <1>3, <2>4
  <2>7. Groups(r, n + 1)'
    BY <2>4, <2>5, <2>6 DEF Groups
  <2>8. Encoding'
    BY <2>1, <2>3, <2>4, <2>7 DEF Encoding
  <2> QED  BY <1>1, <2>1, <2>8 DEF TripInv, RoundTrip
<1>5. CASE ~(rest >= Base)
  <2>1. wire' = Append(wire, rest) /\ pc' = "decode"
    BY <1>1, <1>5 DEF EncodeByte
  <2>2. /\ Len(wire') = n + 1 /\ wire'[n + 1] = q[n + 1]
        /\ \A i \in 1 .. n : wire'[i] = wire[i]
    BY <1>1, <1>2, <1>3, <2>1
  <2>3. q[n + 1] < Base
    BY <1>1, <1>2, <1>5
  <2>4. Groups(q, n)'
    BY <1>1, <1>3, <2>2 DEF Groups
  <2>5. decoder'.pos = 1 /\ sum' = prefix_max /\ scale' = 1
    BY <1>1
  <2>6. q[1] \in Nat /\ prefix_max \in Int
    <3>1. 1 \in 1 .. n + 1
      BY <1>3
    <3>2. sum \in Nat
      BY DEF DecoderInv
    <3> QED  BY <1>1, <1>3, <3>1, <3>2
  <2>7. value' = sum' + q[decoder'.pos] * scale' /\ decoder'.pos <= n + 1
    BY <1>1, <1>3, <2>5, <2>6
  <2>8. Decoding'
    BY <2>2, <2>3, <2>4, <2>7 DEF Decoding
  <2> QED  BY <2>1, <2>8 DEF TripInv, RoundTrip
<1> QED  BY <1>4, <1>5

(* A group that, shifted, is within the word is at most the quotient of    *)
(* the word by its weight.                                                 *)
LEMMA WithinQuotient ==
    ASSUME NEW m \in Nat, NEW w \in Nat \ {0}, NEW a \in Nat, a * w <= m
    PROVE  a <= m \div w
<1> DEFINE k == m \div w
<1>1. k \in Nat /\ m < (k + 1) * w
  OBVIOUS
<1> HIDE DEF k
<1>2. \A x, y, z \in Nat : x >= y => x * z >= y * z
  OBVIOUS
<1>3. CASE a >= k + 1
  <2>1. a * w >= (k + 1) * w
    BY <1>1, <1>2, <1>3
  <2>2. (k + 1) * w \in Nat /\ a * w \in Nat
    BY <1>1
  <2> QED  BY <1>1, <2>1, <2>2
<1>4. CASE ~(a >= k + 1)
  <2>1. a <= k
    BY <1>1, <1>4
  <2> QED  BY <2>1 DEF k
<1> QED  BY <1>3, <1>4

(* A number is its low part and Base times its quotient. *)
LEMMA LowAndQuotient ==
    ASSUME NEW x \in Nat
    PROVE  /\ Low(x) \in Nat /\ x \div Base \in Nat
           /\ Low(x) < Base
           /\ x = (x \div Base) * Base + Low(x)
           /\ Low(x) <= x
           /\ Low(Base + x) = Low(x)
           /\ x < Base => Low(x) = x
           /\ x >= Base => x \div Base >= 1
<1> USE HpackIntAssumption
<1> DEFINE k == x \div Base
           l == x % Base
<1>1. /\ k \in Nat /\ l \in Nat /\ l < Base /\ x = Base * k + l
  OBVIOUS
<1>2. (Base + x) % Base = l
  <2>1. Base + x = Base * (k + 1) + l
    <3> HIDE DEF k, l
    <3> QED  BY <1>1
  <2> DEFINE m == (Base + x) \div Base
             n == (Base + x) % Base
  <2>2. m \in Nat /\ n \in 0 .. Base - 1 /\ Base + x = Base * m + n
    OBVIOUS
  <2>3. l \in 0 .. Base - 1 /\ k + 1 \in Int
    BY <1>1
  <2> HIDE DEF k, l, m, n
  <2>4. \A y \in Int : y >= 1 => Base * y >= Base
    OBVIOUS
  <2>5. CASE m > k + 1
    <3>1. Base * (m - (k + 1)) >= Base
      BY <1>1, <2>2, <2>4, <2>5
    <3>2. Base * (m - (k + 1)) = Base * m - Base * (k + 1)
      BY <1>1, <2>2
    <3> QED  BY <1>1, <2>1, <2>2, <2>3, <3>1, <3>2
  <2>6. CASE m < k + 1
    <3>1. Base * ((k + 1) - m) >= Base
      BY <1>1, <2>2, <2>4, <2>6
    <3>2. Base * ((k + 1) - m) = Base * (k + 1) - Base * m
      BY <1>1, <2>2
    <3> QED  BY <1>1, <2>1, <2>2, <2>3, <3>1, <3>2
  <2>7. CASE m = k + 1
    <3>1. Base * m \in Int /\ Base * m + l = Base * m + n
      BY <2>1, <2>2, <2>7
    <3>2. l = n
      BY <1>1, <2>2, <3>1
    <3> QED  BY <3>2 DEF n
  <2> QED  BY <1>1, <2>2, <2>5, <2>6, <2>7
<1>3. x >= Base => k >= 1
  <2> HIDE DEF k, l
  <2>1. k = 0 => x = l
    BY <1>1
  <2> QED  BY <1>1, <2>1
<1>4. x < Base => l = x
  OBVIOUS
<1>5. Base * k = k * Base /\ k * Base \in Nat
  <2> HIDE DEF k, l
  <2> QED  BY <1>1
<1>6. l <= x
  <2> HIDE DEF k, l
  <2> QED  BY <1>1, <1>5
<1> QED  BY <1>1, <1>2, <1>3, <1>4, <1>5, <1>6 DEF Low

(* The decoder reads the byte that the encoder wrote at its position: it   *)
(* accepts it, and ends exactly at the last one.                           *)
LEMMA ReadTrip ==
    ASSUME NEW P, Powers(P), \A n \in 1 .. MaxPos : P[n] <= MaxWord,
           P[MaxPos + 1] > MaxWord,
           DecoderInv, WeightInv(P), TripInv, value # NoValue, DecodeEncoded
    PROVE  TripInv'
<1> USE HpackIntAssumption
<1>1. /\ pc = "decode" /\ Decoding /\ decoder.ret = "more"
      /\ decoder \in Decoder /\ decoder.pos >= 1
      /\ decoder.result = sum /\ decoder.weight = scale
      /\ sum \in Nat /\ scale \in Nat \ {0} /\ sum <= MaxWord
      /\ value \in 0 .. MaxWord
  BY DEF DecodeEncoded, TripInv, DecoderInv
<1>2. PICK q, n : /\ Groups(q, n) /\ Len(wire) = n + 1
                  /\ wire[n + 1] = q[n + 1] /\ q[n + 1] < Base
                  /\ decoder.pos <= n + 1
                  /\ value = sum + q[decoder.pos] * scale
  BY <1>1 DEF Decoding
<1>3. /\ n \in Nat /\ q \in [1 .. n + 1 -> Nat]
      /\ \A i \in 1 .. n : /\ wire[i] = Base + Low(q[i])
                           /\ q[i] >= Base
                           /\ q[i + 1] = q[i] \div Base
  BY <1>2 DEF Groups
<1>p. PICK p \in 1 .. n + 1 : p = decoder.pos
  BY <1>1, <1>2, <1>3 DEF Decoder
<1>b. PICK b : b = wire[p]
  OBVIOUS
<1>4. /\ decoder' = DecodeByte(decoder, b)
      /\ sum' = sum + Low(b) * scale /\ scale' = scale * Base
      /\ pc' = IF decoder'.ret = "more" THEN "decode" ELSE "done"
      /\ UNCHANGED <<value, prefix_max, wire>>
  BY <1>p, <1>b DEF DecodeEncoded, Read, input
<1>5. q[p] \in Nat
  BY <1>3
<1>6. /\ Low(b) = Low(q[p]) /\ Low(b) \in Nat /\ Low(b) <= q[p]
      /\ b \in Nat
      /\ p <= n => More(b) /\ q[p] = q[p + 1] * Base + Low(b) /\ q[p + 1] \in Nat
      /\ p = n + 1 => ~More(b) /\ Low(b) = q[p]
  <2>1. CASE p <= n
    <3>1. p \in 1 .. n /\ p + 1 \in 1 .. n + 1
      BY <1>3, <2>1
    <3>2. b = Base + Low(q[p]) /\ q[p] >= Base /\ q[p + 1] = q[p] \div Base
          /\ q[p + 1] \in Nat
      BY <1>3, <1>b, <3>1
    <3>3. /\ Low(q[p]) \in Nat /\ Low(q[p]) <= q[p] /\ Low(q[p]) < Base
          /\ q[p] = q[p + 1] * Base + Low(q[p])
      BY <1>5, <3>2, LowAndQuotient
    <3>4. Low(b) = Low(q[p])
      BY <3>2, <3>3, LowAndQuotient
    <3>5. More(b) /\ b \in Nat
      BY <3>2, <3>3 DEF More
    <3> QED  BY <1>3, <2>1, <3>2, <3>3, <3>4, <3>5
  <2>2. CASE p = n + 1
    <3>1. b = q[p] /\ q[p] < Base
      BY <1>2, <1>b, <2>2
    <3>2. Low(q[p]) = q[p]
      BY <1>5, <3>1, LowAndQuotient
    <3>3. ~More(b)
      BY <1>5, <3>1 DEF More
    <3> QED  BY <1>3, <1>5, <2>2, <3>1, <3>2, <3>3
  <2> QED  BY <1>3, <2>1, <2>2
<1> DEFINE a == Low(b) * scale
           t == q[p] * scale
<1>7. /\ a \in Nat /\ t \in Nat /\ a <= t /\ value = sum + t /\ t <= MaxWord
  <2>1. \A x, y, z \in Nat : x <= y => x * z \in Nat /\ y * z \in Nat /\ x * z <= y * z
    OBVIOUS
  <2>2. a \in Nat /\ t \in Nat /\ a <= t
    BY <1>1, <1>5, <1>6, <2>1
  <2>3. value = sum + t
    BY <1>2, <1>p
  <2> HIDE DEF a, t
  <2> QED  BY <1>1, <2>2, <2>3
<1>8. p <= MaxPos
  <2>1. SUFFICES ASSUME p > MaxPos PROVE FALSE
    OBVIOUS
  <2>2. CASE p = MaxPos + 1
    <3>1. scale = P[MaxPos + 1]
      BY <1>1, <1>p, <2>2 DEF WeightInv
    <3>2. p - 1 \in 1 .. n /\ (p - 1) + 1 = p
      BY <1>3, <2>2
    <3>3. q[p] >= 1
      <4>1. /\ q[p - 1] >= Base /\ q[p] = q[p - 1] \div Base
            /\ q[p - 1] \in Nat
        BY <1>3, <3>2
      <4>2. PICK d \in Nat : d = q[p - 1]
        BY <4>1
      <4>3. d >= Base => d \div Base >= 1
        BY <4>2, LowAndQuotient
      <4> QED  BY <4>1, <4>2, <4>3
    <3>4. \A x, y \in Nat : x >= 1 => x * y >= y
      OBVIOUS
    <3>5. t >= scale
      BY <1>1, <1>5, <3>3, <3>4
    <3> HIDE DEF t
    <3> QED  BY <1>1, <1>7, <3>1, <3>5
  <2>3. decoder.pos <= MaxPos + 1
    BY <1>1 DEF WeightInv
  <2> QED  BY <1>p, <2>1, <2>2, <2>3
<1>9. FitsWord(decoder, b)
  <2>1. scale <= MaxWord
    BY <1>1, <1>p, <1>8 DEF WeightInv
  <2>2. a <= MaxWord
    BY <1>7
  <2>3. Low(b) <= MaxWord \div scale
    BY <1>1, <1>6, <2>2, WithinQuotient
  <2>4. sum <= MaxWord - a
    <3> HIDE DEF a, t
    <3> QED  BY <1>1, <1>7
  <2> QED  BY <1>1, <1>p, <1>8, <2>1, <2>3, <2>4 DEF FitsWord
<1>10. decoder' = [ret |-> IF More(b) THEN "more" ELSE "ok", pos |-> p + 1,
                   result |-> sum + a, weight |-> scale * Base]
  BY <1>1, <1>4, <1>9, <1>p DEF DecodeByte
<1>11. CASE p <= n
  <2>1. decoder'.ret = "more" /\ decoder'.pos = p + 1 /\ pc' = "decode"
    BY <1>4, <1>6, <1>10, <1>11
  <2>2. t = a + q[p + 1] * (scale * Base)
    <3>1. \A x, y, z, w \in Nat :
             (x * w + y) * z = y * z + x * (z * w)
      OBVIOUS
    <3> QED  BY <1>1, <1>6, <1>11, <3>1
  <2>3. value' = sum' + q[p + 1] * scale'
    <3> DEFINE u == q[p + 1] * (scale * Base)
    <3>1. u \in Nat
      BY <1>1, <1>6, <1>11
    <3>2. t = a + u /\ sum' = sum + a /\ q[p + 1] * scale' = u
      BY <1>4, <2>2
    <3> HIDE DEF u, a, t
    <3>3. value = sum + (a + u)
      BY <1>7, <3>2
    <3>4. value = (sum + a) + u
      BY <1>1, <1>7, <3>1, <3>3
    <3> QED  BY <1>4, <3>2, <3>4
  <2>4. Groups(q, n)'
    BY <1>2, <1>4 DEF Groups
  <2>5. /\ decoder'.pos <= n + 1
        /\ value' = sum' + q[decoder'.pos] * scale'
    BY <1>3, <1>11, <2>1, <2>3
  <2>6. Len(wire') = n + 1 /\ wire'[n + 1] = q[n + 1] /\ q[n + 1] < Base
    BY <1>2, <1>4
  <2>7. Decoding'
    BY <2>4, <2>5, <2>6 DEF Decoding
  <2> QED  BY <2>1, <2>7 DEF TripInv, RoundTrip
<1>12. CASE p = n + 1
  <2>1. /\ decoder'.ret = "ok" /\ decoder'.pos = p + 1 /\ pc' = "done"
        /\ decoder'.result = sum + a
    BY <1>4, <1>6, <1>10, <1>12
  <2>2. a = t
    BY <1>6, <1>12
  <2>3. decoder'.result = value' /\ decoder'.pos = Len(wire') + 1
    BY <1>2, <1>4, <1>7, <1>12, <2>1, <2>2
  <2> QED  BY <2>1, <2>3 DEF TripInv, RoundTrip
<1> QED  BY <1>3, <1>11, <1>12

LEMMA TripStep ==
    ASSUME NEW P, Powers(P), \A n \in 1 .. MaxPos : P[n] <= MaxWord,
           P[MaxPos + 1] > MaxWord,
           DecoderInv, WeightInv(P), TripInv, [Next]_vars
    PROVE  TripInv'
<1>1. CASE value = NoValue
  <2>1. UNCHANGED value
    BY DEF Next, EncodeByte, EncodeFull, DecodeEncoded, DecodeAny, DecodeEnd,
           Read, vars, input
  <2> QED  BY <1>1, <2>1 DEF TripInv
<1>2. CASE value # NoValue
  <2>1. CASE EncodeByte
    BY <1>2, <2>1, EncodeTrip
  <2>2. CASE EncodeFull
    BY <1>2, <2>2 DEF EncodeFull, TripInv, RoundTrip, input
  <2>3. CASE DecodeEncoded
    BY <1>2, <2>3, ReadTrip
  <2>4. CASE \E b \in Bytes : DecodeAny(b)
    BY <1>2, <2>4 DEF DecodeAny
  <2>5. CASE DecodeEnd
    <3>1. Decoding /\ decoder.pos > Len(wire) /\ decoder \in Decoder
      BY <1>2, <2>5 DEF DecodeEnd, TripInv, DecoderInv
    <3> QED  BY <3>1 DEF Decoding, Decoder, Groups
  <2>6. CASE UNCHANGED vars
    <3>1. UNCHANGED <<pc, value, prefix_max, rest, wire, decoder, sum, scale>>
      BY <2>6 DEF vars, input
    <3> QED  BY <3>1 DEF TripInv, RoundTrip, Encoding, Decoding, Groups
  <2> QED  BY <2>1, <2>2, <2>3, <2>4, <2>5, <2>6 DEF Next
<1> QED  BY <1>1, <1>2

(* If the groups an integer may have suffice for the word, then every      *)
(* value up to the largest, with every prefix, that                        *)
(* h2_hpack_encode_integer has room to write, h2_hpack_decode_integer      *)
(* reads back from exactly the bytes written.                              *)
THEOREM RoundTripCorrect ==
    ASSUME GroupsSuffice
    PROVE  Spec => []RoundTrip
<1>1. PICK P : /\ Powers(P) /\ \A n \in 1 .. MaxPos : P[n] <= MaxWord
               /\ P[MaxPos + 1] > MaxWord
  BY DEF GroupsSuffice
<1> DEFINE Inv == DecoderInv /\ WeightInv(P) /\ TripInv
<1>2. Init => Inv
  BY <1>1, DecoderInit, WeightInit, TripInit
<1>3. Inv /\ [Next]_vars => Inv'
  BY <1>1, DecoderStep, WeightStep, TripStep
<1>4. Inv => RoundTrip
  BY DEF TripInv, RoundTrip
<1> QED  BY <1>2, <1>3, <1>4, PTL DEF Spec
=============================================================================
