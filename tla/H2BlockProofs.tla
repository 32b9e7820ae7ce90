--------------------------- MODULE H2BlockProofs ----------------------------
(***************************************************************************)
(* HPACK header blocks, for every block of bytes and every static table.   *)
(***************************************************************************)
EXTENDS H2HpackBlock, WellFoundedInduction, TLAPS

-----------------------------------------------------------------------------
(* Natural numbers, and functions defined along them.                      *)

LEMMA Least ==
    ASSUME NEW S, S \subseteq Nat, S # {}
    PROVE  \E x \in S : \A y \in S : x <= y
<1>1. PICK x \in S : \A y \in S : ~(<<y, x>> \in OpToRel(<, Nat))
  BY NatLessThanWellFounded, WFMin
<1>2. \A y \in S : y < x => <<y, x>> \in OpToRel(<, Nat)
  BY DEF OpToRel
<1>3. \A y \in S : ~(y < x)
  BY <1>1, <1>2, Zenon
<1> QED  BY <1>3

(* Induction, over a set. *)
LEMMA Induction ==
    ASSUME NEW X, 0 \in X, \A k \in Nat : k \in X => k + 1 \in X
    PROVE  Nat \subseteq X
<1> DEFINE S == {k \in Nat : k \notin X}
<1>1. SUFFICES ASSUME S # {} PROVE FALSE
  OBVIOUS
<1>2. PICK x \in S : \A y \in S : x <= y
  <2>1. S \subseteq Nat
    OBVIOUS
  <2> HIDE DEF S
  <2> QED  BY <1>1, <2>1, Least
<1>3. x \in Nat \ {0} /\ x \notin X
  BY <1>2
<1>4. PICK k \in Nat : x = k + 1
  <2>1. x - 1 \in Nat /\ x = (x - 1) + 1
    BY <1>3
  <2> QED  BY <2>1
<1>5. k \notin X
  BY <1>3, <1>4
<1>6. x <= k
  BY <1>2, <1>5
<1> QED  BY <1>3, <1>4, <1>6

(* The functions on 0 .. n whose values follow from one another. *)
Chains(n, S, x0, G) == {f \in [0 .. n -> S] :
                          f[0] = x0 /\ \A k \in 1 .. n : f[k] = G[k][f[k - 1]]}

LEMMA Recursion ==
    ASSUME NEW n \in Nat, NEW S, NEW x0 \in S, NEW G \in [Nat -> [S -> S]]
    PROVE  Chains(n, S, x0, G) # {}
<1> DEFINE Upto(m, f) == f[0] = x0 /\ \A k \in 1 .. m : f[k] = G[k][f[k - 1]]
           X == {m \in Nat : \E f \in [0 .. m -> S] : Upto(m, f)}
<1>1. 0 \in X
  <2> DEFINE f == [i \in 0 .. 0 |-> x0]
  <2>1. f \in [0 .. 0 -> S] /\ Upto(0, f)
    OBVIOUS
  <2> QED  BY <2>1
<1>2. ASSUME NEW m \in Nat, m \in X PROVE m + 1 \in X
  <2>1. PICK f \in [0 .. m -> S] : Upto(m, f)
    BY <1>2
  <2>2. f[m] \in S /\ G[m + 1][f[m]] \in S
    <3>1. f[m] \in S /\ G[m + 1] \in [S -> S]
      OBVIOUS
    <3> QED  BY <3>1
  <2> DEFINE g == [i \in 0 .. m + 1 |-> IF i = m + 1 THEN G[m + 1][f[m]] ELSE f[i]]
  <2>3. \A i \in 0 .. m + 1 : i # m + 1 => i \in 0 .. m /\ f[i] \in S
    OBVIOUS
  <2>4. g \in [0 .. m + 1 -> S]
    BY <2>2, <2>3
  <2>5. g[0] = x0
    BY <2>1
  <2>6. ASSUME NEW k \in 1 .. m + 1 PROVE g[k] = G[k][g[k - 1]]
    <3>1. CASE k = m + 1
      <4>1. k - 1 = m /\ g[k - 1] = f[m]
        BY <3>1
      <4> QED  BY <3>1, <4>1
    <3>2. CASE k # m + 1
      <4>1. k \in 1 .. m /\ k - 1 \in 0 .. m /\ k - 1 # m + 1
        BY <3>2
      <4>2. g[k] = f[k] /\ g[k - 1] = f[k - 1]
        BY <4>1
      <4>3. f[k] = G[k][f[k - 1]]
        BY <2>1, <4>1
      <4> QED  BY <4>2, <4>3
    <3> QED  BY <3>1, <3>2
  <2> HIDE DEF g
  <2>7. Upto(m + 1, g)
    BY <2>5, <2>6
  <2> QED  BY <2>4, <2>7
<1>3. n \in X
  <2>1. \A k \in Nat : k \in X => k + 1 \in X
    BY <1>2
  <2> HIDE DEF X
  <2> QED  BY <1>1, <2>1, Induction
<1>4. PICK f \in [0 .. n -> S] : Upto(n, f)
  BY <1>3
<1>5. f \in Chains(n, S, x0, G)
  BY <1>4 DEF Chains
<1> QED  BY <1>5

-----------------------------------------------------------------------------
(* Integers.                                                               *)

(* What the turns of h2_hpack_decode_integer keep at offset p: the decoder *)
(* stands inside the block.                                                *)
LEMMA DecodeByteType ==
    ASSUME NEW d \in Decoder, NEW b \in Bytes
    PROVE  /\ DecodeByte(d, b) \in Decoder
           /\ DecodeByte(d, b).pos = d.pos \/ DecodeByte(d, b).pos = d.pos + 1
<1> USE HpackIntAssumption
<1>1. /\ d.ret \in {"more", "ok", "error"} /\ d.pos \in Nat /\ d.result \in Nat
      /\ d.weight \in Nat
  BY DEF Decoder
<1>2. CASE ~FitsWord(d, b)
  <2>1. DecodeByte(d, b) = [ret |-> "error", pos |-> d.pos, result |-> d.result,
                            weight |-> d.weight]
    BY <1>2 DEF DecodeByte, Failed, Decoder
  <2> QED  BY <1>1, <2>1 DEF Decoder
<1>3. CASE FitsWord(d, b)
  <2> DEFINE r == d.result + Low(b) * d.weight
             w == d.weight * Base
             t == IF More(b) THEN "more" ELSE "ok"
  <2>1. r \in Nat /\ w \in Nat
    <3>1. Low(b) \in Nat
      BY DEF Low, Bytes
    <3>2. \A x, y \in Nat : x * y \in Nat
      OBVIOUS
    <3>3. Low(b) * d.weight \in Nat /\ d.weight * Base \in Nat
      BY <1>1, <3>1, <3>2
    <3> QED  BY <1>1, <3>3
  <2>2. DecodeByte(d, b) = [ret |-> t, pos |-> d.pos + 1, result |-> r, weight |-> w]
    BY <1>3 DEF DecodeByte
  <2>3. t \in {"more", "ok", "error"}
    OBVIOUS
  <2> HIDE DEF r, w, t
  <2> QED  BY <1>1, <2>1, <2>2, <2>3 DEF Decoder
<1> QED  BY <1>2, <1>3

LEMMA PrefixType ==
    ASSUME NEW prefix \in Nat, NEW m
    PROVE  DecodePrefix(prefix, m) \in Decoder /\ DecodePrefix(prefix, m).pos = 1
<1>1. (IF prefix < m THEN "ok" ELSE "more") \in {"more", "ok", "error"}
  OBVIOUS
<1> QED  BY <1>1 DEF DecodePrefix, Decoder

(* The decoder after each turn follows from the turn before. *)
LEMMA Turns ==
    ASSUME NEW p \in Nat, NEW m \in Nat, block \in Seq(Bytes), p < Len(block)
    PROVE  LET d == DecodeTurns(p, m)
           IN  /\ d \in [0 .. MaxPos + 1 -> Decoder]
               /\ d[0] = DecodePrefix(block[p + 1] % (m + 1), m)
               /\ \A k \in 1 .. MaxPos + 1 :
                    d[k] = IF d[k - 1].ret = "more" /\ p + k < Len(block)
                           THEN DecodeByte(d[k - 1], block[p + k + 1]) ELSE d[k - 1]
<1> DEFINE n  == MaxPos + 1
           x0 == DecodePrefix(block[p + 1] % (m + 1), m)
           G  == [k \in Nat |-> [x \in Decoder |->
                    IF x.ret = "more" /\ p + k < Len(block)
                    THEN DecodeByte(x, block[p + k + 1]) ELSE x]]
           E(d) == [k \in 0 .. n |->
                      IF k = 0 THEN x0
                      ELSE IF d[k - 1].ret = "more" /\ p + k < Len(block)
                      THEN DecodeByte(d[k - 1], block[p + k + 1]) ELSE d[k - 1]]
<1>1. n \in Nat
  BY HpackIntAssumption
<1>2. PICK b \in Seq(Bytes) : b = block
  OBVIOUS
<1>3. Len(b) \in Nat /\ \A i \in 1 .. Len(b) : b[i] \in Bytes
  OBVIOUS
<1>4. Bytes \subseteq Nat
  BY HpackIntAssumption DEF Bytes
<1>5. x0 \in Decoder
  <2>1. p + 1 \in 1 .. Len(b)
    BY <1>2, <1>3
  <2>2. block[p + 1] \in Nat
    BY <1>2, <1>3, <1>4, <2>1
  <2>3. block[p + 1] % (m + 1) \in Nat
    BY <2>2
  <2> QED  BY <2>3, PrefixType
<1>6. G \in [Nat -> [Decoder -> Decoder]]
  <2> SUFFICES ASSUME NEW k \in Nat, NEW x \in Decoder, p + k < Len(block)
               PROVE  DecodeByte(x, block[p + k + 1]) \in Decoder
    OBVIOUS
  <2>1. block[p + k + 1] \in Bytes
    BY <1>2, <1>3
  <2> QED  BY <2>1, DecodeByteType
<1>7. \E f \in [0 .. n -> Decoder] : f[0] = x0 /\ \A k \in 1 .. n : f[k] = G[k][f[k - 1]]
  <2> HIDE DEF n, x0, G
  <2>1. PICK nn \in Nat : nn = n
    BY <1>1
  <2>2. PICK y0 \in Decoder : y0 = x0
    BY <1>5
  <2>3. PICK H \in [Nat -> [Decoder -> Decoder]] : H = G
    BY <1>6
  <2>4. Chains(nn, Decoder, y0, H) # {}
    BY Recursion
  <2>5. PICK f : f \in Chains(nn, Decoder, y0, H)
    BY <2>4
  <2> QED  BY <2>1, <2>2, <2>3, <2>5 DEF Chains
<1>8. PICK f \in [0 .. n -> Decoder] :
         f[0] = x0 /\ \A k \in 1 .. n : f[k] = G[k][f[k - 1]]
  BY <1>7
<1>9. f = E(f)
  <2>1. ASSUME NEW k \in 0 .. n PROVE f[k] = E(f)[k]
    <3>1. CASE k = 0
      BY <1>8, <3>1
    <3>2. CASE k # 0
      <4>1. k \in 1 .. n /\ k - 1 \in 0 .. n /\ k \in Nat
        BY <1>1, <3>2
      <4>2. f[k - 1] \in Decoder /\ f[k] = G[k][f[k - 1]]
        BY <1>8, <4>1
      <4>3. G[k][f[k - 1]] = IF f[k - 1].ret = "more" /\ p + k < Len(block)
                             THEN DecodeByte(f[k - 1], block[p + k + 1]) ELSE f[k - 1]
        BY <4>1, <4>2
      <4> QED  BY <3>2, <4>2, <4>3
    <3> QED  BY <3>1, <3>2
  <2>2. E(f) = [k \in 0 .. n |-> E(f)[k]] /\ f = [k \in 0 .. n |-> f[k]]
    OBVIOUS
  <2> HIDE DEF E
  <2> QED  BY <2>1, <2>2
<1> DEFINE d == DecodeTurns(p, m)
<1>10. d = CHOOSE g : g = E(g)
  BY DEF DecodeTurns
<1>11. d = E(d)
  <2> HIDE DEF E, d
  <2> QED  BY <1>9, <1>10
<1> HIDE DEF d, G
<1>12. /\ d[0] = x0
       /\ \A k \in 1 .. n :
            d[k] = IF d[k - 1].ret = "more" /\ p + k < Len(block)
                   THEN DecodeByte(d[k - 1], block[p + k + 1]) ELSE d[k - 1]
  <2>1. E(d)[0] = x0
    BY <1>1
  <2>2. ASSUME NEW k \in 1 .. n
        PROVE  E(d)[k] = IF d[k - 1].ret = "more" /\ p + k < Len(block)
                         THEN DecodeByte(d[k - 1], block[p + k + 1]) ELSE d[k - 1]
    <3>1. k \in 0 .. n /\ k # 0
      BY <1>1
    <3> QED  BY <3>1
  <2> HIDE DEF E
  <2> QED  BY <1>11, <2>1, <2>2
<1>13. d \in [0 .. n -> Decoder]
  <2> DEFINE X == {k \in Nat : k \in 0 .. n => d[k] \in Decoder}
  <2>1. 0 \in X
    BY <1>5, <1>12
  <2>2. ASSUME NEW k \in Nat, k \in X PROVE k + 1 \in X
    <3> SUFFICES ASSUME k + 1 \in 0 .. n PROVE d[k + 1] \in Decoder
      OBVIOUS
    <3>1. k \in 0 .. n /\ k + 1 \in 1 .. n /\ (k + 1) - 1 = k
      BY <1>1
    <3>2. d[k] \in Decoder
      BY <2>2, <3>1
    <3>3. PICK j \in 1 .. n : j = k + 1
      BY <3>1
    <3>4. d[j] = IF d[k].ret = "more" /\ p + j < Len(block)
                 THEN DecodeByte(d[k], block[p + j + 1]) ELSE d[k]
      BY <1>12, <3>1, <3>3
    <3>5. p + j < Len(block) => block[p + j + 1] \in Bytes
      BY <1>1, <1>2, <1>3
    <3>6. p + j < Len(block) => DecodeByte(d[k], block[p + j + 1]) \in Decoder
      BY <3>2, <3>5, DecodeByteType
    <3> QED  BY <3>2, <3>3, <3>4, <3>6
  <2>3. Nat \subseteq X
    <3> HIDE DEF X
    <3> QED  BY <2>1, <2>2, Induction
  <2>4. \A k \in 0 .. n : d[k] \in Decoder
    BY <1>1, <2>3
  <2>5. d = [k \in 0 .. n |-> d[k]]
    <3>1. E(d) = [k \in 0 .. n |-> E(d)[k]]
      OBVIOUS
    <3> HIDE DEF E
    <3> QED  BY <1>11, <3>1
  <2> QED  BY <2>4, <2>5
<1> QED  BY <1>12, <1>13 DEF d

(* An integer that decodes is a number, and its bytes are in the block. *)
LEMMA IntegerInBounds ==
    ASSUME NEW p \in Nat, NEW m \in Nat, block \in Seq(Bytes)
    PROVE  LET n == DecodeInteger(p, m)
           IN  /\ n.ret \in {H2_OK, H2_COMPRESSION_ERROR}
               /\ n.ret = H2_OK => /\ n.used \in 1 .. Len(block) - p
                                   /\ n.value \in Nat
               /\ n = [ret |-> n.ret, used |-> n.used, value |-> n.value]
               /\ p >= Len(block) => n.ret # H2_OK
<1> DEFINE d == DecodeTurns(p, m)
           last == d[MaxPos + 1]
           n == DecodeInteger(p, m)
<1>1. Len(block) \in Nat /\ MaxPos + 1 \in Nat
  BY HpackIntAssumption
<1>2. CASE ~(p < Len(block) /\ last.ret = "ok")
  <2>1. n = Error(H2_COMPRESSION_ERROR)
    BY <1>2 DEF DecodeInteger
  <2> QED  BY <2>1 DEF Error, H2_OK, H2_COMPRESSION_ERROR
<1>3. CASE p < Len(block) /\ last.ret = "ok"
  <2>1. n = Ok(last.pos, last.result)
    BY <1>3 DEF DecodeInteger
  <2>2. /\ d \in [0 .. MaxPos + 1 -> Decoder]
        /\ d[0] = DecodePrefix(block[p + 1] % (m + 1), m)
        /\ \A k \in 1 .. MaxPos + 1 :
             d[k] = IF d[k - 1].ret = "more" /\ p + k < Len(block)
                    THEN DecodeByte(d[k - 1], block[p + k + 1]) ELSE d[k - 1]
    BY <1>3, Turns
  <2> HIDE DEF d
  <2> DEFINE room == Len(block) - p
             X == {k \in Nat : k \in 0 .. MaxPos + 1 =>
                                 d[k].pos \in 1 .. room /\ d[k].pos <= k + 1}
  <2>3. room \in Nat \ {0}
    BY <1>1, <1>3
  <2>4. PICK b \in Seq(Bytes) : b = block
    OBVIOUS
  <2>5. \A i \in 1 .. Len(b) : b[i] \in Bytes
    OBVIOUS
  <2>6. 0 \in X
    <3>1. block[p + 1] \in Bytes
      BY <1>1, <1>3, <2>4, <2>5
    <3>2. block[p + 1] \in Nat
      BY <3>1, HpackIntAssumption DEF Bytes
    <3>3. block[p + 1] % (m + 1) \in Nat
      BY <3>2
    <3>4. d[0].pos = 1
      BY <2>2, <3>3, PrefixType
    <3> QED  BY <2>3, <3>4
  <2>7. ASSUME NEW k \in Nat, k \in X PROVE k + 1 \in X
    <3> SUFFICES ASSUME k + 1 \in 0 .. MaxPos + 1
                 PROVE  d[k + 1].pos \in 1 .. room /\ d[k + 1].pos <= (k + 1) + 1
      OBVIOUS
    <3>1. k \in 0 .. MaxPos + 1 /\ k + 1 \in 1 .. MaxPos + 1 /\ (k + 1) - 1 = k
      BY <1>1
    <3>2. d[k].pos \in 1 .. room /\ d[k].pos <= k + 1 /\ d[k] \in Decoder
      BY <2>2, <2>7, <3>1
    <3>3. PICK j \in 1 .. MaxPos + 1 : j = k + 1
      BY <3>1
    <3>4. d[j] = IF d[k].ret = "more" /\ p + j < Len(block)
                 THEN DecodeByte(d[k], block[p + j + 1]) ELSE d[k]
      BY <2>2, <3>1, <3>3
    <3>5. CASE d[k].ret = "more" /\ p + j < Len(block)
      <4>1. block[p + j + 1] \in Bytes
        BY <1>1, <2>4, <2>5, <3>5
      <4>2. d[j].pos = d[k].pos \/ d[j].pos = d[k].pos + 1
        BY <3>2, <3>4, <3>5, <4>1, DecodeByteType
      <4>3. j < room
        BY <1>1, <3>5
      <4> HIDE DEF room
      <4> QED  BY <2>3, <3>2, <3>3, <4>2, <4>3
    <3>6. CASE ~(d[k].ret = "more" /\ p + j < Len(block))
      <4>1. d[j] = d[k]
        BY <3>4, <3>6
      <4> HIDE DEF room
      <4> QED  BY <2>3, <3>2, <3>3, <4>1
    <3> QED  BY <3>5, <3>6
  <2>8. Nat \subseteq X
    <3> HIDE DEF X
    <3> QED  BY <2>6, <2>7, Induction
  <2>9. last.pos \in 1 .. room /\ last.result \in Nat
    <3>1. MaxPos + 1 \in 0 .. MaxPos + 1
      BY <1>1
    <3>2. MaxPos + 1 \in X
      BY <1>1, <2>8
    <3>3. last \in Decoder
      BY <2>2, <3>1
    <3> QED  BY <3>1, <3>2, <3>3 DEF Decoder
  <2> HIDE DEF last, n
  <2>10. n.ret = H2_OK /\ n.used = last.pos /\ n.value = last.result
         /\ n = [ret |-> n.ret, used |-> n.used, value |-> n.value]
    BY <2>1 DEF Ok
  <2> QED  BY <1>1, <1>3, <2>9, <2>10 DEF n, H2_OK
<1> QED  BY <1>2, <1>3

-----------------------------------------------------------------------------
(* Strings, names and instructions: what each reader at offset p returns.  *)

Codes == {H2_OK, H2_COMPRESSION_ERROR, H2_REFUSED_STREAM}

Reads(x, p) == /\ x.ret \in Codes
               /\ x.ret = H2_OK => x.used \in 1 .. Len(block) - p

LEMMA CStringType ==
    ASSUME NEW text \in Seq(Bytes)
    PROVE  CString(text) \in Seq(Bytes) /\ Len(CString(text)) <= Len(text)
<1> DEFINE nul == {k \in DOMAIN text : text[k] = 0}
<1>1. PICK n \in Nat : n = Len(text)
  OBVIOUS
<1>2. DOMAIN text = 1 .. n /\ \A i \in 1 .. n : text[i] \in Bytes
  BY <1>1
<1>3. CASE nul = {}
  BY <1>1, <1>3 DEF CString
<1>4. CASE nul # {}
  <2>1. nul \subseteq Nat /\ nul \subseteq 1 .. n
    BY <1>2
  <2>2. \E x \in nul : \A y \in nul : x <= y
    <3> HIDE DEF nul
    <3> QED  BY <1>4, <2>1, Least
  <2>3. First(nul) \in nul
    BY <2>2 DEF First
  <2>4. PICK j \in 1 .. n : j = First(nul)
    BY <2>1, <2>3
  <2>5. CString(text) = SubSeq(text, 1, j - 1)
    BY <1>4, <2>4 DEF CString
  <2>6. SubSeq(text, 1, j - 1) \in Seq(Bytes) /\ Len(SubSeq(text, 1, j - 1)) = j - 1
    <3>1. PICK i \in 0 .. n - 1 : i = j - 1
      BY <1>1
    <3>2. \A q \in 1 .. i : text[q] \in Bytes
      BY <1>2
    <3>3. SubSeq(text, 1, i) \in Seq(Bytes) /\ Len(SubSeq(text, 1, i)) = i
      BY <1>1, <3>2
    <3> QED  BY <3>1, <3>3
  <2> QED  BY <1>1, <2>4, <2>5, <2>6
<1> QED  BY <1>3, <1>4

LEMMA SkipReads ==
    ASSUME NEW p \in Nat, NEW cap, block \in Seq(Bytes)
    PROVE  Reads(SkipString(p, cap), p)
<1> DEFINE n == DecodeInteger(p, 127)
           x == SkipString(p, cap)
<1>1. /\ n.ret \in {H2_OK, H2_COMPRESSION_ERROR}
      /\ n.ret = H2_OK => n.used \in 1 .. Len(block) - p /\ n.value \in Nat
  BY IntegerInBounds
<1> HIDE DEF n
<1>2. CASE n.ret # H2_OK \/ n.used + n.value > Len(block) - p
  <2>1. x = Error(H2_COMPRESSION_ERROR)
    BY <1>2 DEF SkipString, n
  <2> QED  BY <2>1 DEF Error, Reads, Codes, H2_OK, H2_COMPRESSION_ERROR
<1>3. CASE ~(n.ret # H2_OK \/ n.used + n.value > Len(block) - p) /\ n.value >= cap
  <2>1. x = Error(H2_REFUSED_STREAM)
    BY <1>3 DEF SkipString, n
  <2> QED  BY <2>1 DEF Error, Reads, Codes, H2_OK, H2_REFUSED_STREAM
<1>4. CASE ~(n.ret # H2_OK \/ n.used + n.value > Len(block) - p) /\ ~(n.value >= cap)
  <2>1. x = Ok(n.used + n.value, 0)
    BY <1>4 DEF SkipString, n
  <2>2. Len(block) - p \in Int
    OBVIOUS
  <2>3. n.used + n.value \in 1 .. Len(block) - p
    BY <1>1, <1>4, <2>2
  <2> QED  BY <2>1, <2>3 DEF Ok, Reads, Codes
<1> QED  BY <1>2, <1>3, <1>4

LEMMA StringReads ==
    ASSUME NEW p \in Nat, NEW cap \in Nat, block \in Seq(Bytes)
    PROVE  LET x == DecodeString(p, cap)
           IN  /\ Reads(x, p)
               /\ x = [ret |-> x.ret, used |-> x.used, value |-> x.value]
               /\ x.ret = H2_OK =>
                    /\ x.value \in Seq(Bytes) /\ Len(x.value) < cap
                    /\ SkipString(p, cap).ret = H2_OK
                    /\ SkipString(p, cap).used = x.used
<1> DEFINE n == DecodeInteger(p, 127)
           x == DecodeString(p, cap)
<1>1. /\ n.ret \in {H2_OK, H2_COMPRESSION_ERROR}
      /\ n.ret = H2_OK => n.used \in 1 .. Len(block) - p /\ n.value \in Nat
  BY IntegerInBounds
<1> HIDE DEF n
<1>2. CASE Huffman(p) \/ n.ret # H2_OK \/ n.used + n.value > Len(block) - p
  <2>1. x = Error(H2_COMPRESSION_ERROR)
    BY <1>2 DEF DecodeString, n
  <2> QED  BY <2>1 DEF Error, Reads, Codes, H2_OK, H2_COMPRESSION_ERROR
<1>3. CASE /\ ~(Huffman(p) \/ n.ret # H2_OK \/ n.used + n.value > Len(block) - p)
           /\ n.value >= cap
  <2>1. x = Error(H2_REFUSED_STREAM)
    BY <1>3 DEF DecodeString, n
  <2> QED  BY <2>1 DEF Error, Reads, Codes, H2_OK, H2_REFUSED_STREAM
<1>4. CASE /\ ~(Huffman(p) \/ n.ret # H2_OK \/ n.used + n.value > Len(block) - p)
           /\ ~(n.value >= cap)
  <2> DEFINE text == SubSeq(block, p + n.used + 1, p + n.used + n.value)
  <2>1. x = Ok(n.used + n.value, CString(text))
    BY <1>4 DEF DecodeString, n
  <2>2. PICK b \in Seq(Bytes), u \in Nat, v \in Nat :
           b = block /\ u = n.used /\ v = n.value
    BY <1>1, <1>4
  <2>3. Len(b) \in Nat /\ u >= 1 /\ u + v <= Len(b) - p /\ v < cap
    BY <1>1, <1>4, <2>2
  <2>4. text \in Seq(Bytes) /\ Len(text) = v
    <3>1. PICK i \in Nat : i = p + u
      OBVIOUS
    <3>2. i + v <= Len(b)
      BY <2>3, <3>1
    <3>3. SubSeq(b, i + 1, i + v) \in Seq(Bytes) /\ Len(SubSeq(b, i + 1, i + v)) = v
      BY <2>3, <3>2
    <3> QED  BY <2>2, <3>1, <3>3
  <2> HIDE DEF text
  <2>5. CString(text) \in Seq(Bytes) /\ Len(CString(text)) < cap
    <3>1. PICK t \in Seq(Bytes) : t = text
      BY <2>4
    <3>2. CString(t) \in Seq(Bytes) /\ Len(CString(t)) <= Len(t)
      BY CStringType
    <3>3. PICK c \in Nat : c = Len(CString(t))
      BY <3>2
    <3> QED  BY <2>3, <2>4, <3>1, <3>2, <3>3
  <2>6. SkipString(p, cap) = Ok(n.used + n.value, 0)
    BY <1>4 DEF SkipString, n
  <2>7. n.used + n.value \in 1 .. Len(block) - p
    BY <2>2, <2>3
  <2> HIDE DEF x
  <2>8. /\ x.ret = H2_OK /\ x.used = n.used + n.value /\ x.value = CString(text)
        /\ x = [ret |-> x.ret, used |-> x.used, value |-> x.value]
    BY <2>1 DEF Ok
  <2>9. SkipString(p, cap).ret = H2_OK /\ SkipString(p, cap).used = n.used + n.value
    BY <2>6 DEF Ok
  <2> QED  BY <2>5, <2>7, <2>8, <2>9 DEF x, Reads, Codes
<1> QED  BY <1>2, <1>3, <1>4

LEMMA NameReads ==
    ASSUME NEW p \in Nat, NEW m \in Nat, block \in Seq(Bytes)
    PROVE  LET x == LiteralName(p, m)
           IN  Reads(x, p) /\ (x.ret = H2_OK => x.value \in Seq(Bytes))
<1> DEFINE n    == DecodeInteger(p, m)
           name == DecodeString(p + n.used, NameCap)
           x    == LiteralName(p, m)
<1>1. /\ n.ret \in {H2_OK, H2_COMPRESSION_ERROR}
      /\ n.ret = H2_OK => n.used \in 1 .. Len(block) - p /\ n.value \in Nat
  BY IntegerInBounds
<1>2. CASE n.ret # H2_OK
  <2>1. x = n
    BY <1>2 DEF LiteralName
  <2> HIDE DEF x, n
  <2> QED  BY <1>1, <1>2, <2>1 DEF Reads, Codes, x
<1>3. CASE n.ret = H2_OK /\ n.value = 0
  <2>1. x = [name EXCEPT !.used = @ + n.used]
    BY <1>3 DEF LiteralName
  <2>2. PICK u \in Nat : u = n.used /\ u \in 1 .. Len(block) - p
    BY <1>1, <1>3
  <2>3. PICK q \in Nat : q = p + u
    OBVIOUS
  <2>4. /\ Reads(DecodeString(q, NameCap), q)
        /\ DecodeString(q, NameCap) = [ret |-> DecodeString(q, NameCap).ret,
                                       used |-> DecodeString(q, NameCap).used,
                                       value |-> DecodeString(q, NameCap).value]
        /\ DecodeString(q, NameCap).ret = H2_OK =>
             DecodeString(q, NameCap).value \in Seq(Bytes)
    BY BlockAssumption, StringReads
  <2>5. name = DecodeString(q, NameCap)
    BY <2>2, <2>3
  <2> HIDE DEF x, n, name
  <2>6. /\ Reads(name, q)
        /\ name = [ret |-> name.ret, used |-> name.used, value |-> name.value]
        /\ name.ret = H2_OK => name.value \in Seq(Bytes)
    BY <2>4, <2>5
  <2>7. x.ret = name.ret /\ x.used = name.used + n.used /\ x.value = name.value
    BY <2>1, <2>6
  <2>8. name.ret = H2_OK => name.used + n.used \in 1 .. Len(block) - p
    BY <2>2, <2>3, <2>6 DEF Reads
  <2> QED  BY <2>6, <2>7, <2>8 DEF Reads, x
<1>4. CASE n.ret = H2_OK /\ n.value # 0 /\ ~Known(n.value)
  <2>1. x = Error(H2_COMPRESSION_ERROR)
    BY <1>4 DEF LiteralName
  <2> QED  BY <2>1 DEF Error, Reads, Codes, H2_OK, H2_COMPRESSION_ERROR
<1>5. CASE n.ret = H2_OK /\ n.value # 0 /\ Known(n.value)
  <2> DEFINE text == StaticTable[n.value].name
  <2>1. x = IF CopyText(NameCap, text) # H2_OK THEN Error(H2_REFUSED_STREAM)
            ELSE Ok(n.used, text)
    BY <1>5 DEF LiteralName
  <2>2. text \in Seq(Bytes)
    <3>1. text \in Seq(Bytes \ {0})
      BY <1>5, BlockAssumption DEF Known
    <3> HIDE DEF text
    <3> QED  BY <3>1
  <2> HIDE DEF x, n, text
  <2>3. CASE CopyText(NameCap, text) # H2_OK
    <3>1. x.ret = H2_REFUSED_STREAM
      BY <2>1, <2>3 DEF Error
    <3> QED  BY <3>1 DEF Reads, Codes, H2_OK, H2_REFUSED_STREAM, x
  <2>4. CASE CopyText(NameCap, text) = H2_OK
    <3>1. x.ret = H2_OK /\ x.used = n.used /\ x.value = text
      BY <2>1, <2>4 DEF Ok
    <3> QED  BY <1>1, <1>5, <2>2, <3>1 DEF Reads, Codes, x
  <2> QED  BY <2>3, <2>4
<1> QED  BY <1>2, <1>3, <1>4, <1>5

(* The value of an instruction that both decoders read at p, if it is a    *)
(* literal: its name first.                                                *)
LEMMA LiteralReads ==
    ASSUME NEW p \in Nat, block \in Seq(Bytes),
           LiteralName(p, NameMax(p)).ret = H2_OK
    PROVE  LET name  == LiteralName(p, NameMax(p))
               value == DecodeString(p + name.used, ValueCap)
               skip  == SkipString(p + name.used, ValueCap)
           IN  /\ name.value \in Seq(Bytes)
               /\ value.ret \in Codes /\ skip.ret \in Codes
               /\ value.ret = H2_OK =>
                    /\ name.used + value.used \in 1 .. Len(block) - p
                    /\ value.value \in Seq(Bytes) /\ Len(value.value) < ValueCap
                    /\ skip.ret = H2_OK /\ skip.used = value.used
               /\ skip.ret = H2_OK => name.used + skip.used \in 1 .. Len(block) - p
<1> DEFINE name  == LiteralName(p, NameMax(p))
           value == DecodeString(p + name.used, ValueCap)
           skip  == SkipString(p + name.used, ValueCap)
<1>1. PICK m \in Nat : m = NameMax(p)
  BY DEF NameMax
<1>2. Reads(LiteralName(p, m), p)
      /\ (LiteralName(p, m).ret = H2_OK => LiteralName(p, m).value \in Seq(Bytes))
  BY NameReads
<1>3. name.used \in 1 .. Len(block) - p /\ name.value \in Seq(Bytes)
  BY <1>1, <1>2 DEF Reads
<1>4. PICK u \in Nat : u = name.used /\ u \in 1 .. Len(block) - p
  BY <1>3
<1>5. PICK q \in Nat : q = p + u
  OBVIOUS
<1> DEFINE v == DecodeString(q, ValueCap)
           s == SkipString(q, ValueCap)
<1>6. value = v /\ skip = s
  BY <1>4, <1>5
<1>7. /\ Reads(v, q)
      /\ v.ret = H2_OK =>
           /\ v.value \in Seq(Bytes) /\ Len(v.value) < ValueCap
           /\ s.ret = H2_OK /\ s.used = v.used
  BY BlockAssumption, StringReads
<1>8. Reads(s, q)
  BY SkipReads
<1> HIDE DEF name, value, skip, v, s
<1>9. PICK n \in Nat : n = Len(block)
  OBVIOUS
<1>10. ASSUME NEW k \in 1 .. n - q PROVE u + k \in 1 .. n - p
  BY <1>4, <1>5, <1>9
<1>11. v.ret = H2_OK => name.used + v.used \in 1 .. Len(block) - p
  <2>1. v.ret = H2_OK => v.used \in 1 .. n - q
    BY <1>7, <1>9 DEF Reads
  <2> QED  BY <1>4, <1>9, <1>10, <2>1
<1>12. s.ret = H2_OK => name.used + s.used \in 1 .. Len(block) - p
  <2>1. s.ret = H2_OK => s.used \in 1 .. n - q
    BY <1>8, <1>9 DEF Reads
  <2> QED  BY <1>4, <1>9, <1>10, <2>1
<1> QED  BY <1>3, <1>6, <1>7, <1>8, <1>11, <1>12 DEF Reads, name, value, skip

(* The :path values that an instruction may hold *)
Found == {<< >>} \cup {<<t>> : t \in Seq(Bytes)}

LEMMA PathReads ==
    ASSUME NEW p \in Nat, block \in Seq(Bytes), p < Len(block)
    PROVE  LET it == PathIn(p)
           IN  Reads(it, p) /\ (it.ret = H2_OK => it.value \in Found)
<1> DEFINE it == PathIn(p)
<1>1. CASE Indexed(p)
  <2> DEFINE index == DecodeInteger(p, 127)
             entry == StaticTable[index.value]
             found == IF entry.name = PathName THEN <<entry.value>> ELSE << >>
  <2>1. it = IF index.ret # H2_OK \/ ~Known(index.value)
             THEN Error(H2_COMPRESSION_ERROR) ELSE Ok(index.used, found)
    BY <1>1 DEF PathIn
  <2>2. index.ret = H2_OK => index.used \in 1 .. Len(block) - p
    BY IntegerInBounds
  <2>3. Known(index.value) => found \in Found
    <3> SUFFICES ASSUME Known(index.value) PROVE entry.value \in Seq(Bytes)
      BY DEF Found
    <3>1. entry.value \in Seq(Bytes \ {0})
      BY BlockAssumption DEF Known
    <3> HIDE DEF entry
    <3> QED  BY <3>1
  <2> HIDE DEF it, index, found
  <2>4. CASE index.ret # H2_OK \/ ~Known(index.value)
    <3>1. it.ret = H2_COMPRESSION_ERROR
      BY <2>1, <2>4 DEF Error
    <3> QED  BY <3>1 DEF Reads, Codes, H2_OK, H2_COMPRESSION_ERROR, it
  <2>5. CASE ~(index.ret # H2_OK \/ ~Known(index.value))
    <3>1. it.ret = H2_OK /\ it.used = index.used /\ it.value = found
      BY <2>1, <2>5 DEF Ok
    <3> QED  BY <2>2, <2>3, <2>5, <3>1 DEF Reads, Codes, it
  <2> QED  BY <2>4, <2>5
<1>2. CASE ~Indexed(p) /\ SizeUpdate(p)
  <2> DEFINE n == DecodeInteger(p, 31)
  <2>1. it = [n EXCEPT !.value = << >>]
    BY <1>2 DEF PathIn
  <2>2. /\ n.ret \in {H2_OK, H2_COMPRESSION_ERROR}
        /\ n.ret = H2_OK => n.used \in 1 .. Len(block) - p
        /\ n = [ret |-> n.ret, used |-> n.used, value |-> n.value]
    BY IntegerInBounds
  <2> HIDE DEF n, it
  <2>3. it.ret = n.ret /\ it.used = n.used /\ it.value = << >>
    BY <2>1, <2>2
  <2> QED  BY <2>2, <2>3 DEF Reads, Codes, Found, it
<1>3. CASE ~Indexed(p) /\ ~SizeUpdate(p)
  <2> DEFINE name  == LiteralName(p, NameMax(p))
             value == IF name.value = PathName
                      THEN DecodeString(p + name.used, ValueCap)
                      ELSE SkipString(p + name.used, ValueCap)
             found == IF name.value = PathName THEN <<value.value>> ELSE << >>
  <2>1. it = IF name.ret # H2_OK THEN name
             ELSE IF value.ret # H2_OK THEN value
             ELSE Ok(name.used + value.used, found)
    BY <1>3 DEF PathIn
  <2>2. PICK m \in Nat : m = NameMax(p)
    BY DEF NameMax
  <2>3. Reads(name, p)
    BY <2>2, NameReads
  <2>4. CASE name.ret # H2_OK
    <3>1. it = name
      BY <2>1, <2>4
    <3> QED  BY <2>3, <2>4, <3>1 DEF Reads
  <2>5. CASE name.ret = H2_OK
    <3>1. /\ value.ret \in Codes
          /\ value.ret = H2_OK =>
               /\ name.used + value.used \in 1 .. Len(block) - p
               /\ found \in Found
      <4>1. CASE name.value = PathName
        BY <2>5, <4>1, LiteralReads DEF Found
      <4>2. CASE name.value # PathName
        BY <2>5, <4>2, LiteralReads DEF Found
      <4> QED  BY <4>1, <4>2
    <3> HIDE DEF it, name, value, found
    <3>2. CASE value.ret # H2_OK
      <4>1. it = value
        BY <2>1, <2>5, <3>2
      <4> QED  BY <3>1, <3>2, <4>1 DEF Reads, it
    <3>3. CASE value.ret = H2_OK
      <4>1. it = Ok(name.used + value.used, found)
        BY <2>1, <2>5, <3>3
      <4>2. it.ret = H2_OK /\ it.used = name.used + value.used /\ it.value = found
        BY <4>1 DEF Ok
      <4> QED  BY <3>1, <3>3, <4>2 DEF Reads, Codes, it
    <3> QED  BY <3>2, <3>3
  <2> QED  BY <2>4, <2>5
<1> QED  BY <1>1, <1>2, <1>3

(* The fields that an instruction may add, each with a value that fits its *)
(* buffer, and the :path among them.                                       *)
Fields == [name : Seq(Bytes), value : {t \in Seq(Bytes) : Len(t) < ValueCap}]
Added  == {<< >>} \cup {<<f>> : f \in Fields}

PathOf(fields) == IF fields # << >> /\ fields[1].name = PathName
                  THEN <<fields[1].value>> ELSE << >>

LEMMA FieldReads ==
    ASSUME NEW p \in Nat, block \in Seq(Bytes), p < Len(block)
    PROVE  LET f == FieldAt(p)
           IN  /\ Reads(f, p)
               /\ f.ret = H2_OK =>
                    /\ f.value \in Added
                    /\ PathIn(p).ret = H2_OK /\ PathIn(p).used = f.used
                    /\ PathIn(p).value = PathOf(f.value)
<1> DEFINE f  == FieldAt(p)
           it == PathIn(p)
<1>1. CASE Indexed(p)
  <2> DEFINE index == DecodeInteger(p, 127)
             entry == StaticTable[index.value]
             found == IF entry.name = PathName THEN <<entry.value>> ELSE << >>
             field == Field(entry.name, entry.value)
  <2>1. it = IF index.ret # H2_OK \/ ~Known(index.value)
             THEN Error(H2_COMPRESSION_ERROR) ELSE Ok(index.used, found)
    BY <1>1 DEF PathIn
  <2>2. index.ret = H2_OK => index.used \in 1 .. Len(block) - p
    BY IntegerInBounds
  <2>3. f = IF index.ret # H2_OK \/ ~Known(index.value)
            THEN Error(H2_COMPRESSION_ERROR)
            ELSE IF \/ CopyText(NameCap, entry.name) # H2_OK
                    \/ CopyText(ValueCap, entry.value) # H2_OK
            THEN Error(H2_REFUSED_STREAM) ELSE Ok(index.used, <<field>>)
    BY <1>1 DEF FieldAt
  <2>4. ASSUME Known(index.value), CopyText(ValueCap, entry.value) = H2_OK
        PROVE  field \in Fields
    <3>1. entry.value \in Seq(Bytes \ {0}) /\ entry.name \in Seq(Bytes \ {0})
      BY <2>4, BlockAssumption DEF Known
    <3> HIDE DEF entry
    <3>2. entry.value \in Seq(Bytes) /\ entry.name \in Seq(Bytes)
      BY <3>1
    <3>3. Len(entry.value) < ValueCap
      <4>1. Len(entry.value) \in Nat
        BY <3>1
      <4> QED  BY <2>4, <4>1, BlockAssumption DEF CopyText, H2_REFUSED_STREAM, H2_OK
    <3> QED  BY <3>2, <3>3 DEF Fields, Field
  <2>5. PathOf(<<field>>) = found
    BY DEF PathOf, Field
  <2> HIDE DEF f, it, index, entry, found, field
  <2>6. CASE index.ret # H2_OK \/ ~Known(index.value)
    <3>1. f.ret = H2_COMPRESSION_ERROR
      BY <2>3, <2>6 DEF Error
    <3> QED  BY <3>1 DEF Reads, Codes, H2_OK, H2_COMPRESSION_ERROR, f
  <2>7. CASE /\ ~(index.ret # H2_OK \/ ~Known(index.value))
             /\ \/ CopyText(NameCap, entry.name) # H2_OK
                \/ CopyText(ValueCap, entry.value) # H2_OK
    <3>1. f.ret = H2_REFUSED_STREAM
      BY <2>3, <2>7 DEF Error
    <3> QED  BY <3>1 DEF Reads, Codes, H2_OK, H2_REFUSED_STREAM, f
  <2>8. CASE /\ ~(index.ret # H2_OK \/ ~Known(index.value))
             /\ ~(\/ CopyText(NameCap, entry.name) # H2_OK
                  \/ CopyText(ValueCap, entry.value) # H2_OK)
    <3>1. f.ret = H2_OK /\ f.used = index.used /\ f.value = <<field>>
      BY <2>3, <2>8 DEF Ok
    <3>2. it.ret = H2_OK /\ it.used = index.used /\ it.value = found
      BY <2>1, <2>8 DEF Ok
    <3>3. field \in Fields
      BY <2>4, <2>8
    <3> QED  BY <2>2, <2>5, <2>8, <3>1, <3>2, <3>3 DEF Reads, Codes, Added, f, it
  <2> QED  BY <2>6, <2>7, <2>8
<1>2. CASE ~Indexed(p) /\ SizeUpdate(p)
  <2> DEFINE n == DecodeInteger(p, 31)
  <2>1. it = [n EXCEPT !.value = << >>] /\ f = [n EXCEPT !.value = << >>]
    BY <1>2 DEF PathIn, FieldAt
  <2>2. /\ n.ret \in {H2_OK, H2_COMPRESSION_ERROR}
        /\ n.ret = H2_OK => n.used \in 1 .. Len(block) - p
        /\ n = [ret |-> n.ret, used |-> n.used, value |-> n.value]
    BY IntegerInBounds
  <2> HIDE DEF n, it, f
  <2>3. it.ret = n.ret /\ it.used = n.used /\ it.value = << >> /\ f = it
    BY <2>1, <2>2
  <2> QED  BY <2>2, <2>3 DEF Reads, Codes, Added, PathOf, it, f
<1>3. CASE ~Indexed(p) /\ ~SizeUpdate(p)
  <2> DEFINE name  == LiteralName(p, NameMax(p))
             text  == DecodeString(p + name.used, ValueCap)
             value == IF name.value = PathName THEN text
                      ELSE SkipString(p + name.used, ValueCap)
             found == IF name.value = PathName THEN <<value.value>> ELSE << >>
             field == Field(name.value, text.value)
  <2>1. it = IF name.ret # H2_OK THEN name
             ELSE IF value.ret # H2_OK THEN value
             ELSE Ok(name.used + value.used, found)
    BY <1>3 DEF PathIn
  <2>2. f = IF name.ret # H2_OK THEN name
            ELSE IF text.ret # H2_OK THEN text
            ELSE Ok(name.used + text.used, <<field>>)
    BY <1>3 DEF FieldAt
  <2>3. PICK m \in Nat : m = NameMax(p)
    BY DEF NameMax
  <2>4. Reads(name, p)
    BY <2>3, NameReads
  <2>5. CASE name.ret # H2_OK
    <3>1. f = name
      BY <2>2, <2>5
    <3> QED  BY <2>4, <2>5, <3>1 DEF Reads
  <2>6. CASE name.ret = H2_OK
    <3>1. /\ name.value \in Seq(Bytes) /\ text.ret \in Codes
          /\ text.ret = H2_OK =>
               /\ name.used + text.used \in 1 .. Len(block) - p
               /\ text.value \in Seq(Bytes) /\ Len(text.value) < ValueCap
               /\ value.ret = H2_OK /\ value.used = text.used
      <4>1. CASE name.value = PathName
        BY <2>6, <4>1, LiteralReads
      <4>2. CASE name.value # PathName
        BY <2>6, <4>2, LiteralReads
      <4> QED  BY <4>1, <4>2
    <3>2. PathOf(<<field>>) = found
      BY DEF PathOf, Field
    <3>3. text.ret = H2_OK => field \in Fields
      BY <3>1 DEF Fields, Field
    <3> HIDE DEF it, f, name, text, value, found, field
    <3>4. CASE text.ret # H2_OK
      <4>1. f = text
        BY <2>2, <2>6, <3>4
      <4> QED  BY <3>1, <3>4, <4>1 DEF Reads, f
    <3>5. CASE text.ret = H2_OK
      <4>1. f.ret = H2_OK /\ f.used = name.used + text.used /\ f.value = <<field>>
        BY <2>2, <2>6, <3>5 DEF Ok
      <4>2. it.ret = H2_OK /\ it.used = name.used + text.used /\ it.value = found
        BY <2>1, <2>6, <3>1, <3>5 DEF Ok
      <4> QED  BY <3>1, <3>2, <3>3, <3>5, <4>1, <4>2 DEF Reads, Codes, Added, f, it
    <3> QED  BY <3>4, <3>5
  <2> QED  BY <2>5, <2>6
<1> QED  BY <1>1, <1>2, <1>3

-----------------------------------------------------------------------------
(* The encoder.                                                            *)

LEMMA Quotient ==
    ASSUME NEW v \in Nat, v >= 128
    PROVE  v \div 128 \in Nat /\ v \div 128 < v /\ v % 128 \in 0 .. 127
           /\ v = (v \div 128) * 128 + (v % 128)
  OBVIOUS

(* Groups is what its definition says. *)
LEMMA GroupsUnfold ==
    /\ \A v \in 0 .. MaxWord :
         Groups[v] = IF v < 128 THEN <<v>> ELSE <<128 + (v % 128)>> \o Groups[v \div 128]
    /\ \A v \in 0 .. MaxWord : Groups[v] \in Seq(Bytes)
<1> DEFINE G(f, v) == IF v < 128 THEN <<v>> ELSE <<128 + (v % 128)>> \o f[v \div 128]
           Upto(n, f) == \A v \in 0 .. n : f[v] = G(f, v)
           X == {n \in Nat : \E f \in [0 .. n -> Seq(Bytes)] : Upto(n, f)}
           W(f) == [v \in 0 .. MaxWord |-> G(f, v)]
<1>1. Bytes = 0 .. 255 /\ MaxWord \in Nat
  BY BlockAssumption, HpackIntAssumption DEF Bytes
<1>2. ASSUME NEW s \in Seq(Bytes), NEW v \in Nat, v >= 128
      PROVE  <<128 + (v % 128)>> \o s \in Seq(Bytes)
  <2>1. PICK b \in 0 .. 255 : b = 128 + (v % 128)
    BY <1>2, Quotient
  <2>2. <<b>> \in Seq(Bytes)
    BY <1>1
  <2> QED  BY <2>1, <2>2
<1>3. ASSUME NEW v \in Nat, v < 128 PROVE <<v>> \in Seq(Bytes)
  BY <1>1, <1>3
<1>4. 0 \in X
  <2> DEFINE f == [v \in 0 .. 0 |-> <<0>>]
  <2>1. f \in [0 .. 0 -> Seq(Bytes)]
    BY <1>3
  <2>2. Upto(0, f)
    OBVIOUS
  <2> QED  BY <2>1, <2>2
<1>5. ASSUME NEW n \in Nat, n \in X PROVE n + 1 \in X
  <2>1. PICK f \in [0 .. n -> Seq(Bytes)] : Upto(n, f)
    BY <1>5
  <2> DEFINE x == G(f, n + 1)
             g == [v \in 0 .. n + 1 |-> IF v = n + 1 THEN x ELSE f[v]]
  <2>2. n + 1 >= 128 => (n + 1) \div 128 \in 0 .. n
    <3>1. PICK k \in Nat : k = n + 1
      OBVIOUS
    <3>2. k >= 128 => k \div 128 \in Nat /\ k \div 128 < k
      BY Quotient
    <3> QED  BY <3>1, <3>2
  <2>3. x \in Seq(Bytes)
    <3>1. CASE n + 1 < 128
      BY <1>3, <3>1
    <3>2. CASE ~(n + 1 < 128)
      <4>1. f[(n + 1) \div 128] \in Seq(Bytes)
        BY <2>2, <3>2
      <4>2. PICK s \in Seq(Bytes), k \in Nat : s = f[(n + 1) \div 128] /\ k = n + 1
        BY <4>1
      <4>3. <<128 + (k % 128)>> \o s \in Seq(Bytes)
        BY <1>2, <3>2, <4>2
      <4> QED  BY <3>2, <4>2, <4>3
    <3> QED  BY <3>1, <3>2
  <2> HIDE DEF x
  <2>4. g \in [0 .. n + 1 -> Seq(Bytes)]
    <3>1. \A v \in 0 .. n + 1 : v # n + 1 => v \in 0 .. n /\ f[v] \in Seq(Bytes)
      OBVIOUS
    <3> QED  BY <2>3, <3>1
  <2>5. ASSUME NEW v \in 0 .. n PROVE g[v] = f[v]
    OBVIOUS
  <2>6. g[n + 1] = x
    OBVIOUS
  <2> HIDE DEF g
  <2>7. ASSUME NEW v \in 0 .. n + 1 PROVE g[v] = G(g, v)
    <3>1. CASE v = n + 1
      <4>1. v >= 128 => g[v \div 128] = f[v \div 128]
        BY <2>2, <2>5, <3>1
      <4> QED  BY <2>6, <3>1, <4>1 DEF x
    <3>2. CASE v # n + 1
      <4>1. v \in 0 .. n /\ v \in Nat
        BY <3>2
      <4>2. v >= 128 => v \div 128 \in 0 .. n
        <5>1. v >= 128 => v \div 128 \in Nat /\ v \div 128 < v
          BY <4>1, Quotient
        <5> QED  BY <4>1, <5>1
      <4>3. v >= 128 => g[v \div 128] = f[v \div 128]
        BY <2>5, <4>2
      <4>4. g[v] = f[v] /\ f[v] = G(f, v)
        BY <2>1, <2>5, <4>1
      <4> QED  BY <4>1, <4>3, <4>4
    <3> QED  BY <3>1, <3>2
  <2>8. Upto(n + 1, g)
    BY <2>7
  <2> HIDE DEF Upto
  <2> QED  BY <2>4, <2>8
<1>6. MaxWord \in X
  <2> HIDE DEF X
  <2> QED  BY <1>1, <1>4, <1>5, Induction
<1>7. PICK f \in [0 .. MaxWord -> Seq(Bytes)] : Upto(MaxWord, f)
  BY <1>6
<1>8. f = W(f)
  <2>1. f = [v \in 0 .. MaxWord |-> f[v]]
    OBVIOUS
  <2>2. \A v \in 0 .. MaxWord : f[v] = G(f, v)
    BY <1>7
  <2> HIDE DEF G
  <2> QED  BY <2>1, <2>2
<1>9. Groups = CHOOSE g : g = W(g)
  BY BlockAssumption DEF Groups, Low
<1>10. Groups = W(Groups)
  <2> HIDE DEF W
  <2> QED  BY <1>8, <1>9
<1>11. \A v \in 0 .. MaxWord : Groups[v] = G(Groups, v)
  <2>1. PICK g : g = Groups
    OBVIOUS
  <2>2. \A v \in 0 .. MaxWord : W(g)[v] = G(g, v)
    OBVIOUS
  <2> HIDE DEF W, G
  <2> QED  BY <1>10, <2>1, <2>2
<1> DEFINE Y == {n \in Nat : \A v \in 0 .. n : v <= MaxWord => Groups[v] \in Seq(Bytes)}
<1>12. 0 \in Y
  <2>1. PICK z \in Nat : z = 0
    OBVIOUS
  <2>2. z \in 0 .. MaxWord
    BY <1>1, <2>1
  <2>3. Groups[z] = G(Groups, z)
    BY <1>11, <2>2
  <2>4. z < 128
    BY <2>1
  <2>5. G(Groups, z) = <<z>> /\ <<z>> \in Seq(Bytes)
    BY <1>3, <2>4
  <2>6. \A v \in 0 .. 0 : v = z
    BY <2>1
  <2>7. Groups[z] \in Seq(Bytes)
    BY <2>3, <2>5
  <2> HIDE DEF G
  <2> QED  BY <2>6, <2>7
<1>13. ASSUME NEW n \in Nat, n \in Y PROVE n + 1 \in Y
  <2> SUFFICES ASSUME NEW v \in 0 .. n + 1, v <= MaxWord PROVE Groups[v] \in Seq(Bytes)
    OBVIOUS
  <2>1. v \in Nat /\ v \in 0 .. MaxWord /\ Groups[v] = G(Groups, v)
    BY <1>1, <1>11
  <2>2. CASE v < 128
    BY <1>3, <2>1, <2>2
  <2>3. CASE ~(v < 128)
    <3>1. v \div 128 \in Nat /\ v \div 128 < v
      BY <2>1, <2>3, Quotient
    <3>2. v \div 128 \in 0 .. n /\ v \div 128 <= MaxWord
      BY <1>1, <2>1, <3>1
    <3>3. Groups[v \div 128] \in Seq(Bytes)
      BY <1>13, <3>2
    <3>4. PICK s \in Seq(Bytes) : s = Groups[v \div 128]
      BY <3>3
    <3> QED  BY <1>2, <2>1, <2>3, <3>4
  <2> QED  BY <2>2, <2>3
<1>14. MaxWord \in Y
  <2> HIDE DEF Y
  <2> QED  BY <1>1, <1>12, <1>13, Induction
<1>15. \A v \in 0 .. MaxWord : Groups[v] \in Seq(Bytes)
  BY <1>1, <1>14
<1> QED  BY <1>11, <1>15

(* The bytes of a text and of a literal field *)
LEMMA StringBytes ==
    ASSUME NEW text \in Seq(Bytes \ {0}), Len(text) <= MaxWord
    PROVE  EncodeString(text) \in Seq(Bytes)
<1>1. Bytes = 0 .. 255 /\ MaxWord \in Nat
  BY BlockAssumption, HpackIntAssumption DEF Bytes
<1>2. text \in Seq(Bytes)
  OBVIOUS
<1>3. PICK n \in Nat : n = Len(text)
  OBVIOUS
<1> DEFINE front == IF n < 127 THEN <<n>> ELSE <<127>> \o Groups[n - 127]
<1>4. front \in Seq(Bytes)
  <2>1. CASE n < 127
    BY <1>1, <2>1
  <2>2. CASE ~(n < 127)
    <3>1. PICK v \in 0 .. MaxWord : v = n - 127
      BY <1>1, <1>3, <2>2
    <3>2. PICK s \in Seq(Bytes) : s = Groups[v]
      BY GroupsUnfold
    <3>3. <<127>> \in Seq(Bytes)
      BY <1>1
    <3>4. <<127>> \o s \in Seq(Bytes)
      BY <3>3
    <3> QED  BY <2>2, <3>1, <3>2, <3>4
  <2> QED  BY <2>1, <2>2
<1>5. EncodeString(text) = front \o text
  BY <1>3 DEF EncodeString
<1> HIDE DEF front
<1> QED  BY <1>2, <1>4, <1>5

LEMMA EncodedBytes ==
    ASSUME NEW l \in Literals
    PROVE  Encoded(l) \in Seq(Bytes)
<1>1. EncodeString(l.name) \in Seq(Bytes) /\ EncodeString(l.value) \in Seq(Bytes)
  BY BlockAssumption, StringBytes
<1>2. <<0>> \in Seq(Bytes)
  BY BlockAssumption DEF Bytes
<1>3. PICK a, b \in Seq(Bytes) : a = EncodeString(l.name) /\ b = EncodeString(l.value)
  BY <1>1
<1>4. (<<0>> \o a) \o b \in Seq(Bytes)
  BY <1>2
<1> QED  BY <1>3, <1>4 DEF Encoded

-----------------------------------------------------------------------------
(* The history in the terms of the connection model.                       *)

LEMMA LastExists ==
    ASSUME NEW n \in Nat, NEW S, S \subseteq 1 .. n, S # {}
    PROVE  Last(S) \in S /\ \A j \in S : j <= Last(S)
<1> DEFINE T == {n - k : k \in S}
<1>1. T \subseteq Nat /\ T # {}
  <2>1. \A k \in S : k \in 1 .. n /\ n - k \in Nat
    OBVIOUS
  <2> QED  BY <2>1
<1>2. PICK t \in T : \A u \in T : t <= u
  <2> HIDE DEF T
  <2> QED  BY <1>1, Least
<1>3. PICK x \in S : t = n - x
  BY <1>2
<1>4. ASSUME NEW k \in S PROVE k <= x
  <2>1. n - x <= n - k
    BY <1>2, <1>3
  <2>2. k \in 1 .. n /\ x \in 1 .. n
    OBVIOUS
  <2> QED  BY <2>1, <2>2
<1> QED  BY <1>3, <1>4 DEF Last

Clean(s) == \A k \in DOMAIN s : ItemError(s[k]) = H2_OK

LastPath(s) == IF PathItems(s) = {} THEN 0 ELSE s[Last(PathItems(s))].path

LEMMA CleanExtract ==
    ASSUME NEW s \in Seq(HpackItem), Clean(s)
    PROVE  ExtractPath(s) = [ret  |-> IF LastPath(s) = 0 THEN H2_PROTOCOL_ERROR
                                      ELSE H2_OK,
                             path |-> LastPath(s)]
<1>1. Failing(s) = {}
  BY DEF Clean, Failing
<1>2. {k \in PathItems(s) : \A j \in Failing(s) : k < j} = PathItems(s)
  BY <1>1
<1> QED  BY <1>1, <1>2 DEF ExtractPath, LastPath

LEMMA Appended ==
    ASSUME NEW s \in Seq(HpackItem), NEW x \in HpackItem
    PROVE  LET t == Append(s, x)
               n == Len(s)
           IN  /\ t \in Seq(HpackItem) /\ n \in Nat
               /\ DOMAIN s = 1 .. n /\ DOMAIN t = 1 .. n + 1
               /\ t[n + 1] = x /\ \A k \in 1 .. n : t[k] = s[k]
  OBVIOUS

LEMMA PathItemsAppended ==
    ASSUME NEW s \in Seq(HpackItem), NEW x \in HpackItem
    PROVE  /\ PathItems(s) \subseteq 1 .. Len(s)
           /\ PathItems(Append(s, x)) = IF x.path # NotPath
                                        THEN PathItems(s) \cup {Len(s) + 1}
                                        ELSE PathItems(s)
           /\ PathItems(s) # {} =>
                /\ Last(PathItems(s)) \in 1 .. Len(s)
                /\ Append(s, x)[Last(PathItems(s))] = s[Last(PathItems(s))]
<1> DEFINE t == Append(s, x)
<1>1. PICK n \in Nat : n = Len(s)
  OBVIOUS
<1>2. /\ DOMAIN s = 1 .. n /\ DOMAIN t = 1 .. n + 1
      /\ t[n + 1] = x /\ \A k \in 1 .. n : t[k] = s[k]
  BY <1>1, Appended
<1> HIDE DEF t
<1>3. PathItems(s) \subseteq 1 .. n
  BY <1>2 DEF PathItems
<1>4. PathItems(t) = IF x.path # NotPath THEN PathItems(s) \cup {n + 1}
                     ELSE PathItems(s)
  <2>1. 1 .. n + 1 = (1 .. n) \cup {n + 1} /\ n + 1 \notin 1 .. n
    OBVIOUS
  <2> QED  BY <1>2, <2>1 DEF PathItems
<1>5. PathItems(s) # {} => Last(PathItems(s)) \in 1 .. n
  BY <1>3, LastExists
<1> QED  BY <1>1, <1>2, <1>3, <1>4, <1>5 DEF t

LEMMA LastPathAppended ==
    ASSUME NEW s \in Seq(HpackItem), NEW x \in HpackItem
    PROVE  LastPath(Append(s, x)) = IF x.path # NotPath THEN x.path ELSE LastPath(s)
<1> DEFINE t == Append(s, x)
<1>1. PICK n \in Nat : n = Len(s)
  OBVIOUS
<1>2. t[n + 1] = x
  BY <1>1, Appended
<1>3. /\ PathItems(s) \subseteq 1 .. n
      /\ PathItems(t) = IF x.path # NotPath THEN PathItems(s) \cup {n + 1}
                        ELSE PathItems(s)
      /\ PathItems(s) # {} => t[Last(PathItems(s))] = s[Last(PathItems(s))]
  BY <1>1, PathItemsAppended
<1> HIDE DEF t
<1>4. CASE x.path # NotPath
  <2> DEFINE S == PathItems(s) \cup {n + 1}
  <2>1. S \subseteq 1 .. n + 1 /\ S # {} /\ n + 1 \in Nat /\ n + 1 \in S
    BY <1>3
  <2> HIDE DEF S
  <2>2. PICK m \in Nat : m = n + 1
    OBVIOUS
  <2>3. Last(S) \in S /\ \A j \in S : j <= Last(S)
    BY <2>1, <2>2, LastExists
  <2>4. Last(S) = n + 1
    <3>1. Last(S) \in 1 .. n + 1 /\ n + 1 <= Last(S)
      BY <2>1, <2>3
    <3> QED  BY <3>1
  <2> QED  BY <1>2, <1>3, <1>4, <2>1, <2>4 DEF LastPath, S, t
<1>5. CASE x.path = NotPath
  BY <1>3, <1>5 DEF LastPath, t
<1> QED  BY <1>4, <1>5

LEMMA CleanAppended ==
    ASSUME NEW s \in Seq(HpackItem), NEW x \in HpackItem, Clean(s),
           ItemError(x) = H2_OK
    PROVE  Clean(Append(s, x))
<1> DEFINE t == Append(s, x)
<1>1. PICK n \in Nat : n = Len(s)
  OBVIOUS
<1>2. /\ DOMAIN s = 1 .. n /\ DOMAIN t = 1 .. n + 1
      /\ t[n + 1] = x /\ \A k \in 1 .. n : t[k] = s[k]
  BY <1>1, Appended
<1> HIDE DEF t
<1>3. \A k \in 1 .. n + 1 : k = n + 1 \/ k \in 1 .. n
  OBVIOUS
<1>4. Clean(t)
  BY <1>2, <1>3 DEF Clean
<1> QED  BY <1>4 DEF t

LEMMA FailExtract ==
    ASSUME NEW s \in Seq(HpackItem), NEW x \in HpackItem, Clean(s),
           ItemError(x) # H2_OK
    PROVE  ExtractPath(Append(s, x)) = [ret |-> ItemError(x), path |-> LastPath(s)]
<1> DEFINE t == Append(s, x)
<1>1. PICK n \in Nat : n = Len(s)
  OBVIOUS
<1>2. /\ DOMAIN s = 1 .. n /\ DOMAIN t = 1 .. n + 1
      /\ t[n + 1] = x /\ \A k \in 1 .. n : t[k] = s[k]
  BY <1>1, Appended
<1>3. /\ PathItems(s) \subseteq 1 .. n
      /\ PathItems(t) = IF x.path # NotPath THEN PathItems(s) \cup {n + 1}
                        ELSE PathItems(s)
      /\ PathItems(s) # {} => t[Last(PathItems(s))] = s[Last(PathItems(s))]
  BY <1>1, PathItemsAppended
<1> HIDE DEF t
<1>4. \A k \in 1 .. n + 1 : k = n + 1 \/ k \in 1 .. n
  OBVIOUS
<1>5. Failing(t) = {n + 1}
  <2>1. \A k \in 1 .. n : ItemError(t[k]) = H2_OK
    BY <1>2 DEF Clean
  <2>2. n + 1 \in 1 .. n + 1
    OBVIOUS
  <2> QED  BY <1>2, <1>4, <2>1, <2>2 DEF Failing
<1>6. First({n + 1}) = n + 1
  BY DEF First
<1>7. {k \in PathItems(t) : \A j \in Failing(t) : k < j} = PathItems(s)
  <2>1. \A k \in PathItems(s) : k < n + 1
    BY <1>3
  <2>2. ~(n + 1 < n + 1)
    OBVIOUS
  <2> QED  BY <1>3, <1>5, <2>1, <2>2
<1> DEFINE path == IF PathItems(s) = {} THEN 0 ELSE t[Last(PathItems(s))].path
<1>8. path = LastPath(s)
  BY <1>3 DEF LastPath
<1>9. Failing(t) # {} /\ First(Failing(t)) = n + 1
  BY <1>5, <1>6
<1>10. ExtractPath(t) = [ret |-> ItemError(t[n + 1]), path |-> path]
  BY <1>7, <1>9 DEF ExtractPath
<1> QED  BY <1>2, <1>8, <1>10 DEF t

-----------------------------------------------------------------------------
(* The two decoders.                                                       *)

ExtractLocals == [ret : Codes \cup {Running, H2_PROTOCOL_ERROR},
                  pos : Nat, path : Seq(Bytes)]
DecodeLocals  == [ret : Codes \cup {Running}, pos : Nat, fields : Seq(Fields)]

BlockType ==
    /\ block \in Seq(Bytes)
    /\ extract \in ExtractLocals /\ extract.pos <= Len(block)
    /\ decode \in DecodeLocals /\ decode.pos <= Len(block)
    /\ items \in Seq(HpackItem)

LEMMA BlockTypeInit == BlockInit => BlockType
<1> SUFFICES ASSUME BlockInit PROVE BlockType
  OBVIOUS
<1>1. block \in Seq(Bytes)
  <2>1. CASE block \in Blocks
    BY <2>1, BlockAssumption
  <2>2. CASE /\ literal \in Literals
             /\ block = IF Encodes(literal) THEN Encoded(literal) ELSE << >>
    <3>1. Encoded(literal) \in Seq(Bytes) /\ << >> \in Seq(Bytes)
      BY <2>2, EncodedBytes
    <3> QED  BY <2>2, <3>1
  <2> QED  BY <2>1, <2>2 DEF BlockInit
<1>2. /\ extract = [ret |-> Running, pos |-> 0, path |-> << >>]
      /\ decode  = [ret |-> Running, pos |-> 0, fields |-> << >>]
      /\ items = << >>
  BY DEF BlockInit
<1>3. << >> \in Seq(Bytes) /\ << >> \in Seq(Fields) /\ << >> \in Seq(HpackItem)
  OBVIOUS
<1>4. extract \in ExtractLocals /\ extract.pos = 0
  BY <1>2, <1>3 DEF ExtractLocals
<1>5. decode \in DecodeLocals /\ decode.pos = 0
  BY <1>2, <1>3 DEF DecodeLocals
<1>6. 0 <= Len(block)
  BY <1>1
<1> QED  BY <1>1, <1>2, <1>3, <1>4, <1>5, <1>6 DEF BlockType

(* The locals that a turn changes together *)
LEMMA ExtractExcept ==
    ASSUME NEW e \in ExtractLocals, NEW q, NEW w
    PROVE  [e EXCEPT !.pos = q, !.path = w] = [ret |-> e.ret, pos |-> q, path |-> w]
<1> DEFINE f == [e EXCEPT !.pos = q, !.path = w]
<1>1. f \in [ret : {e.ret}, pos : {q}, path : {w}]
  BY DEF ExtractLocals
<1> HIDE DEF f
<1>2. f = [ret |-> e.ret, pos |-> q, path |-> w]
  BY <1>1
<1> QED  BY <1>2 DEF f

LEMMA DecodeExcept ==
    ASSUME NEW e \in DecodeLocals, NEW q, NEW w
    PROVE  [e EXCEPT !.pos = q, !.fields = w] = [ret |-> e.ret, pos |-> q, fields |-> w]
<1> DEFINE f == [e EXCEPT !.pos = q, !.fields = w]
<1>1. f \in [ret : {e.ret}, pos : {q}, fields : {w}]
  BY DEF DecodeLocals
<1> HIDE DEF f
<1>2. f = [ret |-> e.ret, pos |-> q, fields |-> w]
  BY <1>1
<1> QED  BY <1>2 DEF f

(* One turn of h2_hpack_extract_path, as the connection model sees it. *)
LEMMA ExtractTurned ==
    ASSUME BlockType, ExtractTurn
    PROVE  \E it, item :
             /\ it = PathIn(extract.pos)
             /\ item \in HpackItem /\ items' = Append(items, item)
             /\ ItemError(item) # H2_OK =>
                  extract' = [ret |-> ItemError(item), pos |-> extract.pos,
                              path |-> extract.path]
             /\ ItemError(item) = H2_OK =>
                  /\ it.ret = H2_OK /\ it.value \in Found
                  /\ it.used \in 1 .. Len(block) - extract.pos
                  /\ extract' = [ret |-> Running, pos |-> extract.pos + it.used,
                                 path |-> IF it.value = << >> THEN extract.path
                                          ELSE it.value[1]]
                  /\ item.path = IF it.value = << >> THEN NotPath
                                 ELSE Len(it.value[1])
             /\ it.ret = H2_OK /\ (it.value # << >> => Len(it.value[1]) < PathCap)
                  => ItemError(item) = H2_OK
<1>1. PICK p \in Nat : p = extract.pos
  BY DEF BlockType, ExtractLocals
<1>2. block \in Seq(Bytes) /\ p < Len(block)
  BY <1>1 DEF BlockType, ExtractTurn
<1>3. PICK it : it = PathIn(extract.pos)
  OBVIOUS
<1>4. /\ it.ret \in Codes
      /\ it.ret = H2_OK => it.used \in 1 .. Len(block) - p /\ it.value \in Found
  <2>1. Reads(PathIn(p), p) /\ (PathIn(p).ret = H2_OK => PathIn(p).value \in Found)
    BY <1>2, PathReads
  <2> QED  BY <1>1, <1>3, <2>1 DEF Reads
<1> DEFINE held == it.ret = H2_OK /\ it.value # << >>
<1>5. held => \E t \in Seq(Bytes) : it.value = <<t>>
  BY <1>4 DEF Found
<1>6. PICK item : item = [err |-> it.ret,
                          path |-> IF held THEN Len(it.value[1]) ELSE NotPath]
  OBVIOUS
<1>7. PICK ret : ret = IF held THEN CopyText(PathCap, it.value[1]) ELSE it.ret
  OBVIOUS
<1>8. /\ extract' = IF ret # H2_OK THEN [extract EXCEPT !.ret = ret]
                    ELSE [extract EXCEPT !.pos = @ + it.used,
                                         !.path = CopiedPath(it.value)]
      /\ items' = Append(items, item)
  BY <1>3, <1>6, <1>7 DEF ExtractTurn, ExtractStep
<1>9. ASSUME held PROVE it.value[1] \in Seq(Bytes) /\ Len(it.value[1]) \in Nat
  <2>1. PICK t \in Seq(Bytes) : it.value = <<t>>
    BY <1>5, <1>9
  <2>2. it.value[1] = t
    BY <2>1
  <2> QED  BY <2>2
<1>10. item \in HpackItem
  BY <1>4, <1>6, <1>9 DEF HpackItem, Codes
<1>11. ItemError(item) = ret
  <2>1. CASE held
    <3>1. item.err = H2_OK /\ item.path = Len(it.value[1])
      BY <1>5, <1>6, <2>1
    <3> QED  BY <1>7, <2>1, <3>1 DEF ItemError, CopyText
  <2>2. CASE ~held
    <3>1. item.err = it.ret /\ item.path = -1 /\ ret = it.ret
      BY <1>6, <1>7, <2>2 DEF NotPath
    <3>2. ~(-1 >= PathCap)
      BY PathCapAssumption
    <3> QED  BY <3>1, <3>2 DEF ItemError
  <2> QED  BY <2>1, <2>2
<1>12. extract = [ret |-> Running, pos |-> extract.pos, path |-> extract.path]
  BY DEF BlockType, ExtractLocals, ExtractTurn
<1>13. ret # H2_OK => extract' = [ret |-> ret, pos |-> extract.pos,
                                  path |-> extract.path]
  BY <1>8, <1>12
<1>14. ASSUME ret = H2_OK
       PROVE  /\ it.ret = H2_OK /\ it.value \in Found
              /\ it.used \in 1 .. Len(block) - extract.pos
              /\ extract' = [ret |-> Running, pos |-> extract.pos + it.used,
                             path |-> IF it.value = << >> THEN extract.path
                                      ELSE it.value[1]]
              /\ item.path = IF it.value = << >> THEN NotPath
                             ELSE Len(it.value[1])
  <2>1. it.ret = H2_OK
    BY <1>5, <1>7, <1>14
  <2>2. extract' = [extract EXCEPT !.pos = @ + it.used, !.path = CopiedPath(it.value)]
    BY <1>8, <1>14
  <2>3. CopiedPath(it.value) = IF it.value = << >> THEN extract.path ELSE it.value[1]
    BY DEF CopiedPath
  <2>4. extract' = [ret |-> Running, pos |-> extract.pos + it.used,
                    path |-> IF it.value = << >> THEN extract.path ELSE it.value[1]]
    <3>1. PICK q, w : q = extract.pos + it.used /\ w = CopiedPath(it.value)
      OBVIOUS
    <3>2. extract' = [extract EXCEPT !.pos = q, !.path = w]
      BY <2>2, <3>1
    <3>3. extract' = [ret |-> Running, pos |-> q, path |-> w]
      <4>1. PICK e \in ExtractLocals : e = extract /\ e.ret = Running
        BY DEF BlockType, ExtractTurn
      <4>2. [e EXCEPT !.pos = q, !.path = w] = [ret |-> e.ret, pos |-> q, path |-> w]
        BY ExtractExcept
      <4> QED  BY <3>2, <4>1, <4>2
    <3> QED  BY <2>3, <3>1, <3>3
  <2>5. item.path = IF it.value = << >> THEN NotPath ELSE Len(it.value[1])
    BY <1>5, <1>6, <2>1
  <2> QED  BY <1>1, <1>4, <2>1, <2>4, <2>5
<1>15. it.ret = H2_OK /\ (it.value # << >> => Len(it.value[1]) < PathCap) => ret = H2_OK
  <2> SUFFICES ASSUME it.ret = H2_OK, it.value # << >> => Len(it.value[1]) < PathCap
               PROVE  ret = H2_OK
    OBVIOUS
  <2>1. CASE it.value # << >>
    <3>1. ~(Len(it.value[1]) >= PathCap)
      BY <1>9, <2>1, PathCapAssumption
    <3> QED  BY <1>7, <2>1, <3>1 DEF CopyText
  <2>2. CASE it.value = << >>
    BY <1>7, <2>2
  <2> QED  BY <2>1, <2>2
<1> QED  BY <1>3, <1>8, <1>10, <1>11, <1>13, <1>14, <1>15

(* One turn of h2_hpack_decode_headers. *)
LEMMA DecodeTurned ==
    ASSUME BlockType, DecodeTurn
    PROVE  \E f :
             /\ f = FieldAt(decode.pos) /\ Reads(f, decode.pos)
             /\ \/ \E code \in Codes \ {H2_OK} :
                     decode' = [ret |-> code, pos |-> decode.pos,
                                fields |-> decode.fields]
                \/ /\ f.ret = H2_OK /\ f.value \in Added
                   /\ PathIn(decode.pos).ret = H2_OK
                   /\ PathIn(decode.pos).used = f.used
                   /\ PathIn(decode.pos).value = PathOf(f.value)
                   /\ decode' = [ret |-> Running, pos |-> decode.pos + f.used,
                                 fields |-> decode.fields \o f.value]
<1>1. PICK p \in Nat : p = decode.pos
  BY DEF BlockType, DecodeLocals
<1>2. block \in Seq(Bytes) /\ p < Len(block)
  BY <1>1 DEF BlockType, DecodeTurn
<1>3. PICK f : f = FieldAt(decode.pos)
  OBVIOUS
<1>4. /\ Reads(f, p)
      /\ f.ret = H2_OK => /\ f.value \in Added
                          /\ PathIn(p).ret = H2_OK /\ PathIn(p).used = f.used
                          /\ PathIn(p).value = PathOf(f.value)
  <2>1. /\ Reads(FieldAt(p), p)
        /\ FieldAt(p).ret = H2_OK =>
             /\ FieldAt(p).value \in Added
             /\ PathIn(p).ret = H2_OK /\ PathIn(p).used = FieldAt(p).used
             /\ PathIn(p).value = PathOf(FieldAt(p).value)
    BY <1>2, FieldReads
  <2> QED  BY <1>1, <1>3, <2>1
<1>5. PICK ret : ret = IF Len(decode.fields) >= FieldCap THEN H2_REFUSED_STREAM
                       ELSE f.ret
  OBVIOUS
<1>6. decode' = IF ret # H2_OK THEN [decode EXCEPT !.ret = ret]
                ELSE [decode EXCEPT !.pos = @ + f.used, !.fields = @ \o f.value]
  BY <1>3, <1>5 DEF DecodeTurn, DecodeStep
<1>7. decode = [ret |-> Running, pos |-> decode.pos, fields |-> decode.fields]
  BY DEF BlockType, DecodeLocals, DecodeTurn
<1>8. CASE ret # H2_OK
  <2>1. ret \in Codes
    BY <1>4, <1>5 DEF Reads, Codes
  <2>2. decode' = [ret |-> ret, pos |-> decode.pos, fields |-> decode.fields]
    BY <1>6, <1>7, <1>8
  <2>3. ret \in Codes \ {H2_OK}
    BY <1>8, <2>1
  <2> QED  BY <1>1, <1>3, <1>4, <2>2, <2>3
<1>9. CASE ret = H2_OK
  <2>1. f.ret = H2_OK
    BY <1>5, <1>9 DEF H2_OK, H2_REFUSED_STREAM
  <2>2. decode' = [ret |-> Running, pos |-> decode.pos + f.used,
                   fields |-> decode.fields \o f.value]
    <3>1. PICK q, w : q = decode.pos + f.used /\ w = decode.fields \o f.value
      OBVIOUS
    <3>2. decode' = [decode EXCEPT !.pos = q, !.fields = w]
      BY <1>6, <1>9, <3>1
    <3>3. decode' = [ret |-> Running, pos |-> q, fields |-> w]
      <4>1. PICK e \in DecodeLocals : e = decode /\ e.ret = Running
        BY DEF BlockType, DecodeTurn
      <4>2. [e EXCEPT !.pos = q, !.fields = w] = [ret |-> e.ret, pos |-> q, fields |-> w]
        BY DecodeExcept
      <4> QED  BY <3>2, <4>1, <4>2
    <3> QED  BY <3>1, <3>3
  <2> QED  BY <1>1, <1>3, <1>4, <2>1, <2>2
<1> QED  BY <1>8, <1>9

(* The end of h2_hpack_extract_path and of h2_hpack_decode_headers *)
LEMMA ExtractEnded ==
    ASSUME BlockType, ExtractEnd
    PROVE  /\ extract' = [ret |-> IF extract.path = << >> THEN H2_PROTOCOL_ERROR
                                  ELSE H2_OK,
                          pos |-> extract.pos, path |-> extract.path]
           /\ extract.ret = Running /\ extract.pos >= Len(block)
           /\ UNCHANGED <<block, literal, decode, items>>
<1>1. PICK code : code = IF extract.path = << >> THEN H2_PROTOCOL_ERROR ELSE H2_OK
  OBVIOUS
<1>2. extract' = [extract EXCEPT !.ret = code]
  BY <1>1 DEF ExtractEnd
<1>3. PICK e \in ExtractLocals : e = extract
  BY DEF BlockType
<1>4. [e EXCEPT !.ret = code] = [ret |-> code, pos |-> e.pos, path |-> e.path]
  BY DEF ExtractLocals
<1> QED  BY <1>1, <1>2, <1>3, <1>4 DEF ExtractEnd

LEMMA DecodeEnded ==
    ASSUME BlockType, DecodeDone
    PROVE  /\ decode' = [ret |-> H2_OK, pos |-> decode.pos, fields |-> decode.fields]
           /\ extract.ret # Running
           /\ decode.ret = Running /\ decode.pos >= Len(block)
           /\ UNCHANGED <<block, literal, extract, items>>
<1>1. PICK e \in DecodeLocals : e = decode
  BY DEF BlockType
<1>2. [e EXCEPT !.ret = H2_OK] = [ret |-> H2_OK, pos |-> e.pos, fields |-> e.fields]
  BY DEF DecodeLocals
<1> QED  BY <1>1, <1>2 DEF DecodeDone

LEMMA JoinedSeq ==
    ASSUME NEW S, NEW a \in Seq(S), NEW b \in Seq(S)
    PROVE  a \o b \in Seq(S)
  OBVIOUS

LEMMA AddedSeq == Added \subseteq Seq(Fields)
<1>1. ASSUME NEW S PROVE << >> \in Seq(S) /\ \A x \in S : <<x>> \in Seq(S)
  OBVIOUS
<1>2. << >> \in Seq(Fields) /\ \A x \in Fields : <<x>> \in Seq(Fields)
  BY <1>1
<1> QED  BY <1>2, Zenon DEF Added

LEMMA BlockTypeNext == BlockType /\ [BlockNext]_blockVars => BlockType'
<1> SUFFICES ASSUME BlockType, [BlockNext]_blockVars PROVE BlockType'
  OBVIOUS
<1>1. /\ block \in Seq(Bytes) /\ Len(block) \in Nat
      /\ extract \in ExtractLocals /\ extract.pos <= Len(block)
      /\ decode \in DecodeLocals /\ decode.pos <= Len(block)
      /\ items \in Seq(HpackItem)
  BY DEF BlockType
<1>2. CASE ExtractTurn
  <2>1. UNCHANGED <<block, literal, decode>>
    BY <1>2 DEF ExtractTurn
  <2>2. PICK it, item :
          /\ item \in HpackItem /\ items' = Append(items, item)
          /\ ItemError(item) # H2_OK =>
               extract' = [ret |-> ItemError(item), pos |-> extract.pos,
                           path |-> extract.path]
          /\ ItemError(item) = H2_OK =>
               /\ it.value \in Found
               /\ it.used \in 1 .. Len(block) - extract.pos
               /\ extract' = [ret |-> Running, pos |-> extract.pos + it.used,
                              path |-> IF it.value = << >> THEN extract.path
                                       ELSE it.value[1]]
    BY <1>2, ExtractTurned
  <2>3. items' \in Seq(HpackItem)
    BY <1>1, <2>2
  <2>4. PICK e \in ExtractLocals, n \in Nat : e = extract /\ n = Len(block)
    BY <1>1
  <2>5. e.pos \in Nat /\ e.path \in Seq(Bytes) /\ e.pos <= n
    BY <1>1, <2>4 DEF ExtractLocals
  <2>6. CASE ItemError(item) # H2_OK
    <3>1. ItemError(item) \in Codes
      BY <2>2 DEF ItemError, HpackItem, Codes
    <3>2. extract' = [ret |-> ItemError(item), pos |-> e.pos, path |-> e.path]
      BY <2>2, <2>4, <2>6
    <3>3. extract' \in ExtractLocals /\ extract'.pos = e.pos
      BY <2>5, <3>1, <3>2 DEF ExtractLocals
    <3> QED  BY <1>1, <2>1, <2>3, <2>4, <2>5, <3>3 DEF BlockType
  <2>7. CASE ItemError(item) = H2_OK
    <3>1. PICK w : w = IF it.value = << >> THEN e.path ELSE it.value[1]
      OBVIOUS
    <3>2. w \in Seq(Bytes)
      <4>1. CASE it.value = << >>
        BY <2>5, <3>1, <4>1
      <4>2. CASE it.value # << >>
        <5>1. PICK t \in Seq(Bytes) : it.value = <<t>>
          BY <2>2, <2>7, <4>2 DEF Found
        <5>2. w = t
          BY <3>1, <4>2, <5>1
        <5> QED  BY <5>2
      <4> QED  BY <4>1, <4>2
    <3>3. PICK q \in Nat : q = e.pos + it.used /\ q <= n
      BY <2>2, <2>4, <2>5, <2>7
    <3>4. extract' = [ret |-> Running, pos |-> q, path |-> w]
      BY <2>2, <2>4, <2>7, <3>1, <3>3
    <3>5. extract' \in ExtractLocals /\ extract'.pos = q
      BY <3>2, <3>4 DEF ExtractLocals
    <3> QED  BY <1>1, <2>1, <2>3, <2>4, <3>3, <3>5 DEF BlockType
  <2> QED  BY <2>6, <2>7
<1>3. CASE ExtractEnd
  <2>1. PICK code \in {H2_PROTOCOL_ERROR, H2_OK} :
          extract' = [ret |-> code, pos |-> extract.pos, path |-> extract.path]
    BY <1>3, ExtractEnded
  <2>2. UNCHANGED <<block, literal, decode, items>>
    BY <1>3, ExtractEnded
  <2>3. extract' \in ExtractLocals /\ extract'.pos = extract.pos
    BY <1>1, <2>1 DEF ExtractLocals, Codes
  <2> QED  BY <1>1, <2>2, <2>3 DEF BlockType
<1>4. CASE DecodeTurn
  <2>1. UNCHANGED <<block, literal, extract, items>>
    BY <1>4 DEF DecodeTurn
  <2>2. PICK f :
          /\ Reads(f, decode.pos)
          /\ \/ \E code \in Codes \ {H2_OK} :
                  decode' = [ret |-> code, pos |-> decode.pos,
                             fields |-> decode.fields]
             \/ /\ f.ret = H2_OK /\ f.value \in Added
                /\ decode' = [ret |-> Running, pos |-> decode.pos + f.used,
                              fields |-> decode.fields \o f.value]
    BY <1>4, DecodeTurned
  <2>3. PICK e \in DecodeLocals, n \in Nat : e = decode /\ n = Len(block)
    BY <1>1
  <2>4. e.pos \in Nat /\ e.fields \in Seq(Fields) /\ e.pos <= n
    BY <1>1, <2>3 DEF DecodeLocals
  <2>5. CASE \E code \in Codes \ {H2_OK} :
               decode' = [ret |-> code, pos |-> decode.pos, fields |-> decode.fields]
    <3>1. PICK code \in Codes :
             decode' = [ret |-> code, pos |-> e.pos, fields |-> e.fields]
      BY <2>3, <2>5
    <3>2. decode' \in DecodeLocals /\ decode'.pos = e.pos
      BY <2>4, <3>1 DEF DecodeLocals
    <3> QED  BY <1>1, <2>1, <2>3, <2>4, <3>2 DEF BlockType
  <2>6. CASE /\ f.ret = H2_OK /\ f.value \in Added
             /\ decode' = [ret |-> Running, pos |-> decode.pos + f.used,
                           fields |-> decode.fields \o f.value]
    <3>1. f.value \in Seq(Fields)
      BY <2>6, AddedSeq
    <3>2. PICK w \in Seq(Fields) : w = e.fields \o f.value
      BY <2>4, <3>1, JoinedSeq, Zenon
    <3>3. PICK q \in Nat : q = e.pos + f.used /\ q <= n
      BY <2>2, <2>3, <2>4, <2>6 DEF Reads
    <3>4. decode' = [ret |-> Running, pos |-> q, fields |-> w]
      BY <2>3, <2>6, <3>2, <3>3
    <3>5. decode' \in DecodeLocals /\ decode'.pos = q
      BY <3>4 DEF DecodeLocals
    <3> QED  BY <1>1, <2>1, <2>3, <3>3, <3>5 DEF BlockType
  <2> QED  BY <2>2, <2>5, <2>6
<1>5. CASE DecodeDone
  <2>1. /\ decode' = [ret |-> H2_OK, pos |-> decode.pos, fields |-> decode.fields]
        /\ UNCHANGED <<block, literal, extract, items>>
    BY <1>5, DecodeEnded
  <2>2. decode' \in DecodeLocals /\ decode'.pos = decode.pos
    BY <1>1, <2>1 DEF DecodeLocals, Codes
  <2> QED  BY <1>1, <2>1, <2>2 DEF BlockType
<1>6. CASE UNCHANGED blockVars
  BY <1>1, <1>6 DEF blockVars, BlockType
<1> QED  BY <1>2, <1>3, <1>4, <1>5, <1>6 DEF BlockNext

LEMMA BlockTypeAlways == BlockSpec => []BlockType
  BY BlockTypeInit, BlockTypeNext, PTL DEF BlockSpec

(* For every block of bytes, static table and size of the buffers: no      *)
(* length in the block takes either decoder behind its end, and no turn of *)
(* their loops leaves them where they are.                                 *)
THEOREM InBoundsCorrect == BlockSpec => InBounds
<1> DEFINE A == \A d \in {<<extract, extract'>>, <<decode, decode'>>} :
                  d[1] # d[2] => \/ d[2].ret # Running
                                 \/ d[2].pos \in d[1].pos + 1 .. Len(block)
<1>1. BlockType /\ [BlockNext]_blockVars => [A]_blockVars
  <2> SUFFICES ASSUME BlockType, BlockNext PROVE A
    OBVIOUS
  <2> SUFFICES /\ \/ extract = extract' \/ extract'.ret # Running
                  \/ extract'.pos \in extract.pos + 1 .. Len(block)
               /\ \/ decode = decode' \/ decode'.ret # Running
                  \/ decode'.pos \in decode.pos + 1 .. Len(block)
    OBVIOUS
  <2>1. /\ Len(block) \in Nat /\ extract.pos \in Nat /\ decode.pos \in Nat
    BY DEF BlockType, ExtractLocals, DecodeLocals
  <2>2. \A c \in Codes \cup {H2_PROTOCOL_ERROR} : c # Running
    BY DEF Codes, Running, H2_OK, H2_PROTOCOL_ERROR, H2_COMPRESSION_ERROR,
           H2_REFUSED_STREAM
  <2>3. CASE ExtractTurn
    <3>1. decode' = decode
      BY <2>3 DEF ExtractTurn
    <3>2. PICK it, item :
            /\ item \in HpackItem
            /\ ItemError(item) # H2_OK =>
                 extract' = [ret |-> ItemError(item), pos |-> extract.pos,
                             path |-> extract.path]
            /\ ItemError(item) = H2_OK =>
                 /\ it.used \in 1 .. Len(block) - extract.pos
                 /\ extract' = [ret |-> Running, pos |-> extract.pos + it.used,
                                path |-> IF it.value = << >> THEN extract.path
                                         ELSE it.value[1]]
      BY <2>3, ExtractTurned
    <3>3. CASE ItemError(item) # H2_OK
      <4>1. ItemError(item) \in Codes
        BY <3>2 DEF ItemError, HpackItem, Codes
      <4>2. extract'.ret = ItemError(item)
        BY <3>2, <3>3
      <4> QED  BY <2>2, <3>1, <4>1, <4>2
    <3>4. CASE ItemError(item) = H2_OK
      <4>1. extract'.pos = extract.pos + it.used
        BY <3>2, <3>4
      <4>2. it.used \in 1 .. Len(block) - extract.pos
        BY <3>2, <3>4
      <4>3. extract'.pos \in extract.pos + 1 .. Len(block)
        BY <2>1, <4>1, <4>2
      <4> QED  BY <3>1, <4>3
    <3> QED  BY <3>3, <3>4
  <2>4. CASE ExtractEnd
    <3>1. extract'.ret \in {H2_PROTOCOL_ERROR, H2_OK} /\ decode' = decode
      BY <2>4, ExtractEnded
    <3> QED  BY <2>2, <3>1 DEF Codes
  <2>5. CASE DecodeTurn
    <3>1. extract' = extract
      BY <2>5 DEF DecodeTurn
    <3>2. PICK f :
            /\ Reads(f, decode.pos)
            /\ \/ \E code \in Codes \ {H2_OK} :
                    decode' = [ret |-> code, pos |-> decode.pos,
                               fields |-> decode.fields]
               \/ /\ f.ret = H2_OK
                  /\ decode' = [ret |-> Running, pos |-> decode.pos + f.used,
                                fields |-> decode.fields \o f.value]
      BY <2>5, DecodeTurned
    <3>3. CASE \E code \in Codes \ {H2_OK} :
                 decode' = [ret |-> code, pos |-> decode.pos, fields |-> decode.fields]
      <4>1. decode'.ret \in Codes
        BY <3>3
      <4> QED  BY <2>2, <3>1, <4>1
    <3>4. CASE /\ f.ret = H2_OK
               /\ decode' = [ret |-> Running, pos |-> decode.pos + f.used,
                             fields |-> decode.fields \o f.value]
      <4>1. decode'.pos = decode.pos + f.used
        BY <3>4
      <4>2. f.used \in 1 .. Len(block) - decode.pos
        BY <3>2, <3>4 DEF Reads
      <4>3. decode'.pos \in decode.pos + 1 .. Len(block)
        BY <2>1, <4>1, <4>2
      <4> QED  BY <3>1, <4>3
    <3> QED  BY <3>2, <3>3, <3>4
  <2>6. CASE DecodeDone
    <3>1. decode'.ret = H2_OK /\ extract' = extract
      BY <2>6, DecodeEnded
    <3> QED  BY <2>2, <3>1 DEF Codes
  <2> QED  BY <2>3, <2>4, <2>5, <2>6 DEF BlockNext
<1> QED  BY <1>1, BlockTypeAlways, PTL DEF BlockSpec, InBounds

-----------------------------------------------------------------------------
(* The block of the connection model.                                      *)

(* While the loop runs no instruction has failed, and the last path among  *)
(* them is as long as the one copied.                                      *)
ItemsInv ==
    /\ extract.ret = Running => /\ Clean(items)
                                /\ LastPath(items) = Len(extract.path)
    /\ ItemsSuffice

LEMMA ItemsInvInit == BlockInit => ItemsInv
<1> SUFFICES ASSUME BlockInit PROVE ItemsInv
  OBVIOUS
<1>1. items = << >> /\ extract = [ret |-> Running, pos |-> 0, path |-> << >>]
  BY DEF BlockInit
<1>2. extract.ret = Running /\ Len(extract.path) = 0
  BY <1>1
<1>3. DOMAIN items = {}
  BY <1>1
<1>4. Clean(items) /\ LastPath(items) = 0
  BY <1>3 DEF Clean, LastPath, PathItems
<1> QED  BY <1>2, <1>4 DEF ItemsInv, ItemsSuffice

LEMMA ItemsInvNext == BlockType /\ ItemsInv /\ [BlockNext]_blockVars => ItemsInv'
<1> SUFFICES ASSUME BlockType, ItemsInv, [BlockNext]_blockVars PROVE ItemsInv'
  OBVIOUS
<1>1. \A c \in Codes \cup {H2_PROTOCOL_ERROR} : c # Running
  BY DEF Codes, Running, H2_OK, H2_PROTOCOL_ERROR, H2_COMPRESSION_ERROR,
         H2_REFUSED_STREAM
<1>2. PICK s \in Seq(HpackItem), e \in ExtractLocals : s = items /\ e = extract
  BY DEF BlockType
<1>3. e.path \in Seq(Bytes)
  BY DEF ExtractLocals
<1>4. CASE ExtractTurn
  <2>1. Clean(s) /\ LastPath(s) = Len(e.path)
    BY <1>2, <1>4 DEF ItemsInv, ExtractTurn
  <2>2. PICK it, item :
          /\ item \in HpackItem /\ items' = Append(items, item)
          /\ ItemError(item) # H2_OK =>
               extract' = [ret |-> ItemError(item), pos |-> extract.pos,
                           path |-> extract.path]
          /\ ItemError(item) = H2_OK =>
               /\ it.value \in Found
               /\ extract' = [ret |-> Running, pos |-> extract.pos + it.used,
                              path |-> IF it.value = << >> THEN extract.path
                                       ELSE it.value[1]]
               /\ item.path = IF it.value = << >> THEN NotPath
                              ELSE Len(it.value[1])
    BY <1>4, ExtractTurned
  <2>3. CASE ItemError(item) # H2_OK
    <3>1. ItemError(item) \in Codes
      BY <2>2 DEF ItemError, HpackItem, Codes
    <3>2. extract'.ret = ItemError(item) /\ extract'.path = e.path
      BY <1>2, <2>2, <2>3
    <3>3. ExtractPath(Append(s, item)) = [ret |-> ItemError(item), path |-> LastPath(s)]
      BY <2>1, <2>2, <2>3, FailExtract
    <3>4. items' = Append(s, item)
      BY <1>2, <2>2
    <3>5. extract'.ret # Running
      BY <1>1, <3>1, <3>2
    <3> QED  BY <2>1, <3>2, <3>3, <3>4, <3>5 DEF ItemsInv, ItemsSuffice
  <2>4. CASE ItemError(item) = H2_OK
    <3>1. PICK w : w = IF it.value = << >> THEN e.path ELSE it.value[1]
      OBVIOUS
    <3>2. extract'.ret = Running /\ extract'.path = w
      BY <1>2, <2>2, <2>4, <3>1
    <3>3. items' = Append(s, item) /\ Clean(Append(s, item))
      BY <1>2, <2>1, <2>2, <2>4, CleanAppended
    <3>4. LastPath(Append(s, item)) = IF item.path # NotPath THEN item.path
                                      ELSE LastPath(s)
      BY <2>2, LastPathAppended
    <3>5. LastPath(Append(s, item)) = Len(w)
      <4>1. CASE it.value = << >>
        BY <2>1, <2>2, <2>4, <3>1, <3>4, <4>1
      <4>2. CASE it.value # << >>
        <5>1. PICK t \in Seq(Bytes) : it.value = <<t>>
          BY <2>2, <2>4, <4>2 DEF Found
        <5>2. w = t /\ item.path = Len(t)
          BY <2>2, <2>4, <3>1, <4>2, <5>1
        <5>3. Len(t) # NotPath
          BY DEF NotPath
        <5> QED  BY <3>4, <5>2, <5>3
      <4> QED  BY <4>1, <4>2
    <3> QED  BY <3>2, <3>3, <3>5 DEF ItemsInv, ItemsSuffice
  <2> QED  BY <2>3, <2>4
<1>5. CASE ExtractEnd
  <2>1. /\ extract' = [ret |-> IF e.path = << >> THEN H2_PROTOCOL_ERROR ELSE H2_OK,
                       pos |-> e.pos, path |-> e.path]
        /\ e.ret = Running /\ items' = s
    BY <1>2, <1>5, ExtractEnded
  <2>2. Clean(s) /\ LastPath(s) = Len(e.path)
    BY <1>2, <2>1 DEF ItemsInv
  <2>3. ExtractPath(s) = [ret  |-> IF LastPath(s) = 0 THEN H2_PROTOCOL_ERROR ELSE H2_OK,
                          path |-> LastPath(s)]
    BY <2>2, CleanExtract
  <2>4. e.path = << >> <=> Len(e.path) = 0
    BY <1>3
  <2>5. ExtractPath(s) = [ret |-> extract'.ret, path |-> Len(extract'.path)]
    BY <2>1, <2>2, <2>3, <2>4
  <2>6. extract'.ret # Running
    BY <1>1, <2>1 DEF Codes
  <2> QED  BY <2>1, <2>5, <2>6 DEF ItemsInv, ItemsSuffice
<1>6. CASE DecodeTurn \/ DecodeDone \/ UNCHANGED blockVars
  <2>1. extract' = extract /\ items' = items
    BY <1>6 DEF DecodeTurn, DecodeDone, blockVars
  <2> QED  BY <2>1 DEF ItemsInv, ItemsSuffice
<1> QED  BY <1>4, <1>5, <1>6 DEF BlockNext

(* The connection model reads a block as its instructions, each an error   *)
(* or the length of a path; for every block of bytes h2_hpack_extract_path *)
(* returns the code and copies a path of the length that this gives.       *)
THEOREM ItemsSufficeCorrect == BlockSpec => []ItemsSuffice
<1>1. ItemsInv => ItemsSuffice
  BY DEF ItemsInv
<1> QED  BY <1>1, BlockTypeAlways, ItemsInvInit, ItemsInvNext, PTL DEF BlockSpec

-----------------------------------------------------------------------------
(* The two decoders on the same block.                                     *)

(* The block is input: what is read of it stays. *)
LEMMA TurnsSame ==
    ASSUME NEW p, NEW m, block' = block
    PROVE  DecodeTurns(p, m)' = DecodeTurns(p, m)
  BY DEF DecodeTurns

LEMMA IntegerSame ==
    ASSUME NEW p, NEW m, block' = block
    PROVE  DecodeInteger(p, m)' = DecodeInteger(p, m)
  BY TurnsSame DEF DecodeInteger

LEMMA SkipSame ==
    ASSUME NEW p, NEW c, block' = block
    PROVE  SkipString(p, c)' = SkipString(p, c)
  BY IntegerSame DEF SkipString

LEMMA StringSame ==
    ASSUME NEW p, NEW c, block' = block
    PROVE  DecodeString(p, c)' = DecodeString(p, c)
  BY IntegerSame DEF DecodeString, Huffman

LEMMA NameSame ==
    ASSUME NEW p, NEW m, block' = block
    PROVE  LiteralName(p, m)' = LiteralName(p, m)
  BY IntegerSame, StringSame DEF LiteralName

LEMMA PathSame ==
    ASSUME NEW p, block' = block
    PROVE  PathIn(p)' = PathIn(p)
  BY IntegerSame, StringSame, SkipSame, NameSame
     DEF PathIn, NameMax, Indexed, SizeUpdate

(* The value of the last :path field *)
Picked(fields) ==
    LET paths == {k \in DOMAIN fields : fields[k].name = PathName}
    IN  IF paths = {} THEN << >> ELSE fields[Last(paths)].value

LEMMA PickedAppended ==
    ASSUME NEW S, NEW s \in Seq(S), NEW x \in S
    PROVE  Picked(Append(s, x)) = IF x.name = PathName THEN x.value ELSE Picked(s)
<1> DEFINE t == Append(s, x)
           P(f) == {k \in DOMAIN f : f[k].name = PathName}
<1>1. PICK n \in Nat : n = Len(s)
  OBVIOUS
<1>2. /\ DOMAIN s = 1 .. n /\ DOMAIN t = 1 .. n + 1
      /\ t[n + 1] = x /\ \A k \in 1 .. n : t[k] = s[k]
  BY <1>1
<1> HIDE DEF t
<1>3. P(s) \subseteq 1 .. n
  BY <1>2
<1>4. P(t) = IF x.name = PathName THEN P(s) \cup {n + 1} ELSE P(s)
  <2>1. 1 .. n + 1 = (1 .. n) \cup {n + 1} /\ n + 1 \notin 1 .. n
    OBVIOUS
  <2> QED  BY <1>2, <2>1
<1>5. P(s) # {} => t[Last(P(s))] = s[Last(P(s))]
  <2> HIDE DEF P
  <2> QED  BY <1>2, <1>3, LastExists
<1>6. \A f : Picked(f) = IF P(f) = {} THEN << >> ELSE f[Last(P(f))].value
  BY DEF Picked
<1> HIDE DEF P
<1>7. CASE x.name = PathName
  <2> DEFINE R == P(s) \cup {n + 1}
  <2>1. R \subseteq 1 .. n + 1 /\ R # {} /\ n + 1 \in R
    BY <1>3
  <2> HIDE DEF R
  <2>2. PICK m \in Nat : m = n + 1
    OBVIOUS
  <2>3. Last(R) \in R /\ \A j \in R : j <= Last(R)
    BY <2>1, <2>2, LastExists
  <2>4. Last(R) = n + 1
    <3>1. Last(R) \in 1 .. n + 1 /\ n + 1 <= Last(R)
      BY <2>1, <2>3
    <3> QED  BY <3>1
  <2>5. P(t) = R
    BY <1>4, <1>7 DEF R
  <2>6. Picked(t) = t[n + 1].value
    BY <1>6, <2>1, <2>4, <2>5
  <2> QED  BY <1>2, <1>7, <2>6 DEF t
<1>8. CASE x.name # PathName
  <2>1. P(t) = P(s)
    BY <1>4, <1>8
  <2>2. Picked(t) = Picked(s)
    BY <1>5, <1>6, <2>1
  <2> QED  BY <1>8, <2>2 DEF t
<1> QED  BY <1>7, <1>8

(* What a field that is added does to it: what h2_hpack_extract_path does. *)
LEMMA PickedAdded ==
    ASSUME NEW s \in Seq(Fields), NEW v \in Added
    PROVE  /\ Picked(s \o v) = IF PathOf(v) = << >> THEN Picked(s) ELSE PathOf(v)[1]
           /\ PathOf(v) # << >> => Len(PathOf(v)[1]) < PathCap
<1>1. CASE v = << >>
  <2>1. PathOf(v) = << >>
    BY <1>1 DEF PathOf
  <2>2. ASSUME NEW S, NEW a \in Seq(S) PROVE a \o << >> = a
    OBVIOUS
  <2>3. s \o v = s
    BY <1>1, <2>2
  <2> QED  BY <2>1, <2>3
<1>2. CASE \E f \in Fields : v = <<f>>
  <2>1. PICK f \in Fields : v = <<f>>
    BY <1>2
  <2>2. ASSUME NEW S, NEW a \in Seq(S), NEW x \in S PROVE a \o <<x>> = Append(a, x)
    OBVIOUS
  <2>3. s \o v = Append(s, f)
    BY <2>1, <2>2
  <2>4. Picked(s \o v) = IF f.name = PathName THEN f.value ELSE Picked(s)
    BY <2>3, PickedAppended
  <2>5. v # << >> /\ v[1] = f
    BY <2>1
  <2>6. PathOf(v) = IF f.name = PathName THEN <<f.value>> ELSE << >>
    BY <2>5 DEF PathOf
  <2>7. <<f.value>> # << >> /\ <<f.value>>[1] = f.value
    OBVIOUS
  <2>8. Len(f.value) < PathCap
    <3>1. f.value \in Seq(Bytes) /\ Len(f.value) < ValueCap
      BY DEF Fields
    <3>2. Len(f.value) \in Nat
      BY <3>1
    <3> QED  BY <3>1, <3>2, BlockAssumption, PathCapAssumption
  <2> QED  BY <2>4, <2>6, <2>7, <2>8
<1> QED  BY <1>1, <1>2 DEF Added

(* Where a decoder stands: its offset, and the path it has found.  One     *)
(* turn of h2_hpack_extract_path, and when it does not fail.               *)
At(pos, path) == [pos |-> pos, path |-> path]

After(r) == LET it == PathIn(r.pos)
            IN  At(r.pos + it.used,
                   IF it.value = << >> THEN r.path ELSE it.value[1])

Goes(p) == /\ PathIn(p).ret = H2_OK
           /\ PathIn(p).value # << >> => Len(PathIn(p).value[1]) < PathCap

Here == At(extract.pos, extract.path)

(* R holds the places where the extractor stood.  It left each one by its  *)
(* turn, except the last, where it failed or met the end of the block.     *)
(* The decoder goes through the same places.                               *)
Walk(R) ==
    /\ Here \in R
    /\ \A r \in R : r # Here => r.pos < Len(block) /\ After(r) \in R
    /\ extract.ret # Running
       => IF extract.pos < Len(block) THEN ~Goes(extract.pos)
          ELSE extract.ret = IF extract.path = << >> THEN H2_PROTOCOL_ERROR ELSE H2_OK
    /\ decode.ret \in {Running, H2_OK} => At(decode.pos, Picked(decode.fields)) \in R
    /\ decode.ret = H2_OK => extract.ret # Running /\ decode.pos >= Len(block)

WalkInv == \E R : Walk(R)

LEMMA WalkInit == BlockInit => WalkInv
<1> SUFFICES ASSUME BlockInit PROVE WalkInv
  OBVIOUS
<1>1. /\ extract.ret = Running /\ extract.pos = 0 /\ extract.path = << >>
      /\ decode.ret = Running /\ decode.pos = 0 /\ decode.fields = << >>
  BY DEF BlockInit
<1>2. Picked(<< >>) = << >>
  <2>1. DOMAIN << >> = {}
    OBVIOUS
  <2> QED  BY <2>1 DEF Picked
<1>3. Here = At(0, << >>)
  BY <1>1 DEF Here
<1>4. Running # H2_OK
  BY DEF Running, H2_OK
<1>5. Walk({At(0, << >>)})
  BY <1>1, <1>2, <1>3, <1>4 DEF Walk
<1> QED  BY <1>5 DEF WalkInv

LEMMA AfterSame ==
    ASSUME NEW r, NEW p, block' = block
    PROVE  After(r)' = After(r) /\ Goes(p)' = Goes(p)
  BY PathSame DEF After, Goes

(* Steps of the decoder keep the extractor's part. *)
LEMMA WalkSame ==
    ASSUME NEW R, Walk(R), block' = block, extract' = extract,
           decode'.ret \in {Running, H2_OK}
             => At(decode'.pos, Picked(decode'.fields)) \in R,
           decode'.ret = H2_OK => extract.ret # Running /\ decode'.pos >= Len(block)
    PROVE  WalkInv'
<1>1. Here' = Here
  BY DEF Here
<1>2. \A r : After(r)' = After(r)
  BY AfterSame
<1>3. Goes(extract.pos)' = Goes(extract.pos)
  <2>1. PICK p : p = extract.pos
    OBVIOUS
  <2>2. Goes(p)' = Goes(p)
    BY AfterSame
  <2>3. Goes(extract.pos)' = Goes(p)'
    BY <2>1 DEF Goes
  <2> QED  BY <2>1, <2>2, <2>3
<1>4. Walk(R)'
  BY <1>1, <1>2, <1>3 DEF Walk
<1> QED  BY <1>4 DEF WalkInv

LEMMA WalkExtract == ASSUME BlockType, WalkInv, ExtractTurn PROVE WalkInv'
<1>1. PICK R : Walk(R)
  BY DEF WalkInv
<1>2. PICK p, w : p \in Nat /\ p = extract.pos /\ w = extract.path
  BY DEF BlockType, ExtractLocals
<1>3. /\ extract.ret = Running /\ p < Len(block)
      /\ block' = block /\ decode' = decode
  BY <1>2 DEF ExtractTurn
<1>4. decode.ret # H2_OK
  BY <1>1, <1>3 DEF Walk
<1>5. PICK it, item :
        /\ it = PathIn(extract.pos) /\ item \in HpackItem
        /\ ItemError(item) # H2_OK =>
             extract' = [ret |-> ItemError(item), pos |-> extract.pos,
                         path |-> extract.path]
        /\ ItemError(item) = H2_OK =>
             /\ it.ret = H2_OK
             /\ extract' = [ret |-> Running, pos |-> extract.pos + it.used,
                            path |-> IF it.value = << >> THEN extract.path
                                     ELSE it.value[1]]
        /\ it.ret = H2_OK /\ (it.value # << >> => Len(it.value[1]) < PathCap)
             => ItemError(item) = H2_OK
  BY ExtractTurned
<1>6. \A r : After(r)' = After(r)
  BY <1>3, AfterSame
<1>7. Here = At(p, w)
  BY <1>2 DEF Here
<1>8. CASE ItemError(item) # H2_OK
  <2>1. extract'.ret = ItemError(item) /\ extract'.pos = p /\ extract'.path = w
    BY <1>2, <1>5, <1>8
  <2>2. Here' = At(p, w)
    BY <2>1 DEF Here
  <2>3. ~Goes(p)
    BY <1>2, <1>5, <1>8 DEF Goes
  <2>4. ~Goes(extract.pos)'
    <3>1. Goes(p)' = Goes(p)
      BY <1>3, AfterSame
    <3>2. Goes(extract.pos)' <=> Goes(p)'
      BY <2>1 DEF Goes
    <3> QED  BY <2>3, <3>1, <3>2
  <2>5. (extract.pos < Len(block))'
    BY <1>3, <2>1
  <2>6. Walk(R)'
    BY <1>1, <1>3, <1>4, <1>6, <1>7, <2>2, <2>4, <2>5 DEF Walk
  <2> QED  BY <2>6 DEF WalkInv
<1>9. CASE ItemError(item) = H2_OK
  <2>1. PICK h : h = Here'
    OBVIOUS
  <2>2. /\ extract'.ret = Running
        /\ extract'.pos = p + it.used
        /\ extract'.path = IF it.value = << >> THEN w ELSE it.value[1]
    BY <1>2, <1>5, <1>9
  <2>3. h = After(At(p, w))
    BY <1>2, <1>5, <2>1, <2>2 DEF Here, After, At
  <2>4. At(p, w).pos = p
    BY DEF At
  <2>5. ASSUME NEW r \in R \cup {h}, r # h
        PROVE  r.pos < Len(block) /\ After(r) \in R \cup {h}
    <3>1. CASE r = At(p, w)
      BY <1>3, <2>3, <2>4, <3>1
    <3>2. CASE r # At(p, w)
      BY <1>1, <1>7, <2>5, <3>2 DEF Walk
    <3> QED  BY <3>1, <3>2
  <2>6. Walk(R \cup {h})'
    BY <1>1, <1>3, <1>4, <1>6, <2>1, <2>2, <2>5 DEF Walk
  <2> QED  BY <2>6 DEF WalkInv
<1> QED  BY <1>8, <1>9

LEMMA WalkEnd == ASSUME BlockType, WalkInv, ExtractEnd PROVE WalkInv'
<1>1. PICK R : Walk(R)
  BY DEF WalkInv
<1>2. /\ extract' = [ret |-> IF extract.path = << >> THEN H2_PROTOCOL_ERROR ELSE H2_OK,
                     pos |-> extract.pos, path |-> extract.path]
      /\ extract.ret = Running /\ extract.pos >= Len(block)
      /\ block' = block /\ decode' = decode
  BY ExtractEnded
<1>3. Here' = Here
  BY <1>2 DEF Here
<1>4. \A r : After(r)' = After(r)
  BY <1>2, AfterSame
<1>5. decode.ret # H2_OK
  BY <1>1, <1>2 DEF Walk
<1>6. ~(extract.pos < Len(block))'
  BY <1>2 DEF BlockType, ExtractLocals
<1>7. (extract.ret = IF extract.path = << >> THEN H2_PROTOCOL_ERROR ELSE H2_OK)'
  BY <1>2
<1>8. Walk(R)'
  BY <1>1, <1>2, <1>3, <1>4, <1>5, <1>6, <1>7 DEF Walk
<1> QED  BY <1>8 DEF WalkInv

(* The decoder reads what the extractor read: it takes the same turn, and  *)
(* where the extractor stopped before the end it does not go on either.    *)
LEMMA WalkDecode == ASSUME BlockType, WalkInv, DecodeTurn PROVE WalkInv'
<1>1. PICK R : Walk(R)
  BY DEF WalkInv
<1>2. PICK p \in Nat, s \in Seq(Fields) : p = decode.pos /\ s = decode.fields
  BY DEF BlockType, DecodeLocals
<1>3. /\ block' = block /\ extract' = extract
      /\ extract.ret # Running /\ decode.ret = Running /\ p < Len(block)
  BY <1>2 DEF DecodeTurn
<1>4. PICK f :
        \/ \E code \in Codes \ {H2_OK} :
             decode' = [ret |-> code, pos |-> decode.pos, fields |-> decode.fields]
        \/ /\ f.ret = H2_OK /\ f.value \in Added
           /\ PathIn(decode.pos).ret = H2_OK
           /\ PathIn(decode.pos).used = f.used
           /\ PathIn(decode.pos).value = PathOf(f.value)
           /\ decode' = [ret |-> Running, pos |-> decode.pos + f.used,
                         fields |-> decode.fields \o f.value]
  BY DecodeTurned
<1>5. CASE \E code \in Codes \ {H2_OK} :
             decode' = [ret |-> code, pos |-> decode.pos, fields |-> decode.fields]
  <2>1. decode'.ret \in Codes \ {H2_OK}
    BY <1>5
  <2>2. decode'.ret # Running /\ decode'.ret # H2_OK
    BY <2>1 DEF Codes, Running, H2_OK, H2_COMPRESSION_ERROR, H2_REFUSED_STREAM
  <2> QED  BY <1>1, <1>3, <2>2, WalkSame
<1>6. CASE /\ f.ret = H2_OK /\ f.value \in Added
           /\ PathIn(decode.pos).ret = H2_OK
           /\ PathIn(decode.pos).used = f.used
           /\ PathIn(decode.pos).value = PathOf(f.value)
           /\ decode' = [ret |-> Running, pos |-> decode.pos + f.used,
                         fields |-> decode.fields \o f.value]
  <2>1. PICK v \in Added : v = f.value
    BY <1>6
  <2>2. /\ PathIn(p).ret = H2_OK /\ PathIn(p).used = f.used
        /\ PathIn(p).value = PathOf(v)
    BY <1>2, <1>6, <2>1
  <2>3. /\ decode'.ret = Running /\ decode'.pos = p + f.used
        /\ decode'.fields = s \o v
    BY <1>2, <1>6, <2>1
  <2>4. /\ Picked(s \o v) = IF PathOf(v) = << >> THEN Picked(s) ELSE PathOf(v)[1]
        /\ PathOf(v) # << >> => Len(PathOf(v)[1]) < PathCap
    BY PickedAdded
  <2>5. Goes(p)
    BY <2>2, <2>4 DEF Goes
  <2>6. PICK r : r = At(p, Picked(s))
    OBVIOUS
  <2>7. r \in R
    BY <1>1, <1>2, <1>3, <2>6 DEF Walk
  <2>8. r # Here
    <3>1. r.pos = p
      BY <2>6 DEF At
    <3>2. r = Here => extract.pos = p
      BY <3>1 DEF Here, At
    <3>3. extract.pos = p => ~Goes(p)
      BY <1>1, <1>3 DEF Walk
    <3> QED  BY <2>5, <3>2, <3>3
  <2>9. After(r) \in R
    BY <1>1, <2>7, <2>8 DEF Walk
  <2>10. After(r) = At(p + f.used, Picked(s \o v))
    <3>1. r.pos = p /\ r.path = Picked(s)
      BY <2>6 DEF At
    <3> QED  BY <2>2, <2>4, <3>1 DEF After
  <2>11. At(decode'.pos, Picked(decode'.fields)) \in R
    BY <2>3, <2>9, <2>10
  <2>12. decode'.ret # H2_OK
    BY <2>3 DEF Running, H2_OK
  <2> QED  BY <1>1, <1>3, <2>11, <2>12, WalkSame
<1> QED  BY <1>4, <1>5, <1>6

LEMMA WalkNext == BlockType /\ WalkInv /\ [BlockNext]_blockVars => WalkInv'
<1> SUFFICES ASSUME BlockType, WalkInv, [BlockNext]_blockVars PROVE WalkInv'
  OBVIOUS
<1>1. CASE ExtractTurn
  BY <1>1, WalkExtract
<1>2. CASE ExtractEnd
  BY <1>2, WalkEnd
<1>3. CASE DecodeTurn
  BY <1>3, WalkDecode
<1>4. CASE DecodeDone
  <2>1. PICK R : Walk(R)
    BY DEF WalkInv
  <2>2. /\ decode' = [ret |-> H2_OK, pos |-> decode.pos, fields |-> decode.fields]
        /\ extract.ret # Running
        /\ decode.ret = Running /\ decode.pos >= Len(block)
        /\ block' = block /\ extract' = extract
    BY <1>4, DecodeEnded
  <2>3. decode'.pos = decode.pos /\ decode'.fields = decode.fields
    BY <2>2
  <2>4. At(decode.pos, Picked(decode.fields)) \in R
    BY <2>1, <2>2 DEF Walk
  <2> QED  BY <2>1, <2>2, <2>3, <2>4, WalkSame
<1>5. CASE UNCHANGED blockVars
  <2>1. PICK R : Walk(R)
    BY DEF WalkInv
  <2>2. block' = block /\ extract' = extract /\ decode' = decode
    BY <1>5 DEF blockVars
  <2> QED  BY <2>1, <2>2, WalkSame DEF Walk
<1> QED  BY <1>1, <1>2, <1>3, <1>4, <1>5 DEF BlockNext

LEMMA WalkAgrees == BlockType /\ WalkInv => PathAgrees
<1> SUFFICES ASSUME BlockType, WalkInv, decode.ret = H2_OK
             PROVE  /\ extract.path = Picked(decode.fields)
                    /\ extract.ret = IF Picked(decode.fields) = << >>
                                     THEN H2_PROTOCOL_ERROR ELSE H2_OK
  BY DEF PathAgrees, Picked
<1>1. PICK R : Walk(R)
  BY DEF WalkInv
<1>2. PICK p \in Nat, n \in Nat : p = decode.pos /\ n = Len(block)
  BY DEF BlockType, DecodeLocals
<1>3. PICK r : r = At(p, Picked(decode.fields))
  OBVIOUS
<1>4. r \in R /\ p >= n /\ extract.ret # Running
  BY <1>1, <1>2, <1>3 DEF Walk
<1>5. r.pos = p /\ r.path = Picked(decode.fields)
  BY <1>3 DEF At
<1>6. r = Here
  <2>1. r # Here => r.pos < n
    BY <1>1, <1>2, <1>4 DEF Walk
  <2> QED  BY <1>2, <1>4, <1>5, <2>1
<1>7. extract.pos = p /\ extract.path = Picked(decode.fields)
  BY <1>5, <1>6 DEF Here, At
<1>8. ~(extract.pos < Len(block))
  BY <1>2, <1>4, <1>7
<1>9. extract.ret = IF extract.path = << >> THEN H2_PROTOCOL_ERROR ELSE H2_OK
  BY <1>1, <1>4, <1>8 DEF Walk
<1> QED  BY <1>7, <1>9

(* On every block that h2_hpack_decode_headers accepts, and with every     *)
(* static table, h2_hpack_extract_path, which skips the values it does not *)
(* need, finds the last :path field and no other.                          *)
THEOREM PathAgreesCorrect == BlockSpec => []PathAgrees
  BY BlockTypeAlways, WalkInit, WalkNext, WalkAgrees, PTL DEF BlockSpec

-----------------------------------------------------------------------------
(* What the encoder writes, read back.                                     *)

(* The bytes s stand in the block behind offset q. *)
Holds(q, s) == \A i \in 1 .. Len(s) : q + i <= Len(block) /\ block[q + i] = s[i]

LEMMA HoldsJoined ==
    ASSUME NEW q \in Nat, NEW a \in Seq(Bytes), NEW b \in Seq(Bytes), Holds(q, a \o b)
    PROVE  Holds(q, a) /\ Holds(q + Len(a), b)
<1>1. PICK m \in Nat, n \in Nat : m = Len(a) /\ n = Len(b)
  OBVIOUS
<1>2. PICK c : c = a \o b
  OBVIOUS
<1>3. /\ Len(c) = m + n
      /\ \A i \in 1 .. m : c[i] = a[i]
      /\ \A i \in 1 .. n : c[m + i] = b[i]
  BY <1>1, <1>2
<1>4. \A i \in 1 .. m + n : q + i <= Len(block) /\ block[q + i] = c[i]
  BY <1>2, <1>3 DEF Holds
<1>5. ASSUME NEW i \in 1 .. m PROVE q + i <= Len(block) /\ block[q + i] = a[i]
  BY <1>3, <1>4
<1>6. ASSUME NEW i \in 1 .. n
      PROVE  (q + m) + i <= Len(block) /\ block[(q + m) + i] = b[i]
  <2>1. PICK j \in 1 .. m + n : j = m + i
    OBVIOUS
  <2>2. q + j <= Len(block) /\ block[q + j] = c[j] /\ c[j] = b[i]
    BY <1>3, <1>4, <2>1
  <2>3. q + j = (q + m) + i
    BY <2>1
  <2> QED  BY <2>2, <2>3
<1> QED  BY <1>1, <1>5, <1>6 DEF Holds

(* The first group of a value, and those behind it *)
LEMMA HoldsGroups ==
    ASSUME NEW q \in Nat, NEW r \in 0 .. MaxWord, Holds(q, Groups[r])
    PROVE  /\ q < Len(block) /\ Len(Groups[r]) \in Nat
           /\ r < 128 => block[q + 1] = r /\ Len(Groups[r]) = 1
           /\ r >= 128 => /\ block[q + 1] = 128 + (r % 128)
                          /\ r \div 128 \in 1 .. MaxWord
                          /\ Holds(q + 1, Groups[r \div 128])
                          /\ Len(Groups[r]) = 1 + Len(Groups[r \div 128])
<1>1. MaxWord \in Nat /\ Bytes = 0 .. 255
  BY BlockAssumption, HpackIntAssumption DEF Bytes
<1>2. Groups[r] \in Seq(Bytes)
  BY GroupsUnfold
<1>3. CASE r < 128
  <2>1. Groups[r] = <<r>>
    BY <1>3, GroupsUnfold
  <2>2. Len(<<r>>) = 1 /\ <<r>>[1] = r
    OBVIOUS
  <2>3. q + 1 <= Len(block) /\ block[q + 1] = r
    BY <2>1, <2>2 DEF Holds
  <2> QED  BY <1>3, <2>1, <2>2, <2>3
<1>4. CASE ~(r < 128)
  <2>1. PICK x \in Nat, y \in 0 .. 255 : x = r \div 128 /\ y = 128 + (r % 128) /\ x < r /\ x >= 1
    BY <1>4, Quotient
  <2>2. x \in 1 .. MaxWord
    BY <1>1, <2>1
  <2>3. Groups[r] = <<y>> \o Groups[x]
    BY <1>4, <2>1, GroupsUnfold
  <2>4. PICK s \in Seq(Bytes) : s = Groups[x]
    BY <2>2, GroupsUnfold
  <2>5. <<y>> \in Seq(Bytes) /\ Len(<<y>>) = 1 /\ <<y>>[1] = y
    BY <1>1
  <2>6. PICK z \in Seq(Bytes) : z = <<y>>
    BY <2>5
  <2>7. Holds(q, z \o s)
    BY <2>3, <2>4, <2>6
  <2>8. Holds(q, z) /\ Holds(q + Len(z), s)
    BY <2>7, HoldsJoined
  <2>9. q + 1 <= Len(block) /\ block[q + 1] = y
    BY <2>5, <2>6, <2>8 DEF Holds
  <2>10. Len(z \o s) = 1 + Len(s)
    BY <2>5, <2>6
  <2> QED  BY <1>2, <1>4, <2>1, <2>2, <2>3, <2>4, <2>5, <2>6, <2>8, <2>9, <2>10
<1> QED  BY <1>3, <1>4

(* A shifted group within the word passes the division of the decoder. *)
LEMMA GroupFits ==
    ASSUME NEW m \in Nat, NEW w \in Nat \ {0}, NEW a \in Nat, a * w <= m
    PROVE  a <= m \div w
<1> DEFINE k == m \div w
<1>1. k \in Nat /\ m < (k + 1) * w
  OBVIOUS
<1> HIDE DEF k
<1>2. \A x, y, z \in Nat : x >= y => x * z >= y * z
  OBVIOUS
<1>3. CASE a >= k + 1
  <2>1. a * w >= (k + 1) * w
    BY <1>1, <1>2, <1>3
  <2>2. (k + 1) * w \in Nat /\ a * w \in Nat
    BY <1>1
  <2> QED  BY <1>1, <2>1, <2>2
<1>4. CASE ~(a >= k + 1)
  <2>1. a <= k
    BY <1>1, <1>4
  <2> QED  BY <2>1 DEF k
<1> QED  BY <1>3, <1>4

(* The decoder with a sum x and a weight w, the rest r of the value n      *)
(* before it, reads its next group b.                                      *)
TakesGroup(pos, w, x, r, n, b) ==
    LET d == DecodeByte([ret |-> "more", pos |-> pos, result |-> x, weight |-> w], b)
    IN  /\ d = [ret |-> IF r < 128 THEN "ok" ELSE "more", pos |-> pos + 1,
                result |-> x + (r % 128) * w, weight |-> w * 128]
        /\ r < 128 => x + (r % 128) * w = n
        /\ r >= 128 => (x + (r % 128) * w) + (r \div 128) * (w * 128) = n

LEMMA GroupRead ==
    ASSUME NEW pos \in 1 .. MaxPos, NEW w \in 1 .. MaxWord, NEW x \in Nat,
           NEW r \in Nat, NEW n \in 0 .. MaxWord, x + r * w = n,
           NEW b, b = IF r < 128 THEN r ELSE 128 + (r % 128)
    PROVE  TakesGroup(pos, w, x, r, n, b)
<1>1. MaxWord \in Nat /\ MaxPos \in Nat /\ Base = 128
  BY BlockAssumption, HpackIntAssumption
<1>2. PICK l \in 0 .. 127, t \in Nat : l = r % 128 /\ t = r \div 128 /\ r = t * 128 + l
  OBVIOUS
<1>3. Low(b) = l /\ (More(b) <=> r >= 128)
  <2>1. CASE r < 128
    BY <1>1, <1>2, <2>1 DEF Low, More
  <2>2. CASE ~(r < 128)
    <3>1. b = 128 + l
      BY <1>2, <2>2
    <3>2. (128 + l) % 128 = l
      OBVIOUS
    <3> QED  BY <1>1, <2>2, <3>1, <3>2 DEF Low, More
  <2> QED  BY <2>1, <2>2
<1>4. l * w \in Nat /\ r * w \in Nat /\ l * w <= r * w
  <2>1. \A i, j, k \in Nat : i <= j => i * k \in Nat /\ j * k \in Nat /\ i * k <= j * k
    OBVIOUS
  <2>2. l <= r /\ l \in Nat /\ w \in Nat
    BY <1>2
  <2> QED  BY <2>1, <2>2
<1>5. PICK a \in Nat, c \in Nat : a = l * w /\ c = r * w
  BY <1>4
<1>6. a <= c /\ x + c = n /\ n <= MaxWord
  BY <1>4, <1>5
<1>7. l <= MaxWord \div w
  <2>1. l * w <= MaxWord
    BY <1>1, <1>5, <1>6
  <2>2. w \in Nat \ {0} /\ l \in Nat
    OBVIOUS
  <2> QED  BY <1>1, <2>1, <2>2, GroupFits
<1>8. x <= MaxWord - a
  BY <1>1, <1>6
<1> DEFINE d == [ret |-> "more", pos |-> pos, result |-> x, weight |-> w]
<1>9. FitsWord(d, b)
  <2>1. d.pos = pos /\ d.weight = w /\ d.result = x
    OBVIOUS
  <2>2. w <= MaxWord /\ pos <= MaxPos
    BY <1>1
  <2> HIDE DEF d
  <2> QED  BY <1>3, <1>5, <1>7, <1>8, <2>1, <2>2 DEF FitsWord
<1>10. DecodeByte(d, b) = [ret |-> IF More(b) THEN "more" ELSE "ok", pos |-> pos + 1,
                           result |-> x + Low(b) * w, weight |-> w * 128]
  BY <1>1, <1>9 DEF DecodeByte
<1>11. r < 128 => x + l * w = n
  BY <1>2
<1>12. r >= 128 => (x + l * w) + t * (w * 128) = n
  <2>1. \A i, j, k \in Nat : (i * 128 + j) * k = j * k + i * (k * 128)
    OBVIOUS
  <2>2. r * w = l * w + t * (w * 128)
    BY <1>2, <2>1
  <2>3. PICK e \in Nat : e = t * (w * 128)
    <3>1. w * 128 \in Nat
      OBVIOUS
    <3> QED  BY <3>1
  <2> QED  BY <1>5, <1>6, <2>2, <2>3
<1>13. (IF More(b) THEN "more" ELSE "ok") = IF r < 128 THEN "ok" ELSE "more"
  <2>1. CASE r < 128
    <3>1. ~More(b)
      BY <1>3, <2>1
    <3> QED  BY <2>1, <3>1
  <2>2. CASE ~(r < 128)
    <3>1. More(b)
      BY <1>3, <2>2
    <3> QED  BY <2>2, <3>1
  <2> QED  BY <2>1, <2>2
<1>14. DecodeByte(d, b) = [ret |-> IF r < 128 THEN "ok" ELSE "more", pos |-> pos + 1,
                           result |-> x + (r % 128) * w, weight |-> w * 128]
  BY <1>2, <1>3, <1>10, <1>13
<1> HIDE DEF d
<1>15. /\ r < 128 => x + (r % 128) * w = n
       /\ r >= 128 => (x + (r % 128) * w) + (r \div 128) * (w * 128) = n
  BY <1>2, <1>11, <1>12
<1> QED  BY <1>14, <1>15 DEF d, TakesGroup

(* A decoder that has returned stays. *)
LEMMA Settled ==
    ASSUME NEW p \in Nat, NEW m \in Nat, block \in Seq(Bytes), p < Len(block),
           NEW k \in 0 .. MaxPos + 1, DecodeTurns(p, m)[k].ret # "more"
    PROVE  DecodeTurns(p, m)[MaxPos + 1] = DecodeTurns(p, m)[k]
<1> DEFINE d == DecodeTurns(p, m)
<1>1. \A j \in 1 .. MaxPos + 1 :
        d[j] = IF d[j - 1].ret = "more" /\ p + j < Len(block)
               THEN DecodeByte(d[j - 1], block[p + j + 1]) ELSE d[j - 1]
  BY Turns
<1>2. d[k].ret # "more"
  OBVIOUS
<1> HIDE DEF d
<1>3. PICK e \in Nat : e = MaxPos + 1
  BY HpackIntAssumption
<1> DEFINE X == {i \in Nat : k + i <= e => d[k + i] = d[k]}
<1>4. 0 \in X
  OBVIOUS
<1>5. ASSUME NEW i \in Nat, i \in X PROVE i + 1 \in X
  <2> SUFFICES ASSUME k + (i + 1) <= e PROVE d[k + (i + 1)] = d[k]
    OBVIOUS
  <2>1. d[k + i] = d[k]
    BY <1>3, <1>5
  <2>2. PICK j \in 1 .. MaxPos + 1 : j = k + (i + 1)
    BY <1>3
  <2>3. j - 1 = k + i
    BY <2>2
  <2>4. d[j] = d[k]
    BY <1>1, <1>2, <2>1, <2>3
  <2> QED  BY <2>2, <2>4
<1>6. Nat \subseteq X
  <2> HIDE DEF X
  <2> QED  BY <1>4, <1>5, Induction
<1>7. PICK i \in Nat : k + i = e
  <2>1. e - k \in Nat /\ k + (e - k) = e
    BY <1>3
  <2> QED  BY <2>1
<1>8. d[e] = d[k]
  <2>1. i \in X /\ k + i <= e
    BY <1>6, <1>7
  <2> QED  BY <1>7, <2>1
<1> QED  BY <1>3, <1>8 DEF d

Front(n) == IF n < 127 THEN <<n>> ELSE <<127>> \o Groups[n - 127]

LEMMA FrontBytes ==
    ASSUME NEW n \in 0 .. MaxWord, NEW p \in Nat, block \in Seq(Bytes), Holds(p, Front(n))
    PROVE  /\ Front(n) \in Seq(Bytes) /\ Len(Front(n)) >= 1
           /\ p + Len(Front(n)) <= Len(block)
           /\ block[p + 1] = IF n < 127 THEN n ELSE 127
           /\ n >= 127 => /\ Holds(p + 1, Groups[n - 127])
                          /\ Len(Front(n)) = 1 + Len(Groups[n - 127])
<1>1. MaxWord \in Nat /\ Bytes = 0 .. 255
  BY BlockAssumption, HpackIntAssumption DEF Bytes
<1>2. CASE n < 127
  <2>1. Front(n) = <<n>>
    BY <1>2 DEF Front
  <2>2. <<n>> \in Seq(Bytes) /\ Len(<<n>>) = 1 /\ <<n>>[1] = n
    BY <1>1, <1>2
  <2>3. p + 1 <= Len(block) /\ block[p + 1] = n
    BY <2>1, <2>2 DEF Holds
  <2> QED  BY <1>2, <2>1, <2>2, <2>3
<1>3. CASE ~(n < 127)
  <2>1. PICK v \in 0 .. MaxWord : v = n - 127
    BY <1>1, <1>3
  <2>2. PICK s \in Seq(Bytes) : s = Groups[v]
    BY GroupsUnfold
  <2>3. <<127>> \in Seq(Bytes) /\ Len(<<127>>) = 1 /\ <<127>>[1] = 127
    BY <1>1
  <2>4. PICK z \in Seq(Bytes) : z = <<127>>
    BY <2>3
  <2>5. Front(n) = z \o s
    BY <1>3, <2>1, <2>2, <2>4 DEF Front
  <2>6. Holds(p, z) /\ Holds(p + Len(z), s)
    BY <2>5, HoldsJoined
  <2>7. z \o s \in Seq(Bytes) /\ Len(z \o s) = 1 + Len(s)
    BY <2>3, <2>4
  <2>8. block[p + 1] = 127
    BY <2>3, <2>4, <2>6 DEF Holds
  <2>9. PICK e \in Nat : e = Len(z \o s) /\ e >= 1
    BY <2>7
  <2>10. p + e <= Len(block)
    BY <2>5, <2>9 DEF Holds
  <2> QED  BY <1>3, <2>1, <2>2, <2>3, <2>4, <2>5, <2>6, <2>7, <2>8, <2>9, <2>10
<1> QED  BY <1>2, <1>3

(* The decoder after k groups of the value n at offset p, with rest r *)
Stage(p, n, P, k, r) ==
    /\ DecodeTurns(p, 127)[k] = [ret |-> "more", pos |-> k + 1,
                                 result |-> n - r * P[k + 1], weight |-> P[k + 1]]
    /\ r * P[k + 1] <= n
    /\ k >= 1 => r >= 1
    /\ Holds(p + k + 1, Groups[r])
    /\ k + 1 + Len(Groups[r]) = Len(Front(n))

(* ... and after the last one *)
Read(p, n, k) ==
    /\ DecodeTurns(p, 127)[k].ret = "ok"
    /\ DecodeTurns(p, 127)[k].pos = Len(Front(n))
    /\ DecodeTurns(p, 127)[k].result = n

Suffices(P) == /\ Powers(P) /\ \A j \in 1 .. MaxPos : P[j] <= MaxWord
               /\ P[MaxPos + 1] > MaxWord

LEMMA PowersType ==
    ASSUME NEW P, Powers(P), NEW k \in 0 .. MaxPos
    PROVE  P[k + 1] \in Nat \ {0} /\ (k < MaxPos => P[(k + 1) + 1] = P[k + 1] * 128)
  BY BlockAssumption, HpackIntAssumption DEF Powers

(* A rest behind the first group keeps the decoder within its positions. *)
LEMMA StageRoom ==
    ASSUME NEW P, Suffices(P), NEW p \in Nat, NEW n \in 0 .. MaxWord,
           NEW k \in 0 .. MaxPos, NEW r \in 0 .. MaxWord, Stage(p, n, P, k, r)
    PROVE  k < MaxPos
<1>1. MaxWord \in Nat /\ MaxPos \in Nat \ {0}
  BY HpackIntAssumption
<1>2. SUFFICES ASSUME k = MaxPos PROVE FALSE
  BY <1>1
<1>3. PICK w \in Nat \ {0} : w = P[k + 1]
  BY PowersType DEF Suffices
<1>4. w > MaxWord
  BY <1>2, <1>3 DEF Suffices
<1>5. r >= 1 /\ r * w <= n
  BY <1>1, <1>2, <1>3 DEF Stage
<1>6. \A x, y \in Nat : x >= 1 => x * y >= y /\ x * y \in Nat
  OBVIOUS
<1>7. r * w >= w /\ r * w \in Nat
  BY <1>5, <1>6
<1> QED  BY <1>1, <1>4, <1>5, <1>7

LEMMA StageNext ==
    ASSUME NEW P, Suffices(P), NEW p \in Nat, block \in Seq(Bytes), p < Len(block),
           NEW n \in 0 .. MaxWord,
           NEW k \in 0 .. MaxPos, NEW r \in 0 .. MaxWord, Stage(p, n, P, k, r)
    PROVE  Read(p, n, k + 1) \/ \E t \in 0 .. MaxWord : Stage(p, n, P, k + 1, t)
<1> DEFINE d == DecodeTurns(p, 127)
<1>1. MaxWord \in Nat /\ MaxPos \in Nat \ {0}
  BY HpackIntAssumption
<1>2. k < MaxPos
  BY StageRoom
<1>3. PICK w \in 1 .. MaxWord : w = P[k + 1] /\ P[(k + 1) + 1] = w * 128
  <2>1. P[k + 1] \in Nat \ {0} /\ P[(k + 1) + 1] = P[k + 1] * 128
    BY <1>2, PowersType DEF Suffices
  <2>2. k + 1 \in 1 .. MaxPos
    BY <1>1, <1>2
  <2>3. P[k + 1] <= MaxWord
    BY <2>2 DEF Suffices
  <2> QED  BY <1>1, <2>1, <2>3
<1>4. PICK q \in Nat, j \in 1 .. MaxPos + 1 : q = p + k + 1 /\ j = k + 1
  BY <1>1, <1>2
<1>5. PICK c \in Nat : c = r * w
  OBVIOUS
<1>6. c <= n
  BY <1>3, <1>5 DEF Stage
<1>7. PICK x \in Nat : x = n - c
  BY <1>1, <1>6
<1>8. x + r * w = n
  BY <1>5, <1>7
<1>9. d[k] = [ret |-> "more", pos |-> j, result |-> x, weight |-> w]
  BY <1>3, <1>4, <1>5, <1>7 DEF Stage
<1>10. Holds(q, Groups[r])
  BY <1>4 DEF Stage
<1>11. /\ q < Len(block) /\ Len(Groups[r]) \in Nat
       /\ r < 128 => block[q + 1] = r /\ Len(Groups[r]) = 1
       /\ r >= 128 => /\ block[q + 1] = 128 + (r % 128)
                      /\ r \div 128 \in 1 .. MaxWord
                      /\ Holds(q + 1, Groups[r \div 128])
                      /\ Len(Groups[r]) = 1 + Len(Groups[r \div 128])
  BY <1>10, HoldsGroups
<1>12. \A i \in 1 .. MaxPos + 1 :
        d[i] = IF d[i - 1].ret = "more" /\ p + i < Len(block)
               THEN DecodeByte(d[i - 1], block[p + i + 1]) ELSE d[i - 1]
  <2>1. PICK m \in Nat : m = 127
    OBVIOUS
  <2>2. \A i \in 1 .. MaxPos + 1 :
          DecodeTurns(p, m)[i] =
            IF DecodeTurns(p, m)[i - 1].ret = "more" /\ p + i < Len(block)
            THEN DecodeByte(DecodeTurns(p, m)[i - 1], block[p + i + 1])
            ELSE DecodeTurns(p, m)[i - 1]
    BY Turns
  <2> QED  BY <2>1, <2>2
<1> HIDE DEF d
<1>13. j - 1 = k /\ p + j = q /\ p + j + 1 = q + 1
  BY <1>4
<1>14. d[j] = DecodeByte(d[k], block[q + 1])
  <2>1. d[k].ret = "more"
    BY <1>9
  <2> QED  BY <1>11, <1>12, <1>13, <2>1
<1>15. PICK b : b = block[q + 1]
  OBVIOUS
<1>16. b = IF r < 128 THEN r ELSE 128 + (r % 128)
  BY <1>11, <1>15
<1> DEFINE y == x + (r % 128) * w
<1>17. /\ d[j] = [ret |-> IF r < 128 THEN "ok" ELSE "more", pos |-> j + 1,
                  result |-> y, weight |-> w * 128]
       /\ r < 128 => y = n
       /\ r >= 128 => y + (r \div 128) * (w * 128) = n
  <2>1. j \in 1 .. MaxPos /\ r \in Nat
    BY <1>1, <1>2, <1>4
  <2> DEFINE e == [ret |-> "more", pos |-> j, result |-> x, weight |-> w]
  <2>2. /\ DecodeByte(e, b) =
             [ret |-> IF r < 128 THEN "ok" ELSE "more", pos |-> j + 1,
              result |-> y, weight |-> w * 128]
        /\ r < 128 => y = n
        /\ r >= 128 => y + (r \div 128) * (w * 128) = n
    <3>1. TakesGroup(j, w, x, r, n, b)
      BY <1>8, <1>16, <2>1, GroupRead
    <3> QED  BY <3>1 DEF TakesGroup
  <2> HIDE DEF y
  <2> QED  BY <1>9, <1>14, <1>15, <2>2
<1>18. k + 1 + Len(Groups[r]) = Len(Front(n))
  BY DEF Stage
<1>19. y \in Nat
  <2>1. PICK l \in Nat : l = r % 128
    OBVIOUS
  <2>2. l * w \in Nat
    OBVIOUS
  <2> QED  BY <2>1, <2>2
<1> HIDE DEF y
<1>20. CASE r < 128
  <2>1. d[j].ret = "ok" /\ d[j].pos = j + 1 /\ d[j].result = n
    BY <1>17, <1>20
  <2>2. j + 1 = Len(Front(n))
    BY <1>4, <1>11, <1>18, <1>20
  <2> QED  BY <1>4, <2>1, <2>2 DEF Read, d
<1>21. CASE ~(r < 128)
  <2>1. PICK t \in 1 .. MaxWord : t = r \div 128
    BY <1>11, <1>21
  <2>2. PICK v \in Nat : v = w * 128
    OBVIOUS
  <2>3. y + t * v = n
    BY <1>17, <1>21, <2>1, <2>2
  <2>4. PICK u \in Nat : u = t * v
    OBVIOUS
  <2>5. u <= n /\ y = n - u
    BY <1>19, <2>3, <2>4
  <2>6. d[j] = [ret |-> "more", pos |-> j + 1, result |-> n - t * v, weight |-> v]
    BY <1>17, <1>21, <2>2, <2>4, <2>5
  <2>7. P[j + 1] = v
    BY <1>3, <1>4, <2>2
  <2>8. p + j + 1 = q + 1 /\ Holds(q + 1, Groups[t])
    BY <1>11, <1>13, <1>21, <2>1
  <2>9. j + 1 + Len(Groups[t]) = Len(Front(n))
    <3>1. Len(Groups[r]) = 1 + Len(Groups[t])
      BY <1>11, <1>21, <2>1
    <3>2. Groups[t] \in Seq(Bytes)
      BY <1>1, GroupsUnfold
    <3>3. PICK a \in Nat : a = Len(Groups[t])
      BY <3>2
    <3>4. k \in Nat /\ k + 1 + (1 + a) = Len(Front(n))
      <4>1. k \in Nat
        BY <1>1
      <4>2. PICK g : g = Len(Groups[r])
        OBVIOUS
      <4>3. g = 1 + a /\ k + 1 + g = Len(Front(n))
        BY <1>18, <3>1, <3>3, <4>2
      <4> QED  BY <4>1, <4>3
    <3>5. k + 1 + (1 + a) = j + 1 + a
      BY <1>4, <3>4
    <3> QED  BY <3>3, <3>4, <3>5
  <2>10. t \in 0 .. MaxWord /\ t >= 1
    BY <1>1
  <2>11. Stage(p, n, P, j, t)
    BY <2>4, <2>5, <2>6, <2>7, <2>8, <2>9, <2>10 DEF Stage, d
  <2> QED  BY <1>4, <2>10, <2>11
<1> QED  BY <1>20, <1>21

(* h2_hpack_decode_integer reads back a length behind a prefix of 7 bits. *)
LEMMA IntegerRead ==
    ASSUME NEW P, Suffices(P), NEW p \in Nat, block \in Seq(Bytes),
           NEW n \in 0 .. MaxWord, Holds(p, Front(n))
    PROVE  DecodeInteger(p, 127) = Ok(Len(Front(n)), n)
<1> DEFINE d == DecodeTurns(p, 127)
<1>1. MaxWord \in Nat /\ MaxPos \in Nat \ {0} /\ n \in Nat
  BY HpackIntAssumption
<1>2. /\ Front(n) \in Seq(Bytes) /\ Len(Front(n)) >= 1
      /\ p + Len(Front(n)) <= Len(block)
      /\ block[p + 1] = IF n < 127 THEN n ELSE 127
      /\ n >= 127 => /\ Holds(p + 1, Groups[n - 127])
                     /\ Len(Front(n)) = 1 + Len(Groups[n - 127])
  BY FrontBytes
<1>3. PICK c \in Nat : c = Len(Front(n))
  BY <1>2
<1>4. p < Len(block)
  BY <1>2, <1>3
<1>5. PICK m \in Nat : m = 127
  OBVIOUS
<1>6. d[0] = DecodePrefix(block[p + 1] % 128, 127)
  <2>1. DecodeTurns(p, m)[0] = DecodePrefix(block[p + 1] % (m + 1), m)
    BY <1>4, Turns
  <2> QED  BY <1>5, <2>1
<1>7. ASSUME NEW k \in 0 .. MaxPos + 1, Read(p, n, k)
      PROVE  DecodeInteger(p, 127) = Ok(Len(Front(n)), n)
  <2>1. d[k].ret = "ok" /\ d[k].pos = Len(Front(n)) /\ d[k].result = n
    BY <1>7 DEF Read
  <2>2. d[MaxPos + 1] = d[k]
    <3>1. DecodeTurns(p, m)[k].ret # "more"
      BY <1>5, <2>1
    <3>2. DecodeTurns(p, m)[MaxPos + 1] = DecodeTurns(p, m)[k]
      BY <1>4, <3>1, Settled
    <3> QED  BY <1>5, <3>2
  <2> HIDE DEF d
  <2> QED  BY <1>4, <2>1, <2>2 DEF DecodeInteger, d
<1>8. CASE n < 127
  <2>1. block[p + 1] % 128 = n
    BY <1>1, <1>2, <1>8
  <2>2. d[0] = DecodePrefix(n, 127)
    BY <1>6, <2>1
  <2> HIDE DEF d
  <2>3. d[0].ret = "ok" /\ d[0].pos = 1 /\ d[0].result = n
    BY <1>8, <2>2 DEF DecodePrefix
  <2>4. Len(Front(n)) = 1
    BY <1>8 DEF Front
  <2>5. 0 \in 0 .. MaxPos + 1
    BY <1>1
  <2>6. Read(p, n, 0)
    BY <2>3, <2>4 DEF Read, d
  <2> QED  BY <1>7, <2>5, <2>6
<1>9. CASE ~(n < 127)
  <2>1. block[p + 1] % 128 = 127
    BY <1>2, <1>9
  <2>2. d[0] = DecodePrefix(127, 127)
    BY <1>6, <2>1
  <2> HIDE DEF d
  <2>3. d[0] = [ret |-> "more", pos |-> 1, result |-> 127, weight |-> 1]
    BY <2>2 DEF DecodePrefix
  <2>4. P[1] = 1
    BY DEF Suffices, Powers
  <2>5. PICK r \in 0 .. MaxWord : r = n - 127
    BY <1>1, <1>9
  <2>6. Stage(p, n, P, 0, r)
    <3>1. 0 + 1 = 1 /\ p + 0 + 1 = p + 1 /\ r * 1 = r
      OBVIOUS
    <3>2. n - r = 127 /\ r <= n
      BY <1>1, <2>5
    <3>3. Holds(p + 1, Groups[r]) /\ Len(Front(n)) = 1 + Len(Groups[r])
      BY <1>1, <1>2, <1>9, <2>5
    <3>4. r * P[1] = r
      BY <2>4, <3>1
    <3>5. d[0] = [ret |-> "more", pos |-> 0 + 1, result |-> n - r * P[0 + 1],
                  weight |-> P[0 + 1]]
      BY <2>3, <2>4, <3>1, <3>2, <3>4
    <3> QED  BY <3>1, <3>2, <3>3, <3>4, <3>5 DEF Stage, d
  <2> DEFINE X == {k \in Nat : k \in 0 .. MaxPos =>
                     \/ \E i \in 0 .. MaxPos + 1 : Read(p, n, i)
                     \/ \E t \in 0 .. MaxWord : Stage(p, n, P, k, t)}
  <2>7. 0 \in X
    BY <2>6
  <2>8. ASSUME NEW k \in Nat, k \in X PROVE k + 1 \in X
    <3> SUFFICES ASSUME k + 1 \in 0 .. MaxPos,
                        ~(\E i \in 0 .. MaxPos + 1 : Read(p, n, i))
                 PROVE  \E t \in 0 .. MaxWord : Stage(p, n, P, k + 1, t)
      OBVIOUS
    <3>1. k \in 0 .. MaxPos /\ k + 1 \in 0 .. MaxPos + 1
      BY <1>1
    <3>2. PICK t \in 0 .. MaxWord : Stage(p, n, P, k, t)
      BY <2>8, <3>1
    <3>3. Read(p, n, k + 1) \/ \E u \in 0 .. MaxWord : Stage(p, n, P, k + 1, u)
      BY <1>4, <3>1, <3>2, StageNext
    <3> QED  BY <3>1, <3>3
  <2>9. MaxPos \in X
    <3> HIDE DEF X
    <3> QED  BY <1>1, <2>7, <2>8, Induction
  <2>10. MaxPos \in 0 .. MaxPos
    BY <1>1
  <2>11. CASE \E t \in 0 .. MaxWord : Stage(p, n, P, MaxPos, t)
    <3>1. PICK t \in 0 .. MaxWord : Stage(p, n, P, MaxPos, t)
      BY <2>11
    <3>2. PICK k \in 0 .. MaxPos : k = MaxPos
      BY <2>10
    <3>3. k < MaxPos
      BY <3>1, <3>2, StageRoom
    <3> QED  BY <1>1, <3>2, <3>3
  <2>12. CASE \E i \in 0 .. MaxPos + 1 : Read(p, n, i)
    BY <1>7, <2>12
  <2> QED  BY <2>9, <2>10, <2>11, <2>12
<1> QED  BY <1>8, <1>9

(* A text without NUL is what C sees of it. *)
LEMMA CStringSame ==
    ASSUME NEW text \in Seq(Bytes \ {0})
    PROVE  CString(text) = text
<1>1. \A k \in DOMAIN text : text[k] # 0
  OBVIOUS
<1>2. {k \in DOMAIN text : text[k] = 0} = {}
  BY <1>1
<1> QED  BY <1>2 DEF CString

(* h2_hpack_decode_string reads back what h2_hpack_encode_string wrote. *)
LEMMA StringRead ==
    ASSUME NEW P, Suffices(P), NEW p \in Nat, NEW cap \in Nat, block \in Seq(Bytes),
           NEW text \in Seq(Bytes \ {0}), Len(text) <= MaxWord,
           Holds(p, EncodeString(text))
    PROVE  DecodeString(p, cap) = IF Len(text) >= cap THEN Error(H2_REFUSED_STREAM)
                                  ELSE Ok(Len(EncodeString(text)), text)
<1>1. MaxWord \in Nat /\ Bytes = 0 .. 255 /\ Base = 128
  BY BlockAssumption, HpackIntAssumption DEF Bytes
<1>2. PICK n \in 0 .. MaxWord : n = Len(text)
  BY <1>1
<1>3. EncodeString(text) = Front(n) \o text
  BY <1>2 DEF EncodeString, Front
<1>4. Front(n) \in Seq(Bytes)
  <2>1. CASE n < 127
    BY <1>1, <2>1 DEF Front
  <2>2. CASE ~(n < 127)
    <3>1. PICK v \in 0 .. MaxWord : v = n - 127
      BY <1>1, <2>2
    <3>2. PICK s \in Seq(Bytes) : s = Groups[v]
      BY GroupsUnfold
    <3>3. <<127>> \in Seq(Bytes)
      BY <1>1
    <3>4. <<127>> \o s \in Seq(Bytes)
      BY <3>3
    <3> QED  BY <2>2, <3>1, <3>2, <3>4 DEF Front
  <2> QED  BY <2>1, <2>2
<1>5. PICK f \in Seq(Bytes), t \in Seq(Bytes), c \in Nat :
        f = Front(n) /\ t = text /\ c = Len(f)
  BY <1>4
<1>6. Holds(p, f) /\ Holds(p + c, t) /\ Len(f \o t) = c + n
  <2>1. Holds(p, f \o t)
    BY <1>3, <1>5
  <2>2. Holds(p, f) /\ Holds(p + Len(f), t)
    BY <2>1, HoldsJoined
  <2> QED  BY <1>2, <1>5, <2>2
<1>7. /\ c >= 1 /\ p + c <= Len(block)
      /\ block[p + 1] = IF n < 127 THEN n ELSE 127
  BY <1>5, <1>6, FrontBytes
<1>8. DecodeInteger(p, 127) = Ok(c, n)
  BY <1>5, <1>6, IntegerRead
<1>9. ~Huffman(p)
  <2>1. ~(block[p + 1] >= 128)
    BY <1>1, <1>7
  <2> QED  BY <1>1, <2>1 DEF Huffman, More
<1>10. PICK b \in Seq(Bytes), e \in Nat : b = block /\ e = Len(b)
  OBVIOUS
<1>11. c + n <= e - p
  <2>1. CASE n = 0
    BY <1>7, <1>10, <2>1
  <2>2. CASE n # 0
    <3>1. n \in 1 .. n
      BY <1>1, <2>2
    <3>2. (p + c) + n <= e
      BY <1>2, <1>5, <1>6, <1>10, <3>1 DEF Holds
    <3> QED  BY <1>10, <3>2
  <2> QED  BY <2>1, <2>2
<1> DEFINE i == DecodeInteger(p, 127)
<1>12. i.ret = H2_OK /\ i.used = c /\ i.value = n
  BY <1>8 DEF Ok
<1>13. ~(i.used + i.value > Len(block) - p)
  BY <1>10, <1>11, <1>12
<1>14. SubSeq(block, p + c + 1, p + c + n) = text
  <2>1. PICK q \in Nat : q = p + c
    OBVIOUS
  <2>2. q + n <= e
    BY <1>10, <1>11, <2>1
  <2> DEFINE s == SubSeq(b, q + 1, q + n)
  <2>3. s \in Seq(Bytes) /\ Len(s) = n /\ \A k \in 1 .. n : s[k] = b[q + k]
    BY <1>10, <2>2
  <2>4. \A k \in 1 .. n : s[k] = t[k]
    BY <1>2, <1>5, <1>6, <1>10, <2>1, <2>3 DEF Holds
  <2> HIDE DEF s
  <2>5. s = t
    <3>1. t \in Seq(Bytes) /\ Len(t) = n
      BY <1>2, <1>5
    <3> QED  BY <2>3, <2>4, <3>1
  <2> QED  BY <1>5, <1>10, <2>1, <2>5 DEF s
<1>15. CString(text) = text
  BY CStringSame
<1>16. Len(EncodeString(text)) = c + n
  BY <1>3, <1>5, <1>6
<1> HIDE DEF i
<1>17. DecodeString(p, cap) = IF i.value >= cap THEN Error(H2_REFUSED_STREAM)
                              ELSE Ok(i.used + i.value,
                                      CString(SubSeq(block, p + i.used + 1,
                                                     p + i.used + i.value)))
  BY <1>9, <1>12, <1>13 DEF DecodeString, i
<1> QED  BY <1>2, <1>12, <1>14, <1>15, <1>16, <1>17

(* The byte of a literal with a new name holds the index 0. *)
LEMMA ZeroRead ==
    ASSUME block \in Seq(Bytes), 0 < Len(block), block[1] = 0
    PROVE  DecodeInteger(0, 15) = Ok(1, 0)
<1>1. PICK p \in Nat, m \in Nat : p = 0 /\ m = 15
  OBVIOUS
<1> DEFINE d == DecodeTurns(p, m)
<1>2. d[0] = DecodePrefix(block[p + 1] % (m + 1), m)
  BY <1>1, Turns
<1>3. block[p + 1] % (m + 1) = 0
  BY <1>1
<1>4. d[0].ret = "ok" /\ d[0].pos = 1 /\ d[0].result = 0
  <2> HIDE DEF d
  <2> QED  BY <1>1, <1>2, <1>3 DEF DecodePrefix
<1>5. PICK k \in 0 .. MaxPos + 1 : k = 0
  BY HpackIntAssumption
<1>6. d[MaxPos + 1] = d[k]
  <2>1. DecodeTurns(p, m)[k].ret # "more"
    BY <1>4, <1>5
  <2> QED  BY <1>1, <2>1, Settled
<1>7. DecodeInteger(p, m) = Ok(1, 0)
  <2> HIDE DEF d
  <2> QED  BY <1>1, <1>4, <1>5, <1>6 DEF DecodeInteger, d
<1> QED  BY <1>1, <1>7

Fits(l) == Len(l.name) < NameCap /\ Len(l.value) < ValueCap

(* h2_hpack_decode_headers reads back what h2_hpack_encode_literal_new_name *)
(* wrote.                                                                  *)
LEMMA LiteralRead ==
    ASSUME GroupsSuffice, NEW l \in Literals, block = Encoded(l)
    PROVE  /\ block \in Seq(Bytes) /\ Len(block) >= 1
           /\ IF Fits(l) THEN FieldAt(0) = Ok(Len(block), <<Field(l.name, l.value)>>)
              ELSE FieldAt(0).ret = H2_REFUSED_STREAM
<1>1. PICK P : Suffices(P)
  BY DEF GroupsSuffice, Suffices
<1>2. PICK s \in Seq(Bytes \ {0}), t \in Seq(Bytes \ {0}) :
        s = l.name /\ t = l.value /\ Len(s) <= MaxWord /\ Len(t) <= MaxWord
  BY BlockAssumption
<1>3. Bytes = 0 .. 255 /\ Base = 128 /\ NameCap \in Nat /\ ValueCap \in Nat
  BY BlockAssumption DEF Bytes
<1>4. PICK a \in Seq(Bytes), b \in Seq(Bytes) : a = EncodeString(s) /\ b = EncodeString(t)
  BY <1>2, StringBytes
<1>5. PICK z \in Seq(Bytes) : z = <<0>> /\ Len(z) = 1 /\ z[1] = 0
  <2>1. <<0>> \in Seq(Bytes) /\ Len(<<0>>) = 1 /\ <<0>>[1] = 0
    BY <1>3
  <2> QED  BY <2>1
<1>6. PICK g \in Seq(Bytes) : g = z \o a /\ Len(g) = 1 + Len(a)
  <2>1. z \o a \in Seq(Bytes) /\ Len(z \o a) = Len(z) + Len(a)
    OBVIOUS
  <2> QED  BY <1>5, <2>1
<1>7. block = g \o b
  BY <1>2, <1>4, <1>5, <1>6 DEF Encoded
<1>8. PICK i \in Nat, j \in Nat, e \in Nat :
        /\ i = Len(a) /\ j = Len(b) /\ e = Len(block) /\ e = (1 + i) + j
        /\ block \in Seq(Bytes)
  <2>1. g \o b \in Seq(Bytes) /\ Len(g \o b) = Len(g) + Len(b)
    OBVIOUS
  <2>2. Len(a) \in Nat /\ Len(b) \in Nat /\ Len(g) = 1 + Len(a)
    BY <1>6
  <2>3. Len(block) = (1 + Len(a)) + Len(b) /\ block \in Seq(Bytes)
    BY <1>7, <2>1, <2>2
  <2>4. Len(block) \in Nat
    BY <2>2, <2>3
  <2> QED  BY <2>2, <2>3, <2>4
<1>9. PICK o \in Nat : o = 0
  OBVIOUS
<1>10. Holds(o, block)
  BY <1>8, <1>9 DEF Holds
<1>11. Holds(o, g) /\ Holds(o + (1 + i), b)
  <2>1. Holds(o, g \o b)
    BY <1>7, <1>10
  <2>2. Holds(o, g) /\ Holds(o + Len(g), b)
    BY <2>1, HoldsJoined
  <2> QED  BY <1>6, <1>8, <2>2
<1>12. Holds(o, z) /\ Holds(o + 1, a)
  <2>1. Holds(o, z \o a)
    BY <1>6, <1>11
  <2>2. Holds(o, z) /\ Holds(o + Len(z), a)
    BY <2>1, HoldsJoined
  <2> QED  BY <1>5, <2>2
<1>13. block[1] = 0 /\ 0 < Len(block)
  <2>1. block[o + 1] = 0
    BY <1>5, <1>12 DEF Holds
  <2> QED  BY <1>8, <1>9, <2>1
<1>14. DecodeInteger(0, 15) = Ok(1, 0)
  BY <1>8, <1>13, ZeroRead
<1>15. ~Indexed(0) /\ ~SizeUpdate(0) /\ NameMax(0) = 15
  <2>1. 0 + 1 = 1 /\ ~(0 >= 128) /\ ~(0 \div 32 = 1) /\ ~(0 >= 64)
    OBVIOUS
  <2> QED  BY <1>3, <1>13, <2>1 DEF Indexed, SizeUpdate, NameMax, More
<1>16. PICK p \in Nat, q \in Nat : p = 1 /\ q = 1 + i
  OBVIOUS
<1>17. DecodeString(1, NameCap) = IF Len(s) >= NameCap THEN Error(H2_REFUSED_STREAM)
                                  ELSE Ok(i, s)
  <2>1. Holds(p, EncodeString(s))
    BY <1>4, <1>9, <1>12, <1>16
  <2>2. DecodeString(p, NameCap) = IF Len(s) >= NameCap THEN Error(H2_REFUSED_STREAM)
                                   ELSE Ok(Len(EncodeString(s)), s)
    BY <1>1, <1>2, <1>3, <1>8, <2>1, StringRead
  <2> QED  BY <1>4, <1>8, <1>16, <2>2
<1>18. DecodeString(q, ValueCap) = IF Len(t) >= ValueCap THEN Error(H2_REFUSED_STREAM)
                                   ELSE Ok(j, t)
  <2>1. Holds(q, EncodeString(t))
    BY <1>4, <1>9, <1>11, <1>16
  <2>2. DecodeString(q, ValueCap) = IF Len(t) >= ValueCap THEN Error(H2_REFUSED_STREAM)
                                    ELSE Ok(Len(EncodeString(t)), t)
    BY <1>1, <1>2, <1>3, <1>8, <2>1, StringRead
  <2> QED  BY <1>4, <1>8, <2>2
<1> DEFINE name == LiteralName(0, 15)
<1>19. name = [DecodeString(1, NameCap) EXCEPT !.used = @ + 1]
  <2>1. PICK x : x = DecodeInteger(0, 15)
    OBVIOUS
  <2>2. x.ret = H2_OK /\ x.value = 0 /\ x.used = 1 /\ 0 + x.used = 1
    BY <1>14, <2>1 DEF Ok
  <2> QED  BY <2>1, <2>2 DEF LiteralName
<1> DEFINE value == DecodeString(0 + name.used, ValueCap)
<1>20. FieldAt(0) = IF name.ret # H2_OK THEN name
                    ELSE IF value.ret # H2_OK THEN value
                    ELSE Ok(name.used + value.used, <<Field(name.value, value.value)>>)
  BY <1>15 DEF FieldAt
<1>21. /\ Fits(l) <=> ~(Len(s) >= NameCap) /\ ~(Len(t) >= ValueCap)
       /\ Len(s) \in Nat /\ Len(t) \in Nat
  BY <1>2, <1>3 DEF Fits
<1>22. H2_REFUSED_STREAM # H2_OK
  BY DEF H2_REFUSED_STREAM, H2_OK
<1> HIDE DEF name, value
<1>23. CASE Len(s) >= NameCap
  <2>1. name.ret = H2_REFUSED_STREAM
    BY <1>17, <1>19, <1>23 DEF Error
  <2>2. FieldAt(0).ret = H2_REFUSED_STREAM
    BY <1>20, <1>22, <2>1
  <2> QED  BY <1>8, <1>13, <1>21, <1>23, <2>2
<1>24. CASE ~(Len(s) >= NameCap)
  <2>1. name = [Ok(i, s) EXCEPT !.used = @ + 1]
    BY <1>17, <1>19, <1>24
  <2>2. name.ret = H2_OK /\ name.used = i + 1 /\ name.value = s
    BY <2>1 DEF Ok
  <2>3. 0 + name.used = q
    BY <1>16, <2>2
  <2>4. value = IF Len(t) >= ValueCap THEN Error(H2_REFUSED_STREAM) ELSE Ok(j, t)
    BY <1>18, <2>3 DEF value
  <2>5. CASE Len(t) >= ValueCap
    <3>1. value.ret = H2_REFUSED_STREAM
      BY <2>4, <2>5 DEF Error
    <3>2. FieldAt(0).ret = H2_REFUSED_STREAM
      BY <1>20, <1>22, <2>2, <3>1
    <3> QED  BY <1>8, <1>13, <1>21, <2>5, <3>2
  <2>6. CASE ~(Len(t) >= ValueCap)
    <3>1. value.ret = H2_OK /\ value.used = j /\ value.value = t
      BY <2>4, <2>6 DEF Ok
    <3>2. (i + 1) + j = e
      BY <1>8
    <3>3. FieldAt(0) = Ok(e, <<Field(s, t)>>)
      BY <1>20, <2>2, <3>1, <3>2
    <3> QED  BY <1>2, <1>8, <1>13, <1>21, <1>24, <2>6, <3>3
  <2> QED  BY <2>5, <2>6
<1> QED  BY <1>23, <1>24

(* The decoder before it has read the only field of its block, and after. *)
LiteralInv ==
    literal # NoLiteral /\ Encodes(literal)
    => /\ literal \in Literals /\ block = Encoded(literal)
       /\ \/ decode.ret = Running /\ decode.pos = 0 /\ decode.fields = << >>
          \/ IF Fits(literal)
             THEN /\ decode.ret \in {Running, H2_OK} /\ decode.pos = Len(block)
                  /\ decode.fields = <<Field(literal.name, literal.value)>>
             ELSE decode.ret = H2_REFUSED_STREAM

LEMMA LiteralInvInit == BlockInit => LiteralInv
  BY DEF BlockInit, LiteralInv

LEMMA LiteralInvNext ==
    ASSUME GroupsSuffice, FieldCap >= 1
    PROVE  BlockType /\ LiteralInv /\ [BlockNext]_blockVars => LiteralInv'
<1> SUFFICES ASSUME BlockType, LiteralInv, [BlockNext]_blockVars,
                    literal' # NoLiteral, Encodes(literal')
             PROVE  LiteralInv'
  BY DEF LiteralInv
<1>1. literal' = literal /\ block' = block
  BY DEF BlockNext, ExtractTurn, ExtractEnd, DecodeTurn, DecodeDone, blockVars
<1>2. PICK l \in Literals : l = literal
  BY <1>1 DEF LiteralInv
<1>3. block = Encoded(l) /\ Encodes(l) /\ literal # NoLiteral
  BY <1>1, <1>2 DEF LiteralInv
<1>4. /\ block \in Seq(Bytes) /\ Len(block) >= 1
      /\ IF Fits(l) THEN FieldAt(0) = Ok(Len(block), <<Field(l.name, l.value)>>)
         ELSE FieldAt(0).ret = H2_REFUSED_STREAM
  BY <1>3, LiteralRead
<1>5. PICK e \in Nat : e = Len(block) /\ e >= 1
  BY <1>4
<1> DEFINE First0 == decode.ret = Running /\ decode.pos = 0 /\ decode.fields = << >>
           Then(d) == IF Fits(l)
                      THEN /\ d.ret \in {Running, H2_OK} /\ d.pos = e
                           /\ d.fields = <<Field(l.name, l.value)>>
                      ELSE d.ret = H2_REFUSED_STREAM
<1>6. First0 \/ Then(decode)
  BY <1>2, <1>3, <1>5 DEF LiteralInv
<1>7. ASSUME Then(decode') PROVE LiteralInv'
  BY <1>1, <1>2, <1>3, <1>5, <1>7 DEF LiteralInv
<1>8. \A c \in {H2_OK, H2_REFUSED_STREAM} : c # Running
  BY DEF Running, H2_OK, H2_REFUSED_STREAM
<1>9. CASE decode' = decode
  <2>1. CASE First0
    BY <1>1, <1>2, <1>3, <1>9, <2>1 DEF LiteralInv
  <2>2. CASE Then(decode)
    BY <1>7, <1>9, <2>2
  <2> QED  BY <1>6, <2>1, <2>2
<1>10. CASE DecodeTurn
  <2>1. decode.ret = Running /\ decode.pos < e
    BY <1>5, <1>10 DEF DecodeTurn
  <2>2. First0
    <3>1. ~Then(decode)
      BY <1>5, <1>8, <2>1
    <3> QED  BY <1>6, <3>1
  <2>3. PICK f : f = FieldAt(0)
    OBVIOUS
  <2>4. decode' = IF f.ret # H2_OK THEN [decode EXCEPT !.ret = f.ret]
                  ELSE [decode EXCEPT !.pos = @ + f.used, !.fields = @ \o f.value]
    <3>1. FieldCap \in Nat /\ ~(Len(<< >>) >= FieldCap)
      BY BlockAssumption
    <3>2. ~(Len(decode.fields) >= FieldCap)
      BY <2>2, <3>1
    <3> QED  BY <1>10, <2>2, <2>3, <3>2 DEF DecodeTurn, DecodeStep
  <2>5. PICK d \in DecodeLocals : d = decode
    BY DEF BlockType
  <2>6. CASE Fits(l)
    <3>1. f.ret = H2_OK /\ f.used = e /\ f.value = <<Field(l.name, l.value)>>
      BY <1>4, <1>5, <2>3, <2>6 DEF Ok
    <3>2. PICK x, w : x = d.pos + f.used /\ w = d.fields \o f.value
      OBVIOUS
    <3>3. decode' = [d EXCEPT !.pos = x, !.fields = w]
      BY <2>4, <2>5, <3>1, <3>2
    <3>4. decode' = [ret |-> d.ret, pos |-> x, fields |-> w]
      BY <3>3, DecodeExcept
    <3>5. x = e
      BY <1>5, <2>2, <2>5, <3>1, <3>2
    <3>6. w = <<Field(l.name, l.value)>>
      <4>1. ASSUME NEW v PROVE << >> \o <<v>> = <<v>>
        OBVIOUS
      <4> QED  BY <2>2, <2>5, <3>1, <3>2, <4>1
    <3>7. decode'.ret = Running /\ decode'.pos = e /\ decode'.fields = w
      BY <2>2, <2>5, <3>4, <3>5
    <3> QED  BY <1>7, <2>6, <3>6, <3>7
  <2>7. CASE ~Fits(l)
    <3>1. f.ret = H2_REFUSED_STREAM
      BY <1>4, <2>3, <2>7
    <3>2. decode' = [d EXCEPT !.ret = H2_REFUSED_STREAM]
      BY <2>4, <2>5, <3>1 DEF H2_OK, H2_REFUSED_STREAM
    <3>3. decode'.ret = H2_REFUSED_STREAM
      BY <3>2 DEF DecodeLocals
    <3> QED  BY <1>7, <2>7, <3>3
  <2> QED  BY <2>6, <2>7
<1>11. CASE DecodeDone
  <2>1. /\ decode' = [ret |-> H2_OK, pos |-> decode.pos, fields |-> decode.fields]
        /\ decode.ret = Running /\ decode.pos >= e
    BY <1>5, <1>11, DecodeEnded
  <2>2. Then(decode)
    <3>1. ~First0
      BY <1>5, <2>1
    <3> QED  BY <1>6, <3>1
  <2>3. Fits(l)
    BY <1>8, <2>1, <2>2
  <2>4. /\ decode'.ret = H2_OK /\ decode'.pos = decode.pos
        /\ decode'.fields = decode.fields
    BY <2>1
  <2> QED  BY <1>7, <2>2, <2>3, <2>4
<1> QED  BY <1>9, <1>10, <1>11 DEF BlockNext, ExtractTurn, ExtractEnd, blockVars

(* With the groups that hpack.c allows for a word, and a caller that has   *)
(* room for a field: for every name and value without NUL, however long,   *)
(* h2_hpack_decode_headers gives back the field that                       *)
(* h2_hpack_encode_literal_new_name wrote, or refuses it for its length.   *)
THEOREM LiteralRoundTripCorrect ==
    ASSUME GroupsSuffice, FieldCap >= 1
    PROVE  BlockSpec => []LiteralRoundTrip
<1>1. BlockType /\ LiteralInv /\ [BlockNext]_blockVars => LiteralInv'
  BY LiteralInvNext
<1>2. LiteralInv => LiteralRoundTrip
  BY DEF LiteralInv, LiteralRoundTrip, Fits, Running, H2_OK, H2_REFUSED_STREAM
<1> QED  BY <1>1, <1>2, BlockTypeAlways, LiteralInvInit, PTL DEF BlockSpec
=============================================================================
