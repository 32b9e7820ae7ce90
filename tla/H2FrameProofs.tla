--------------------------- MODULE H2FrameProofs ----------------------------
(***************************************************************************)
(* Frames as bytes, for every size of a byte, every call of an encoder and *)
(* every whole frame that is received.                                     *)
(***************************************************************************)
EXTENDS H2FrameBytes, TLAPS

-----------------------------------------------------------------------------
(* Numbers in network order.                                               *)

LEMMA Sizes ==
    /\ ByteBase \in Nat \ {0} /\ ByteBase >= 64
    /\ Half \in Nat \ {0} /\ ByteBase = 2 * Half
    /\ U16 \in Nat \ {0} /\ Top \in Nat \ {0}
    /\ Top = (Half * ByteBase) * U16 /\ U16 * U16 = 2 * Top
<1>1. /\ ByteBase \in Nat \ {0} /\ ByteBase >= 64
      /\ Half \in Nat \ {0} /\ ByteBase = 2 * Half
  BY FrameBytesAssumption DEF Half
<1>2. \A x, y \in Nat \ {0} : x * y \in Nat \ {0}
  OBVIOUS
<1>3. U16 \in Nat \ {0}
  BY <1>1, <1>2 DEF U16
<1>4. Half * ByteBase \in Nat \ {0}
  BY <1>1, <1>2
<1>5. Top = (Half * ByteBase) * U16
  BY DEF Top
<1>6. Top \in Nat \ {0}
  BY <1>2, <1>3, <1>4, <1>5
<1>7. U16 * U16 = 2 * Top
  <2>1. \A h, b, u \in Nat : b = 2 * h => (b * b) * u = 2 * ((h * b) * u)
    OBVIOUS
  <2>2. U16 * U16 = (ByteBase * ByteBase) * U16
    BY DEF U16
  <2> QED  BY <1>1, <1>3, <1>5, <2>1, <2>2
<1> QED  BY <1>1, <1>3, <1>5, <1>6, <1>7

(* Quotient and remainder of a number below a product. *)
LEMMA Split ==
    ASSUME NEW m \in Nat \ {0}, NEW n \in Nat \ {0}, NEW v \in 0 .. m * n - 1
    PROVE  /\ v \div n \in 0 .. m - 1 /\ v % n \in 0 .. n - 1
           /\ v = (v \div n) * n + (v % n)
<1> DEFINE k == v \div n
           r == v % n
<1>1. m * n \in Nat
  OBVIOUS
<1>2. v \in Nat /\ v < m * n
  BY <1>1
<1>3. k \in Nat /\ r \in 0 .. n - 1 /\ v = n * k + r
  BY <1>2
<1> HIDE DEF k, r
<1>4. n * k = k * n /\ k * n \in Nat
  BY <1>3
<1>5. k <= m - 1
  <2>1. SUFFICES ASSUME k >= m PROVE FALSE
    BY <1>3
  <2>2. \A x, y, z \in Nat : x >= y => x * z >= y * z
    OBVIOUS
  <2>3. k * n >= m * n
    BY <1>3, <2>1, <2>2
  <2> QED  BY <1>1, <1>2, <1>3, <1>4, <2>3
<1> QED  BY <1>3, <1>4, <1>5 DEF k, r

(* Two bytes hold a number below U16. *)
LEMMA U16Bytes ==
    ASSUME NEW v \in 0 .. U16 - 1
    PROVE  /\ v \div ByteBase \in Byte /\ v % ByteBase \in Byte
           /\ v = (v \div ByteBase) * ByteBase + (v % ByteBase)
<1>1. v \in 0 .. ByteBase * ByteBase - 1
  BY DEF U16
<1>2. ByteBase \in Nat \ {0}
  BY Sizes
<1>3. /\ v \div ByteBase \in 0 .. ByteBase - 1 /\ v % ByteBase \in 0 .. ByteBase - 1
      /\ v = (v \div ByteBase) * ByteBase + (v % ByteBase)
  BY <1>1, <1>2, Split
<1> QED  BY <1>3 DEF Byte

(* Four bytes hold a word, and the first one the bit that h2_read_u31      *)
(* takes off.                                                              *)
LEMMA U32Bytes ==
    ASSUME NEW v \in Word
    PROVE  LET w == WriteU32(v)
           IN  /\ w \in Seq(Byte) /\ Len(w) = 4
               /\ w[1] \in Byte /\ w[2] \in Byte /\ w[3] \in Byte /\ w[4] \in Byte
               /\ v = (w[1] * ByteBase + w[2]) * U16 + (w[3] * ByteBase + w[4])
<1> DEFINE high == v \div U16
           low  == v % U16
<1>1. high \in 0 .. U16 - 1 /\ low \in 0 .. U16 - 1 /\ v = high * U16 + low
  BY Sizes, Split DEF Word
<1> HIDE DEF high, low
<1>2. /\ high \div ByteBase \in Byte /\ high % ByteBase \in Byte
      /\ high = (high \div ByteBase) * ByteBase + (high % ByteBase)
  BY <1>1, U16Bytes
<1>3. /\ low \div ByteBase \in Byte /\ low % ByteBase \in Byte
      /\ low = (low \div ByteBase) * ByteBase + (low % ByteBase)
  BY <1>1, U16Bytes
<1>4. WriteU32(v) = <<high \div ByteBase, high % ByteBase,
                      low \div ByteBase, low % ByteBase>>
  BY DEF WriteU32, high, low
<1> DEFINE a == high \div ByteBase
           b == high % ByteBase
           c == low \div ByteBase
           d == low % ByteBase
<1>5. /\ a \in Byte /\ b \in Byte /\ c \in Byte /\ d \in Byte
      /\ v = (a * ByteBase + b) * U16 + (c * ByteBase + d)
      /\ WriteU32(v) = <<a, b, c, d>>
  BY <1>1, <1>2, <1>3, <1>4
<1> HIDE DEF a, b, c, d
<1>6. /\ <<a, b, c, d>> \in Seq(Byte) /\ Len(<<a, b, c, d>>) = 4
      /\ <<a, b, c, d>>[1] = a /\ <<a, b, c, d>>[2] = b
      /\ <<a, b, c, d>>[3] = c /\ <<a, b, c, d>>[4] = d
  BY <1>5
<1> QED  BY <1>5, <1>6

(* The first byte of a word has the reserved bit exactly if the word does, *)
(* and reading the word back gives it with or without the bit.             *)
LEMMA ReadsBack ==
    ASSUME NEW v \in Word, NEW w, NEW p \in Nat,
           w[p + 1] = WriteU32(v)[1], w[p + 2] = WriteU32(v)[2],
           w[p + 3] = WriteU32(v)[3], w[p + 4] = WriteU32(v)[4]
    PROVE  /\ ReadU32(w, p) = v
           /\ w[p + 1] >= Half <=> v >= Top
           /\ ReadU31(w, p) = IF v >= Top THEN v - Top ELSE v
<1>1. PICK a, b, c, d \in Byte :
         /\ a = w[p + 1] /\ b = w[p + 2] /\ c = w[p + 3] /\ d = w[p + 4]
         /\ v = (a * ByteBase + b) * U16 + (c * ByteBase + d)
  BY U32Bytes
<1>2. (p + 2) + 1 = p + 3 /\ (p + 2) + 2 = p + 4
  OBVIOUS
<1>3. ReadU32(w, p) = v
  BY <1>1, <1>2 DEF ReadU32, ReadU16
<1>4. /\ ByteBase \in Nat \ {0} /\ Half \in Nat \ {0} /\ ByteBase = 2 * Half
      /\ U16 \in Nat \ {0} /\ Top \in Nat /\ Top = (Half * ByteBase) * U16
      /\ a \in 0 .. ByteBase - 1 /\ b \in 0 .. ByteBase - 1
      /\ c \in 0 .. ByteBase - 1 /\ d \in 0 .. ByteBase - 1
  BY Sizes DEF Byte
<1> DEFINE h == a * ByteBase + b
           l == c * ByteBase + d
           t == Half * ByteBase
<1>5. h \in Nat /\ l \in Nat /\ t \in Nat /\ l < U16
  <2>1. h \in Nat /\ l \in Nat /\ t \in Nat
    BY <1>4
  <2>2. c * ByteBase <= (ByteBase - 1) * ByteBase
    <3>1. \A x, y, z \in Nat : x <= y => x * z <= y * z
      OBVIOUS
    <3>2. ByteBase - 1 \in Nat /\ c \in Nat /\ c <= ByteBase - 1
      BY <1>4
    <3> QED  BY <1>4, <3>1, <3>2
  <2>3. (ByteBase - 1) * ByteBase = U16 - ByteBase
    BY <1>4 DEF U16
  <2>4. c * ByteBase \in Nat
    BY <1>4
  <2>5. l < U16
    <3> DEFINE x == c * ByteBase
               y == (ByteBase - 1) * ByteBase
    <3>1. x <= y /\ y = U16 - ByteBase /\ x \in Nat /\ l = x + d
      BY <2>2, <2>3, <2>4
    <3> HIDE DEF x, y, l
    <3> QED  BY <1>4, <3>1
  <2> QED  BY <2>1, <2>5
<1>6. a >= Half => h >= t
  <2>1. \A x, y, z \in Nat : x <= y => x * z <= y * z /\ x * z \in Nat /\ y * z \in Nat
    OBVIOUS
  <2>2. SUFFICES ASSUME a >= Half PROVE h >= t
    OBVIOUS
  <2>3. a * ByteBase >= Half * ByteBase /\ a * ByteBase \in Nat /\ Half * ByteBase \in Nat
    BY <1>4, <2>1, <2>2
  <2> QED  BY <1>4, <2>3
<1>7. a < Half => h < t
  <2>1. \A x, y, z \in Nat : x <= y => x * z <= y * z /\ x * z \in Nat /\ y * z \in Nat
    OBVIOUS
  <2>2. SUFFICES ASSUME a < Half PROVE h < t
    OBVIOUS
  <2>3. a + 1 <= Half
    BY <1>4, <2>2
  <2>4. (a + 1) * ByteBase <= Half * ByteBase /\ Half * ByteBase \in Nat
    BY <1>4, <2>1, <2>3
  <2>5. (a + 1) * ByteBase = a * ByteBase + ByteBase /\ a * ByteBase \in Nat
    BY <1>4
  <2> QED  BY <1>4, <2>4, <2>5
<1> HIDE DEF h, l, t
<1>8. v = h * U16 + l /\ Top = t * U16
  BY <1>1, <1>4 DEF h, l, t
<1>9. h * U16 \in Nat /\ t * U16 \in Nat
  BY <1>4, <1>5
<1>10. CASE a >= Half
  <2>1. \A x, y, z \in Nat : x <= y => x * z <= y * z
    OBVIOUS
  <2>2. h * U16 >= t * U16
    BY <1>4, <1>5, <1>6, <1>10, <2>1
  <2>3. v >= Top
    BY <1>5, <1>8, <1>9, <2>2
  <2>4. a % Half = a - Half
    BY <1>4, <1>10
  <2>5. (a % Half) * ByteBase + b = h - t
    <3>1. (a - Half) * ByteBase = a * ByteBase - Half * ByteBase
      BY <1>4
    <3>2. a * ByteBase \in Nat /\ Half * ByteBase \in Nat
      BY <1>4
    <3> DEFINE x == a * ByteBase
               y == Half * ByteBase
    <3>3. (a % Half) * ByteBase = x - y /\ h = x + b /\ t = y
      BY <2>4, <3>1 DEF h, t
    <3>4. x \in Nat /\ y \in Nat
      BY <3>2
    <3> HIDE DEF x, y
    <3> QED  BY <1>4, <3>3, <3>4
  <2>6. (h - t) * U16 = h * U16 - t * U16
    BY <1>4, <1>5
  <2>7. ReadU31(w, p) = (h - t) * U16 + l
    BY <1>1, <1>2, <2>5 DEF ReadU31, ReadU16, l
  <2>8. ReadU31(w, p) = v - Top
    BY <1>5, <1>8, <1>9, <2>6, <2>7
  <2> QED  BY <1>1, <1>3, <1>10, <2>3, <2>8
<1>11. CASE a < Half
  <2>1. \A x, y, z \in Nat : x <= y => x * z <= y * z
    OBVIOUS
  <2>2. h + 1 <= t
    BY <1>5, <1>7, <1>11
  <2>3. (h + 1) * U16 <= t * U16
    BY <1>4, <1>5, <2>1, <2>2
  <2>4. (h + 1) * U16 = h * U16 + U16
    BY <1>4, <1>5
  <2>5. v < Top
    BY <1>4, <1>5, <1>8, <1>9, <2>3, <2>4
  <2>6. a % Half = a
    BY <1>4, <1>11
  <2>7. ReadU31(w, p) = h * U16 + l
    BY <1>1, <1>2, <2>6 DEF ReadU31, ReadU16, h, l
  <2>8. ReadU31(w, p) = v /\ v \in Nat
    BY <1>5, <1>8, <1>9, <2>7
  <2> QED  BY <1>1, <1>3, <1>4, <1>11, <2>5, <2>8
<1> QED  BY <1>4, <1>10, <1>11

LEMMA Ids31 ==
    ASSUME NEW v \in Id
    PROVE  v \in Word /\ Mask31(v) = v /\ v < Top /\ v \in Nat
<1>1. Top \in Nat \ {0} /\ U16 * U16 = 2 * Top
  BY Sizes
<1>2. v \in 0 .. Top - 1
  BY DEF Id
<1>3. v % Top = v
  BY <1>1, <1>2
<1> QED  BY <1>1, <1>2, <1>3 DEF Word, Mask31

-----------------------------------------------------------------------------
(* Headers.                                                                *)

(* What is in front of a payload, and the payload, come back. *)
LEMMA Concatenated ==
    ASSUME NEW S, NEW a \in Seq(S), NEW b \in Seq(S)
    PROVE  /\ a \o b \in Seq(S) /\ Len(a \o b) = Len(a) + Len(b)
           /\ \A i \in 1 .. Len(a) : (a \o b)[i] = a[i]
           /\ \A i \in 1 .. Len(b) : (a \o b)[Len(a) + i] = b[i]
           /\ SubSeq(a \o b, Len(a) + 1, Len(a \o b)) = b
<1> DEFINE s == a \o b
           t == SubSeq(s, Len(a) + 1, Len(s))
<1>1. /\ s \in Seq(S) /\ Len(s) = Len(a) + Len(b)
      /\ \A i \in 1 .. Len(a) : s[i] = a[i]
      /\ \A i \in 1 .. Len(b) : s[Len(a) + i] = b[i]
  OBVIOUS
<1>2. Len(a) \in Nat /\ Len(b) \in Nat
  OBVIOUS
<1> HIDE DEF s
<1>3. t \in Seq(S) /\ Len(t) = Len(b) /\ \A i \in 1 .. Len(b) : t[i] = b[i]
  <2>1. t \in Seq(S)
    BY <1>1, <1>2
  <2>2. Len(t) = Len(b)
    BY <1>1, <1>2
  <2>3. \A i \in 1 .. Len(b) : t[i] = s[Len(a) + i]
    BY <1>1, <1>2
  <2> QED  BY <1>1, <2>1, <2>2, <2>3
<1> HIDE DEF t
<1>4. t = b
  BY <1>3
<1> QED  BY <1>1, <1>4 DEF s, t

LEMMA FunctionIsSeq ==
    ASSUME NEW n \in Nat, NEW S, NEW f \in [1 .. n -> S]
    PROVE  f \in Seq(S) /\ Len(f) = n
<1>1. f = [i \in 1 .. n |-> f[i]] /\ \A i \in 1 .. n : f[i] \in S
  OBVIOUS
<1>2. [i \in 1 .. n |-> f[i]] \in Seq(S)
  BY <1>1
<1>3. Len([i \in 1 .. n |-> f[i]]) = n
  OBVIOUS
<1> QED  BY <1>1, <1>2, <1>3

(* What h2_frame_write_header writes in front of a payload, and what       *)
(* h2_frame_parse_header makes of it.                                      *)
LEMMA HeaderReads ==
    ASSUME NEW length \in 0 .. H2_MAX_FRAME_SIZE, NEW type \in Byte,
           NEW flags \in Byte, NEW stream_id \in Id, NEW payload \in Seq(Byte)
    PROVE  LET w == WriteHeader(length, type, flags, stream_id) \o payload
           IN  /\ w \in Seq(Byte) /\ Len(w) = H2_FRAME_HEADER_LEN + Len(payload)
               /\ ParseHeader(w) = [length |-> length, type |-> type,
                                    flags |-> {b \in Flag : Has(flags, b)},
                                    stream_id |-> stream_id]
               /\ SubSeq(w, H2_FRAME_HEADER_LEN + 1, Len(w)) = payload
<1> DEFINE hdr == WriteHeader(length, type, flags, stream_id)
           w   == hdr \o payload
           x   == length \div U16
           y   == length % U16
           id  == WriteU32(stream_id)
<1>1. x \in Byte /\ y \in 0 .. U16 - 1 /\ length = x * U16 + y
  <2>1. length \in 0 .. ByteBase * U16 - 1
    BY FrameBytesAssumption, FrameSizeAssumption, Sizes
  <2> QED  BY <2>1, Sizes, Split DEF Byte
<1>2. /\ y \div ByteBase \in Byte /\ y % ByteBase \in Byte
      /\ y = (y \div ByteBase) * ByteBase + (y % ByteBase)
  <2> HIDE DEF y
  <2> QED  BY <1>1, U16Bytes
<1>3. /\ stream_id \in Word /\ Mask31(stream_id) = stream_id
      /\ stream_id < Top /\ stream_id \in Nat
  BY Ids31
<1>4. id[1] \in Byte /\ id[2] \in Byte /\ id[3] \in Byte /\ id[4] \in Byte
  BY <1>3, U32Bytes
<1> DEFINE y1 == y \div ByteBase
           y2 == y % ByteBase
<1>5. hdr = <<x, y1, y2, type, flags, id[1], id[2], id[3], id[4]>>
  BY <1>3 DEF WriteHeader, WriteU16
<1>6. y1 \in Byte /\ y2 \in Byte /\ y = y1 * ByteBase + y2
  BY <1>2
<1> HIDE DEF hdr, x, y, id, y1, y2
<1>7. /\ hdr \in Seq(Byte) /\ Len(hdr) = 9
      /\ hdr[1] = x /\ hdr[2] = y1 /\ hdr[3] = y2 /\ hdr[4] = type
      /\ hdr[5] = flags /\ hdr[6] = id[1] /\ hdr[7] = id[2]
      /\ hdr[8] = id[3] /\ hdr[9] = id[4]
  BY <1>1, <1>4, <1>5, <1>6
<1>8. /\ w \in Seq(Byte) /\ Len(w) = 9 + Len(payload)
      /\ \A i \in 1 .. 9 : w[i] = hdr[i]
      /\ SubSeq(w, 9 + 1, Len(w)) = payload
  <2>1. /\ w \in Seq(Byte) /\ Len(w) = Len(hdr) + Len(payload)
        /\ \A i \in 1 .. Len(hdr) : w[i] = hdr[i]
        /\ SubSeq(w, Len(hdr) + 1, Len(w)) = payload
    <3>1. hdr \in Seq(Byte)
      BY <1>7
    <3> QED  BY <3>1, Concatenated
  <2> HIDE DEF w
  <2> QED  BY <1>7, <2>1
<1> HIDE DEF w
<1>9. /\ w[1] = x /\ w[2] = y1 /\ w[3] = y2 /\ w[4] = type
      /\ w[5] = flags /\ w[6] = id[1] /\ w[7] = id[2]
      /\ w[8] = id[3] /\ w[9] = id[4]
  BY <1>7, <1>8
<1>10. ReadU31(w, 5) = stream_id
  <2>1. /\ w[5 + 1] = WriteU32(stream_id)[1] /\ w[5 + 2] = WriteU32(stream_id)[2]
        /\ w[5 + 3] = WriteU32(stream_id)[3] /\ w[5 + 4] = WriteU32(stream_id)[4]
    BY <1>9 DEF id
  <2>2. ReadU31(w, 5) = IF stream_id >= Top THEN stream_id - Top ELSE stream_id
    BY <1>3, <2>1, ReadsBack
  <2> QED  BY <1>3, <2>2, Sizes
<1>11. w[1] * U16 + ReadU16(w, 1) = length
  BY <1>1, <1>6, <1>9 DEF ReadU16
<1>12. ParseHeader(w) = [length |-> length, type |-> type,
                         flags |-> {b \in Flag : Has(flags, b)},
                         stream_id |-> stream_id]
  BY <1>9, <1>10, <1>11 DEF ParseHeader
<1> QED  BY <1>8, <1>12 DEF w, hdr, H2_FRAME_HEADER_LEN

-----------------------------------------------------------------------------
(* Parsers.                                                                *)

(* What h2_connection_feed hands to a parser: a header and as many bytes   *)
(* as it says.                                                             *)
Given(h, payload) ==
    /\ payload \in Seq(Byte) /\ h.length \in Nat /\ Len(payload) = h.length

LEMMA WholeGiven ==
    ASSUME Whole(frame)
    PROVE  Given(ParseHeader(frame), Payload)
<1>1. /\ frame \in Seq(Byte) /\ Len(frame) >= 9
      /\ ParseHeader(frame).length = Len(frame) - 9
  BY DEF Whole, H2_FRAME_HEADER_LEN
<1>2. Payload = SubSeq(frame, 10, Len(frame))
  BY DEF Payload, H2_FRAME_HEADER_LEN
<1>3. ASSUME NEW w \in Seq(Byte), Len(w) >= 9
      PROVE  SubSeq(w, 10, Len(w)) \in Seq(Byte)
             /\ Len(SubSeq(w, 10, Len(w))) = Len(w) - 9
  <2>1. PICK n \in Nat : n = Len(w)
    OBVIOUS
  <2>2. \A i \in 10 .. n : w[i] \in Byte
    BY <2>1
  <2>3. SubSeq(w, 10, n) \in Seq(Byte)
    BY <1>3, <2>1, <2>2
  <2>4. Len(SubSeq(w, 10, n)) = n - 9
    BY <1>3, <2>1
  <2> QED  BY <2>1, <2>3, <2>4
<1>4. Payload \in Seq(Byte) /\ Len(Payload) = Len(frame) - 9
  BY <1>1, <1>2, <1>3
<1> QED  BY <1>1, <1>4 DEF Given

LEMMA BlockLen ==
    ASSUME NEW payload \in Seq(Byte), NEW pos \in Nat, NEW len \in Nat,
           pos + len <= Len(payload)
    PROVE  Block(payload, pos, len) \in Seq(Byte) /\ Len(Block(payload, pos, len)) = len
<1>1. Len(payload) \in Nat
  OBVIOUS
<1> QED  BY <1>1 DEF Block

(* The padding of an accepted payload leaves what is in front and the      *)
(* block; a payload that is not accepted gives a code and nothing else.    *)
LEMMA Unpadded ==
    ASSUME NEW h, NEW payload, Given(h, payload)
    PROVE  LET u == Unpad(h, payload)
           IN  /\ u.ret = H2_OK =>
                    /\ u.pos \in Nat /\ u.len \in Nat /\ u.pad_len \in Nat
                    /\ u.pos + u.len + u.pad_len = h.length
                    /\ u.pos = IF H2_FLAG_PADDED \in h.flags THEN 1 ELSE 0
                    /\ H2_FLAG_PADDED \in h.flags =>
                          u.len = h.length - 1 - payload[1]
                    /\ H2_FLAG_PADDED \notin h.flags =>
                          u.len = h.length /\ u.pad_len = 0
               /\ u.ret # H2_OK => u = Fail(u.ret)
               /\ u.ret = IF H2_FLAG_PADDED \notin h.flags THEN H2_OK
                          ELSE IF h.length = 0 THEN H2_FRAME_SIZE_ERROR
                          ELSE IF payload[1] > h.length - 1 THEN H2_PROTOCOL_ERROR
                          ELSE H2_OK
<1>1. payload \in Seq(Byte) /\ h.length \in Nat /\ Len(payload) = h.length
  BY DEF Given
<1>2. CASE H2_FLAG_PADDED \notin h.flags
  BY <1>1, <1>2 DEF Unpad, H2_OK
<1>3. CASE H2_FLAG_PADDED \in h.flags /\ h.length = 0
  BY <1>3 DEF Unpad, Fail, H2_OK, H2_FRAME_SIZE_ERROR
<1>4. CASE H2_FLAG_PADDED \in h.flags /\ h.length # 0
  <2>1. payload[1] \in Nat
    BY <1>1, <1>4, Sizes DEF Byte
  <2>2. CASE payload[1] > h.length - 1
    BY <1>4, <2>2 DEF Unpad, Fail, H2_OK, H2_PROTOCOL_ERROR
  <2>3. CASE ~(payload[1] > h.length - 1)
    BY <1>1, <1>4, <2>1, <2>3 DEF Unpad, H2_OK
  <2> QED  BY <2>2, <2>3
<1> QED  BY <1>2, <1>3, <1>4

(* The block of HEADERS, once the priority is taken off. *)
LEMMA SharedParts ==
    ASSUME NEW h, NEW payload, Given(h, payload), NEW front \in Nat,
           Unpad(h, payload).ret = H2_OK, Unpad(h, payload).len >= front
    PROVE  LET u == Unpad(h, payload)
               b == Block(payload, u.pos + front, u.len - front)
           IN  /\ b \in Seq(Byte) /\ Len(b) = u.len - front
               /\ (u.pos + front) + Len(b) + u.pad_len = h.length
<1> DEFINE u == Unpad(h, payload)
<1>1. /\ u.pos \in Nat /\ u.len \in Nat /\ u.pad_len \in Nat
      /\ u.pos + u.len + u.pad_len = h.length
      /\ payload \in Seq(Byte) /\ h.length \in Nat /\ Len(payload) = h.length
  BY Unpadded DEF Given
<1>2. u.len >= front
  OBVIOUS
<1> HIDE DEF u
<1>3. PICK p, l \in Nat : p = u.pos + front /\ l = u.len - front
  BY <1>1, <1>2
<1>4. p + l <= Len(payload)
  <2>1. p + l = u.pos + u.len
    BY <1>1, <1>3
  <2>2. u.pos + u.len <= h.length
    BY <1>1
  <2> QED  BY <1>1, <2>1, <2>2
<1>5. Block(payload, p, l) \in Seq(Byte) /\ Len(Block(payload, p, l)) = l
  BY <1>1, <1>4, BlockLen
<1>6. p + l + u.pad_len = h.length
  BY <1>1, <1>3
<1> QED  BY <1>3, <1>5, <1>6 DEF u

(* In front of the block of a frame *)
Shared(h, out) == out.ret = H2_OK /\ "pos" \in DOMAIN out
                  => out.pos + Len(out.bytes) + out.pad_len = h.length

LEMMA DataShared ==
    ASSUME NEW h, NEW payload, Given(h, payload)
    PROVE  Shared(h, ParseDataBytes(h, payload))
<1> DEFINE u   == Unpad(h, payload)
           out == ParseDataBytes(h, payload)
<1>1. CASE ValidatePayload(h) # H2_OK
  BY <1>1 DEF ParseDataBytes, Fail, Shared, H2_OK, H2_PROTOCOL_ERROR
<1>2. CASE ValidatePayload(h) = H2_OK /\ u.ret # H2_OK
  <2>1. out = u
    BY <1>2 DEF ParseDataBytes
  <2> QED  BY <1>2, <2>1 DEF Shared
<1>3. CASE ValidatePayload(h) = H2_OK /\ u.ret = H2_OK
  <2>1. out = [ret |-> H2_OK, pos |-> u.pos, pad_len |-> u.pad_len,
               bytes |-> Block(payload, u.pos, u.len)]
    BY <1>3 DEF ParseDataBytes
  <2>2. /\ u.pos \in Nat /\ u.len \in Nat /\ u.pad_len \in Nat
        /\ u.pos + u.len + u.pad_len = h.length
        /\ payload \in Seq(Byte) /\ h.length \in Nat /\ Len(payload) = h.length
    BY <1>3, Unpadded DEF Given
  <2> HIDE DEF u
  <2>3. Len(Block(payload, u.pos, u.len)) = u.len
    BY <2>2, BlockLen
  <2> HIDE DEF out
  <2>4. out.pos = u.pos /\ out.pad_len = u.pad_len /\ Len(out.bytes) = u.len
    BY <2>1, <2>3
  <2> QED  BY <2>2, <2>4 DEF Shared, out
<1> QED  BY <1>1, <1>2, <1>3

LEMMA HeadersShared ==
    ASSUME NEW h, NEW payload, Given(h, payload)
    PROVE  Shared(h, ParseHeadersBytes(h, payload))
<1> DEFINE u        == Unpad(h, payload)
           priority == PriorityAt(h, payload, u.pos)
           out      == ParseHeadersBytes(h, payload)
<1>1. CASE ValidatePayload(h) # H2_OK
  BY <1>1 DEF ParseHeadersBytes, Fail, Shared, H2_OK, H2_PROTOCOL_ERROR
<1>2. CASE ValidatePayload(h) = H2_OK /\ u.ret # H2_OK
  <2>1. out = u
    BY <1>2 DEF ParseHeadersBytes
  <2> QED  BY <1>2, <2>1 DEF Shared
<1>3. CASE /\ ValidatePayload(h) = H2_OK /\ u.ret = H2_OK
           /\ H2_FLAG_PRIORITY \notin h.flags
  <2>1. out = [ret |-> H2_OK, pos |-> u.pos, pad_len |-> u.pad_len,
               bytes |-> Block(payload, u.pos, u.len)]
    BY <1>3 DEF ParseHeadersBytes
  <2>2. out = ParseDataBytes(h, payload)
    BY <1>3, <2>1 DEF ParseDataBytes
  <2> QED  BY <2>2, DataShared
<1>4. CASE /\ ValidatePayload(h) = H2_OK /\ u.ret = H2_OK
           /\ H2_FLAG_PRIORITY \in h.flags
  <2>1. CASE u.len < 5
    BY <1>4, <2>1 DEF ParseHeadersBytes, Fail, Shared, H2_OK, H2_FRAME_SIZE_ERROR
  <2>2. CASE ~(u.len < 5) /\ priority.ret # H2_OK
    <3>1. out = priority
      BY <1>4, <2>2 DEF ParseHeadersBytes
    <3> QED  BY <2>2, <3>1 DEF Shared
  <2>3. CASE ~(u.len < 5) /\ priority.ret = H2_OK
    <3>1. out = [ret |-> H2_OK, pos |-> u.pos + 5, pad_len |-> u.pad_len,
                 bytes |-> Block(payload, u.pos + 5, u.len - 5)]
      BY <1>4, <2>3 DEF ParseHeadersBytes
    <3>2. u.len \in Nat
      BY <1>4, Unpadded
    <3>3. u.len >= 5
      BY <2>3, <3>2
    <3>4. (u.pos + 5) + Len(Block(payload, u.pos + 5, u.len - 5)) + u.pad_len
             = h.length
      BY <1>4, <3>3, SharedParts
    <3> HIDE DEF u, out
    <3> QED  BY <3>1, <3>4 DEF Shared, out
  <2> QED  BY <2>1, <2>2, <2>3
<1> QED  BY <1>1, <1>2, <1>3, <1>4

LEMMA PushPromiseShared ==
    ASSUME NEW h, NEW payload, Given(h, payload)
    PROVE  Shared(h, ParsePushPromise(h, payload))
<1> DEFINE u   == Unpad(h, payload)
           out == ParsePushPromise(h, payload)
<1>1. CASE ValidatePayload(h) # H2_OK
  BY <1>1 DEF ParsePushPromise, Fail, Shared, H2_OK, H2_PROTOCOL_ERROR
<1>2. CASE ValidatePayload(h) = H2_OK /\ u.ret # H2_OK
  <2>1. out = u
    BY <1>2 DEF ParsePushPromise
  <2> QED  BY <1>2, <2>1 DEF Shared
<1>3. CASE ValidatePayload(h) = H2_OK /\ u.ret = H2_OK /\ ~PromiseFits(u.len)
  BY <1>3 DEF ParsePushPromise, Fail, Shared, H2_OK, H2_FRAME_SIZE_ERROR
<1>4. CASE ValidatePayload(h) = H2_OK /\ u.ret = H2_OK /\ PromiseFits(u.len)
  <2>1. out = [ret |-> H2_OK, pos |-> u.pos + 4, pad_len |-> u.pad_len,
               promised |-> ReadU31(payload, u.pos),
               bytes |-> Block(payload, u.pos + 4, u.len - 4)]
    BY <1>4 DEF ParsePushPromise
  <2>2. u.len >= 4
    BY <1>4 DEF PromiseFits
  <2>3. (u.pos + 4) + Len(Block(payload, u.pos + 4, u.len - 4)) + u.pad_len
           = h.length
    BY <1>4, <2>2, SharedParts
  <2> HIDE DEF u, out
  <2> QED  BY <2>1, <2>3 DEF Shared, out
<1> QED  BY <1>1, <1>2, <1>3, <1>4

(* No other parser hands out a block with padding. *)
LEMMA OthersShared ==
    ASSUME NEW h, NEW payload, h.type \in Nat \ {0, 1, 5}
    PROVE  Shared(h, ParsePayload(h, payload))
<1> USE DEF H2_FRAME_DATA, H2_FRAME_HEADERS, H2_FRAME_PRIORITY,
            H2_FRAME_RST_STREAM, H2_FRAME_SETTINGS, H2_FRAME_PUSH_PROMISE,
            H2_FRAME_PING, H2_FRAME_GOAWAY, H2_FRAME_WINDOW_UPDATE,
            H2_FRAME_CONTINUATION
<1> DEFINE out == ParsePayload(h, payload)
<1>1. CASE h.type = 2
  <2>1. out = ParsePriorityBytes(h, payload)
    BY <1>1 DEF ParsePayload
  <2>2. "pos" \notin DOMAIN out
    BY <2>1 DEF ParsePriorityBytes, PriorityAt, Fail
  <2> QED  BY <2>2 DEF Shared
<1>2. CASE h.type = 9
  <2>1. out = IF ValidatePayload(h) # H2_OK THEN Fail(H2_PROTOCOL_ERROR)
              ELSE [ret |-> H2_OK, bytes |-> payload]
    BY <1>2 DEF ParsePayload
  <2>2. "pos" \notin DOMAIN out
    BY <2>1 DEF Fail
  <2> QED  BY <2>2 DEF Shared
<1>3. CASE h.type \notin {2, 9}
  <2>1. out = ParseFields(h, payload)
    BY <1>3 DEF ParsePayload
  <2>2. "pos" \notin DOMAIN ParseFields(h, payload)
    <3>1. CASE ValidatePayload(h) # H2_OK
      BY <3>1 DEF ParseFields, Fail
    <3>2. CASE ValidatePayload(h) = H2_OK /\ h.type = 4
      <4>1. \/ ParseFields(h, payload) = [ret |-> H2_OK, settings |-> << >>]
            \/ ParseFields(h, payload) = Fail(H2_INTERNAL_ERROR)
            \/ ParseFields(h, payload)
                  = [ret |-> H2_OK, settings |-> SettingsIn(payload)]
        BY <3>2 DEF ParseFields
      <4> QED  BY <4>1 DEF Fail
    <3>3. CASE ValidatePayload(h) = H2_OK /\ h.type = 8
      <4>1. \/ ParseFields(h, payload) = Fail(H2_PROTOCOL_ERROR)
            \/ ParseFields(h, payload)
                  = [ret |-> H2_OK, increment |-> ReadU31(payload, 0)]
        BY <3>3 DEF ParseFields
      <4> QED  BY <4>1 DEF Fail
    <3>4. CASE ValidatePayload(h) = H2_OK /\ h.type = 6
      BY <3>4 DEF ParseFields
    <3>5. CASE ValidatePayload(h) = H2_OK /\ h.type = 3
      BY <3>5 DEF ParseFields
    <3>6. CASE ValidatePayload(h) = H2_OK /\ h.type = 7
      BY <3>6 DEF ParseFields
    <3>7. CASE ValidatePayload(h) = H2_OK /\ h.type \notin {3, 4, 6, 7, 8}
      BY <3>7 DEF ParseFields
    <3> QED  BY <3>1, <3>2, <3>3, <3>4, <3>5, <3>6, <3>7
  <2> QED  BY <2>1, <2>2 DEF Shared
<1> QED  BY <1>1, <1>2, <1>3

-----------------------------------------------------------------------------
(* Encoders.  What one writes is empty, or a whole frame from which the    *)
(* parser of its type reads the arguments of the call.                     *)

HeaderOf(length, type, flags, stream_id) ==
    [length |-> length, type |-> type, flags |-> {b \in Flag : Has(flags, b)},
     stream_id |-> stream_id]

Trips(c) ==
    LET w == Encode(c)
    IN  w # << >> =>
          /\ Whole(w)
          /\ ParsePayload(ParseHeader(w),
                          SubSeq(w, H2_FRAME_HEADER_LEN + 1, Len(w)))
                = Carried(c)

LEMMA RawTrips ==
    ASSUME NEW c, NEW cap, NEW type \in Byte, NEW flags \in Byte,
           NEW stream_id \in Id, NEW payload \in Seq(Byte),
           Encode(c) = EncodeRaw(cap, type, flags, stream_id, payload),
           Len(payload) <= H2_MAX_FRAME_SIZE =>
              ParsePayload(HeaderOf(Len(payload), type, flags, stream_id), payload)
                 = Carried(c)
    PROVE  Trips(c)
<1> DEFINE w == WriteHeader(Len(payload), type, flags, stream_id) \o payload
<1>1. CASE Encode(c) = << >>
  BY <1>1 DEF Trips
<1>2. CASE Encode(c) # << >>
  <2>1. Encode(c) = w /\ ~(Len(payload) > H2_MAX_FRAME_SIZE)
    BY <1>2 DEF EncodeRaw
  <2>2. Len(payload) \in Nat
    OBVIOUS
  <2>3. Len(payload) \in 0 .. H2_MAX_FRAME_SIZE
    BY <2>1, <2>2, FrameSizeAssumption
  <2>4. /\ w \in Seq(Byte) /\ Len(w) = H2_FRAME_HEADER_LEN + Len(payload)
        /\ ParseHeader(w) = HeaderOf(Len(payload), type, flags, stream_id)
        /\ SubSeq(w, H2_FRAME_HEADER_LEN + 1, Len(w)) = payload
    BY <2>3, HeaderReads DEF HeaderOf
  <2> HIDE DEF w
  <2>5. ParseHeader(w).length = Len(payload)
    BY <2>4 DEF HeaderOf
  <2>6. Whole(w)
    BY <2>2, <2>4, <2>5 DEF Whole, H2_FRAME_HEADER_LEN
  <2>7. Len(payload) <= H2_MAX_FRAME_SIZE
    BY <2>3
  <2> QED  BY <2>1, <2>4, <2>6, <2>7 DEF Trips
<1> QED  BY <1>1, <1>2

LEMMA FlagSet ==
    ASSUME NEW length, NEW type, NEW flags, NEW stream_id
    PROVE  LET h == HeaderOf(length, type, flags, stream_id)
           IN  /\ h.length = length /\ h.type = type /\ h.stream_id = stream_id
               /\ H2_FLAG_ACK \in h.flags <=> Has(flags, H2_FLAG_ACK)
               /\ H2_FLAG_PADDED \in h.flags <=> Has(flags, H2_FLAG_PADDED)
               /\ H2_FLAG_PRIORITY \in h.flags <=> Has(flags, H2_FLAG_PRIORITY)
  BY DEF HeaderOf, Flag, H2_FLAG_ACK, H2_FLAG_PADDED, H2_FLAG_PRIORITY

LEMMA WholeBlock ==
    ASSUME NEW S, NEW s \in Seq(S)
    PROVE  SubSeq(s, 1, Len(s)) = s
  OBVIOUS

LEMMA SmallTypes == 0 .. 10 \subseteq Byte
  BY Sizes DEF Byte

LEMMA BlockTrips ==
    ASSUME NEW c \in BlockCall
    PROVE  Trips(c)
<1> USE DEF H2_FRAME_DATA, H2_FRAME_HEADERS, H2_FRAME_PRIORITY,
            H2_FRAME_RST_STREAM, H2_FRAME_SETTINGS, H2_FRAME_PUSH_PROMISE,
            H2_FRAME_PING, H2_FRAME_GOAWAY, H2_FRAME_WINDOW_UPDATE,
            H2_FRAME_CONTINUATION, H2_OK
<1>1. /\ c.stream_id \in Id /\ c.flags \in Byte /\ c.bytes \in Seq(Byte)
      /\ c.op \in {"data", "headers", "continuation"} /\ Len(c.bytes) \in Nat
  BY DEF BlockCall
<1>2. 0 \in Byte /\ 1 \in Byte /\ 9 \in Byte
  BY SmallTypes
<1>3. SubSeq(c.bytes, 1, Len(c.bytes)) = c.bytes
  BY <1>1, WholeBlock
<1>4. CASE Encode(c) = << >>
  BY <1>4 DEF Trips
<1>5. ASSUME c.stream_id # 0, NEW type \in {0, 1, 9},
             Len(c.bytes) <= H2_MAX_FRAME_SIZE,
             type # 9 => ~Has(c.flags, H2_FLAG_PADDED)
      PROVE  LET h == HeaderOf(Len(c.bytes), type, c.flags, c.stream_id)
             IN  /\ ValidatePayload(h) = H2_OK
                 /\ type # 9 =>
                      Unpad(h, c.bytes) = [ret |-> H2_OK, pos |-> 0,
                                           pad_len |-> 0, len |-> Len(c.bytes)]
  <2> DEFINE h == HeaderOf(Len(c.bytes), type, c.flags, c.stream_id)
  <2>1. /\ h.length = Len(c.bytes) /\ h.type = type /\ h.stream_id = c.stream_id
        /\ H2_FLAG_PADDED \in h.flags <=> Has(c.flags, H2_FLAG_PADDED)
    BY FlagSet
  <2> HIDE DEF h
  <2>2. ~(h.length > H2_MAX_FRAME_SIZE)
    BY <1>1, <1>5, <2>1, FrameSizeAssumption
  <2>3. ValidatePayload(h) = H2_OK
    <3>1. h.type = 0 \/ h.type = 1 \/ h.type = 9
      BY <1>5, <2>1
    <3>2. ValidatePayload(h) = OnStream(h, H2_OK)
      BY <2>2, <3>1 DEF ValidatePayload
    <3> QED  BY <1>5, <2>1, <3>2 DEF OnStream
  <2>4. type # 9 => Unpad(h, c.bytes) = [ret |-> H2_OK, pos |-> 0,
                                         pad_len |-> 0, len |-> Len(c.bytes)]
    BY <1>5, <2>1 DEF Unpad
  <2> QED  BY <2>3, <2>4 DEF h
<1>6. Block(c.bytes, 0, Len(c.bytes)) = c.bytes
  BY <1>1, <1>3 DEF Block
<1>7. CASE c.op = "data" /\ Encode(c) # << >>
  <2>1. /\ c.stream_id # 0 /\ ~Has(c.flags, H2_FLAG_PADDED)
        /\ Encode(c) = EncodeRaw(c.cap, 0, c.flags, c.stream_id, c.bytes)
    BY <1>7 DEF Encode, Unless
  <2>2. ASSUME Len(c.bytes) <= H2_MAX_FRAME_SIZE
        PROVE  ParsePayload(HeaderOf(Len(c.bytes), 0, c.flags, c.stream_id), c.bytes)
                  = Carried(c)
    <3> DEFINE h == HeaderOf(Len(c.bytes), 0, c.flags, c.stream_id)
    <3>1. /\ ValidatePayload(h) = H2_OK
          /\ Unpad(h, c.bytes) = [ret |-> H2_OK, pos |-> 0,
                                  pad_len |-> 0, len |-> Len(c.bytes)]
      BY <1>5, <2>1, <2>2
    <3>2. h.type = 0
      BY FlagSet
    <3> HIDE DEF h
    <3>3. ParsePayload(h, c.bytes) = ParseDataBytes(h, c.bytes)
      BY <3>2 DEF ParsePayload
    <3>4. ParseDataBytes(h, c.bytes)
             = [ret |-> H2_OK, pos |-> 0, pad_len |-> 0, bytes |-> c.bytes]
      BY <1>6, <3>1 DEF ParseDataBytes
    <3>5. Carried(c) = [ret |-> H2_OK, pos |-> 0, pad_len |-> 0, bytes |-> c.bytes]
      BY <1>7 DEF Carried
    <3> QED  BY <3>3, <3>4, <3>5 DEF h
  <2> QED  BY <1>1, <1>2, <2>1, <2>2, RawTrips
<1>8. CASE c.op = "headers" /\ Encode(c) # << >>
  <2>1. /\ c.stream_id # 0 /\ ~Has(c.flags, H2_FLAG_PADDED)
        /\ ~Has(c.flags, H2_FLAG_PRIORITY)
        /\ Encode(c) = EncodeRaw(c.cap, 1, c.flags, c.stream_id, c.bytes)
    BY <1>8 DEF Encode, Unless
  <2>2. ASSUME Len(c.bytes) <= H2_MAX_FRAME_SIZE
        PROVE  ParsePayload(HeaderOf(Len(c.bytes), 1, c.flags, c.stream_id), c.bytes)
                  = Carried(c)
    <3> DEFINE h == HeaderOf(Len(c.bytes), 1, c.flags, c.stream_id)
    <3>1. /\ ValidatePayload(h) = H2_OK
          /\ Unpad(h, c.bytes) = [ret |-> H2_OK, pos |-> 0,
                                  pad_len |-> 0, len |-> Len(c.bytes)]
      BY <1>5, <2>1, <2>2
    <3>2. h.type = 1 /\ H2_FLAG_PRIORITY \notin h.flags
      BY <2>1, FlagSet
    <3> HIDE DEF h
    <3>3. ParsePayload(h, c.bytes) = ParseHeadersBytes(h, c.bytes)
      BY <3>2 DEF ParsePayload
    <3>4. ParseHeadersBytes(h, c.bytes)
             = [ret |-> H2_OK, pos |-> 0, pad_len |-> 0, bytes |-> c.bytes]
      BY <1>6, <3>1, <3>2 DEF ParseHeadersBytes
    <3>5. Carried(c) = [ret |-> H2_OK, pos |-> 0, pad_len |-> 0, bytes |-> c.bytes]
      BY <1>8 DEF Carried
    <3> QED  BY <3>3, <3>4, <3>5 DEF h
  <2> QED  BY <1>1, <1>2, <2>1, <2>2, RawTrips
<1>9. CASE c.op = "continuation" /\ Encode(c) # << >>
  <2>1. /\ c.stream_id # 0
        /\ Encode(c) = EncodeRaw(c.cap, 9, c.flags, c.stream_id, c.bytes)
    BY <1>9 DEF Encode, Unless
  <2>2. ASSUME Len(c.bytes) <= H2_MAX_FRAME_SIZE
        PROVE  ParsePayload(HeaderOf(Len(c.bytes), 9, c.flags, c.stream_id), c.bytes)
                  = Carried(c)
    <3> DEFINE h == HeaderOf(Len(c.bytes), 9, c.flags, c.stream_id)
    <3>1. ValidatePayload(h) = H2_OK
      BY <1>5, <2>1, <2>2
    <3>2. h.type = 9
      BY FlagSet
    <3> HIDE DEF h
    <3>3. ParsePayload(h, c.bytes) = [ret |-> H2_OK, bytes |-> c.bytes]
      BY <3>1, <3>2 DEF ParsePayload
    <3>4. Carried(c) = [ret |-> H2_OK, bytes |-> c.bytes]
      BY <1>9 DEF Carried
    <3> QED  BY <3>3, <3>4 DEF h
  <2> QED  BY <1>1, <1>2, <2>1, <2>2, RawTrips
<1> QED  BY <1>1, <1>4, <1>7, <1>8, <1>9

(* A word at the front of a payload, which may hold a reserved bit. *)
LEMMA WordFirst ==
    ASSUME NEW v \in Word, NEW rest \in Seq(Byte)
    PROVE  LET pl == WriteU32(v) \o rest
           IN  /\ pl \in Seq(Byte) /\ Len(pl) = 4 + Len(rest)
               /\ ReadU32(pl, 0) = v
               /\ pl[1] >= Half <=> v >= Top
               /\ ReadU31(pl, 0) = IF v >= Top THEN v - Top ELSE v
               /\ \A i \in 1 .. Len(rest) : pl[4 + i] = rest[i]
<1> DEFINE w == WriteU32(v)
<1>1. w \in Seq(Byte) /\ Len(w) = 4
  BY U32Bytes
<1> HIDE DEF w
<1> DEFINE pl == w \o rest
<1>2. /\ pl \in Seq(Byte) /\ Len(pl) = Len(w) + Len(rest)
      /\ \A i \in 1 .. Len(w) : pl[i] = w[i]
      /\ \A i \in 1 .. Len(rest) : pl[Len(w) + i] = rest[i]
  <2>1. w \in Seq(Byte)
    BY <1>1
  <2> QED  BY <2>1, Concatenated
<1> HIDE DEF w, pl
<1>3. /\ pl[0 + 1] = w[1] /\ pl[0 + 2] = w[2] /\ pl[0 + 3] = w[3] /\ pl[0 + 4] = w[4]
      /\ 0 + 1 = 1
  BY <1>1, <1>2
<1>4. /\ ReadU32(pl, 0) = v
      /\ pl[0 + 1] >= Half <=> v >= Top
      /\ ReadU31(pl, 0) = IF v >= Top THEN v - Top ELSE v
  BY <1>3, ReadsBack DEF w
<1>5. pl[1] >= Half <=> v >= Top
  BY <1>3, <1>4
<1> QED  BY <1>1, <1>2, <1>4, <1>5 DEF w, pl

LEMMA WordOnly ==
    ASSUME NEW v \in Word
    PROVE  LET pl == WriteU32(v)
           IN  /\ pl \in Seq(Byte) /\ Len(pl) = 4
               /\ ReadU32(pl, 0) = v
               /\ ReadU31(pl, 0) = IF v >= Top THEN v - Top ELSE v
<1> DEFINE pl == WriteU32(v)
<1>1. pl \in Seq(Byte) /\ Len(pl) = 4
  BY U32Bytes
<1>2. /\ pl[0 + 1] = WriteU32(v)[1] /\ pl[0 + 2] = WriteU32(v)[2]
      /\ pl[0 + 3] = WriteU32(v)[3] /\ pl[0 + 4] = WriteU32(v)[4]
  OBVIOUS
<1>3. /\ ReadU32(pl, 0) = v
      /\ ReadU31(pl, 0) = IF v >= Top THEN v - Top ELSE v
  BY <1>2, ReadsBack
<1> QED  BY <1>1, <1>3

(* The block behind what is in front of it *)
LEMMA BlockBehind ==
    ASSUME NEW front \in Seq(Byte), NEW bytes \in Seq(Byte)
    PROVE  Block(front \o bytes, Len(front), Len(front \o bytes) - Len(front)) = bytes
<1> DEFINE s == front \o bytes
<1>1. /\ Len(s) = Len(front) + Len(bytes)
      /\ SubSeq(s, Len(front) + 1, Len(s)) = bytes
  BY Concatenated
<1>2. Len(front) \in Nat /\ Len(bytes) \in Nat
  OBVIOUS
<1> HIDE DEF s
<1>3. Len(front) + (Len(s) - Len(front)) = Len(s)
  BY <1>1, <1>2
<1>4. Block(s, Len(front), Len(s) - Len(front)) = SubSeq(s, Len(front) + 1, Len(s))
  BY <1>3 DEF Block
<1> QED  BY <1>1, <1>4 DEF s

LEMMA RstStreamTrips ==
    ASSUME NEW c \in RstStreamCall
    PROVE  Trips(c)
<1> USE DEF H2_FRAME_DATA, H2_FRAME_HEADERS, H2_FRAME_PRIORITY,
            H2_FRAME_RST_STREAM, H2_FRAME_SETTINGS, H2_FRAME_PUSH_PROMISE,
            H2_FRAME_PING, H2_FRAME_GOAWAY, H2_FRAME_WINDOW_UPDATE,
            H2_FRAME_CONTINUATION, H2_OK
<1>1. c.op = "rst_stream" /\ c.stream_id \in Id /\ c.code \in Word
  BY DEF RstStreamCall
<1>2. CASE Encode(c) = << >>
  BY <1>2 DEF Trips
<1>3. CASE Encode(c) # << >>
  <2> DEFINE pl == WriteU32(c.code)
             h  == HeaderOf(Len(pl), 3, 0, c.stream_id)
  <2>1. /\ c.stream_id # 0
        /\ Encode(c) = EncodeRaw(c.cap, 3, 0, c.stream_id, pl)
    BY <1>1, <1>3 DEF Encode, Unless
  <2>2. pl \in Seq(Byte) /\ Len(pl) = 4 /\ ReadU32(pl, 0) = c.code
    BY <1>1, WordOnly
  <2>3. h.length = Len(pl) /\ h.type = 3 /\ h.stream_id = c.stream_id
    BY FlagSet
  <2> HIDE DEF pl, h
  <2>4. ASSUME Len(pl) <= H2_MAX_FRAME_SIZE
        PROVE  ParsePayload(h, pl) = Carried(c)
    <3>1. ~(h.length > H2_MAX_FRAME_SIZE) /\ h.length = 4
      BY <2>2, <2>3, <2>4, FrameSizeAssumption
    <3>2. ValidatePayload(h) = H2_OK
      BY <2>1, <2>3, <3>1 DEF ValidatePayload, OnStream, ExactLength
    <3>3. ParsePayload(h, pl) = ParseFields(h, pl)
      BY <2>3 DEF ParsePayload
    <3>4. ParseFields(h, pl) = [ret |-> H2_OK, code |-> ReadU32(pl, 0)]
      BY <2>3, <3>2 DEF ParseFields
    <3>5. Carried(c) = [ret |-> H2_OK, code |-> c.code]
      BY <1>1 DEF Carried
    <3> QED  BY <2>2, <3>3, <3>4, <3>5
  <2>5. 3 \in Byte /\ 0 \in Byte
    BY SmallTypes
  <2> QED  BY <1>1, <2>1, <2>2, <2>4, <2>5, RawTrips DEF h
<1> QED  BY <1>2, <1>3

LEMMA WindowUpdateTrips ==
    ASSUME NEW c \in WindowUpdateCall
    PROVE  Trips(c)
<1> USE DEF H2_FRAME_DATA, H2_FRAME_HEADERS, H2_FRAME_PRIORITY,
            H2_FRAME_RST_STREAM, H2_FRAME_SETTINGS, H2_FRAME_PUSH_PROMISE,
            H2_FRAME_PING, H2_FRAME_GOAWAY, H2_FRAME_WINDOW_UPDATE,
            H2_FRAME_CONTINUATION, H2_OK
<1>1. c.op = "window_update" /\ c.stream_id \in Id /\ c.increment \in Word
  BY DEF WindowUpdateCall
<1>2. CASE Encode(c) = << >>
  BY <1>2 DEF Trips
<1>3. CASE Encode(c) # << >>
  <2> DEFINE pl == WriteU32(c.increment)
             h  == HeaderOf(Len(pl), 8, 0, c.stream_id)
  <2>1. /\ c.increment # 0 /\ ~(c.increment >= Top)
        /\ Encode(c) = EncodeRaw(c.cap, 8, 0, c.stream_id, pl)
    BY <1>1, <1>3 DEF Encode, Unless
  <2>2. pl \in Seq(Byte) /\ Len(pl) = 4 /\ ReadU31(pl, 0) = c.increment
    BY <1>1, <2>1, WordOnly
  <2>3. h.length = Len(pl) /\ h.type = 8 /\ h.stream_id = c.stream_id
    BY FlagSet
  <2> HIDE DEF pl, h
  <2>4. ASSUME Len(pl) <= H2_MAX_FRAME_SIZE
        PROVE  ParsePayload(h, pl) = Carried(c)
    <3>1. ~(h.length > H2_MAX_FRAME_SIZE) /\ h.length = 4
      BY <2>2, <2>3, <2>4, FrameSizeAssumption
    <3>2. ValidatePayload(h) = H2_OK
      BY <2>3, <3>1 DEF ValidatePayload, ExactLength
    <3>3. ParsePayload(h, pl) = ParseFields(h, pl)
      BY <2>3 DEF ParsePayload
    <3>4. ParseFields(h, pl) = [ret |-> H2_OK, increment |-> ReadU31(pl, 0)]
      BY <2>1, <2>2, <2>3, <3>2 DEF ParseFields
    <3>5. Carried(c) = [ret |-> H2_OK, increment |-> c.increment]
      BY <1>1 DEF Carried
    <3> QED  BY <2>2, <3>3, <3>4, <3>5
  <2>5. 8 \in Byte /\ 0 \in Byte
    BY SmallTypes
  <2> QED  BY <1>1, <2>1, <2>2, <2>4, <2>5, RawTrips DEF h
<1> QED  BY <1>2, <1>3

LEMMA PingTrips ==
    ASSUME NEW c \in PingCall
    PROVE  Trips(c)
<1> USE DEF H2_FRAME_DATA, H2_FRAME_HEADERS, H2_FRAME_PRIORITY,
            H2_FRAME_RST_STREAM, H2_FRAME_SETTINGS, H2_FRAME_PUSH_PROMISE,
            H2_FRAME_PING, H2_FRAME_GOAWAY, H2_FRAME_WINDOW_UPDATE,
            H2_FRAME_CONTINUATION, H2_OK
<1>1. c.op = "ping" /\ c.flags \in Byte /\ c.bytes \in [1 .. 8 -> Byte]
  BY DEF PingCall
<1>2. c.bytes \in Seq(Byte) /\ Len(c.bytes) = 8
  <2>1. PICK n \in Nat : n = 8
    OBVIOUS
  <2>2. c.bytes \in [1 .. n -> Byte]
    BY <1>1, <2>1
  <2>3. c.bytes \in Seq(Byte) /\ Len(c.bytes) = n
    BY <2>2, FunctionIsSeq
  <2> QED  BY <2>1, <2>3
<1> DEFINE h == HeaderOf(Len(c.bytes), 6, c.flags, 0)
<1>3. Encode(c) = EncodeRaw(c.cap, 6, c.flags, 0, c.bytes)
  BY <1>1 DEF Encode
<1>4. h.length = Len(c.bytes) /\ h.type = 6 /\ h.stream_id = 0
  BY FlagSet
<1> HIDE DEF h
<1>5. ASSUME Len(c.bytes) <= H2_MAX_FRAME_SIZE
      PROVE  ParsePayload(h, c.bytes) = Carried(c)
  <2>1. ~(h.length > H2_MAX_FRAME_SIZE) /\ h.length = 8
    BY <1>2, <1>4, <1>5, FrameSizeAssumption
  <2>2. ValidatePayload(h) = H2_OK
    BY <1>4, <2>1 DEF ValidatePayload, OnConnection, ExactLength
  <2>3. ParsePayload(h, c.bytes) = ParseFields(h, c.bytes)
    BY <1>4 DEF ParsePayload
  <2>4. ParseFields(h, c.bytes) = [ret |-> H2_OK, bytes |-> c.bytes]
    BY <1>4, <2>2 DEF ParseFields
  <2>5. Carried(c) = [ret |-> H2_OK, bytes |-> c.bytes]
    BY <1>1 DEF Carried
  <2> QED  BY <2>3, <2>4, <2>5
<1>6. 6 \in Byte /\ 0 \in Id
  BY SmallTypes, Sizes DEF Id
<1> QED  BY <1>1, <1>2, <1>3, <1>5, <1>6, RawTrips DEF h

LEMMA PriorityTrips ==
    ASSUME NEW c \in PriorityCall
    PROVE  Trips(c)
<1> USE DEF H2_FRAME_DATA, H2_FRAME_HEADERS, H2_FRAME_PRIORITY,
            H2_FRAME_RST_STREAM, H2_FRAME_SETTINGS, H2_FRAME_PUSH_PROMISE,
            H2_FRAME_PING, H2_FRAME_GOAWAY, H2_FRAME_WINDOW_UPDATE,
            H2_FRAME_CONTINUATION, H2_OK
<1>1. /\ c.op = "priority" /\ c.stream_id \in Id /\ c.dependency \in Id
      /\ c.exclusive \in BOOLEAN /\ c.weight \in Byte
  BY DEF PriorityCall
<1>2. CASE Encode(c) = << >>
  BY <1>2 DEF Trips
<1>3. CASE Encode(c) # << >>
  <2> DEFINE top == IF c.exclusive THEN Top ELSE 0
             v  == Mask31(c.dependency) + top
             pl == WriteU32(v) \o <<c.weight>>
             h  == HeaderOf(Len(pl), 2, 0, c.stream_id)
  <2>1. /\ c.stream_id # 0
        /\ Encode(c) = EncodeRaw(c.cap, 2, 0, c.stream_id, pl)
    BY <1>1, <1>3 DEF Encode, EncodePriority, Unless
  <2>2. v \in Word /\ (v >= Top <=> c.exclusive)
        /\ (IF v >= Top THEN v - Top ELSE v) = c.dependency
    <3>1. /\ Mask31(c.dependency) = c.dependency /\ c.dependency \in Nat
          /\ c.dependency < Top
      BY <1>1, Ids31
    <3>2. Top \in Nat \ {0} /\ U16 * U16 = 2 * Top
      BY Sizes
    <3>3. CASE c.exclusive
      <4>1. v = c.dependency + Top
        BY <3>1, <3>3
      <4> HIDE DEF v
      <4> QED  BY <3>1, <3>2, <3>3, <4>1 DEF Word
    <3>4. CASE ~c.exclusive
      <4>1. v = c.dependency
        BY <3>1, <3>4
      <4> HIDE DEF v
      <4> QED  BY <3>1, <3>2, <3>4, <4>1 DEF Word
    <3> QED  BY <3>3, <3>4
  <2> HIDE DEF v
  <2>3. /\ pl \in Seq(Byte) /\ Len(pl) = 5
        /\ pl[1] >= Half <=> c.exclusive
        /\ ReadU31(pl, 0) = c.dependency
        /\ pl[5] = c.weight
    <3>1. <<c.weight>> \in Seq(Byte) /\ Len(<<c.weight>>) = 1 /\ <<c.weight>>[1] = c.weight
      BY <1>1
    <3>2. /\ pl \in Seq(Byte) /\ Len(pl) = 4 + Len(<<c.weight>>)
          /\ pl[1] >= Half <=> v >= Top
          /\ ReadU31(pl, 0) = IF v >= Top THEN v - Top ELSE v
          /\ \A i \in 1 .. Len(<<c.weight>>) : pl[4 + i] = <<c.weight>>[i]
      BY <2>2, <3>1, WordFirst
    <3> HIDE DEF pl
    <3>3. pl[4 + 1] = c.weight
      BY <3>1, <3>2
    <3> QED  BY <2>2, <3>1, <3>2, <3>3
  <2>4. h.length = Len(pl) /\ h.type = 2 /\ h.stream_id = c.stream_id
    BY FlagSet
  <2> HIDE DEF pl, h
  <2>5. ASSUME Len(pl) <= H2_MAX_FRAME_SIZE
        PROVE  ParsePayload(h, pl) = Carried(c)
    <3>1. ~(h.length > H2_MAX_FRAME_SIZE) /\ h.length = 5
      BY <2>3, <2>4, <2>5, FrameSizeAssumption
    <3>2. ValidatePayload(h) = H2_OK
      BY <2>1, <2>4, <3>1 DEF ValidatePayload, OnStream, ExactLength
    <3>3. ParsePayload(h, pl) = ParsePriorityBytes(h, pl)
      BY <2>4 DEF ParsePayload
    <3>4. ParsePriorityBytes(h, pl) = PriorityAt(h, pl, 0)
      BY <3>2 DEF ParsePriorityBytes
    <3>5. 0 + 1 = 1 /\ 0 + 5 = 5
      OBVIOUS
    <3>6. (pl[1] >= Half) = c.exclusive
      BY <1>1, <2>3
    <3>7. PriorityAt(h, pl, 0)
             = IF c.dependency = c.stream_id THEN Fail(H2_PROTOCOL_ERROR)
               ELSE [ret |-> H2_OK, exclusive |-> c.exclusive,
                     dependency |-> c.dependency, weight |-> c.weight]
      BY <2>3, <2>4, <3>5, <3>6, Zenon DEF PriorityAt
    <3>8. Carried(c) = IF c.dependency = c.stream_id THEN Fail(H2_PROTOCOL_ERROR)
               ELSE [ret |-> H2_OK, exclusive |-> c.exclusive,
                     dependency |-> c.dependency, weight |-> c.weight]
      BY <1>1 DEF Carried
    <3> QED  BY <3>3, <3>4, <3>7, <3>8
  <2>6. 2 \in Byte /\ 0 \in Byte
    BY SmallTypes
  <2> QED  BY <1>1, <2>1, <2>3, <2>5, <2>6, RawTrips DEF h
<1> QED  BY <1>2, <1>3

LEMMA PushPromiseTrips ==
    ASSUME NEW c \in PushPromiseCall
    PROVE  Trips(c)
<1> USE DEF H2_FRAME_DATA, H2_FRAME_HEADERS, H2_FRAME_PRIORITY,
            H2_FRAME_RST_STREAM, H2_FRAME_SETTINGS, H2_FRAME_PUSH_PROMISE,
            H2_FRAME_PING, H2_FRAME_GOAWAY, H2_FRAME_WINDOW_UPDATE,
            H2_FRAME_CONTINUATION, H2_OK
<1>1. /\ c.op = "push_promise" /\ c.stream_id \in Id /\ c.promised \in Id
      /\ c.flags \in Byte /\ c.bytes \in Seq(Byte) /\ Len(c.bytes) \in Nat
  BY DEF PushPromiseCall
<1>2. CASE Encode(c) = << >>
  BY <1>2 DEF Trips
<1>3. CASE Encode(c) # << >>
  <2> DEFINE front == WriteU32(c.promised)
  <2>1. /\ Mask31(c.promised) = c.promised /\ c.promised \in Nat
        /\ c.promised < Top /\ c.promised \in Word
    BY <1>1, Ids31
  <2>2. front \in Seq(Byte) /\ Len(front) = 4
    BY <2>1, U32Bytes
  <2> DEFINE pl == front \o c.bytes
             h  == HeaderOf(Len(pl), 5, c.flags, c.stream_id)
  <2>3. /\ c.stream_id # 0 /\ ~Has(c.flags, H2_FLAG_PADDED)
        /\ Encode(c) = EncodeRaw(c.cap, 5, c.flags, c.stream_id, pl)
    BY <1>1, <1>3, <2>1 DEF Encode, EncodePushPromise, Unless
  <2>4. /\ pl \in Seq(Byte) /\ Len(pl) = 4 + Len(c.bytes)
        /\ ReadU31(pl, 0) = c.promised
    <3>1. /\ pl \in Seq(Byte) /\ Len(pl) = 4 + Len(c.bytes)
          /\ ReadU31(pl, 0) = IF c.promised >= Top THEN c.promised - Top
                              ELSE c.promised
      BY <1>1, <2>1, WordFirst
    <3> HIDE DEF pl
    <3> QED  BY <2>1, <3>1, Sizes
  <2> HIDE DEF front
  <2>5. Block(pl, Len(front), Len(pl) - Len(front)) = c.bytes
    BY <1>1, <2>2, BlockBehind
  <2>6. /\ h.length = Len(pl) /\ h.type = 5 /\ h.stream_id = c.stream_id
        /\ H2_FLAG_PADDED \notin h.flags
    BY <2>3, FlagSet
  <2> HIDE DEF pl, h
  <2>7. ASSUME Len(pl) <= H2_MAX_FRAME_SIZE
        PROVE  ParsePayload(h, pl) = Carried(c)
    <3>1. ~(h.length > H2_MAX_FRAME_SIZE) /\ h.length >= 4
      BY <1>1, <2>4, <2>6, <2>7, FrameSizeAssumption
    <3>2. ValidatePayload(h) = H2_OK
      BY <2>3, <2>6, <3>1 DEF ValidatePayload, OnStream
    <3>3. ParsePayload(h, pl) = ParsePushPromise(h, pl)
      BY <2>6 DEF ParsePayload
    <3>4. Unpad(h, pl) = [ret |-> H2_OK, pos |-> 0, pad_len |-> 0, len |-> Len(pl)]
      BY <2>6 DEF Unpad
    <3>5. PromiseFits(Len(pl)) /\ 0 + 4 = 4
      BY <1>1, <2>4 DEF PromiseFits
    <3>6. Block(pl, 4, Len(pl) - 4) = c.bytes
      BY <2>2, <2>5
    <3>7. ParsePushPromise(h, pl)
             = [ret |-> H2_OK, pos |-> 4, pad_len |-> 0,
                promised |-> c.promised, bytes |-> c.bytes]
      BY <2>4, <3>2, <3>4, <3>5, <3>6 DEF ParsePushPromise
    <3>8. Carried(c)
             = [ret |-> H2_OK, pos |-> 4, pad_len |-> 0,
                promised |-> c.promised, bytes |-> c.bytes]
      BY <1>1 DEF Carried
    <3> QED  BY <3>3, <3>7, <3>8
  <2>8. 5 \in Byte
    BY SmallTypes
  <2> QED  BY <1>1, <2>3, <2>4, <2>7, <2>8, RawTrips DEF h
<1> QED  BY <1>2, <1>3

LEMMA TwoWords ==
    ASSUME NEW a \in Seq(Byte), NEW b \in Seq(Byte)
    PROVE  Len(a) = 4 /\ Len(b) = 4 =>
             /\ a \o b \in Seq(Byte) /\ Len(a \o b) = 8
             /\ (a \o b)[1] = a[1] /\ (a \o b)[2] = a[2]
             /\ (a \o b)[3] = a[3] /\ (a \o b)[4] = a[4]
             /\ (a \o b)[5] = b[1] /\ (a \o b)[6] = b[2]
             /\ (a \o b)[7] = b[3] /\ (a \o b)[8] = b[4]
<1> DEFINE s == a \o b
<1>1. /\ s \in Seq(Byte) /\ Len(s) = Len(a) + Len(b)
      /\ \A i \in 1 .. Len(a) : s[i] = a[i]
      /\ \A i \in 1 .. Len(b) : s[Len(a) + i] = b[i]
  BY Concatenated
<1> HIDE DEF s
<1> SUFFICES ASSUME Len(a) = 4, Len(b) = 4
             PROVE  /\ s \in Seq(Byte) /\ Len(s) = 8
                    /\ s[1] = a[1] /\ s[2] = a[2] /\ s[3] = a[3] /\ s[4] = a[4]
                    /\ s[5] = b[1] /\ s[6] = b[2] /\ s[7] = b[3] /\ s[8] = b[4]
  BY DEF s
<1>2. s[4 + 1] = b[1] /\ s[4 + 2] = b[2] /\ s[4 + 3] = b[3] /\ s[4 + 4] = b[4]
  BY <1>1
<1>3. s[1] = a[1] /\ s[2] = a[2] /\ s[3] = a[3] /\ s[4] = a[4] /\ Len(s) = 8
  BY <1>1
<1> QED  BY <1>1, <1>2, <1>3

LEMMA GoawayTrips ==
    ASSUME NEW c \in GoawayCall
    PROVE  Trips(c)
<1> USE DEF H2_FRAME_DATA, H2_FRAME_HEADERS, H2_FRAME_PRIORITY,
            H2_FRAME_RST_STREAM, H2_FRAME_SETTINGS, H2_FRAME_PUSH_PROMISE,
            H2_FRAME_PING, H2_FRAME_GOAWAY, H2_FRAME_WINDOW_UPDATE,
            H2_FRAME_CONTINUATION, H2_OK
<1>1. /\ c.op = "goaway" /\ c.last \in Id /\ c.code \in Word
      /\ c.bytes \in Seq(Byte) /\ Len(c.bytes) \in Nat
  BY DEF GoawayCall
<1>2. CASE Encode(c) = << >>
  BY <1>2 DEF Trips
<1>3. CASE Encode(c) # << >>
  <2>1. /\ Mask31(c.last) = c.last /\ c.last \in Nat
        /\ c.last < Top /\ c.last \in Word
    BY <1>1, Ids31
  <2> DEFINE a == WriteU32(c.last)
             b == WriteU32(c.code)
  <2>2. a \in Seq(Byte) /\ Len(a) = 4 /\ b \in Seq(Byte) /\ Len(b) = 4
    BY <1>1, <2>1, U32Bytes
  <2> DEFINE front == a \o b
  <2>3. front \in Seq(Byte) /\ Len(front) = 8
    <3> HIDE DEF a, b
    <3> QED  BY <2>2, TwoWords
  <2> DEFINE pl == front \o c.bytes
             h  == HeaderOf(Len(pl), 7, 0, 0)
  <2>4. Encode(c) = EncodeRaw(c.cap, 7, 0, 0, pl)
    BY <1>1, <1>3, <2>1 DEF Encode, EncodeGoaway, Unless
  <2>5. /\ pl \in Seq(Byte) /\ Len(pl) = 8 + Len(c.bytes)
        /\ \A i \in 1 .. 8 : pl[i] = front[i]
    <3> HIDE DEF front
    <3>1. front \in Seq(Byte)
      BY <2>3
    <3>2. /\ pl \in Seq(Byte) /\ Len(pl) = Len(front) + Len(c.bytes)
          /\ \A i \in 1 .. Len(front) : pl[i] = front[i]
      BY <1>1, <3>1, Concatenated
    <3> HIDE DEF pl
    <3> QED  BY <2>3, <3>2
  <2>6. /\ front[1] = a[1] /\ front[2] = a[2] /\ front[3] = a[3] /\ front[4] = a[4]
        /\ front[5] = b[1] /\ front[6] = b[2] /\ front[7] = b[3] /\ front[8] = b[4]
    <3> HIDE DEF a, b
    <3> QED  BY <2>2, TwoWords
  <2>7. Block(pl, Len(front), Len(pl) - Len(front)) = c.bytes
    <3> HIDE DEF front
    <3> QED  BY <1>1, <2>3, BlockBehind
  <2>8. h.length = Len(pl) /\ h.type = 7 /\ h.stream_id = 0
    <3> HIDE DEF pl
    <3> QED  BY FlagSet
  <2> HIDE DEF pl, h, front
  <2>9. ReadU31(pl, 0) = c.last
    <3>1. /\ pl[0 + 1] = WriteU32(c.last)[1] /\ pl[0 + 2] = WriteU32(c.last)[2]
          /\ pl[0 + 3] = WriteU32(c.last)[3] /\ pl[0 + 4] = WriteU32(c.last)[4]
      <4> HIDE DEF a
      <4> QED  BY <2>5, <2>6 DEF a
    <3>2. ReadU31(pl, 0) = IF c.last >= Top THEN c.last - Top ELSE c.last
      BY <2>1, <3>1, ReadsBack
    <3> QED  BY <2>1, <3>2, Sizes
  <2>10. ReadU32(pl, 4) = c.code
    <3>1. /\ pl[4 + 1] = WriteU32(c.code)[1] /\ pl[4 + 2] = WriteU32(c.code)[2]
          /\ pl[4 + 3] = WriteU32(c.code)[3] /\ pl[4 + 4] = WriteU32(c.code)[4]
      <4> HIDE DEF b
      <4> QED  BY <2>5, <2>6 DEF b
    <3> QED  BY <1>1, <3>1, ReadsBack
  <2>11. ASSUME Len(pl) <= H2_MAX_FRAME_SIZE
         PROVE  ParsePayload(h, pl) = Carried(c)
    <3>1. ~(h.length > H2_MAX_FRAME_SIZE) /\ h.length >= 8
      BY <1>1, <2>5, <2>8, <2>11, FrameSizeAssumption
    <3>2. ValidatePayload(h) = H2_OK
      BY <2>8, <3>1 DEF ValidatePayload, OnConnection
    <3>3. ParsePayload(h, pl) = ParseFields(h, pl)
      BY <2>8 DEF ParsePayload
    <3>4. Block(pl, 8, h.length - 8) = c.bytes
      BY <2>3, <2>7, <2>8
    <3>5. ParseFields(h, pl) = [ret |-> H2_OK, last |-> c.last,
                                code |-> c.code, bytes |-> c.bytes]
      BY <2>8, <2>9, <2>10, <3>2, <3>4 DEF ParseFields
    <3>6. Carried(c) = [ret |-> H2_OK, last |-> c.last,
                        code |-> c.code, bytes |-> c.bytes]
      BY <1>1 DEF Carried
    <3> QED  BY <3>3, <3>5, <3>6
  <2>12. 7 \in Byte /\ 0 \in Byte /\ 0 \in Id
    BY SmallTypes, Sizes DEF Id
  <2> QED  BY <2>4, <2>5, <2>11, <2>12, RawTrips DEF h
<1> QED  BY <1>2, <1>3

(* The six bytes of a setting *)
Item(s) == WriteU16(s.id) \o WriteU32(s.value)

LEMMA ItemBytes ==
    ASSUME NEW s \in [id : 0 .. U16 - 1, value : Word]
    PROVE  /\ Item(s) \in Seq(Byte) /\ Len(Item(s)) = 6
           /\ Item(s)[1] * ByteBase + Item(s)[2] = s.id
           /\ \A i \in 1 .. 4 : Item(s)[2 + i] = WriteU32(s.value)[i]
           /\ \A i \in 1 .. 6 : Item(s)[i] \in Byte
<1> DEFINE a == WriteU16(s.id)
           b == WriteU32(s.value)
<1>1. /\ s.id \div ByteBase \in Byte /\ s.id % ByteBase \in Byte
      /\ s.id = (s.id \div ByteBase) * ByteBase + (s.id % ByteBase)
  BY U16Bytes
<1>2. /\ a \in Seq(Byte) /\ Len(a) = 2 /\ a[1] * ByteBase + a[2] = s.id
  <2> DEFINE x == s.id \div ByteBase
             y == s.id % ByteBase
  <2>1. x \in Byte /\ y \in Byte /\ s.id = x * ByteBase + y /\ a = <<x, y>>
    BY <1>1 DEF WriteU16
  <2> HIDE DEF x, y, a
  <2>2. a \in Seq(Byte) /\ Len(a) = 2 /\ a[1] = x /\ a[2] = y
    BY <2>1
  <2> QED  BY <2>1, <2>2
<1>3. b \in Seq(Byte) /\ Len(b) = 4
  BY U32Bytes
<1>4. Item(s) = a \o b
  BY DEF Item
<1> HIDE DEF a, b
<1>5. a \in Seq(Byte) /\ b \in Seq(Byte)
  BY <1>2, <1>3
<1>6. /\ Item(s) \in Seq(Byte) /\ Len(Item(s)) = Len(a) + Len(b)
      /\ \A i \in 1 .. Len(a) : Item(s)[i] = a[i]
      /\ \A i \in 1 .. Len(b) : Item(s)[Len(a) + i] = b[i]
  BY <1>4, <1>5, Concatenated
<1>7. Len(Item(s)) = 6 /\ Item(s)[1] = a[1] /\ Item(s)[2] = a[2]
  BY <1>2, <1>3, <1>6
<1>8. \A i \in 1 .. 6 : Item(s)[i] \in Byte
  <2>1. PICK t \in Seq(Byte) : t = Item(s)
    BY <1>6
  <2>2. \A i \in 1 .. Len(t) : t[i] \in Byte
    OBVIOUS
  <2> QED  BY <1>7, <2>1, <2>2
<1> QED  BY <1>2, <1>3, <1>6, <1>7, <1>8 DEF b

LEMMA SettingsPayload ==
    ASSUME NEW settings \in Seq([id : 0 .. U16 - 1, value : Word])
    PROVE  LET pl == [k \in 1 .. 6 * Len(settings) |->
                         Item(settings[((k - 1) \div 6) + 1])[((k - 1) % 6) + 1]]
           IN  /\ pl \in Seq(Byte) /\ Len(pl) = 6 * Len(settings)
               /\ SettingsIn(pl) = settings
<1> DEFINE S  == [id : 0 .. U16 - 1, value : Word]
           pl == [k \in 1 .. 6 * Len(settings) |->
                     Item(settings[((k - 1) \div 6) + 1])[((k - 1) % 6) + 1]]
<1>1. PICK n \in Nat : n = Len(settings)
  OBVIOUS
<1>2. \A k \in 1 .. n : settings[k] \in S
  <2>1. settings \in Seq(S)
    OBVIOUS
  <2> HIDE DEF S
  <2> QED  BY <1>1, <2>1
<1>3. \A k \in 1 .. 6 * n : /\ ((k - 1) \div 6) + 1 \in 1 .. n
                            /\ ((k - 1) % 6) + 1 \in 1 .. 6
  OBVIOUS
<1> HIDE DEF S
<1>4. \A k \in 1 .. 6 * n : pl[k] \in Byte
  <2> TAKE k \in 1 .. 6 * n
  <2>1. PICK i \in 1 .. n : i = ((k - 1) \div 6) + 1
    BY <1>3
  <2>2. PICK j \in 1 .. 6 : j = ((k - 1) % 6) + 1
    BY <1>3
  <2>3. pl[k] = Item(settings[i])[j]
    BY <1>1, <2>1, <2>2
  <2>4. settings[i] \in S
    BY <1>2
  <2>5. Item(settings[i])[j] \in Byte
    BY <2>4, ItemBytes DEF S
  <2> QED  BY <2>3, <2>5
<1>5. pl \in Seq(Byte) /\ Len(pl) = 6 * n
  <2>1. PICK m \in Nat : m = 6 * n
    OBVIOUS
  <2>2. pl \in [1 .. m -> Byte]
    BY <1>1, <1>4, <2>1
  <2> HIDE DEF pl
  <2>3. pl \in Seq(Byte) /\ Len(pl) = m
    BY <2>2, FunctionIsSeq
  <2> QED  BY <2>1, <2>3
<1>6. \A i \in 1 .. n : \A j \in 1 .. 6 : pl[6 * (i - 1) + j] = Item(settings[i])[j]
  <2> TAKE i \in 1 .. n
  <2> TAKE j \in 1 .. 6
  <2>1. PICK k \in 1 .. 6 * n : k = 6 * (i - 1) + j
    OBVIOUS
  <2>2. ((k - 1) \div 6) + 1 = i /\ ((k - 1) % 6) + 1 = j
    BY <2>1
  <2>3. pl[k] = Item(settings[i])[j]
    BY <1>1, <2>2
  <2> QED  BY <2>1, <2>3
<1> HIDE DEF pl
<1>7. Len(pl) \div 6 = n
  BY <1>5
<1>8. ASSUME NEW i \in 1 .. n
      PROVE  [id |-> ReadU16(pl, 6 * (i - 1)),
              value |-> ReadU32(pl, 6 * (i - 1) + 2)] = settings[i]
  <2>1. PICK p \in Nat : p = 6 * (i - 1)
    OBVIOUS
  <2>2. settings[i] \in S
    BY <1>2
  <2>3. PICK s \in S : s = settings[i]
    BY <2>2
  <2>4. \A j \in 1 .. 6 : pl[p + j] = Item(s)[j]
    BY <1>6, <2>1, <2>3
  <2>5. /\ Item(s)[1] * ByteBase + Item(s)[2] = s.id
        /\ \A j \in 1 .. 4 : Item(s)[2 + j] = WriteU32(s.value)[j]
    BY ItemBytes DEF S
  <2>6. ReadU16(pl, p) = s.id
    BY <2>4, <2>5 DEF ReadU16
  <2>7. ReadU32(pl, p + 2) = s.value
    <3>1. PICK q \in Nat : q = p + 2
      OBVIOUS
    <3>2. /\ Item(s)[3] = WriteU32(s.value)[1] /\ Item(s)[4] = WriteU32(s.value)[2]
          /\ Item(s)[5] = WriteU32(s.value)[3] /\ Item(s)[6] = WriteU32(s.value)[4]
      BY <2>5
    <3>3. /\ q + 1 = p + 3 /\ q + 2 = p + 4 /\ q + 3 = p + 5 /\ q + 4 = p + 6
      BY <3>1
    <3>4. /\ pl[q + 1] = WriteU32(s.value)[1] /\ pl[q + 2] = WriteU32(s.value)[2]
          /\ pl[q + 3] = WriteU32(s.value)[3] /\ pl[q + 4] = WriteU32(s.value)[4]
      BY <2>4, <3>2, <3>3
    <3>5. s.value \in Word
      BY DEF S
    <3> QED  BY <3>1, <3>4, <3>5, ReadsBack
  <2>8. s = [id |-> s.id, value |-> s.value]
    BY DEF S
  <2> QED  BY <2>1, <2>3, <2>6, <2>7, <2>8
<1>9. SettingsIn(pl) = [i \in 1 .. n |-> settings[i]]
  BY <1>7, <1>8 DEF SettingsIn
<1>10. settings = [i \in 1 .. n |-> settings[i]]
  BY <1>1
<1> QED  BY <1>1, <1>5, <1>9, <1>10 DEF pl

LEMMA SettingsTrips ==
    ASSUME NEW c \in SettingsCall
    PROVE  Trips(c)
<1> USE DEF H2_FRAME_DATA, H2_FRAME_HEADERS, H2_FRAME_PRIORITY,
            H2_FRAME_RST_STREAM, H2_FRAME_SETTINGS, H2_FRAME_PUSH_PROMISE,
            H2_FRAME_PING, H2_FRAME_GOAWAY, H2_FRAME_WINDOW_UPDATE,
            H2_FRAME_CONTINUATION, H2_OK
<1>1. /\ c.op = "settings" /\ c.flags \in Byte
      /\ c.settings \in Seq([id : 0 .. U16 - 1, value : Word])
  BY DEF SettingsCall
<1>2. 4 \in Byte /\ 0 \in Byte /\ 1 \in Byte /\ 0 \in Id
  BY SmallTypes, Sizes DEF Id
<1>3. Carried(c) = [ret |-> H2_OK, settings |-> c.settings]
  BY <1>1 DEF Carried
<1>4. Encode(c) = EncodeSettings(c)
  BY <1>1 DEF Encode
<1>5. CASE Encode(c) = << >>
  BY <1>5 DEF Trips
<1>6. CASE Encode(c) # << >> /\ Has(c.flags, H2_FLAG_ACK)
  <2>1. /\ c.settings = << >>
        /\ Encode(c) = EncodeRaw(c.cap, 4, 1, 0, << >>)
    BY <1>4, <1>6 DEF EncodeSettings, Unless, H2_FLAG_ACK
  <2> DEFINE h == HeaderOf(0, 4, 1, 0)
  <2>2. h.length = 0 /\ h.type = 4 /\ h.stream_id = 0 /\ H2_FLAG_ACK \in h.flags
    BY FlagSet DEF Has, H2_FLAG_ACK
  <2> HIDE DEF h
  <2>3. ~(h.length > H2_MAX_FRAME_SIZE)
    BY <2>2, FrameSizeAssumption
  <2>4. ValidatePayload(h) = H2_OK
    BY <2>2, <2>3 DEF ValidatePayload, OnConnection, ExactLength
  <2>5. ParsePayload(h, << >>) = ParseFields(h, << >>)
    BY <2>2 DEF ParsePayload
  <2>6. ParseFields(h, << >>) = [ret |-> H2_OK, settings |-> << >>]
    BY <2>2, <2>4 DEF ParseFields
  <2>7. ParsePayload(h, << >>) = Carried(c)
    BY <1>3, <2>1, <2>5, <2>6
  <2>8. << >> \in Seq(Byte) /\ Len(<< >>) = 0
    OBVIOUS
  <2> QED  BY <1>2, <2>1, <2>7, <2>8, RawTrips DEF h
<1>7. CASE Encode(c) # << >> /\ ~Has(c.flags, H2_FLAG_ACK)
  <2> DEFINE pl == [k \in 1 .. 6 * Len(c.settings) |->
                       Item(c.settings[((k - 1) \div 6) + 1])[((k - 1) % 6) + 1]]
             h  == HeaderOf(Len(pl), 4, c.flags, 0)
  <2>1. /\ ~(Len(c.settings) > SettingsCap)
        /\ Encode(c) = EncodeRaw(c.cap, 4, c.flags, 0, pl)
    BY <1>4, <1>7 DEF EncodeSettings, Unless, Item
  <2>2. /\ pl \in Seq(Byte) /\ Len(pl) = 6 * Len(c.settings)
        /\ SettingsIn(pl) = c.settings
    BY <1>1, SettingsPayload
  <2>3. PICK n \in Nat : n = Len(c.settings)
    BY <1>1
  <2>4. h.length = Len(pl) /\ h.type = 4 /\ h.stream_id = 0 /\ H2_FLAG_ACK \notin h.flags
    <3> HIDE DEF pl
    <3> QED  BY <1>7, FlagSet
  <2> HIDE DEF pl, h
  <2>5. h.length = 6 * n /\ h.length % 6 = 0 /\ h.length \div 6 = n /\ n <= MaxSettings
    <3>1. h.length = 6 * n
      BY <2>2, <2>3, <2>4
    <3>2. (6 * n) % 6 = 0 /\ (6 * n) \div 6 = n
      OBVIOUS
    <3>3. n <= MaxSettings
      BY <2>1, <2>3, FrameBytesAssumption, FrameSizeAssumption
    <3> QED  BY <3>1, <3>2, <3>3
  <2>6. ASSUME Len(pl) <= H2_MAX_FRAME_SIZE
        PROVE  ParsePayload(h, pl) = Carried(c)
    <3>1. ~(h.length > H2_MAX_FRAME_SIZE) /\ ~(h.length \div 6 > MaxSettings)
      BY <2>4, <2>5, <2>6, FrameSizeAssumption
    <3>2. ValidatePayload(h) = H2_OK
      BY <2>4, <2>5, <3>1 DEF ValidatePayload, OnConnection
    <3>3. ParsePayload(h, pl) = ParseFields(h, pl)
      BY <2>4 DEF ParsePayload
    <3>4. ParseFields(h, pl) = [ret |-> H2_OK, settings |-> SettingsIn(pl)]
      BY <2>4, <3>1, <3>2 DEF ParseFields
    <3> QED  BY <1>3, <2>2, <3>3, <3>4
  <2> QED  BY <1>1, <1>2, <2>1, <2>2, <2>6, RawTrips DEF h
<1> QED  BY <1>5, <1>6, <1>7

LEMMA CallTrips ==
    ASSUME NEW c \in Calls
    PROVE  Trips(c)
  BY CallsAssumption, BlockTrips, PriorityTrips, RstStreamTrips, SettingsTrips,
     PushPromiseTrips, PingTrips, GoawayTrips, WindowUpdateTrips

-----------------------------------------------------------------------------
(* The specification.  A frame comes off the wire or from an encoder, and  *)
(* is parsed once.                                                         *)

FrameInv ==
    /\ frame_pc \in {"encode", "parse", "done"}
    /\ call # NoCall => call \in Calls
    /\ frame_pc = "encode" => call \in Calls /\ frame = << >> /\ parsed = NoOut
    /\ frame_pc # "encode" /\ call # NoCall => frame = Encode(call)
    /\ frame_pc # "encode" /\ frame # << >> => Whole(frame)
    /\ frame_pc = "parse" => frame # << >>
    /\ frame_pc = "done" =>
         parsed = IF frame = << >> THEN NoOut
                  ELSE ParsePayload(ParseHeader(frame), Payload)

LEMMA FrameInvInit == FrameInit => FrameInv
<1>1. ASSUME FrameInit, call \in Calls /\ frame = << >> /\ frame_pc = "encode"
      PROVE  FrameInv
  BY <1>1 DEF FrameInit, FrameInv
<1>2. ASSUME FrameInit, call = NoCall /\ frame \in Wires /\ frame_pc = "parse"
      PROVE  FrameInv
  <2>1. Whole(frame)
    BY <1>2, WiresAssumption
  <2>2. frame # << >>
    BY <2>1 DEF Whole, H2_FRAME_HEADER_LEN
  <2> QED  BY <1>2, <2>1, <2>2 DEF FrameInit, FrameInv
<1> QED  BY <1>1, <1>2 DEF FrameInit

LEMMA FrameInvNext == FrameInv /\ [FrameNext]_frameVars => FrameInv'
<1> SUFFICES ASSUME FrameInv, [FrameNext]_frameVars PROVE FrameInv'
  OBVIOUS
<1>1. CASE EncodeFrame
  <2>1. /\ call \in Calls /\ frame = << >> /\ parsed = NoOut
        /\ frame' = Encode(call) /\ call' = call /\ parsed' = parsed
        /\ frame_pc' = IF frame' = << >> THEN "done" ELSE "parse"
    BY <1>1 DEF EncodeFrame, FrameInv
  <2>2. frame' # << >> => Whole(frame')
    BY <2>1, CallTrips DEF Trips
  <2> QED  BY <2>1, <2>2 DEF FrameInv
<1>2. CASE ParseFrame
  <2>1. /\ frame_pc = "parse" /\ frame # << >> /\ frame' = frame /\ call' = call
        /\ parsed' = ParsePayload(ParseHeader(frame), Payload)
        /\ frame_pc' = "done"
    BY <1>2 DEF ParseFrame, FrameInv
  <2>2. Payload' = Payload
    BY <2>1 DEF Payload
  <2> QED  BY <2>1, <2>2 DEF FrameInv
<1>3. CASE UNCHANGED frameVars
  <2>1. /\ frame_pc' = frame_pc /\ call' = call /\ frame' = frame
        /\ parsed' = parsed
    BY <1>3 DEF frameVars
  <2>2. Payload' = Payload
    BY <2>1 DEF Payload
  <2> QED  BY <2>1, <2>2 DEF FrameInv
<1> QED  BY <1>1, <1>2, <1>3 DEF FrameNext

LEMMA FrameInvAlways == FrameSpec => []FrameInv
  BY FrameInvInit, FrameInvNext, PTL DEF FrameSpec

(* For every call of every encoder of frame.c, with every size of a byte   *)
(* and of the buffer: a frame that is written is read back as the call, by *)
(* the parser of the same type, and its length field counts its payload.   *)
THEOREM FrameRoundTripCorrect == FrameSpec => []FrameRoundTrip
<1>1. FrameInv => FrameRoundTrip
  <2> SUFFICES ASSUME FrameInv, frame_pc = "done", call # NoCall, frame # << >>
               PROVE  /\ parsed = Carried(call)
                      /\ ParseHeader(frame).length = Len(frame) - H2_FRAME_HEADER_LEN
    BY DEF FrameRoundTrip
  <2>1. /\ call \in Calls /\ frame = Encode(call)
        /\ parsed = ParsePayload(ParseHeader(frame), Payload)
    BY DEF FrameInv
  <2>2. Trips(call)
    BY <2>1, CallTrips
  <2>3. /\ Whole(frame)
        /\ ParsePayload(ParseHeader(frame),
                        SubSeq(frame, H2_FRAME_HEADER_LEN + 1, Len(frame)))
              = Carried(call)
    BY <2>1, <2>2 DEF Trips
  <2> QED  BY <2>1, <2>3 DEF Whole, Payload
<1> QED  BY <1>1, FrameInvAlways, PTL

LEMMA ParsedShared ==
    ASSUME NEW h, NEW payload, Given(h, payload), h.type \in Nat
    PROVE  Shared(h, ParsePayload(h, payload))
<1> USE DEF H2_FRAME_DATA, H2_FRAME_HEADERS, H2_FRAME_PRIORITY,
            H2_FRAME_PUSH_PROMISE, H2_FRAME_CONTINUATION
<1>1. CASE h.type = 0
  <2>1. ParsePayload(h, payload) = ParseDataBytes(h, payload)
    BY <1>1 DEF ParsePayload
  <2> QED  BY <2>1, DataShared
<1>2. CASE h.type = 1
  <2>1. ParsePayload(h, payload) = ParseHeadersBytes(h, payload)
    BY <1>2 DEF ParsePayload
  <2> QED  BY <2>1, HeadersShared
<1>3. CASE h.type = 5
  <2>1. ParsePayload(h, payload) = ParsePushPromise(h, payload)
    BY <1>3 DEF ParsePayload
  <2> QED  BY <2>1, PushPromiseShared
<1>4. CASE h.type \notin {0, 1, 5}
  BY <1>4, OthersShared
<1> QED  BY <1>1, <1>2, <1>3, <1>4

LEMMA HeaderType ==
    ASSUME Whole(frame)
    PROVE  ParseHeader(frame).type \in Nat
<1>1. PICK w \in Seq(Byte) : w = frame /\ Len(w) >= 9
  BY DEF Whole, H2_FRAME_HEADER_LEN
<1>2. w[4] \in Byte
  BY <1>1
<1> QED  BY <1>1, <1>2, Sizes DEF ParseHeader, Byte

(* For every whole frame that is received or written: what is in front of  *)
(* the block that DATA, HEADERS and PUSH_PROMISE hand out, the block and   *)
(* the padding are the payload, with nothing read beyond its end.          *)
THEOREM PayloadSharedCorrect == FrameSpec => []PayloadShared
<1>1. FrameInv => PayloadShared
  <2> SUFFICES ASSUME FrameInv, frame_pc = "done", parsed.ret = H2_OK,
                      "pos" \in DOMAIN parsed
               PROVE  parsed.pos + Len(parsed.bytes) + parsed.pad_len = Len(Payload)
    BY DEF PayloadShared
  <2>1. parsed = IF frame = << >> THEN NoOut
                 ELSE ParsePayload(ParseHeader(frame), Payload)
    BY DEF FrameInv
  <2>2. frame # << >>
    BY <2>1 DEF NoOut, H2_OK, H2_INTERNAL_ERROR
  <2>3. Whole(frame)
    BY <2>2 DEF FrameInv
  <2>4. Given(ParseHeader(frame), Payload) /\ ParseHeader(frame).type \in Nat
    BY <2>3, WholeGiven, HeaderType
  <2>5. Shared(ParseHeader(frame), parsed)
    BY <2>1, <2>2, <2>4, ParsedShared
  <2> QED  BY <2>4, <2>5 DEF Shared, Given
<1> QED  BY <1>1, FrameInvAlways, PTL

-----------------------------------------------------------------------------
(* The frames of the connection model.                                     *)

(* f says of a header and its payload what the checks of H2Frame look at.  *)
Describes(f, h, payload) ==
    LET pos == IF h.type = H2_FRAME_HEADERS /\ H2_FLAG_PADDED \in h.flags
               THEN 1 ELSE 0
    IN  /\ f.type = h.type /\ f.length = h.length /\ f.flags = h.flags
        /\ f.stream_id = h.stream_id
        /\ payload # << >> => f.pad = payload[1]
        /\ Len(payload) >= pos + 4 => f.dependency = ReadU31(payload, pos)
        /\ Len(payload) >= 4 => f.increment = ReadU31(payload, 0)

LEMMA SameVerdict ==
    ASSUME NEW f, NEW h, NEW payload, Describes(f, h, payload)
    PROVE  ValidatePayload(f) = ValidatePayload(h)
<1>1. /\ f.type = h.type /\ f.length = h.length /\ f.flags = h.flags
      /\ f.stream_id = h.stream_id
  BY DEF Describes
<1>2. /\ \A n : ExactLength(f, n) = ExactLength(h, n)
      /\ \A code : OnStream(f, code) = OnStream(h, code)
      /\ \A code : OnConnection(f, code) = OnConnection(h, code)
  BY <1>1 DEF OnStream, OnConnection, ExactLength
<1> QED  BY <1>1, <1>2 DEF ValidatePayload

LEMMA PaddingAgrees ==
    ASSUME NEW f, NEW h, NEW payload, Given(h, payload), Describes(f, h, payload)
    PROVE  LET u == Unpad(h, payload)
           IN  /\ u.ret = PaddingCheck(f)
               /\ u.ret = H2_OK =>
                    /\ u.len = UnpaddedLen(f) /\ u.len \in Nat
                    /\ u.pos = IF H2_FLAG_PADDED \in h.flags THEN 1 ELSE 0
<1> DEFINE u == Unpad(h, payload)
<1>1. /\ f.length = h.length /\ f.flags = h.flags
      /\ payload # << >> => f.pad = payload[1]
      /\ payload \in Seq(Byte) /\ h.length \in Nat /\ Len(payload) = h.length
  BY DEF Describes, Given
<1>2. h.length # 0 => f.pad = payload[1]
  BY <1>1
<1>3. /\ u.ret = H2_OK =>
           /\ u.len \in Nat
           /\ u.pos = IF H2_FLAG_PADDED \in h.flags THEN 1 ELSE 0
           /\ H2_FLAG_PADDED \in h.flags => u.len = h.length - 1 - payload[1]
           /\ H2_FLAG_PADDED \notin h.flags => u.len = h.length
      /\ u.ret = IF H2_FLAG_PADDED \notin h.flags THEN H2_OK
                 ELSE IF h.length = 0 THEN H2_FRAME_SIZE_ERROR
                 ELSE IF payload[1] > h.length - 1 THEN H2_PROTOCOL_ERROR
                 ELSE H2_OK
  BY Unpadded
<1> HIDE DEF u
<1>4. u.ret = PaddingCheck(f)
  <2>1. CASE H2_FLAG_PADDED \notin h.flags \/ h.length = 0
    BY <1>1, <1>3, <2>1 DEF PaddingCheck
  <2>2. CASE H2_FLAG_PADDED \in h.flags /\ h.length # 0
    BY <1>1, <1>2, <1>3, <2>2 DEF PaddingCheck
  <2> QED  BY <2>1, <2>2
<1>5. ASSUME u.ret = H2_OK PROVE u.len = UnpaddedLen(f)
  <2>1. CASE H2_FLAG_PADDED \notin h.flags
    BY <1>1, <1>3, <1>5, <2>1 DEF UnpaddedLen
  <2>2. CASE H2_FLAG_PADDED \in h.flags
    <3>1. h.length # 0
      BY <1>3, <1>5, <2>2 DEF H2_OK, H2_FRAME_SIZE_ERROR
    <3> QED  BY <1>1, <1>2, <1>3, <1>5, <2>2, <3>1 DEF UnpaddedLen
  <2> QED  BY <2>1, <2>2
<1> QED  BY <1>3, <1>4, <1>5 DEF u

LEMMA DataAgrees ==
    ASSUME NEW f, NEW h, NEW payload, Given(h, payload), Describes(f, h, payload)
    PROVE  LET out == ParseDataBytes(h, payload)
           IN  /\ out.ret = ParseData(f)
               /\ out.ret = H2_OK => Len(out.bytes) = UnpaddedLen(f)
<1> DEFINE u   == Unpad(h, payload)
           out == ParseDataBytes(h, payload)
<1>1. ValidatePayload(f) = ValidatePayload(h)
  BY SameVerdict
<1>2. u.ret = PaddingCheck(f) /\ (u.ret = H2_OK => u.len = UnpaddedLen(f))
  BY PaddingAgrees
<1>3. CASE ValidatePayload(h) # H2_OK
  BY <1>1, <1>3 DEF ParseDataBytes, ParseData, Fail, H2_OK, H2_PROTOCOL_ERROR
<1>4. CASE ValidatePayload(h) = H2_OK /\ u.ret # H2_OK
  <2>1. out = u
    BY <1>4 DEF ParseDataBytes
  <2> QED  BY <1>1, <1>2, <1>4, <2>1 DEF ParseData
<1>5. CASE ValidatePayload(h) = H2_OK /\ u.ret = H2_OK
  <2>1. out = [ret |-> H2_OK, pos |-> u.pos, pad_len |-> u.pad_len,
               bytes |-> Block(payload, u.pos, u.len)]
    BY <1>5 DEF ParseDataBytes
  <2>2. /\ u.pos \in Nat /\ u.len \in Nat /\ u.pad_len \in Nat
        /\ u.pos + u.len + u.pad_len = h.length
        /\ payload \in Seq(Byte) /\ h.length \in Nat /\ Len(payload) = h.length
    BY <1>5, Unpadded DEF Given
  <2> HIDE DEF u
  <2>3. Len(Block(payload, u.pos, u.len)) = u.len
    BY <2>2, BlockLen
  <2> HIDE DEF out
  <2>4. out.ret = H2_OK /\ Len(out.bytes) = u.len
    BY <2>1, <2>3
  <2> QED  BY <1>1, <1>2, <1>5, <2>4 DEF out, ParseData
<1> QED  BY <1>3, <1>4, <1>5

LEMMA HeadersAgrees ==
    ASSUME NEW f, NEW h, NEW payload, Given(h, payload), Describes(f, h, payload),
           h.type = H2_FRAME_HEADERS
    PROVE  LET out == ParseHeadersBytes(h, payload)
           IN  /\ out.ret = ParseHeaders(f)
               /\ out.ret = H2_OK => Len(out.bytes) = HeaderBlockLen(f)
<1> DEFINE u        == Unpad(h, payload)
           priority == PriorityAt(h, payload, u.pos)
           out      == ParseHeadersBytes(h, payload)
<1>1. ValidatePayload(f) = ValidatePayload(h) /\ f.flags = h.flags
  BY SameVerdict DEF Describes
<1>2. /\ u.ret = PaddingCheck(f)
      /\ u.ret = H2_OK =>
           /\ u.len = UnpaddedLen(f) /\ u.len \in Nat
           /\ u.pos = IF H2_FLAG_PADDED \in h.flags THEN 1 ELSE 0
  BY PaddingAgrees
<1>3. CASE ValidatePayload(h) # H2_OK
  BY <1>1, <1>3 DEF ParseHeadersBytes, ParseHeaders, Fail, H2_OK, H2_PROTOCOL_ERROR
<1>4. CASE ValidatePayload(h) = H2_OK /\ u.ret # H2_OK
  <2>1. out = u
    BY <1>4 DEF ParseHeadersBytes
  <2> QED  BY <1>1, <1>2, <1>4, <2>1 DEF ParseHeaders
<1>5. CASE /\ ValidatePayload(h) = H2_OK /\ u.ret = H2_OK
           /\ H2_FLAG_PRIORITY \notin h.flags
  <2>1. out = ParseDataBytes(h, payload)
    BY <1>5 DEF ParseHeadersBytes, ParseDataBytes
  <2>2. ParseHeaders(f) = ParseData(f)
    BY <1>1, <1>2, <1>5 DEF ParseHeaders, ParseData
  <2>3. HeaderBlockLen(f) = UnpaddedLen(f)
    BY <1>1, <1>5 DEF HeaderBlockLen
  <2> QED  BY <2>1, <2>2, <2>3, DataAgrees
<1>6. CASE /\ ValidatePayload(h) = H2_OK /\ u.ret = H2_OK
           /\ H2_FLAG_PRIORITY \in h.flags
  <2>1. ParseHeaders(f) = IF UnpaddedLen(f) < 5 THEN H2_FRAME_SIZE_ERROR
                          ELSE SelfDependency(f)
    BY <1>1, <1>2, <1>6 DEF ParseHeaders
  <2>2. CASE u.len < 5
    <3>1. out = Fail(H2_FRAME_SIZE_ERROR)
      BY <1>6, <2>2 DEF ParseHeadersBytes
    <3> QED  BY <1>2, <1>6, <2>1, <2>2, <3>1 DEF Fail, H2_OK, H2_FRAME_SIZE_ERROR
  <2>3. CASE ~(u.len < 5)
    <3>1. u.len \in Nat /\ u.len >= 5 /\ u.len = UnpaddedLen(f)
      BY <1>2, <1>6, <2>3
    <3>2. f.dependency = ReadU31(payload, u.pos) /\ f.stream_id = h.stream_id
      <4>1. /\ u.pos + u.len + u.pad_len = h.length /\ u.pos \in Nat
            /\ u.pad_len \in Nat /\ h.length \in Nat /\ Len(payload) = h.length
        BY <1>6, Unpadded DEF Given
      <4>2. Len(payload) >= u.pos + 4
        <5> HIDE DEF u
        <5> QED  BY <3>1, <4>1
      <4>3. u.pos = IF h.type = H2_FRAME_HEADERS /\ H2_FLAG_PADDED \in h.flags
                    THEN 1 ELSE 0
        BY <1>2, <1>6
      <4> HIDE DEF u
      <4> QED  BY <4>2, <4>3 DEF Describes
    <3>3. priority = IF f.dependency = f.stream_id THEN Fail(H2_PROTOCOL_ERROR)
                     ELSE [ret |-> H2_OK, exclusive |-> payload[u.pos + 1] >= Half,
                           dependency |-> ReadU31(payload, u.pos),
                           weight |-> payload[u.pos + 5]]
      BY <3>2 DEF PriorityAt
    <3>4. priority.ret = SelfDependency(f)
      BY <3>3 DEF SelfDependency, Fail
    <3>5. ParseHeaders(f) = SelfDependency(f)
      BY <2>1, <2>3, <3>1
    <3>6. CASE priority.ret # H2_OK
      <4>1. out = priority
        BY <1>6, <2>3, <3>6 DEF ParseHeadersBytes
      <4> QED  BY <3>4, <3>5, <3>6, <4>1
    <3>7. CASE priority.ret = H2_OK
      <4>1. out = [ret |-> H2_OK, pos |-> u.pos + 5, pad_len |-> u.pad_len,
                   bytes |-> Block(payload, u.pos + 5, u.len - 5)]
        BY <1>6, <2>3, <3>7 DEF ParseHeadersBytes
      <4>2. Len(Block(payload, u.pos + 5, u.len - 5)) = u.len - 5
        BY <1>6, <3>1, SharedParts
      <4>3. HeaderBlockLen(f) = u.len - 5
        BY <1>1, <1>6, <3>1 DEF HeaderBlockLen
      <4> HIDE DEF u, out
      <4>4. out.ret = H2_OK /\ Len(out.bytes) = u.len - 5
        BY <4>1, <4>2
      <4> QED  BY <3>4, <3>5, <3>7, <4>3, <4>4 DEF out
    <3> QED  BY <3>6, <3>7
  <2> QED  BY <2>2, <2>3
<1> QED  BY <1>3, <1>4, <1>5, <1>6

LEMMA PriorityAgrees ==
    ASSUME NEW f, NEW h, NEW payload, Given(h, payload), Describes(f, h, payload),
           h.type = H2_FRAME_PRIORITY
    PROVE  ParsePriorityBytes(h, payload).ret = ParsePriority(f)
<1>1. ValidatePayload(f) = ValidatePayload(h) /\ f.stream_id = h.stream_id
  BY SameVerdict DEF Describes
<1>2. CASE ValidatePayload(h) # H2_OK
  BY <1>1, <1>2 DEF ParsePriorityBytes, ParsePriority, Fail
<1>3. CASE ValidatePayload(h) = H2_OK
  <2>1. h.length = 5
    <3>1. \/ ValidatePayload(h) = H2_FRAME_SIZE_ERROR
          \/ ValidatePayload(h) = OnStream(h, ExactLength(h, 5))
      <4>1. CASE h.length > H2_MAX_FRAME_SIZE
        BY <4>1 DEF ValidatePayload
      <4>2. CASE ~(h.length > H2_MAX_FRAME_SIZE)
        BY <4>2 DEF ValidatePayload, H2_FRAME_DATA, H2_FRAME_HEADERS,
                    H2_FRAME_PRIORITY, H2_FRAME_RST_STREAM, H2_FRAME_SETTINGS,
                    H2_FRAME_PUSH_PROMISE, H2_FRAME_PING, H2_FRAME_GOAWAY,
                    H2_FRAME_WINDOW_UPDATE, H2_FRAME_CONTINUATION
      <4> QED  BY <4>1, <4>2
    <3> QED  BY <1>3, <3>1 DEF OnStream, ExactLength, H2_OK, H2_FRAME_SIZE_ERROR,
                               H2_PROTOCOL_ERROR
  <2>2. f.dependency = ReadU31(payload, 0)
    <3>1. Len(payload) >= 0 + 4
      BY <2>1 DEF Given
    <3>2. h.type # H2_FRAME_HEADERS
      BY DEF H2_FRAME_PRIORITY, H2_FRAME_HEADERS
    <3> QED  BY <3>1, <3>2 DEF Describes
  <2>3. ParsePriorityBytes(h, payload) = PriorityAt(h, payload, 0)
    BY <1>3 DEF ParsePriorityBytes
  <2>4. PriorityAt(h, payload, 0).ret = SelfDependency(f)
    BY <1>1, <2>2 DEF PriorityAt, SelfDependency, Fail
  <2> QED  BY <1>1, <1>3, <2>3, <2>4 DEF ParsePriority
<1> QED  BY <1>2, <1>3

LEMMA FieldsAgree ==
    ASSUME NEW f, NEW h, NEW payload, Given(h, payload), Describes(f, h, payload)
    PROVE  LET ret == ParseFields(h, payload).ret
           IN  /\ h.type = H2_FRAME_RST_STREAM => ret = ParseRstStream(f)
               /\ h.type = H2_FRAME_PING => ret = ParsePing(f)
               /\ h.type = H2_FRAME_SETTINGS => ret = ParseSettings(f)
               /\ h.type = H2_FRAME_WINDOW_UPDATE => ret = ParseWindowUpdate(f)
<1> USE DEF H2_FRAME_DATA, H2_FRAME_HEADERS, H2_FRAME_PRIORITY,
            H2_FRAME_RST_STREAM, H2_FRAME_SETTINGS, H2_FRAME_PUSH_PROMISE,
            H2_FRAME_PING, H2_FRAME_GOAWAY, H2_FRAME_WINDOW_UPDATE,
            H2_FRAME_CONTINUATION
<1> DEFINE out == ParseFields(h, payload)
<1>1. /\ ValidatePayload(f) = ValidatePayload(h)
      /\ f.flags = h.flags /\ f.length = h.length
  BY SameVerdict DEF Describes
<1>2. CASE ValidatePayload(h) # H2_OK
  <2>1. out.ret = ValidatePayload(h)
    BY <1>2 DEF ParseFields, Fail
  <2> QED  BY <1>1, <1>2, <2>1 DEF ParseRstStream, ParsePing, ParseSettings,
                                   ParseWindowUpdate
<1>3. CASE ValidatePayload(h) = H2_OK
  <2>1. ASSUME h.type = 3 PROVE out.ret = ParseRstStream(f)
    BY <1>1, <1>3, <2>1 DEF ParseFields, ParseRstStream
  <2>2. ASSUME h.type = 6 PROVE out.ret = ParsePing(f)
    BY <1>1, <1>3, <2>2 DEF ParseFields, ParsePing
  <2>3. ASSUME h.type = 4 PROVE out.ret = ParseSettings(f)
    <3>1. out = IF H2_FLAG_ACK \in h.flags THEN [ret |-> H2_OK, settings |-> << >>]
                ELSE IF h.length \div 6 > MaxSettings THEN Fail(H2_INTERNAL_ERROR)
                ELSE [ret |-> H2_OK, settings |-> SettingsIn(payload)]
      BY <1>3, <2>3 DEF ParseFields
    <3>2. ParseSettings(f) = IF H2_FLAG_ACK \in h.flags THEN H2_OK
                             ELSE IF h.length \div 6 > MaxSettings
                             THEN H2_INTERNAL_ERROR ELSE H2_OK
      BY <1>1, <1>3 DEF ParseSettings
    <3>3. CASE H2_FLAG_ACK \in h.flags
      BY <3>1, <3>2, <3>3
    <3>4. CASE H2_FLAG_ACK \notin h.flags /\ h.length \div 6 > MaxSettings
      BY <3>1, <3>2, <3>4 DEF Fail
    <3>5. CASE H2_FLAG_ACK \notin h.flags /\ ~(h.length \div 6 > MaxSettings)
      BY <3>1, <3>2, <3>5
    <3> QED  BY <3>3, <3>4, <3>5
  <2>4. ASSUME h.type = 8 PROVE out.ret = ParseWindowUpdate(f)
    <3>1. h.length = 4
      BY <1>3, <2>4 DEF ValidatePayload, ExactLength, H2_OK, H2_FRAME_SIZE_ERROR
    <3>2. f.increment = ReadU31(payload, 0)
      <4>1. Len(payload) >= 4
        BY <3>1 DEF Given
      <4> QED  BY <4>1 DEF Describes
    <3>3. out = IF f.increment = 0 THEN Fail(H2_PROTOCOL_ERROR)
                ELSE [ret |-> H2_OK, increment |-> ReadU31(payload, 0)]
      BY <1>3, <2>4, <3>2 DEF ParseFields
    <3>4. ParseWindowUpdate(f) = IF f.increment = 0 THEN H2_PROTOCOL_ERROR ELSE H2_OK
      BY <1>1, <1>3 DEF ParseWindowUpdate
    <3> QED  BY <3>3, <3>4 DEF Fail
  <2> QED  BY <2>1, <2>2, <2>3, <2>4
<1> QED  BY <1>2, <1>3

LEMMA AbstractDescribes == Describes(Abstract, ParseHeader(frame), Payload)
<1> DEFINE h == ParseHeader(frame)
<1>1. /\ Abstract.type = h.type /\ Abstract.length = h.length
      /\ Abstract.flags = h.flags /\ Abstract.stream_id = h.stream_id
  BY DEF Abstract
<1>2. Payload # << >> => Abstract.pad = Payload[1]
  BY DEF Abstract
<1>3. LET pos == IF h.type = H2_FRAME_HEADERS /\ H2_FLAG_PADDED \in h.flags
                 THEN 1 ELSE 0
      IN  Len(Payload) >= pos + 4 => Abstract.dependency = ReadU31(Payload, pos)
  BY DEF Abstract
<1>4. Len(Payload) >= 4 => Abstract.increment = ReadU31(Payload, 0)
  BY DEF Abstract
<1> QED  BY <1>1, <1>2, <1>3, <1>4 DEF Describes

(* For every whole frame: the checks of H2Frame, on which the connection   *)
(* model rests, give it the code that the parser of its bytes gives it,    *)
(* and its data or header block the same length.                           *)
THEOREM FramesAgreeCorrect == FrameSpec => []FramesAgree
<1>1. FrameInv => FramesAgree
  <2> SUFFICES ASSUME FrameInv, frame_pc = "done", frame # << >>
               PROVE  FramesAgree
    BY DEF FramesAgree
  <2>1. Whole(frame) /\ parsed = ParsePayload(ParseHeader(frame), Payload)
    BY DEF FrameInv
  <2>2. PICK h, payload, f, out :
           /\ h = ParseHeader(frame) /\ payload = Payload /\ f = Abstract
           /\ out = parsed
    OBVIOUS
  <2>3. Given(h, payload) /\ Describes(f, h, payload)
    BY <2>1, <2>2, WholeGiven, AbstractDescribes
  <2>4. out = ParsePayload(h, payload) /\ f.type = h.type
    BY <2>1, <2>2, <2>3 DEF Describes
  <2> USE DEF H2_FRAME_DATA, H2_FRAME_HEADERS, H2_FRAME_PRIORITY,
              H2_FRAME_RST_STREAM, H2_FRAME_SETTINGS, H2_FRAME_PUSH_PROMISE,
              H2_FRAME_PING, H2_FRAME_GOAWAY, H2_FRAME_WINDOW_UPDATE,
              H2_FRAME_CONTINUATION
  <2>5. f.type = 0 => /\ out.ret = ParseData(f)
                      /\ out.ret = H2_OK => Len(out.bytes) = UnpaddedLen(f)
    <3>1. f.type = 0 => out = ParseDataBytes(h, payload)
      BY <2>4 DEF ParsePayload
    <3> QED  BY <2>3, <3>1, DataAgrees
  <2>6. f.type = 1 => /\ out.ret = ParseHeaders(f)
                      /\ out.ret = H2_OK => Len(out.bytes) = HeaderBlockLen(f)
    <3>1. f.type = 1 => out = ParseHeadersBytes(h, payload)
      BY <2>4 DEF ParsePayload
    <3> QED  BY <2>3, <2>4, <3>1, HeadersAgrees
  <2>7. f.type = 2 => out.ret = ParsePriority(f)
    <3>1. f.type = 2 => out = ParsePriorityBytes(h, payload)
      BY <2>4 DEF ParsePayload
    <3> QED  BY <2>3, <2>4, <3>1, PriorityAgrees
  <2>8. f.type = 9 => out.ret = ParseContinuation(f)
    <3>1. f.type = 9 =>
            out = IF ValidatePayload(h) # H2_OK THEN Fail(H2_PROTOCOL_ERROR)
                  ELSE [ret |-> H2_OK, bytes |-> payload]
      BY <2>4 DEF ParsePayload
    <3>2. ValidatePayload(f) = ValidatePayload(h)
      BY <2>3, SameVerdict
    <3> QED  BY <3>1, <3>2 DEF ParseContinuation, Fail
  <2>9. /\ f.type = 3 => out.ret = ParseRstStream(f)
        /\ f.type = 6 => out.ret = ParsePing(f)
        /\ f.type = 4 => out.ret = ParseSettings(f)
        /\ f.type = 8 => out.ret = ParseWindowUpdate(f)
    <3>1. f.type \in {3, 4, 6, 8} => out = ParseFields(h, payload)
      BY <2>4 DEF ParsePayload
    <3> QED  BY <2>3, <2>4, <3>1, FieldsAgree
  <2> QED  BY <2>2, <2>5, <2>6, <2>7, <2>8, <2>9 DEF FramesAgree
<1> QED  BY <1>1, FrameInvAlways, PTL
=============================================================================
