---------------------------- MODULE H2HpackCodec ----------------------------
(***************************************************************************)
(* h2_hpack_encode_integer and h2_hpack_decode_integer (hpack.c) against   *)
(* each other: the decoder reads either what the encoder wrote for a       *)
(* value, or arbitrary bytes that come one at a time and may end at any    *)
(* point.                                                                  *)
(***************************************************************************)
EXTENDS H2HpackInt, Sequences

CONSTANTS
    PrefixMaxes,  \* 2^prefix_bits - 1 for the prefixes in use
    Values,       \* values to encode
    Caps          \* room the encoder may have, in bytes

ASSUME HpackCodecAssumption ==
    /\ PrefixMaxes \subseteq 1 .. MaxWord
    /\ Values \subseteq 0 .. MaxWord
    /\ Caps \subseteq Nat \ {0}

VARIABLES
    pc,         \* "encode", "full", "decode" or "done"
    value,      \* what is encoded, or NoValue for arbitrary bytes
    prefix_max, cap,
    rest,       \* what the encoder has still to write
    wire,       \* the bytes after the prefix that the encoder wrote
    decoder,
    sum,        \* history: what the bytes read so far stand for
    scale       \* history: what the next group counts for

input == <<value, prefix_max, cap>>
vars  == <<pc, input, rest, wire, decoder, sum, scale>>

NoValue == -1

Init ==
    /\ prefix_max \in PrefixMaxes /\ cap \in Caps
    /\ wire = << >> /\ scale = 1
    /\ \/ \E v \in Values :
             /\ value = v
             /\ pc = IF v < prefix_max THEN "done" ELSE "encode"
             /\ rest = IF v < prefix_max THEN 0 ELSE v - prefix_max
             /\ decoder = DecodePrefix(IF v < prefix_max THEN v
                                       ELSE prefix_max, prefix_max)
             /\ sum = decoder.result
       \/ /\ value = NoValue /\ pc = "decode" /\ rest = 0
          /\ sum = prefix_max
          /\ decoder = DecodePrefix(prefix_max, prefix_max)

(* One turn of the loop of h2_hpack_encode_integer, and its last byte. *)
EncodeByte ==
    /\ pc = "encode" /\ Len(wire) + 1 < cap
    /\ IF rest >= Base
       THEN /\ wire' = Append(wire, Base + Low(rest))
            /\ rest' = rest \div Base
            /\ UNCHANGED pc
       ELSE /\ wire' = Append(wire, rest)
            /\ rest' = 0 /\ pc' = "decode"
    /\ UNCHANGED <<input, decoder, sum, scale>>

(* The buffer is full: the encoder returns 0. *)
EncodeFull ==
    /\ pc = "encode" /\ Len(wire) + 1 >= cap
    /\ pc' = "full"
    /\ UNCHANGED <<input, rest, wire, decoder, sum, scale>>

Read(b) ==
    /\ decoder' = DecodeByte(decoder, b)
    /\ sum' = sum + Low(b) * scale
    /\ scale' = scale * Base
    /\ pc' = IF decoder'.ret = "more" THEN "decode" ELSE "done"
    /\ UNCHANGED <<input, rest, wire>>

(* The decoder reads the next byte of the encoding, or any byte. *)
DecodeEncoded ==
    /\ pc = "decode" /\ value # NoValue /\ decoder.pos <= Len(wire)
    /\ Read(wire[decoder.pos])

DecodeAny(b) == pc = "decode" /\ value = NoValue /\ Read(b)

(* The input ends inside the integer. *)
DecodeEnd ==
    /\ pc = "decode"
    /\ value = NoValue \/ decoder.pos > Len(wire)
    /\ decoder' = Failed(decoder)
    /\ pc' = "done"
    /\ UNCHANGED <<input, rest, wire, sum, scale>>

Next ==
    \/ EncodeByte \/ EncodeFull
    \/ DecodeEncoded
    \/ \E b \in Bytes : DecodeAny(b)
    \/ DecodeEnd

Spec == Init /\ [][Next]_vars

-----------------------------------------------------------------------------
(* Properties.                                                             *)

(* What the decoder returns is what the bytes stand for, within 32 bits;   *)
(* no order of large and small groups wraps around or loses a bit.         *)
DecodeExact ==
    decoder.ret # "error" => decoder.result = sum /\ sum <= MaxWord

(* It rejects an integer only if the integer does not fit, has too many    *)
(* bytes, or does not end.                                                 *)
RejectsOnly ==
    [][decoder'.ret = "error" /\ scale' # scale
       => sum' > MaxWord \/ decoder.pos > MaxPos]_vars

(* Every value, with every prefix, decodes to itself from exactly the      *)
(* bytes that the encoder wrote.                                           *)
RoundTrip ==
    pc = "done" /\ value # NoValue
    => /\ decoder.ret = "ok"
       /\ decoder.result = value
       /\ decoder.pos = Len(wire) + 1
=============================================================================
