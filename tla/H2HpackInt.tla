----------------------------- MODULE H2HpackInt -----------------------------
(***************************************************************************)
(* HPACK integers (hpack.c): the loop of h2_hpack_decode_integer, byte by  *)
(* byte.                                                                   *)
(*                                                                         *)
(* A byte after the first is a number below 2 * Base: its low part is a    *)
(* group of the value, and a byte of at least Base says that more follow.  *)
(* Base is 128 and MaxWord 2^32 - 1 in the code.  The shift of the code is *)
(* kept as the power of Base it stands for.                                *)
(***************************************************************************)
EXTENDS Integers

CONSTANTS
    Base,         \* 2^7
    MaxWord,      \* UINT32_MAX
    MaxPos        \* the last position a byte of an integer may have, 5

ASSUME HpackIntAssumption ==
    /\ Base \in Nat /\ Base > 1
    /\ MaxWord \in Nat /\ MaxPos \in Nat \ {0}

Bytes   == 0 .. 2 * Base - 1
More(b) == b >= Base   \* byte & 0x80
Low(b)  == b % Base    \* byte & 0x7f

-----------------------------------------------------------------------------
(* The word and the number of groups.                                      *)

(* P holds the powers of Base that the groups of an integer count for.     *)
Powers(P) ==
    /\ P \in [1 .. MaxPos + 1 -> Nat \ {0}]
    /\ P[1] = 1
    /\ \A n \in 1 .. MaxPos : P[n + 1] = P[n] * Base

(* The last group an integer may have still counts in the word: 128^4 is   *)
(* at most UINT32_MAX.                                                     *)
GroupsFit == \E P : Powers(P) /\ \A n \in 1 .. MaxPos : P[n] <= MaxWord

(* And one group more would not: 128^5 is above UINT32_MAX.                *)
GroupsSuffice ==
    \E P : /\ Powers(P) /\ \A n \in 1 .. MaxPos : P[n] <= MaxWord
           /\ P[MaxPos + 1] > MaxWord

-----------------------------------------------------------------------------
(* The decoder: ret is "more" inside the loop, weight is 1 << shift. *)

Decoder == [ret : {"more", "ok", "error"}, pos : Nat, result : Nat,
            weight : Nat]

(* The prefix holds the value, or says that it continues. *)
DecodePrefix(prefix, prefix_max) ==
    [ret    |-> IF prefix < prefix_max THEN "ok" ELSE "more",
     pos    |-> 1, result |-> prefix, weight |-> 1]

Failed(d) == [d EXCEPT !.ret = "error"]

(* Mutants: the group is added unshifted in the check; only four bytes;    *)
(* one bit is lost at the upper end.                                       *)
FitsUnshifted(d, b)  == d.pos <= MaxPos /\ d.result <= MaxWord - Low(b)
FitsFourBytes(d, b)  == /\ d.pos < MaxPos
                        /\ d.result <= MaxWord - Low(b) * d.weight
FitsHalfGroup(d, b)  == /\ d.pos <= MaxPos
                        /\ Low(b) < MaxWord \div d.weight
                        /\ d.result <= MaxWord - Low(b) * d.weight

(* The checks of one turn, in the code's order: the position, the shift,   *)
(* the shifted group, the sum.                                             *)
FitsWord(d, b) ==
    /\ d.pos <= MaxPos
    /\ d.weight <= MaxWord
    /\ Low(b) <= MaxWord \div d.weight
    /\ d.result <= MaxWord - Low(b) * d.weight

(* One turn of the loop of h2_hpack_decode_integer. *)
DecodeByte(d, b) ==
    IF ~FitsWord(d, b) THEN Failed(d)
    ELSE [ret    |-> IF More(b) THEN "more" ELSE "ok",
          pos    |-> d.pos + 1,
          result |-> d.result + Low(b) * d.weight,
          weight |-> d.weight * Base]
=============================================================================
