----------------------------- MODULE MCH2Codecs -----------------------------
(***************************************************************************)
(* The wire formats: HPACK integers, HPACK blocks and frames.  The three   *)
(* have no state in common; a behaviour is one of any of them, while the   *)
(* other two rest in the final state of an empty input.                    *)
(*                                                                         *)
(* Integers have the groups of the code and its proportions in a smaller   *)
(* word: two groups of 7 bits exceed 10 bits and one does not, as with     *)
(* five groups, four groups and 32 bits.  Blocks have real bytes; frames   *)
(* have bytes of 6 bits, as TLC's integers have fewer bits than four real  *)
(* ones.                                                                   *)
(***************************************************************************)
EXTENDS H2HpackCodec, H2HpackBlock, H2FrameBytes

codecVars == <<vars, blockVars, frameVars>>

-----------------------------------------------------------------------------
(* HPACK blocks.  The bytes are those whose bits matter: indexed fields    *)
(* (:path, another, an unknown index), literals with a new name, an        *)
(* indexed name and an index that continues in the next byte, a size       *)
(* update, lengths with and without the Huffman bit, and NUL.  Names are   *)
(* one byte long, "p" standing for ":path".                                *)

MCPathName == <<112>>

MCStaticTable ==
    [i \in 1 .. 61 |-> IF i = 4 THEN [name |-> MCPathName, value |-> <<47>>]
                       ELSE [name |-> <<97>>, value |-> << >>]]

SomeBytes  == {0, 1, 2, 4, 15, 32, 68, 112, 129, 132, 190}
ShortBlocks == UNION {[1 .. n -> SomeBytes] : n \in 0 .. 5}

(* Texts on both sides of the limits of a one-byte length and of a field.  *)
Text(n) == [k \in 1 .. n |-> 112]
SomeLiterals ==
    [name : {Text(n) : n \in {0, 1, 2, 3}},
     value : {Text(n) : n \in {0, 1, 126, 127, 128, 129, 130, 300}},
     cap : {0, 1, 2, 3, 4, 130, 131, 132, 260, 400}]

-----------------------------------------------------------------------------
(* Frames.  Calls have numbers on both sides of every byte and of the      *)
(* reserved bit, and lengths of one, two and three bytes; received frames  *)
(* have every type, the flags that matter together, and payloads around    *)
(* every fixed length.                                                     *)

Some(n)  == [k \in 1 .. n |-> (k * 7) % 64]
Rooms    == {0, 9, 13, 17, 21, 27, 5000}
Ids      == {0, 1, 63, 64, 4095, 262144, 8388607}
Words    == {0, 1, 64, 8388607, 8388608, 16777215}
Lengths  == {0, 1, 63, 64, 4096}
MCCalls ==
    [op : {"data", "headers", "continuation"}, cap : {9, 73, 5000},
     stream_id : {0, 1, 8388607}, flags : {0, 1, 8, 32},
     bytes : {Some(n) : n \in Lengths}]
    \cup [op : {"priority"}, cap : Rooms, stream_id : Ids, dependency : Ids,
          exclusive : BOOLEAN, weight : {0, 63}]
    \cup [op : {"rst_stream"}, cap : Rooms, stream_id : Ids, code : Words]
    \cup [op : {"settings"}, cap : Rooms, flags : {0, 1, 4},
          settings : UNION {[1 .. n -> [id : {1, 64}, value : {0, 16777215}]] :
                               n \in 0 .. 3}]
    \cup [op : {"push_promise"}, cap : Rooms, stream_id : Ids, promised : Ids,
          flags : {4, 8}, bytes : {Some(n) : n \in {0, 1, 8, 9}}]
    \cup [op : {"ping"}, cap : Rooms, flags : {0, 1}, bytes : {Some(8)}]
    \cup [op : {"goaway"}, cap : Rooms, last : Ids, code : Words,
          bytes : {Some(n) : n \in {0, 1, 4, 5}}]
    \cup [op : {"window_update"}, cap : Rooms, stream_id : Ids,
          increment : Words]

Payloads ==
    UNION {[1 .. n -> {0, 1, 3, 33}] : n \in 0 .. 3}
    \cup {<<b>> \o [k \in 1 .. n |-> c] :
             b \in {0, 1, 3, 4, 5, 8, 33}, c \in {0, 1, 33}, n \in 3 .. 17}
MCWires ==
    {<<0, 0, Len(p), type, flags, top, 0, 0, id>> \o p :
        p \in Payloads, type \in 0 .. 10, flags \in {0, 1, 8, 32, 40},
        top \in {0, 32}, id \in {0, 1}}

-----------------------------------------------------------------------------
IntegerRests ==
    /\ pc = "done" /\ value = NoValue /\ prefix_max = 1 /\ cap = 1
    /\ rest = 0 /\ wire = << >> /\ decoder = DecodePrefix(0, 1)
    /\ sum = 0 /\ scale = 1
BlockRests ==
    /\ block = << >> /\ literal = NoLiteral /\ items = << >>
    /\ extract = [ret |-> H2_PROTOCOL_ERROR, pos |-> 0, path |-> << >>]
    /\ decode = [ret |-> H2_OK, pos |-> 0, fields |-> << >>]
FrameRests ==
    /\ frame_pc = "done" /\ call = NoCall /\ frame = << >>
    /\ parsed = NoOut

CodecInit ==
    \/ Init /\ BlockRests /\ FrameRests
    \/ IntegerRests /\ BlockInit /\ FrameRests
    \/ IntegerRests /\ BlockRests /\ FrameInit

CodecNext ==
    \/ Next /\ UNCHANGED <<blockVars, frameVars>>
    \/ BlockNext /\ UNCHANGED <<vars, frameVars>>
    \/ FrameNext /\ UNCHANGED <<vars, blockVars>>

CodecSpec == CodecInit /\ [][CodecNext]_codecVars

AllValues == 0 .. MaxWord
=============================================================================
