---------------------------- MODULE H2HpackBlock ----------------------------
(***************************************************************************)
(* HPACK header blocks byte by byte (hpack.c): h2_hpack_extract_path, the  *)
(* decoder that the server uses, and h2_hpack_decode_headers, the complete *)
(* one that the repository's tests use, over the same bytes, one turn of   *)
(* their loops at a time.                                                  *)
(*                                                                         *)
(* block is a sequence of bytes and pos an offset into it, as in the code: *)
(* the byte at pos is block[pos + 1].  A text is the sequence of its       *)
(* bytes.                                                                  *)
(* `extract' and `decode' are the locals of the two functions; their ret   *)
(* is Running inside the loop.  items is a history of what the extractor   *)
(* met, in the terms of H2Hpack.                                           *)
(***************************************************************************)
EXTENDS H2HpackInt, H2Hpack

CONSTANTS
    StaticTable,  \* h2_static_table: index -> [name, value]
    PathName,     \* ":path"
    NameCap,      \* H2_HEADER_NAME_CAP
    ValueCap,     \* H2_HEADER_VALUE_CAP
    FieldCap,     \* field_cap of decode_headers
    Blocks,        \* header blocks as they are received
    Literals      \* [name, value, cap]: calls of encode_literal_new_name

(* The name and value of a h2_header_field are arrays, never empty.  Texts *)
(* are what strlen sees of them.  A field's value fits stream->path.       *)
ASSUME BlockAssumption ==
    /\ Base = 128
    /\ NameCap \in Nat \ {0} /\ ValueCap \in Nat \ {0} /\ FieldCap \in Nat
    /\ ValueCap <= PathCap
    /\ DOMAIN StaticTable \subseteq Nat
    /\ \A i \in DOMAIN StaticTable : /\ StaticTable[i].name \in Seq(Bytes \ {0})
                                     /\ StaticTable[i].value \in Seq(Bytes \ {0})
    /\ Blocks \subseteq Seq(Bytes)
    /\ \A l \in Literals : /\ l.name \in Seq(Bytes \ {0}) /\ Len(l.name) <= MaxWord
                           /\ l.value \in Seq(Bytes \ {0}) /\ Len(l.value) <= MaxWord
                           /\ l.cap \in Nat

VARIABLES block, literal, extract, decode, items
blockVars == <<block, literal, extract, decode, items>>

Running   == -1
NoLiteral == [cap |-> 0]
Ok(used, value) == [ret |-> H2_OK, used |-> used, value |-> value]
Error(code)     == [ret |-> code, used |-> 0, value |-> 0]

-----------------------------------------------------------------------------
(* Integers, strings and names                                             *)

(* The decoder of an integer at offset p after each turn of the loop of    *)
(* h2_hpack_decode_integer; it stays where it returns or the block ends.   *)
DecodeTurns(p, prefix_max) ==
    LET d[k \in 0 .. MaxPos + 1] ==
          IF k = 0
          THEN DecodePrefix(block[p + 1] % (prefix_max + 1), prefix_max)
          ELSE IF d[k - 1].ret = "more" /\ p + k < Len(block)
          THEN DecodeByte(d[k - 1], block[p + k + 1]) ELSE d[k - 1]
    IN  d

(* h2_hpack_decode_integer from offset p: the value and the bytes used. *)
DecodeInteger(p, prefix_max) ==
    LET last == DecodeTurns(p, prefix_max)[MaxPos + 1]
    IN  IF p < Len(block) /\ last.ret = "ok" THEN Ok(last.pos, last.result)
        ELSE Error(H2_COMPRESSION_ERROR)

(* Mutant: the length prefix is left out of the bounds check. *)
SkipStringUnprefixed(p, cap) ==
    LET n == DecodeInteger(p, 127)
    IN  IF n.ret # H2_OK \/ n.value > Len(block) - p
        THEN Error(H2_COMPRESSION_ERROR)
        ELSE IF n.value >= cap THEN Error(H2_REFUSED_STREAM)
        ELSE Ok(n.used + n.value, 0)

(* h2_hpack_skip_string_capped *)
SkipString(p, cap) ==
    LET n == DecodeInteger(p, 127)
    IN  IF n.ret # H2_OK \/ n.used + n.value > Len(block) - p
        THEN Error(H2_COMPRESSION_ERROR)
        ELSE IF n.value >= cap THEN Error(H2_REFUSED_STREAM)
        ELSE Ok(n.used + n.value, 0)

(* What C sees of a text: it ends at the first NUL. *)
CString(text) ==
    LET nul == {k \in DOMAIN text : text[k] = 0}
    IN  IF nul = {} THEN text ELSE SubSeq(text, 1, First(nul) - 1)

Huffman(p) == p < Len(block) /\ More(block[p + 1])

(* h2_hpack_decode_string *)
DecodeString(p, cap) ==
    LET n == DecodeInteger(p, 127)
    IN  IF Huffman(p) \/ n.ret # H2_OK \/ n.used + n.value > Len(block) - p
        THEN Error(H2_COMPRESSION_ERROR)
        ELSE IF n.value >= cap THEN Error(H2_REFUSED_STREAM)
        ELSE Ok(n.used + n.value,
                CString(SubSeq(block, p + n.used + 1, p + n.used + n.value)))

(* h2_hpack_static_get *)
Known(index) == index \in DOMAIN StaticTable

(* h2_copy_text into a buffer of cap bytes, of which there is at least one *)
CopyText(cap, text) == IF Len(text) >= cap THEN H2_REFUSED_STREAM ELSE H2_OK

(* h2_hpack_decode_indexed_literal_name *)
LiteralName(p, prefix_max) ==
    LET n    == DecodeInteger(p, prefix_max)
        name == DecodeString(p + n.used, NameCap)
    IN  CASE n.ret # H2_OK -> n
          [] n.ret = H2_OK /\ n.value = 0 -> [name EXCEPT !.used = @ + n.used]
          [] n.ret = H2_OK /\ n.value # 0 /\ ~Known(n.value) ->
                 Error(H2_COMPRESSION_ERROR)
          [] OTHER -> IF CopyText(NameCap, StaticTable[n.value].name) # H2_OK
                      THEN Error(H2_REFUSED_STREAM)
                      ELSE Ok(n.used, StaticTable[n.value].name)

(* The four forms of an instruction, by the bits of its first byte. *)
Indexed(p)    == More(block[p + 1])
SizeUpdate(p) == block[p + 1] \div 32 = 1
NameMax(p)    == IF block[p + 1] >= 64 THEN 63 ELSE 15

-----------------------------------------------------------------------------
(* Encoding: h2_hpack_encode_string and h2_hpack_encode_literal_new_name.  *)

Groups[v \in 0 .. MaxWord] ==
    IF v < Base THEN <<v>> ELSE <<Base + Low(v)>> \o Groups[v \div Base]

(* Mutant: 127 still fits the prefix. *)
EncodeStringShort(text) ==
    (IF Len(text) <= 127 THEN <<Len(text)>>
     ELSE <<127>> \o Groups[Len(text) - 127]) \o text

EncodeString(text) ==
    (IF Len(text) < 127 THEN <<Len(text)>>
     ELSE <<127>> \o Groups[Len(text) - 127]) \o text

Encoded(l) == <<0>> \o EncodeString(l.name) \o EncodeString(l.value)

(* The encoder returns 0 when the buffer is too small. *)
Encodes(l) == Len(Encoded(l)) <= l.cap

-----------------------------------------------------------------------------
(* The two decoders                                                        *)

BlockInit ==
    /\ \/ block \in Blocks /\ literal = NoLiteral
       \/ /\ literal \in Literals
          /\ block = IF Encodes(literal) THEN Encoded(literal) ELSE << >>
    /\ extract = [ret |-> Running, pos |-> 0, path |-> << >>]
    /\ decode  = [ret |-> Running, pos |-> 0, fields |-> << >>]
    /\ items = << >>

(* What h2_hpack_extract_path reads of the instruction at p: its length,   *)
(* and the :path value it holds, if any, as a sequence of at most one.     *)
PathIn(p) ==
    LET index == DecodeInteger(p, 127)
        entry == StaticTable[index.value]
        name  == LiteralName(p, NameMax(p))
        value == IF name.value = PathName
                 THEN DecodeString(p + name.used, ValueCap)
                 ELSE SkipString(p + name.used, ValueCap)
        Paths(n, text) == IF n = PathName THEN <<text>> ELSE << >>
    IN  CASE Indexed(p) ->
               IF index.ret # H2_OK \/ ~Known(index.value)
               THEN Error(H2_COMPRESSION_ERROR)
               ELSE Ok(index.used, Paths(entry.name, entry.value))
          [] ~Indexed(p) /\ SizeUpdate(p) ->
               [DecodeInteger(p, 31) EXCEPT !.value = << >>]
          [] OTHER ->
               IF name.ret # H2_OK THEN name
               ELSE IF value.ret # H2_OK THEN value
               ELSE Ok(name.used + value.used, Paths(name.value, value.value))

(* Mutant: the first :path wins. *)
CopiedPathFirst(found) ==
    IF found = << >> \/ extract.path # << >> THEN extract.path ELSE found[1]

(* path after h2_copy_text: a later :path overwrites an earlier one. *)
CopiedPath(found) == IF found = << >> THEN extract.path ELSE found[1]

(* The locals of h2_hpack_extract_path, and the history, after it has read *)
(* an instruction.                                                         *)
ExtractStep(it) ==
    LET held == it.ret = H2_OK /\ it.value # << >>
        ret  == IF held THEN CopyText(PathCap, it.value[1]) ELSE it.ret
    IN  /\ extract' = IF ret # H2_OK THEN [extract EXCEPT !.ret = ret]
                      ELSE [extract EXCEPT !.pos = @ + it.used,
                                          !.path = CopiedPath(it.value)]
        /\ items' = Append(items,
                       [err  |-> it.ret,
                        path |-> IF held THEN Len(it.value[1]) ELSE NotPath])

(* One turn of the loop of h2_hpack_extract_path. *)
ExtractTurn ==
    /\ extract.ret = Running /\ extract.pos < Len(block)
    /\ ExtractStep(PathIn(extract.pos))
    /\ UNCHANGED <<block, literal, decode>>

(* Mutant: a block without a path is accepted. *)
ExtractEndAny ==
    /\ extract.ret = Running /\ extract.pos >= Len(block)
    /\ extract' = [extract EXCEPT !.ret = H2_OK]
    /\ UNCHANGED <<block, literal, decode, items>>

(* After the loop: a block without a path, or with an empty one, fails. *)
ExtractEnd ==
    /\ extract.ret = Running /\ extract.pos >= Len(block)
    /\ extract' = [extract EXCEPT !.ret =
                      IF extract.path = << >> THEN H2_PROTOCOL_ERROR ELSE H2_OK]
    /\ UNCHANGED <<block, literal, decode, items>>

Field(name, value) == [name |-> name, value |-> value]

(* The field that h2_hpack_decode_headers reads at p. *)
FieldAt(p) ==
    LET index == DecodeInteger(p, 127)
        name  == LiteralName(p, NameMax(p))
        value == DecodeString(p + name.used, ValueCap)
        entry == StaticTable[index.value]
    IN  CASE Indexed(p) ->
               IF index.ret # H2_OK \/ ~Known(index.value)
               THEN Error(H2_COMPRESSION_ERROR)
               ELSE IF \/ CopyText(NameCap, entry.name) # H2_OK
                       \/ CopyText(ValueCap, entry.value) # H2_OK
               THEN Error(H2_REFUSED_STREAM)
               ELSE Ok(index.used, <<Field(entry.name, entry.value)>>)
          [] ~Indexed(p) /\ SizeUpdate(p) ->
               [DecodeInteger(p, 31) EXCEPT !.value = << >>]
          [] OTHER ->
               IF name.ret # H2_OK THEN name
               ELSE IF value.ret # H2_OK THEN value
               ELSE Ok(name.used + value.used,
                       <<Field(name.value, value.value)>>)

(* The locals of h2_hpack_decode_headers after it has read a field. *)
DecodeStep(f) ==
    LET ret == IF Len(decode.fields) >= FieldCap THEN H2_REFUSED_STREAM
               ELSE f.ret
    IN  decode' = IF ret # H2_OK THEN [decode EXCEPT !.ret = ret]
                  ELSE [decode EXCEPT !.pos = @ + f.used,
                                      !.fields = @ \o f.value]

(* One turn of the loop of h2_hpack_decode_headers, a call of its own. *)
DecodeTurn ==
    /\ extract.ret # Running
    /\ decode.ret = Running /\ decode.pos < Len(block)
    /\ DecodeStep(FieldAt(decode.pos))
    /\ UNCHANGED <<block, literal, extract, items>>

DecodeDone ==
    /\ extract.ret # Running
    /\ decode.ret = Running /\ decode.pos >= Len(block)
    /\ decode' = [decode EXCEPT !.ret = H2_OK]
    /\ UNCHANGED <<block, literal, extract, items>>

BlockNext == ExtractTurn \/ ExtractEnd \/ DecodeTurn \/ DecodeDone

BlockSpec == BlockInit /\ [][BlockNext]_blockVars

-----------------------------------------------------------------------------
(* Properties                                                              *)

(* Neither decoder ever stands behind the end of its input, and each turn  *)
(* takes at least one byte or returns, whatever the lengths in the block.  *)
InBounds ==
    [][\A d \in {<<extract, extract'>>, <<decode, decode'>>} :
         d[1] # d[2] => \/ d[2].ret # Running
                        \/ d[2].pos \in d[1].pos + 1 .. Len(block)]_blockVars

(* On a block that the complete decoder accepts, the server's extractor    *)
(* finds the value of the last :path field, and fails only if there is     *)
(* none or it is empty.                                                    *)
PathAgrees ==
    decode.ret = H2_OK
    => LET paths == {k \in DOMAIN decode.fields :
                       decode.fields[k].name = PathName}
           path  == IF paths = {} THEN << >>
                    ELSE decode.fields[Last(paths)].value
       IN  /\ extract.path = path
           /\ extract.ret = IF path = << >> THEN H2_PROTOCOL_ERROR ELSE H2_OK

(* What the connection model says of a block, from its instructions alone, *)
(* is what the bytes give: the same code and a path of the same length.    *)
ItemsSuffice ==
    extract.ret # Running
    => ExtractPath(items) = [ret |-> extract.ret, path |-> Len(extract.path)]

(* A literal field that the encoder could write decodes to itself, as the  *)
(* only field of its block, if its texts fit the field's buffers.          *)
LiteralRoundTrip ==
    literal # NoLiteral /\ Encodes(literal) /\ decode.ret # Running
    => IF Len(literal.name) < NameCap /\ Len(literal.value) < ValueCap
       THEN /\ decode.ret = H2_OK
            /\ decode.fields = <<Field(literal.name, literal.value)>>
       ELSE decode.ret = H2_REFUSED_STREAM
=============================================================================
