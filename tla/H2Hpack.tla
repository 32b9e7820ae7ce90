------------------------------ MODULE H2Hpack ------------------------------
(***************************************************************************)
(* h2_hpack_extract_path (hpack.c): the pass over a complete header block  *)
(* that keeps the :path value and nothing else.                            *)
(*                                                                         *)
(* The block is the sequence of its HPACK instructions.  Each one either   *)
(* decodes or fails with the code the byte-level decoder gives it: a bad   *)
(* integer, an unknown static index, a Huffman string for a name or for    *)
(* :path, or a truncated string is H2_COMPRESSION_ERROR; a name, value or  *)
(* path that does not fit its buffer is H2_REFUSED_STREAM.                 *)
(***************************************************************************)
EXTENDS H2Frame

CONSTANT PathCap  \* H2_STREAM_PATH_CAP, 256 in stream.h

(* h2_connection_queue_response writes "/" and its terminator to a path *)
ASSUME PathCapAssumption == PathCap \in Nat /\ PathCap >= 2

First(S) == CHOOSE k \in S : \A j \in S : k <= j
Last(S)  == CHOOSE k \in S : \A j \in S : j <= k

(* The code the loop meets at instruction k; h2_copy_text refuses a path   *)
(* that does not fit stream->path with its terminator.                     *)
ItemError(item) == IF item.err # H2_OK THEN item.err
                   ELSE IF item.path >= PathCap THEN H2_REFUSED_STREAM
                   ELSE H2_OK

Failing(block)   == {k \in DOMAIN block : ItemError(block[k]) # H2_OK}
PathItems(block) == {k \in DOMAIN block : block[k].path # NotPath}

(* The loop stops at the first instruction that fails, with the paths      *)
(* before it copied; a later :path overwrites an earlier one; no path, or  *)
(* an empty one, is an error.                                              *)
ExtractPath(block) ==
    LET failing == Failing(block)
        copied  == {k \in PathItems(block) : \A j \in failing : k < j}
        path    == IF copied = {} THEN 0 ELSE block[Last(copied)].path
    IN  [ret  |-> IF failing # {} THEN ItemError(block[First(failing)])
                  ELSE IF path = 0 THEN H2_PROTOCOL_ERROR
                  ELSE H2_OK,
         path |-> path]
=============================================================================
