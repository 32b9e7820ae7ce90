------------------------------ MODULE H2Frame ------------------------------
(***************************************************************************)
(* The HTTP/2 frame layer of phase1/http2 (frame.c, frame.h): error codes, *)
(* frame types and flags, the checks that every h2_frame_parse_* function  *)
(* makes on a received frame, and the sizes of the frames the server       *)
(* encodes.                                                                *)
(*                                                                         *)
(* A received frame is one record.  Header fields are those of             *)
(* h2_frame_header; the flag byte is the set of its defined bits.  The     *)
(* payload is abstracted to what a parser reads from it: the pad-length    *)
(* byte, the stream dependency, the settings, the window increment and the *)
(* header-block fragment (a sequence of HPACK items, see H2Hpack).         *)
(***************************************************************************)
EXTENDS Integers, Sequences

CONSTANTS
    H2_DEFAULT_MAX_FRAME_SIZE,  \* 16384 in frame.h
    H2_MAX_FRAME_SIZE,          \* 16777215 in frame.h
    MaxSettings                 \* settings[32] in h2_connection_apply_settings

ASSUME FrameSizeAssumption ==
    /\ H2_DEFAULT_MAX_FRAME_SIZE \in Nat
    /\ H2_MAX_FRAME_SIZE \in Nat
    /\ H2_DEFAULT_MAX_FRAME_SIZE <= H2_MAX_FRAME_SIZE
    /\ MaxSettings \in Nat

-----------------------------------------------------------------------------
(* enum h2_error_code, the codes this server can produce *)
H2_OK                 == 0
H2_PROTOCOL_ERROR     == 1
H2_INTERNAL_ERROR     == 2
H2_FLOW_CONTROL_ERROR == 3
H2_STREAM_CLOSED      == 5
H2_FRAME_SIZE_ERROR   == 6
H2_REFUSED_STREAM     == 7
H2_COMPRESSION_ERROR  == 9

ErrorCode == {H2_OK, H2_PROTOCOL_ERROR, H2_INTERNAL_ERROR,
              H2_FLOW_CONTROL_ERROR, H2_STREAM_CLOSED, H2_FRAME_SIZE_ERROR,
              H2_REFUSED_STREAM, H2_COMPRESSION_ERROR}

(* enum h2_frame_type; any other type is an extension frame *)
H2_FRAME_DATA          == 0
H2_FRAME_HEADERS       == 1
H2_FRAME_PRIORITY      == 2
H2_FRAME_RST_STREAM    == 3
H2_FRAME_SETTINGS      == 4
H2_FRAME_PUSH_PROMISE  == 5
H2_FRAME_PING          == 6
H2_FRAME_GOAWAY        == 7
H2_FRAME_WINDOW_UPDATE == 8
H2_FRAME_CONTINUATION  == 9

(* enum h2_frame_flags: END_STREAM and ACK are the same bit *)
H2_FLAG_END_STREAM  == 1
H2_FLAG_ACK         == 1
H2_FLAG_END_HEADERS == 4
H2_FLAG_PADDED      == 8
H2_FLAG_PRIORITY    == 32
Flag == {1, 4, 8, 32}

(* enum h2_settings_id, the settings the server looks at *)
H2_SETTINGS_ENABLE_PUSH         == 2
H2_SETTINGS_INITIAL_WINDOW_SIZE == 4
H2_SETTINGS_MAX_FRAME_SIZE      == 5

Setting == [id : Nat, value : Nat]

(* One HPACK instruction of a header block as h2_hpack_extract_path sees   *)
(* it: err is the code its decoding fails with (H2_OK when it decodes),    *)
(* path the length of its :path value, or NotPath for any other field.     *)
NotPath == -1
HpackItem == [err  : {H2_OK, H2_COMPRESSION_ERROR, H2_REFUSED_STREAM},
              path : Nat \cup {NotPath}]

Frame == [type       : Nat,
          length     : Nat,
          flags      : SUBSET Flag,
          stream_id  : Nat,
          pad        : Nat,
          dependency : Nat,
          settings   : Seq(Setting),
          increment  : Nat,
          block      : Seq(HpackItem)]

H2_FRAME_HEADER_LEN == 9

(* whole_len in h2_connection_feed: header and payload *)
WholeLen(f) == H2_FRAME_HEADER_LEN + f.length

-----------------------------------------------------------------------------
(* h2_frame_validate_payload *)
ExactLength(f, n) == IF f.length = n THEN H2_OK ELSE H2_FRAME_SIZE_ERROR

OnStream(f, code)     == IF f.stream_id = 0  THEN H2_PROTOCOL_ERROR ELSE code
OnConnection(f, code) == IF f.stream_id # 0 THEN H2_PROTOCOL_ERROR ELSE code

ValidatePayload(f) ==
    IF f.length > H2_MAX_FRAME_SIZE THEN H2_FRAME_SIZE_ERROR ELSE
    CASE f.type \in {H2_FRAME_DATA, H2_FRAME_HEADERS, H2_FRAME_CONTINUATION}
                -> OnStream(f, H2_OK)
      [] f.type = H2_FRAME_PRIORITY   -> OnStream(f, ExactLength(f, 5))
      [] f.type = H2_FRAME_RST_STREAM -> OnStream(f, ExactLength(f, 4))
      [] f.type = H2_FRAME_SETTINGS   ->
            OnConnection(f,
                IF H2_FLAG_ACK \in f.flags THEN ExactLength(f, 0)
                ELSE IF f.length % 6 = 0   THEN H2_OK
                ELSE H2_FRAME_SIZE_ERROR)
      [] f.type = H2_FRAME_PUSH_PROMISE ->
            OnStream(f,
                IF f.length >= (IF H2_FLAG_PADDED \in f.flags THEN 5 ELSE 4)
                THEN H2_OK ELSE H2_FRAME_SIZE_ERROR)
      [] f.type = H2_FRAME_PING   -> OnConnection(f, ExactLength(f, 8))
      [] f.type = H2_FRAME_GOAWAY ->
            OnConnection(f, IF f.length >= 8 THEN H2_OK
                                             ELSE H2_FRAME_SIZE_ERROR)
      [] f.type = H2_FRAME_WINDOW_UPDATE -> ExactLength(f, 4)
      [] OTHER -> H2_OK

-----------------------------------------------------------------------------
(* The h2_frame_parse_* functions, as the code they return.                *)

(* The pad-length byte and the padding leave no more than the payload. *)
PaddingCheck(f) ==
    IF H2_FLAG_PADDED \notin f.flags THEN H2_OK
    ELSE IF f.length = 0             THEN H2_FRAME_SIZE_ERROR
    ELSE IF f.pad > f.length - 1     THEN H2_PROTOCOL_ERROR
    ELSE H2_OK

(* Payload bytes left once the padding is taken off. *)
UnpaddedLen(f) == IF H2_FLAG_PADDED \in f.flags
                  THEN f.length - 1 - f.pad ELSE f.length

ParseData(f) == IF ValidatePayload(f) # H2_OK THEN H2_PROTOCOL_ERROR
                                              ELSE PaddingCheck(f)

SelfDependency(f) == IF f.dependency = f.stream_id THEN H2_PROTOCOL_ERROR
                                                   ELSE H2_OK

ParsePriority(f) == IF ValidatePayload(f) # H2_OK THEN H2_FRAME_SIZE_ERROR
                                                  ELSE SelfDependency(f)

ParseHeaders(f) ==
    IF ValidatePayload(f) # H2_OK           THEN H2_PROTOCOL_ERROR
    ELSE IF PaddingCheck(f) # H2_OK         THEN PaddingCheck(f)
    ELSE IF H2_FLAG_PRIORITY \notin f.flags THEN H2_OK
    ELSE IF UnpaddedLen(f) < 5              THEN H2_FRAME_SIZE_ERROR
    ELSE SelfDependency(f)

(* header_block_len of a HEADERS payload that parsed *)
HeaderBlockLen(f) == IF H2_FLAG_PRIORITY \in f.flags
                     THEN UnpaddedLen(f) - 5 ELSE UnpaddedLen(f)

ParseSettings(f) ==
    IF ValidatePayload(f) # H2_OK           THEN ValidatePayload(f)
    ELSE IF H2_FLAG_ACK \in f.flags         THEN H2_OK
    ELSE IF f.length \div 6 > MaxSettings   THEN H2_INTERNAL_ERROR
    ELSE H2_OK

ParseWindowUpdate(f) ==
    IF ValidatePayload(f) # H2_OK THEN ValidatePayload(f)
    ELSE IF f.increment = 0       THEN H2_PROTOCOL_ERROR
    ELSE H2_OK

ParsePing(f)      == ValidatePayload(f)
ParseRstStream(f) == ValidatePayload(f)

ParseContinuation(f) == IF ValidatePayload(f) # H2_OK THEN H2_PROTOCOL_ERROR
                                                      ELSE H2_OK

-----------------------------------------------------------------------------
(* Sizes of the frames that the encoders of frame.c write.                 *)
SettingsSize     == H2_FRAME_HEADER_LEN + 6  \* ENABLE_PUSH = 0
SettingsAckSize  == H2_FRAME_HEADER_LEN
WindowUpdateSize == H2_FRAME_HEADER_LEN + 4
RstStreamSize    == H2_FRAME_HEADER_LEN + 4
PingSize         == H2_FRAME_HEADER_LEN + 8
GoawaySize       == H2_FRAME_HEADER_LEN + 8
DataSize(n)      == H2_FRAME_HEADER_LEN + n

(* :status 200 indexed, then content-type, content-length (whose value is  *)
(* the body length in decimal) and server as literals with new names.      *)
Digits(n) == IF n < 10 THEN 1 ELSE IF n < 100 THEN 2 ELSE 3
ResponseHeadersSize(n) == H2_FRAME_HEADER_LEN + 1 + 25 + (17 + Digits(n)) + 15
=============================================================================
