---------------------------- MODULE H2FrameBytes ----------------------------
(***************************************************************************)
(* HTTP/2 frames as bytes (frame.c): every h2_frame_encode_* and every     *)
(* h2_frame_parse_* function, against each other and against the verdicts  *)
(* that H2Frame gives on a frame without its bytes.                        *)
(*                                                                         *)
(* A byte is a number below ByteBase, which is 256 in the code; TLC's      *)
(* integers have fewer bits than four such bytes.  The byte at offset p of *)
(* a payload is payload[p + 1].  Encoders return << >> where the code      *)
(* returns 0.  Stream ids are those the program can have: 31 bits.         *)
(***************************************************************************)
EXTENDS H2Frame

CONSTANTS
    ByteBase,      \* even, and above every number that is one byte: 256
    SettingsCap,   \* settings that h2_frame_encode_settings has room for, 16
    Calls,         \* calls of the encoders: see Encode
    Wires          \* whole frames as they are received

VARIABLES
    frame_pc,       \* "encode", "parse" or "done"
    call,     \* the call of an encoder, or NoCall
    frame,
    parsed    \* what the parser returns: its code and its output

frameVars == <<frame_pc, call, frame, parsed>>

NoCall == [op |-> "none"]
NoOut  == [ret |-> H2_INTERNAL_ERROR]

-----------------------------------------------------------------------------
(* Numbers in network order                                                *)

Half == ByteBase \div 2     \* 0x80
U16  == ByteBase * ByteBase
Top  == Half * ByteBase * U16  \* 0x80000000

Mask31(v) == v % Top           \* v & 0x7fffffff

ReadU16(w, p) == w[p + 1] * ByteBase + w[p + 2]
ReadU32(w, p) == ReadU16(w, p) * U16 + ReadU16(w, p + 2)
ReadU31(w, p) == ((w[p + 1] % Half) * ByteBase + w[p + 2]) * U16
                 + ReadU16(w, p + 2)

WriteU16(v) == <<v \div ByteBase, v % ByteBase>>
WriteU32(v) == LET high == v \div U16
                   low  == v % U16
               IN  <<high \div ByteBase, high % ByteBase,
                     low \div ByteBase, low % ByteBase>>

Byte == 0 .. ByteBase - 1
Word == 0 .. U16 * U16 - 1
Id   == 0 .. Top - 1

(* Three bytes hold a length, and the parser of settings has room for all  *)
(* that the encoder writes.                                                *)
ASSUME FrameBytesAssumption ==
    /\ ByteBase \in Nat /\ ByteBase >= 64 /\ ByteBase % 2 = 0
    /\ H2_MAX_FRAME_SIZE < ByteBase * U16
    /\ SettingsCap \in Nat /\ SettingsCap <= MaxSettings

(* The calls of the encoders, by the types of their parameters *)
BlockCall == [op : {"data", "headers", "continuation"}, cap : Nat,
              stream_id : Id, flags : Byte, bytes : Seq(Byte)]
PriorityCall == [op : {"priority"}, cap : Nat, stream_id : Id,
                 dependency : Id, exclusive : BOOLEAN, weight : Byte]
RstStreamCall == [op : {"rst_stream"}, cap : Nat, stream_id : Id, code : Word]
SettingsCall == [op : {"settings"}, cap : Nat, flags : Byte,
                 settings : Seq([id : 0 .. U16 - 1, value : Word])]
PushPromiseCall == [op : {"push_promise"}, cap : Nat, stream_id : Id,
                    promised : Id, flags : Byte, bytes : Seq(Byte)]
PingCall   == [op : {"ping"}, cap : Nat, flags : Byte, bytes : [1 .. 8 -> Byte]]
GoawayCall == [op : {"goaway"}, cap : Nat, last : Id, code : Word,
               bytes : Seq(Byte)]
WindowUpdateCall == [op : {"window_update"}, cap : Nat, stream_id : Id,
                     increment : Word]

ASSUME CallsAssumption ==
    Calls \subseteq BlockCall \cup PriorityCall \cup RstStreamCall
                    \cup SettingsCall \cup PushPromiseCall \cup PingCall
                    \cup GoawayCall \cup WindowUpdateCall

Has(flags, bit) == (flags \div bit) % 2 = 1

-----------------------------------------------------------------------------
(* h2_frame_write_header and the encoders                                  *)

(* Mutant: the length is written as two bytes. *)
WriteHeaderShort(length, type, flags, stream_id) ==
    LET low == WriteU16(length % U16)
        id  == WriteU32(Mask31(stream_id))
    IN  <<0, low[1], low[2], type, flags, id[1], id[2], id[3], id[4]>>

WriteHeader(length, type, flags, stream_id) ==
    LET low == WriteU16(length % U16)
        id  == WriteU32(Mask31(stream_id))
    IN  <<length \div U16, low[1], low[2], type, flags,
          id[1], id[2], id[3], id[4]>>

EncodeRaw(cap, type, flags, stream_id, payload) ==
    IF \/ Len(payload) > H2_MAX_FRAME_SIZE
       \/ cap < H2_FRAME_HEADER_LEN + Len(payload)
    THEN << >>
    ELSE WriteHeader(Len(payload), type, flags, stream_id) \o payload

Unless(refused, w) == IF refused THEN << >> ELSE w

EncodeSettings(c) ==
    LET Item(s) == WriteU16(s.id) \o WriteU32(s.value)
        payload == [k \in 1 .. 6 * Len(c.settings) |->
                       Item(c.settings[((k - 1) \div 6) + 1])[((k - 1) % 6) + 1]]
    IN  IF Has(c.flags, H2_FLAG_ACK)
        THEN Unless(c.settings # << >>,
                    EncodeRaw(c.cap, H2_FRAME_SETTINGS, H2_FLAG_ACK, 0, << >>))
        ELSE Unless(Len(c.settings) > SettingsCap,
                    EncodeRaw(c.cap, H2_FRAME_SETTINGS, c.flags, 0,
                              payload))

EncodePriority(c) ==
    Unless(c.stream_id = 0,
           EncodeRaw(c.cap, H2_FRAME_PRIORITY, 0, c.stream_id,
                     WriteU32(Mask31(c.dependency)
                              + IF c.exclusive THEN Top ELSE 0)
                         \o <<c.weight>>))

EncodePushPromise(c) ==
    Unless(\/ c.stream_id = 0 \/ c.promised = 0 \/ Has(c.flags, H2_FLAG_PADDED)
           \/ Len(c.bytes) > H2_DEFAULT_MAX_FRAME_SIZE - 4,
           EncodeRaw(c.cap, H2_FRAME_PUSH_PROMISE, c.flags, c.stream_id,
                     WriteU32(Mask31(c.promised)) \o c.bytes))

EncodeGoaway(c) ==
    Unless(Len(c.bytes) + 8 > H2_DEFAULT_MAX_FRAME_SIZE,
           EncodeRaw(c.cap, H2_FRAME_GOAWAY, 0, 0,
                     WriteU32(Mask31(c.last)) \o WriteU32(c.code) \o c.bytes))

Encode(c) ==
    CASE c.op = "data" ->
           Unless(c.stream_id = 0 \/ Has(c.flags, H2_FLAG_PADDED),
                  EncodeRaw(c.cap, H2_FRAME_DATA, c.flags, c.stream_id,
                            c.bytes))
      [] c.op = "headers" ->
           Unless(\/ c.stream_id = 0 \/ Has(c.flags, H2_FLAG_PADDED)
                  \/ Has(c.flags, H2_FLAG_PRIORITY),
                  EncodeRaw(c.cap, H2_FRAME_HEADERS, c.flags, c.stream_id,
                            c.bytes))
      [] c.op = "continuation" ->
           Unless(c.stream_id = 0,
                  EncodeRaw(c.cap, H2_FRAME_CONTINUATION, c.flags, c.stream_id,
                            c.bytes))
      [] c.op = "priority" -> EncodePriority(c)
      [] c.op = "rst_stream" ->
           Unless(c.stream_id = 0,
                  EncodeRaw(c.cap, H2_FRAME_RST_STREAM, 0, c.stream_id,
                            WriteU32(c.code)))
      [] c.op = "settings" -> EncodeSettings(c)
      [] c.op = "push_promise" -> EncodePushPromise(c)
      [] c.op = "ping" ->
           EncodeRaw(c.cap, H2_FRAME_PING, c.flags, 0, c.bytes)
      [] c.op = "goaway" -> EncodeGoaway(c)
      [] c.op = "window_update" ->
           Unless(c.increment = 0 \/ c.increment >= Top,
                  EncodeRaw(c.cap, H2_FRAME_WINDOW_UPDATE, 0, c.stream_id,
                            WriteU32(c.increment)))

-----------------------------------------------------------------------------
(* h2_frame_parse_header and the parsers.  Out is what a parser fills in;  *)
(* pos is payload_pos, the bytes in front of the data or header block.     *)

(* The header fields, as H2Frame names them *)
ParseHeader(w) ==
    [length    |-> w[1] * U16 + ReadU16(w, 1),
     type      |-> w[4],
     flags     |-> {b \in Flag : Has(w[5], b)},
     stream_id |-> ReadU31(w, 5)]

(* h2_connection_feed parses a frame once its whole payload is there. *)
Whole(w) == /\ w \in Seq(Byte) /\ Len(w) >= H2_FRAME_HEADER_LEN
            /\ ParseHeader(w).length = Len(w) - H2_FRAME_HEADER_LEN

ASSUME WiresAssumption == \A w \in Wires : Whole(w)

Fail(code) == [ret |-> code]

(* The padding of DATA, HEADERS and PUSH_PROMISE: pos and what is left.    *)
(* (h2_frame_validate_payload lets no empty PUSH_PROMISE pass.)            *)
Unpad(h, payload) ==
    IF H2_FLAG_PADDED \notin h.flags
    THEN [ret |-> H2_OK, pos |-> 0, pad_len |-> 0, len |-> h.length]
    ELSE IF h.length = 0 THEN Fail(H2_FRAME_SIZE_ERROR)
    ELSE IF payload[1] > h.length - 1 THEN Fail(H2_PROTOCOL_ERROR)
    ELSE [ret |-> H2_OK, pos |-> 1, pad_len |-> payload[1],
          len |-> h.length - 1 - payload[1]]

(* The block of len bytes at pos. *)
Block(payload, pos, len) == SubSeq(payload, pos + 1, pos + len)

ParseDataBytes(h, payload) ==
    LET u == Unpad(h, payload)
    IN  IF ValidatePayload(h) # H2_OK THEN Fail(H2_PROTOCOL_ERROR)
        ELSE IF u.ret # H2_OK THEN u
        ELSE [ret |-> H2_OK, pos |-> u.pos, pad_len |-> u.pad_len,
              bytes |-> Block(payload, u.pos, u.len)]

(* The five bytes of a priority at pos *)
PriorityAt(h, payload, pos) ==
    IF ReadU31(payload, pos) = h.stream_id THEN Fail(H2_PROTOCOL_ERROR)
    ELSE [ret |-> H2_OK, exclusive |-> payload[pos + 1] >= Half,
          dependency |-> ReadU31(payload, pos), weight |-> payload[pos + 5]]

ParsePriorityBytes(h, payload) ==
    IF ValidatePayload(h) # H2_OK THEN Fail(H2_FRAME_SIZE_ERROR)
    ELSE PriorityAt(h, payload, 0)

(* Mutant: the priority is not taken off the block. *)
ParseHeadersBytesKept(h, payload) ==
    LET u        == Unpad(h, payload)
        priority == PriorityAt(h, payload, u.pos)
    IN  IF ValidatePayload(h) # H2_OK THEN Fail(H2_PROTOCOL_ERROR)
        ELSE IF u.ret # H2_OK THEN u
        ELSE IF H2_FLAG_PRIORITY \notin h.flags
        THEN [ret |-> H2_OK, pos |-> u.pos, pad_len |-> u.pad_len,
              bytes |-> Block(payload, u.pos, u.len)]
        ELSE IF u.len < 5 THEN Fail(H2_FRAME_SIZE_ERROR)
        ELSE IF priority.ret # H2_OK THEN priority
        ELSE [ret |-> H2_OK, pos |-> u.pos + 5, pad_len |-> u.pad_len,
              bytes |-> Block(payload, u.pos, u.len)]

ParseHeadersBytes(h, payload) ==
    LET u        == Unpad(h, payload)
        priority == PriorityAt(h, payload, u.pos)
    IN  IF ValidatePayload(h) # H2_OK THEN Fail(H2_PROTOCOL_ERROR)
        ELSE IF u.ret # H2_OK THEN u
        ELSE IF H2_FLAG_PRIORITY \notin h.flags
        THEN [ret |-> H2_OK, pos |-> u.pos, pad_len |-> u.pad_len,
              bytes |-> Block(payload, u.pos, u.len)]
        ELSE IF u.len < 5 THEN Fail(H2_FRAME_SIZE_ERROR)
        ELSE IF priority.ret # H2_OK THEN priority
        ELSE [ret |-> H2_OK, pos |-> u.pos + 5, pad_len |-> u.pad_len,
              bytes |-> Block(payload, u.pos + 5, u.len - 5)]

(* Mutant: padding may leave less than the promised id. *)
PromiseFitsAlways(len) == TRUE
PromiseFits(len) == len >= 4

ParsePushPromise(h, payload) ==
    LET u == Unpad(h, payload)
    IN  IF ValidatePayload(h) # H2_OK THEN Fail(H2_PROTOCOL_ERROR)
        ELSE IF u.ret # H2_OK THEN u
        ELSE IF ~PromiseFits(u.len) THEN Fail(H2_FRAME_SIZE_ERROR)
        ELSE [ret |-> H2_OK, pos |-> u.pos + 4, pad_len |-> u.pad_len,
              promised |-> ReadU31(payload, u.pos),
              bytes |-> Block(payload, u.pos + 4, u.len - 4)]

SettingsIn(payload) ==
    [k \in 1 .. Len(payload) \div 6 |->
        [id |-> ReadU16(payload, 6 * (k - 1)),
         value |-> ReadU32(payload, 6 * (k - 1) + 2)]]

(* The parsers that take the verdict of h2_frame_validate_payload and then *)
(* read fields at fixed places.                                            *)
ParseFields(h, payload) ==
    LET valid == ValidatePayload(h)
    IN  IF valid # H2_OK THEN Fail(valid) ELSE
        CASE h.type = H2_FRAME_SETTINGS ->
               IF H2_FLAG_ACK \in h.flags THEN [ret |-> H2_OK, settings |-> << >>]
               ELSE IF h.length \div 6 > MaxSettings THEN Fail(H2_INTERNAL_ERROR)
               ELSE [ret |-> H2_OK, settings |-> SettingsIn(payload)]
          [] h.type = H2_FRAME_WINDOW_UPDATE ->
               IF ReadU31(payload, 0) = 0 THEN Fail(H2_PROTOCOL_ERROR)
               ELSE [ret |-> H2_OK, increment |-> ReadU31(payload, 0)]
          [] h.type = H2_FRAME_PING -> [ret |-> H2_OK, bytes |-> payload]
          [] h.type = H2_FRAME_RST_STREAM ->
               [ret |-> H2_OK, code |-> ReadU32(payload, 0)]
          [] h.type = H2_FRAME_GOAWAY ->
               [ret |-> H2_OK, last |-> ReadU31(payload, 0),
                code |-> ReadU32(payload, 4),
                bytes |-> Block(payload, 8, h.length - 8)]
          [] OTHER -> [ret |-> H2_OK]  \* an extension frame is ignored

ParsePayload(h, payload) ==
    CASE h.type = H2_FRAME_DATA     -> ParseDataBytes(h, payload)
      [] h.type = H2_FRAME_HEADERS  -> ParseHeadersBytes(h, payload)
      [] h.type = H2_FRAME_PRIORITY -> ParsePriorityBytes(h, payload)
      [] h.type = H2_FRAME_PUSH_PROMISE -> ParsePushPromise(h, payload)
      [] h.type = H2_FRAME_CONTINUATION ->
           IF ValidatePayload(h) # H2_OK THEN Fail(H2_PROTOCOL_ERROR)
           ELSE [ret |-> H2_OK, bytes |-> payload]
      [] OTHER -> ParseFields(h, payload)

-----------------------------------------------------------------------------
FrameInit ==
    /\ parsed = NoOut
    /\ \/ call \in Calls /\ frame = << >> /\ frame_pc = "encode"
       \/ call = NoCall /\ frame \in Wires /\ frame_pc = "parse"

EncodeFrame ==
    /\ frame_pc = "encode"
    /\ frame' = Encode(call)
    /\ frame_pc' = IF Encode(call) = << >> THEN "done" ELSE "parse"
    /\ UNCHANGED <<call, parsed>>

Payload == SubSeq(frame, H2_FRAME_HEADER_LEN + 1, Len(frame))

ParseFrame ==
    /\ frame_pc = "parse"
    /\ parsed' = ParsePayload(ParseHeader(frame), Payload)
    /\ frame_pc' = "done"
    /\ UNCHANGED <<call, frame>>

FrameNext == EncodeFrame \/ ParseFrame

FrameSpec == FrameInit /\ [][FrameNext]_frameVars

-----------------------------------------------------------------------------
(* Properties                                                              *)

(* The arguments of a call that its frame carries. *)
Carried(c) ==
    CASE c.op \in {"data", "headers"} ->
           [ret |-> H2_OK, pos |-> 0, pad_len |-> 0, bytes |-> c.bytes]
      [] c.op \in {"continuation", "ping"} -> [ret |-> H2_OK, bytes |-> c.bytes]
      [] c.op = "priority" ->
           IF c.dependency = c.stream_id THEN Fail(H2_PROTOCOL_ERROR)
           ELSE [ret |-> H2_OK, exclusive |-> c.exclusive,
                 dependency |-> c.dependency, weight |-> c.weight]
      [] c.op = "rst_stream" -> [ret |-> H2_OK, code |-> c.code]
      [] c.op = "settings" -> [ret |-> H2_OK, settings |-> c.settings]
      [] c.op = "push_promise" ->
           [ret |-> H2_OK, pos |-> 4, pad_len |-> 0, promised |-> c.promised,
            bytes |-> c.bytes]
      [] c.op = "goaway" ->
           [ret |-> H2_OK, last |-> c.last, code |-> c.code, bytes |-> c.bytes]
      [] c.op = "window_update" -> [ret |-> H2_OK, increment |-> c.increment]

(* What an encoder writes, the parser of the same type reads back, up to   *)
(* the largest lengths and numbers; the one exception is a stream that is  *)
(* made to depend on itself, which is encoded and rejected.                *)
FrameRoundTrip ==
    frame_pc = "done" /\ call # NoCall /\ frame # << >>
    => /\ parsed = Carried(call)
       /\ ParseHeader(frame).length = Len(frame) - H2_FRAME_HEADER_LEN

(* In every accepted DATA, HEADERS and PUSH_PROMISE the fields in front,   *)
(* the block handed out and the padding share the payload exactly: nothing *)
(* is read twice, nothing beyond the end.                                  *)
PayloadShared ==
    frame_pc = "done" /\ parsed.ret = H2_OK /\ "pos" \in DOMAIN parsed
    => parsed.pos + Len(parsed.bytes) + parsed.pad_len = Len(Payload)

(* The frame as the connection model knows it. *)
Abstract ==
    LET h   == ParseHeader(frame)
        pos == IF h.type = H2_FRAME_HEADERS /\ H2_FLAG_PADDED \in h.flags
               THEN 1 ELSE 0
    IN  [type |-> h.type, length |-> h.length, flags |-> h.flags,
         stream_id |-> h.stream_id,
         pad |-> IF Payload = << >> THEN 0 ELSE Payload[1],
         dependency |-> IF Len(Payload) >= pos + 4 THEN ReadU31(Payload, pos)
                        ELSE 0,
         settings |-> SettingsIn(Payload),
         increment |-> IF Len(Payload) >= 4 THEN ReadU31(Payload, 0) ELSE 0,
         block |-> << >>]

(* H2Frame, on which the connection model rests, gives every frame of      *)
(* bytes the code that the parser gives it, and every data and header      *)
(* block its length.                                                       *)
FramesAgree ==
    frame_pc = "done" /\ frame # << >>
    => LET f == Abstract
       IN  /\ f.type = H2_FRAME_DATA =>
                 /\ parsed.ret = ParseData(f)
                 /\ parsed.ret = H2_OK => Len(parsed.bytes) = UnpaddedLen(f)
           /\ f.type = H2_FRAME_HEADERS =>
                 /\ parsed.ret = ParseHeaders(f)
                 /\ parsed.ret = H2_OK => Len(parsed.bytes) = HeaderBlockLen(f)
           /\ f.type = H2_FRAME_PRIORITY => parsed.ret = ParsePriority(f)
           /\ f.type = H2_FRAME_RST_STREAM => parsed.ret = ParseRstStream(f)
           /\ f.type = H2_FRAME_SETTINGS => parsed.ret = ParseSettings(f)
           /\ f.type = H2_FRAME_PING => parsed.ret = ParsePing(f)
           /\ f.type = H2_FRAME_WINDOW_UPDATE =>
                 parsed.ret = ParseWindowUpdate(f)
           /\ f.type = H2_FRAME_CONTINUATION =>
                 parsed.ret = ParseContinuation(f)
=============================================================================
