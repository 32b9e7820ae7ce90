------------------------- MODULE H2ConnectionProofs -------------------------
(***************************************************************************)
(* Proofs about H2Connection for every value of its constants: first what  *)
(* the operators of the frame, HPACK, stream and response layers return,   *)
(* for every frame, stream, window and buffer, then what a whole           *)
(* connection keeps.                                                       *)
(***************************************************************************)
EXTENDS H2Connection, WellFoundedInduction, TLAPS

-----------------------------------------------------------------------------
(* Loops over an array as choices from a set of indices.                   *)

(* Every nonempty set of naturals has the least element that First picks:  *)
(* the loops over streams[] and over a header block stop at a real index.  *)
LEMMA FirstIsLeast ==
    ASSUME NEW S, S \subseteq Nat, S # {}
    PROVE  First(S) \in S /\ \A j \in S : First(S) <= j
<1>1. PICK x \in S : \A y \in S : ~(<<y, x>> \in OpToRel(<, Nat))
  BY NatLessThanWellFounded, WFMin
<1>2. \A y \in S : y < x => <<y, x>> \in OpToRel(<, Nat)
  BY DEF OpToRel
<1>3. \A y \in S : ~(y < x)
  BY <1>1, <1>2, Zenon
<1>4. \A y \in S : x <= y
  BY <1>3
<1> QED
  BY <1>4 DEF First

(* A nonempty set of indices of an array of n elements has the greatest    *)
(* element that Last picks: the last :path of a header block.              *)
LEMMA LastIsGreatest ==
    ASSUME NEW n \in Nat, NEW S, S \subseteq 0 .. n, S # {}
    PROVE  Last(S) \in S /\ \A j \in S : j <= Last(S)
<1> DEFINE T == {n - k : k \in S}
<1>0. \A k \in S : k \in 0 .. n /\ n - k \in Nat
  OBVIOUS
<1>1. T \subseteq Nat /\ T # {}
  BY <1>0
<1> DEFINE m == First(T)
<1>2. m \in T /\ \A j \in T : m <= j
  BY <1>1, FirstIsLeast
<1>3. PICK x \in S : m = n - x
  BY <1>2
<1>4. \A k \in S : n - x <= n - k
  BY <1>2, <1>3
<1>5. \A k \in S : k <= x
  <2> SUFFICES ASSUME NEW k \in S PROVE k <= x
    OBVIOUS
  <2>1. n - x <= n - k
    BY <1>4
  <2> QED
    BY <2>1
<1> QED
  BY <1>5 DEF Last

-----------------------------------------------------------------------------
(* A stream stays a stream: each of its windows keeps to its range.        *)

(* What memset leaves in a slot is in range. *)
LEMMA ZeroInRange ==
    /\ 0 \in INT32_MIN .. INT32_MAX
    /\ 0 \in 0 .. H2_DEFAULT_WINDOW_SIZE
    /\ H2_DEFAULT_WINDOW_SIZE \in 0 .. H2_DEFAULT_WINDOW_SIZE
    /\ 0 \in 0 .. PathCap - 1
BY WindowAssumption, PathCapAssumption DEF INT32_MIN

(* h2_stream_init *)
LEMMA StreamInitType ==
    ASSUME NEW id \in Nat, NEW w \in INT32_MIN .. INT32_MAX
    PROVE  StreamInit(id, w) \in Stream
BY ZeroInRange DEF StreamInit, FreeSlot, Stream, StreamState

(* h2_stream_close *)
LEMMA StreamCloseType ==
    ASSUME NEW s \in Stream
    PROVE  StreamClose(s) \in Stream /\ StreamClose(s).id = s.id
BY ZeroInRange DEF StreamClose, FreeSlot, Stream, StreamState

(* h2_stream_receive_headers *)
LEMMA ReceiveHeadersType ==
    ASSUME NEW s \in Stream, NEW e
    PROVE  /\ ReceiveHeaders(s, e).ret \in ErrorCode
           /\ ReceiveHeaders(s, e).stream \in Stream
           /\ ReceiveHeaders(s, e).stream.id = s.id
BY DEF ReceiveHeaders, Stream, StreamState, ErrorCode, H2_OK,
       H2_PROTOCOL_ERROR

(* h2_stream_receive_data: the window is never charged below zero *)
LEMMA ReceiveDataType ==
    ASSUME NEW s \in Stream, NEW n \in Nat, NEW e
    PROVE  /\ ReceiveData(s, n, e).ret \in ErrorCode
           /\ ReceiveData(s, n, e).stream \in Stream
           /\ ReceiveData(s, n, e).stream.id = s.id
<1> DEFINE t == [s EXCEPT !.recv_window = @ - n]
<1>1. s.recv_window >= n => t \in Stream /\ t.id = s.id
  BY WindowAssumption DEF Stream
<1>2. s.recv_window >= n =>
         StreamClose(t) \in Stream /\ StreamClose(t).id = s.id
  BY <1>1, StreamCloseType
<1>3. s.recv_window >= n => [t EXCEPT !.state = "HALF_CLOSED_REMOTE"] \in Stream
  BY <1>1 DEF Stream, StreamState
<1>4. s.recv_window \in Int
  BY WindowAssumption DEF Stream
<1> QED
  BY <1>1, <1>2, <1>3, <1>4
     DEF ReceiveData, ErrorCode, H2_OK, H2_INTERNAL_ERROR, H2_STREAM_CLOSED,
         H2_FLOW_CONTROL_ERROR, ReceivesData

(* h2_stream_send_end_stream *)
LEMMA SendEndStreamType ==
    ASSUME NEW s \in Stream
    PROVE  /\ SendEndStream(s).ret \in ErrorCode
           /\ SendEndStream(s).stream \in Stream
           /\ SendEndStream(s).stream.id = s.id
<1>1. [s EXCEPT !.state = "HALF_CLOSED_LOCAL"] \in Stream
  BY DEF Stream, StreamState
<1> QED
  BY <1>1, StreamCloseType
     DEF SendEndStream, ErrorCode, H2_OK, H2_STREAM_CLOSED, Stream

(* h2_stream_add_send_window: the sum is checked before it is stored *)
LEMMA AddSendWindowType ==
    ASSUME NEW s \in Stream, NEW n \in Nat
    PROVE  /\ AddSendWindow(s, n).ret \in ErrorCode
           /\ AddSendWindow(s, n).stream \in Stream
           /\ AddSendWindow(s, n).stream.id = s.id
BY WindowAssumption
   DEF AddSendWindow, Stream, ErrorCode, H2_OK, H2_PROTOCOL_ERROR,
       H2_FLOW_CONTROL_ERROR, INT32_MIN

-----------------------------------------------------------------------------
(* Frames and header blocks.                                               *)

(* Every verdict on a frame is one of the error codes. *)
LEMMA ParseType ==
    ASSUME NEW f
    PROVE  /\ ValidatePayload(f) \in ErrorCode
           /\ PaddingCheck(f) \in ErrorCode
           /\ SelfDependency(f) \in ErrorCode
           /\ ParseData(f) \in ErrorCode
           /\ ParsePriority(f) \in ErrorCode
           /\ ParseHeaders(f) \in ErrorCode
           /\ ParseSettings(f) \in ErrorCode
           /\ ParseWindowUpdate(f) \in ErrorCode
           /\ ParsePing(f) \in ErrorCode
           /\ ParseRstStream(f) \in ErrorCode
           /\ ParseContinuation(f) \in ErrorCode
<1> USE DEF ErrorCode, H2_OK, H2_PROTOCOL_ERROR, H2_INTERNAL_ERROR,
            H2_FLOW_CONTROL_ERROR, H2_STREAM_CLOSED, H2_FRAME_SIZE_ERROR,
            H2_REFUSED_STREAM, H2_COMPRESSION_ERROR
<1>1. ValidatePayload(f) \in ErrorCode
  BY DEF ValidatePayload, ExactLength, OnStream, OnConnection
<1>2. PaddingCheck(f) \in ErrorCode
  BY DEF PaddingCheck
<1>3. SelfDependency(f) \in ErrorCode
  BY DEF SelfDependency
<1>4. ParseData(f) \in ErrorCode /\ ParsePriority(f) \in ErrorCode
  BY <1>2, <1>3 DEF ParseData, ParsePriority
<1>5. ParseHeaders(f) \in ErrorCode
  BY <1>2, <1>3 DEF ParseHeaders
<1>6. ParseSettings(f) \in ErrorCode /\ ParseWindowUpdate(f) \in ErrorCode
  BY <1>1 DEF ParseSettings, ParseWindowUpdate
<1>7. /\ ParsePing(f) \in ErrorCode /\ ParseRstStream(f) \in ErrorCode
      /\ ParseContinuation(f) \in ErrorCode
  BY <1>1 DEF ParsePing, ParseRstStream, ParseContinuation
<1> QED
  BY <1>1, <1>2, <1>3, <1>4, <1>5, <1>6, <1>7

(* A frame of one of the types that carry a stream is only accepted on a   *)
(* stream.                                                                 *)
LEMMA OnStreamOnly ==
    ASSUME NEW f,
           f.type \in {H2_FRAME_DATA, H2_FRAME_HEADERS, H2_FRAME_CONTINUATION},
           ValidatePayload(f) = H2_OK
    PROVE  f.stream_id # 0
<1>1. ValidatePayload(f) \in {H2_FRAME_SIZE_ERROR, OnStream(f, H2_OK)}
  BY DEF ValidatePayload, H2_FRAME_DATA, H2_FRAME_HEADERS, H2_FRAME_PRIORITY,
         H2_FRAME_RST_STREAM, H2_FRAME_SETTINGS, H2_FRAME_PUSH_PROMISE,
         H2_FRAME_PING, H2_FRAME_GOAWAY, H2_FRAME_WINDOW_UPDATE,
         H2_FRAME_CONTINUATION
<1> QED
  BY <1>1 DEF OnStream, H2_OK, H2_PROTOCOL_ERROR, H2_FRAME_SIZE_ERROR

(* No check of the frame layer gives a stream error. *)
StreamCode == {H2_REFUSED_STREAM, H2_STREAM_CLOSED}

LEMMA ParseCode ==
    ASSUME NEW f
    PROVE  /\ ValidatePayload(f) \notin StreamCode
           /\ PaddingCheck(f) \notin StreamCode
           /\ ParseData(f) \notin StreamCode
           /\ ParsePriority(f) \notin StreamCode
           /\ ParseHeaders(f) \notin StreamCode
           /\ ParseSettings(f) \notin StreamCode
           /\ ParseWindowUpdate(f) \notin StreamCode
           /\ ParsePing(f) \notin StreamCode
           /\ ParseRstStream(f) \notin StreamCode
           /\ ParseContinuation(f) \notin StreamCode
<1> USE DEF StreamCode, H2_OK, H2_PROTOCOL_ERROR, H2_INTERNAL_ERROR,
            H2_FLOW_CONTROL_ERROR, H2_STREAM_CLOSED, H2_FRAME_SIZE_ERROR,
            H2_REFUSED_STREAM, H2_COMPRESSION_ERROR
<1>1. ValidatePayload(f) \notin StreamCode
  BY DEF ValidatePayload, ExactLength, OnStream, OnConnection
<1>2. PaddingCheck(f) \notin StreamCode /\ SelfDependency(f) \notin StreamCode
  BY DEF PaddingCheck, SelfDependency
<1>3. /\ ParseData(f) \notin StreamCode /\ ParsePriority(f) \notin StreamCode
      /\ ParseHeaders(f) \notin StreamCode
  BY <1>2 DEF ParseData, ParsePriority, ParseHeaders
<1>4. /\ ParseSettings(f) \notin StreamCode
      /\ ParseWindowUpdate(f) \notin StreamCode
  BY <1>1 DEF ParseSettings, ParseWindowUpdate
<1>5. /\ ParsePing(f) \notin StreamCode /\ ParseRstStream(f) \notin StreamCode
      /\ ParseContinuation(f) \notin StreamCode
  BY <1>1 DEF ParsePing, ParseRstStream, ParseContinuation
<1> QED
  BY <1>1, <1>2, <1>3, <1>4, <1>5

(* The header block of a HEADERS frame that parses has a length: padding   *)
(* and priority fields never take more than the payload has.               *)
LEMMA HeaderBlockLenType ==
    ASSUME NEW f \in Frame, ParseHeaders(f) = H2_OK
    PROVE  HeaderBlockLen(f) \in Nat
<1>1. f.length \in Nat /\ f.pad \in Nat
  BY DEF Frame
<1>2. PaddingCheck(f) = H2_OK
  BY DEF ParseHeaders, H2_OK, H2_PROTOCOL_ERROR
<1>3. UnpaddedLen(f) \in Nat
  BY <1>1, <1>2 DEF PaddingCheck, UnpaddedLen, H2_OK, H2_PROTOCOL_ERROR,
                    H2_FRAME_SIZE_ERROR
<1>4. H2_FLAG_PRIORITY \in f.flags => UnpaddedLen(f) >= 5
  BY <1>2, <1>3 DEF ParseHeaders, H2_OK, H2_PROTOCOL_ERROR, H2_FRAME_SIZE_ERROR
<1> QED
  BY <1>3, <1>4 DEF HeaderBlockLen

(* h2_hpack_extract_path returns a path that fits its buffer, whether or   *)
(* not the block decodes.                                                  *)
LEMMA ExtractPathType ==
    ASSUME NEW block \in Seq(HpackItem)
    PROVE  /\ ExtractPath(block).ret \in ErrorCode
           /\ ExtractPath(block).path \in 0 .. PathCap - 1
<1> DEFINE failing == Failing(block)
           copied  == {k \in PathItems(block) : \A j \in failing : k < j}
           path    == IF copied = {} THEN 0 ELSE block[Last(copied)].path
<1>1. DOMAIN block = 1 .. Len(block) /\ Len(block) \in Nat
  OBVIOUS
<1>2. \A k \in DOMAIN block : ItemError(block[k]) \in ErrorCode
  <2> SUFFICES ASSUME NEW k \in DOMAIN block
               PROVE  ItemError(block[k]) \in ErrorCode
    OBVIOUS
  <2>1. block[k] \in HpackItem
    OBVIOUS
  <2> QED
    BY <2>1 DEF ItemError, HpackItem, ErrorCode, H2_OK,
                H2_COMPRESSION_ERROR, H2_REFUSED_STREAM
<1>3. failing \subseteq Nat /\ failing \subseteq DOMAIN block
  BY <1>1 DEF Failing
<1>4. failing # {} => ItemError(block[First(failing)]) \in ErrorCode
  BY <1>2, <1>3, FirstIsLeast
<1>5. path \in 0 .. PathCap - 1
  <2>1. CASE copied = {}
    BY <2>1, PathCapAssumption
  <2>2. CASE copied # {}
    <3> DEFINE k == Last(copied)
    <3>1. copied \subseteq 0 .. Len(block)
      BY <1>1 DEF PathItems
    <3>2. k \in copied
      BY <1>1, <2>2, <3>1, LastIsGreatest
    <3>3. k \in DOMAIN block /\ block[k] \in HpackItem /\ block[k].path # NotPath
      BY <3>2 DEF PathItems
    <3>4. k \notin failing
      <4>1. k \in Nat /\ \A j \in failing : k < j
        BY <1>1, <3>2, <3>3
      <4>2. ~(k < k)
        BY <4>1
      <4> QED
        BY <4>1, <4>2
    <3>5. ItemError(block[k]) = H2_OK
      BY <3>3, <3>4 DEF Failing
    <3>6. block[k].path \in Nat
      BY <3>3 DEF HpackItem
    <3>7. ~(block[k].path >= PathCap)
      BY <3>5, <3>6, PathCapAssumption
         DEF ItemError, H2_OK, H2_REFUSED_STREAM
    <3> QED
      BY <2>2, <3>6, <3>7, PathCapAssumption
  <2> QED
    BY <2>1, <2>2
<1> QED
  BY <1>4, <1>5 DEF ExtractPath, ErrorCode, H2_OK, H2_PROTOCOL_ERROR

-----------------------------------------------------------------------------
(* The output buffer, responses and receive windows.                       *)

(* h2_connection_queue_bytes never exceeds the buffer. *)
LEMMA QueueType ==
    ASSUME NEW out \in 0 .. H2_CONN_OUTPUT_CAP, NEW n \in Nat
    PROVE  /\ QueueLen(out, n) \in 0 .. H2_CONN_OUTPUT_CAP
           /\ QueueRet(out, n) \in ErrorCode
BY OutputAssumption DEF QueueLen, QueueRet, Fits, ErrorCode, H2_OK,
                        H2_INTERNAL_ERROR

(* h2_connection_refresh_recv_windows raises a window to the default. *)
LEMMA RefreshType ==
    ASSUME NEW w \in 0 .. H2_DEFAULT_WINDOW_SIZE,
           NEW out \in 0 .. H2_CONN_OUTPUT_CAP
    PROVE  /\ Refresh(w, out).ret \in ErrorCode
           /\ Refresh(w, out).window \in 0 .. H2_DEFAULT_WINDOW_SIZE
           /\ Refresh(w, out).output_len \in 0 .. H2_CONN_OUTPUT_CAP
<1>1. WindowUpdateSize \in Nat
  BY DEF WindowUpdateSize, H2_FRAME_HEADER_LEN
<1> QED
  BY <1>1, QueueType, WindowAssumption DEF Refresh, ErrorCode, H2_OK

(* What a response step leaves is in range, and it is for the same stream. *)
ResponseResult(q, s) ==
    /\ q.ret \in ErrorCode
    /\ q.stream \in Stream
    /\ q.stream.id = s.id
    /\ q.send_window \in 0 .. INT32_MAX
    /\ q.output_len \in 0 .. H2_CONN_OUTPUT_CAP

(* h2_connection_queue_deferred_data: a window is charged only for a body  *)
(* that fits it.                                                           *)
LEMMA QueueDeferredDataType ==
    ASSUME NEW s \in Stream, NEW n \in Nat, NEW w \in 0 .. INT32_MAX,
           NEW out \in 0 .. H2_CONN_OUTPUT_CAP, NEW h
    PROVE  ResponseResult(QueueDeferredData(s, n, w, out, h), s)
<1> DEFINE t == [s EXCEPT !.send_window = @ - n,
                          !.response_body_deferred = FALSE,
                          !.response_sent = TRUE]
<1>1. CASE Blocked(s, n, w)
  <2>1. [s EXCEPT !.response_body_deferred = TRUE] \in Stream
    BY DEF Stream
  <2>2. [s EXCEPT !.response_body_deferred = TRUE].id = s.id
    BY DEF Stream
  <2> QED
    BY <1>1, <2>1, <2>2
       DEF QueueDeferredData, ResponseResult, ErrorCode, H2_OK
<1>2. CASE ~Blocked(s, n, w)
  <2>1. w - n \in 0 .. INT32_MAX
    BY <1>2, WindowAssumption DEF Blocked
  <2>2. s.send_window - n \in INT32_MIN .. INT32_MAX
    BY <1>2, WindowAssumption DEF Blocked, Stream, INT32_MIN
  <2>3. t \in Stream /\ t.id = s.id
    BY <2>2 DEF Stream
  <2>4. /\ SendEndStream(t).ret \in ErrorCode
        /\ SendEndStream(t).stream \in Stream
        /\ SendEndStream(t).stream.id = s.id
    BY <2>3, SendEndStreamType
  <2>5. Fits(out, DataSize(n)) => out + DataSize(n) \in 0 .. H2_CONN_OUTPUT_CAP
    BY OutputAssumption DEF Fits, DataSize, H2_FRAME_HEADER_LEN
  <2> QED
    BY <1>2, <2>1, <2>4, <2>5
       DEF QueueDeferredData, ResponseResult, ErrorCode, H2_INTERNAL_ERROR
<1> QED
  BY <1>1, <1>2

(* h2_connection_queue_response *)
LEMMA QueueResponseType ==
    ASSUME NEW s \in Stream, NEW w \in 0 .. INT32_MAX,
           NEW out \in 0 .. H2_CONN_OUTPUT_CAP
    PROVE  ResponseResult(QueueResponse(s, w, out), s)
<1> DEFINE t == [s EXCEPT !.path = IF @ = 0 THEN 1 ELSE @]
           n == t.path + 1
           size == ResponseHeadersSize(n)
           u == [t EXCEPT !.response_headers_sent = TRUE]
<1>1. t \in Stream /\ t.id = s.id /\ n \in Nat
  BY PathCapAssumption DEF Stream
<1>2. u \in Stream /\ u.id = s.id
  BY <1>1 DEF Stream
<1>3. size \in Nat
  BY <1>1 DEF ResponseHeadersSize, Digits, H2_FRAME_HEADER_LEN
<1>4. Fits(out, size) => out + size \in 0 .. H2_CONN_OUTPUT_CAP
  BY <1>3, OutputAssumption DEF Fits
<1>5. ResponseResult(QueueDeferredData(t, n, w, out, FALSE), t)
  BY <1>1, QueueDeferredDataType
<1>6. Fits(out, size) =>
         ResponseResult(QueueDeferredData(u, n, w, out + size, TRUE), u)
  BY <1>1, <1>2, <1>4, QueueDeferredDataType
<1> HIDE DEF t, u, n, size
<1> QED
  BY <1>1, <1>2, <1>5, <1>6
     DEF QueueResponse, ResponseResult, ErrorCode, H2_OK, H2_INTERNAL_ERROR,
         t, u, n, size
(* What a response does to the windows of a stream that it leaves open:    *)
(* the stream's send window is charged exactly what the connection's is,   *)
(* and its receive window is not touched.                                  *)
KeepsWindows(q, s, w) ==
    /\ ReceivesData(q.stream) =>
          ReceivesData(s) /\ q.stream.recv_window = s.recv_window
    /\ q.stream.state # "CLOSED" =>
          /\ s.state # "CLOSED"
          /\ q.stream.send_window = s.send_window - (w - q.send_window)

LEMMA QueueDeferredDataWindows ==
    ASSUME NEW s \in Stream, NEW n \in Nat, NEW w \in 0 .. INT32_MAX,
           NEW out, NEW h
    PROVE  KeepsWindows(QueueDeferredData(s, n, w, out, h), s, w)
<1> DEFINE t == [s EXCEPT !.send_window = @ - n,
                          !.response_body_deferred = FALSE,
                          !.response_sent = TRUE]
           q == QueueDeferredData(s, n, w, out, h)
<1> SUFFICES KeepsWindows(q, s, w)
  OBVIOUS
<1>1. w \in Int /\ w - w = 0 /\ w - (w - n) = n
      /\ s.send_window \in Int /\ s.send_window - 0 = s.send_window
  BY WindowAssumption DEF Stream, INT32_MIN
<1>2. CASE Blocked(s, n, w)
  BY <1>1, <1>2 DEF QueueDeferredData, KeepsWindows, ReceivesData, Stream
<1>3. CASE ~Blocked(s, n, w) /\ ~Fits(out, DataSize(n))
  BY <1>1, <1>3 DEF QueueDeferredData, KeepsWindows, ReceivesData, Stream
<1>4. CASE ~Blocked(s, n, w) /\ Fits(out, DataSize(n))
  <2>1. q.stream = SendEndStream(t).stream /\ q.send_window = w - n
    BY <1>4 DEF QueueDeferredData
  <2>2. /\ t.state = s.state /\ t.send_window = s.send_window - n
        /\ t.recv_window = s.recv_window
    BY DEF Stream
  <2>3. t \in Stream
    <3>1. s.send_window - n \in INT32_MIN .. INT32_MAX
      BY <1>4, WindowAssumption DEF Blocked, Stream, INT32_MIN
    <3> QED
      BY <3>1 DEF Stream
  <2>4. \/ q.stream = t
        \/ q.stream.state = "CLOSED"
        \/ /\ t.state = "OPEN"
           /\ q.stream = [t EXCEPT !.state = "HALF_CLOSED_LOCAL"]
    BY <2>1 DEF SendEndStream, StreamClose, FreeSlot
  <2> HIDE DEF t, q
  <2> QED
    BY <1>1, <2>1, <2>2, <2>3, <2>4 DEF KeepsWindows, ReceivesData, Stream
<1> QED
  BY <1>2, <1>3, <1>4

LEMMA QueueResponseWindows ==
    ASSUME NEW s \in Stream, NEW w \in 0 .. INT32_MAX, NEW out
    PROVE  KeepsWindows(QueueResponse(s, w, out), s, w)
<1> DEFINE t == [s EXCEPT !.path = IF @ = 0 THEN 1 ELSE @]
           n == t.path + 1
           size == ResponseHeadersSize(n)
           u == [t EXCEPT !.response_headers_sent = TRUE]
           q == QueueResponse(s, w, out)
<1> SUFFICES KeepsWindows(q, s, w)
  OBVIOUS
<1>1. t \in Stream /\ n \in Nat
  BY PathCapAssumption DEF Stream
<1>2. u \in Stream
  BY <1>1 DEF Stream
<1>3. /\ t.state = s.state /\ u.state = s.state
      /\ t.send_window = s.send_window /\ u.send_window = s.send_window
      /\ t.recv_window = s.recv_window /\ u.recv_window = s.recv_window
  BY DEF Stream
<1>4. /\ KeepsWindows(QueueDeferredData(t, n, w, out, FALSE), t, w)
      /\ KeepsWindows(QueueDeferredData(u, n, w, out + size, TRUE), u, w)
  BY <1>1, <1>2, QueueDeferredDataWindows
<1>5. w \in Int /\ s.send_window \in Int
  BY WindowAssumption DEF Stream, INT32_MIN
<1>6. s.send_window - (w - w) = s.send_window
  BY <1>5
<1>7. \/ q.stream = s /\ q.send_window = w
      \/ q.stream = t /\ q.send_window = w
      \/ q = QueueDeferredData(t, n, w, out, FALSE)
      \/ q = QueueDeferredData(u, n, w, out + size, TRUE)
  BY DEF QueueResponse
<1> HIDE DEF t, u, n, size, q
<1> QED
  BY <1>3, <1>4, <1>6, <1>7 DEF KeepsWindows, ReceivesData

(* The phases of a response: a deferred body comes after HEADERS and       *)
(* before END_STREAM, and END_STREAM is what closes the local half.        *)
StreamPhase(s) ==
    /\ s.response_body_deferred =>
          /\ s.response_headers_sent /\ ~s.response_sent
          /\ s.state \in {"OPEN", "HALF_CLOSED_REMOTE"}
    /\ s.response_sent <=> s.state = "HALF_CLOSED_LOCAL"

(* The peer waits for nothing but window. *)
Answered(s) == \/ s.state \notin {"IDLE", "OPEN", "HALF_CLOSED_REMOTE"}
               \/ s.response_body_deferred

(* What a response step on a stream that may send does: it fails only for  *)
(* want of room, keeps the phases, and accounts for all it queued.         *)
Responds(q, s) ==
    /\ q.ret \in {H2_OK, H2_INTERNAL_ERROR}
    /\ StreamPhase(q.stream)
    /\ q.ret = H2_OK => Answered(q.stream)
    /\ q.headers => ~s.response_headers_sent
    /\ q.data => /\ s.response_headers_sent \/ q.headers
                 /\ \/ q.stream.state = "CLOSED"
                    \/ /\ q.stream.response_sent
                       /\ q.stream.response_headers_sent
    /\ ~q.data => /\ ~q.stream.response_sent
                  /\ q.stream.response_headers_sent <=>
                        s.response_headers_sent \/ q.headers

LEMMA QueueDeferredDataResponds ==
    ASSUME NEW s \in Stream, NEW n \in Nat, NEW w \in 0 .. INT32_MAX,
           NEW out, NEW h \in BOOLEAN, NEW o,
           StreamPhase(s), s.state \in {"OPEN", "HALF_CLOSED_REMOTE"},
           s.response_headers_sent,
           h <=> ~o.response_headers_sent
    PROVE  Responds(QueueDeferredData(s, n, w, out, h), o)
<1> DEFINE t == [s EXCEPT !.send_window = @ - n,
                          !.response_body_deferred = FALSE,
                          !.response_sent = TRUE]
           q == QueueDeferredData(s, n, w, out, h)
<1> SUFFICES Responds(q, o)
  OBVIOUS
<1>1. ~s.response_sent
  BY DEF StreamPhase
<1>2. CASE Blocked(s, n, w)
  <2> DEFINE d == [s EXCEPT !.response_body_deferred = TRUE]
  <2>1. q.ret = H2_OK /\ q.stream = d /\ q.headers = h /\ q.data = FALSE
    BY <1>2 DEF QueueDeferredData
  <2>2. /\ d.state = s.state /\ d.response_body_deferred
        /\ d.response_headers_sent /\ ~d.response_sent
    BY <1>1 DEF Stream
  <2> HIDE DEF d, q
  <2> QED
    BY <2>1, <2>2 DEF Responds, StreamPhase, Answered
<1>3. CASE ~Blocked(s, n, w) /\ ~Fits(out, DataSize(n))
  <2>1. /\ q.ret = H2_INTERNAL_ERROR /\ q.stream = s /\ q.headers = h
        /\ q.data = FALSE
    BY <1>3 DEF QueueDeferredData
  <2> HIDE DEF q
  <2> QED
    BY <1>1, <2>1 DEF Responds, H2_OK, H2_INTERNAL_ERROR
<1>4. CASE ~Blocked(s, n, w) /\ Fits(out, DataSize(n))
  <2>1. /\ q.ret = SendEndStream(t).ret /\ q.stream = SendEndStream(t).stream
        /\ q.headers = h /\ q.data = TRUE
    BY <1>4 DEF QueueDeferredData
  <2>2. /\ t.state = s.state /\ t.response_sent /\ ~t.response_body_deferred
        /\ t.response_headers_sent
    BY DEF Stream
  <2>3. CASE s.state = "OPEN"
    <3> DEFINE e == [t EXCEPT !.state = "HALF_CLOSED_LOCAL"]
    <3>1. q.ret = H2_OK /\ q.stream = e
      BY <2>1, <2>2, <2>3 DEF SendEndStream
    <3>2. /\ e.state = "HALF_CLOSED_LOCAL" /\ e.response_sent
          /\ ~e.response_body_deferred /\ e.response_headers_sent
      BY <2>2 DEF Stream
    <3> HIDE DEF e, q, t
    <3> QED
      BY <2>1, <3>1, <3>2 DEF Responds, StreamPhase, Answered
  <2>4. CASE s.state = "HALF_CLOSED_REMOTE"
    <3>1. q.ret = H2_OK /\ q.stream = StreamClose(t)
      BY <2>1, <2>2, <2>4 DEF SendEndStream
    <3>2. /\ q.stream.state = "CLOSED" /\ ~q.stream.response_sent
          /\ ~q.stream.response_body_deferred
      BY <3>1 DEF StreamClose, FreeSlot
    <3> HIDE DEF q, t
    <3> QED
      BY <2>1, <3>1, <3>2 DEF Responds, StreamPhase, Answered
  <2> QED
    BY <2>3, <2>4
<1> QED
  BY <1>2, <1>3, <1>4

LEMMA QueueResponseResponds ==
    ASSUME NEW s \in Stream, NEW w \in 0 .. INT32_MAX, NEW out,
           StreamPhase(s), s.state \in {"OPEN", "HALF_CLOSED_REMOTE"}
    PROVE  Responds(QueueResponse(s, w, out), s)
<1> DEFINE t == [s EXCEPT !.path = IF @ = 0 THEN 1 ELSE @]
           n == t.path + 1
           size == ResponseHeadersSize(n)
           u == [t EXCEPT !.response_headers_sent = TRUE]
           q == QueueResponse(s, w, out)
<1> SUFFICES Responds(q, s)
  OBVIOUS
<1>1. ~s.response_sent
  BY DEF StreamPhase
<1>2. t \in Stream /\ n \in Nat
  BY PathCapAssumption DEF Stream
<1>3. u \in Stream
  BY <1>2 DEF Stream
<1>4. /\ t.state = s.state /\ u.state = s.state
      /\ t.response_sent = s.response_sent /\ u.response_sent = s.response_sent
      /\ t.response_body_deferred = s.response_body_deferred
      /\ u.response_body_deferred = s.response_body_deferred
      /\ t.response_headers_sent = s.response_headers_sent
      /\ u.response_headers_sent
  BY DEF Stream
<1>5. StreamPhase(t) /\ StreamPhase(u)
  BY <1>4 DEF StreamPhase
<1>6. CASE s.response_headers_sent
  <2>1. q = QueueDeferredData(t, n, w, out, FALSE)
    BY <1>1, <1>4, <1>6 DEF QueueResponse, HeadersPending
  <2> HIDE DEF t, n
  <2> QED
    BY <1>2, <1>4, <1>5, <1>6, <2>1, QueueDeferredDataResponds
<1>7. CASE ~s.response_headers_sent /\ ~Fits(out, size)
  <2>1. /\ q.ret = H2_INTERNAL_ERROR /\ q.stream = t
        /\ q.headers = FALSE /\ q.data = FALSE
    BY <1>1, <1>4, <1>7 DEF QueueResponse, HeadersPending
  <2> HIDE DEF t, q
  <2> QED
    BY <1>1, <1>4, <1>5, <1>7, <2>1 DEF Responds, H2_OK, H2_INTERNAL_ERROR
<1>8. CASE ~s.response_headers_sent /\ Fits(out, size)
  <2>1. q = QueueDeferredData(u, n, w, out + size, TRUE)
    BY <1>1, <1>4, <1>8 DEF QueueResponse, HeadersPending
  <2> HIDE DEF t, n, u, size
  <2> QED
    BY <1>2, <1>3, <1>4, <1>5, <1>8, <2>1, QueueDeferredDataResponds
<1> QED
  BY <1>6, <1>7, <1>8

-----------------------------------------------------------------------------
(* The connection.                                                         *)

(* Facts about the constants in the form the other proofs use. *)
LEMMA Constants ==
    /\ Slots \subseteq Nat /\ NoSlot \notin Slots
    /\ StreamIds \subseteq Nat
    /\ \A f \in Frames : f \in Frame
<1>1. \A f \in Frames : f \in Frame
  BY FramesAssumption DEF WellFormed
<1>2. \A f \in Frames : f.stream_id \in Nat
  BY <1>1 DEF Frame
<1> QED
  BY <1>1, <1>2, ConnectionAssumption DEF Slots, NoSlot, StreamIds

-----------------------------------------------------------------------------
(* The inductive invariant.                                                *)

(* Inside process_frame there is a frame at the head of the input, and the *)
(* settings loop counts from the first setting.                            *)
Busy == /\ pc \in {"settings", "flush", "result"} => input # << >>
        /\ pc = "settings" => pos >= 1

Inv == TypeOK /\ Busy /\ StreamTable

(* A step leaves the ids of the table alone, or gives one reusable slot to *)
(* an acceptable new id.                                                   *)
KeepsIds ==
    /\ last_stream_id' = last_stream_id
    /\ \A k \in Slots : streams'[k].id = streams[k].id
OpensStream ==
    \E k \in Slots, id \in Nat :
        /\ ~RejectedStreamId(id) /\ last_stream_id' = id
        /\ Reusable(streams[k]) /\ streams'[k].id = id
        /\ \A j \in Slots \ {k} : streams'[j].id = streams[j].id

StepOK == TypeOK' /\ Busy' /\ (KeepsIds \/ OpensStream)

(* h2_connection_init establishes the invariant. *)
LEMMA InitInv == Init => Inv
<1> SUFFICES ASSUME Init PROVE Inv
  OBVIOUS
<1>1. ControlType
  BY DEF Init, ControlType, PC, ErrorCode, H2_OK
<1>2. FeedType
  <2>1. preface \in Preface /\ goaway_error \in ErrorCode
    BY DEF Init, Preface, ErrorCode, H2_OK
  <2>2. preface_seen \in BOOLEAN /\ settings_sent \in BOOLEAN
    BY DEF Init
  <2>6. retried \in BOOLEAN /\ failed \in BOOLEAN /\ goaway_sent \in BOOLEAN
    BY DEF Init
  <2>3. goaway_last \in Nat \cup {-1} 
    BY DEF Init
  <2>4. input \in Seq(Frames) /\ missing \in Nat
    BY DEF Init
  <2> QED BY <2>1, <2>2, <2>6, <2>3, <2>4 DEF FeedType
<1>3. SettingType
  BY FrameSizeAssumption, WindowAssumption DEF Init, SettingType
<1>4. SendType
  BY WindowAssumption DEF Init, SendType, Wire
<1>5. RecvType
  BY WindowAssumption DEF Init, RecvType
<1>6. TableType
  <2>1. FreeSlot \in Stream
    BY ZeroInRange DEF FreeSlot, Stream, StreamState
  <2>2. NoHeaderBlock \in HeaderBlock
    BY ConnectionAssumption DEF NoHeaderBlock, HeaderBlock
  <2> QED
    BY <2>1, <2>2 DEF Init, TableType
<1>7. OutputType
  BY OutputAssumption DEF Init, OutputType
<1>8. Busy
  BY DEF Init, Busy
<1>9. StreamTable
  BY DEF Init, StreamTable, FreeSlot, Tracked
<1> QED
  BY <1>1, <1>2, <1>3, <1>4, <1>5, <1>6, <1>7, <1>8, <1>9 DEF Inv, TypeOK

-----------------------------------------------------------------------------
(* What is left alone keeps its type. *)
LEMMA Unchanged ==
    /\ FeedType /\ UNCHANGED feedVars => FeedType'
    /\ SettingType /\ UNCHANGED settingVars => SettingType'
    /\ SendType /\ UNCHANGED sendVars => SendType'
    /\ RecvType /\ UNCHANGED recvVars => RecvType'
    /\ TableType /\ UNCHANGED tableVars => TableType'
    /\ OutputType /\ UNCHANGED output_len => OutputType'
    /\ UNCHANGED feedVars => input' = input
    /\ UNCHANGED <<last_stream_id, streams>> => KeepsIds
<1>1. FeedType /\ UNCHANGED feedVars => FeedType'
  BY DEF FeedType, feedVars, prefaceVars, goawayVars, inputVars
<1>2. SettingType /\ UNCHANGED settingVars => SettingType'
  BY DEF SettingType, settingVars
<1>3. SendType /\ UNCHANGED sendVars => SendType'
  BY DEF SendType, sendVars
<1>4. RecvType /\ UNCHANGED recvVars => RecvType'
  BY DEF RecvType, recvVars
<1>5. TableType /\ UNCHANGED tableVars => TableType'
  BY DEF TableType, tableVars
<1>6. OutputType /\ UNCHANGED output_len => OutputType'
  BY DEF OutputType
<1>7. UNCHANGED feedVars => input' = input
  BY DEF feedVars, inputVars
<1>8. UNCHANGED <<last_stream_id, streams>> => KeepsIds
  BY DEF KeepsIds
<1> QED
  BY <1>1, <1>2, <1>3, <1>4, <1>5, <1>6, <1>7, <1>8

(* A handler that returns leaves a result for feed. *)
LEMMA DoneType ==
    ASSUME NEW r \in ErrorCode, Done(r), input # << >>, input' = input
    PROVE  ControlType' /\ Busy'
BY DEF Done, ControlType, Busy, PC

(* The frame that is processed is one that the peer may send. *)
LEMMA CurrentType ==
    ASSUME FeedType, input # << >>
    PROVE  /\ Current \in Frames /\ Current \in Frame
           /\ Current.type \in Nat /\ Current.length \in Nat
           /\ Current.flags \in SUBSET Flag /\ Current.stream_id \in Nat
           /\ Current.settings \in Seq(Setting) /\ Current.increment \in Nat
           /\ Current.block \in Seq(HpackItem)
<1>1. Current \in Frames
  BY DEF FeedType, Current
<1>2. Current \in Frame
  BY <1>1, Constants
<1> QED
  BY <1>1, <1>2 DEF Frame

-----------------------------------------------------------------------------
(* The stream table: h2_connection_find_stream and _get_stream.            *)
LEMMA FirstSlotProp ==
    ASSUME NEW S, S \subseteq Slots
    PROVE  /\ FirstSlot(S) # NoSlot => FirstSlot(S) \in S
           /\ FirstSlot(S) = NoSlot => S = {}
BY FirstIsLeast, Constants DEF FirstSlot

LEMMA FindSlotProp ==
    ASSUME NEW id
    PROVE  /\ FindSlot(id) # NoSlot =>
                 FindSlot(id) \in Slots /\ streams[FindSlot(id)].id = id
           /\ FindSlot(id) = NoSlot => \A k \in Slots : streams[k].id # id
<1> DEFINE S == {k \in Slots : streams[k].id = id}
<1>1. S \subseteq Slots
  OBVIOUS
<1>2. /\ FirstSlot(S) # NoSlot => FirstSlot(S) \in S
      /\ FirstSlot(S) = NoSlot => S = {}
  BY <1>1, FirstSlotProp
<1> QED
  BY <1>2 DEF FindSlot

(* No slot tracks an id that finish_headers accepts, so a new stream takes *)
(* a reusable slot.                                                        *)
LEMMA NewStream ==
    ASSUME Inv, NEW id \in Nat, ~RejectedStreamId(id), GetSlot(id) # NoSlot
    PROVE  /\ GetSlot(id) \in Slots
           /\ Reusable(streams[GetSlot(id)])
           /\ GetStream(id) = StreamInit(id, initial_stream_window)
           /\ GetStream(id) \in Stream /\ GetStream(id).id = id
<1>1. \A k \in Slots : streams[k].id \in Nat
  BY DEF Inv, TypeOK, TableType, Stream
<1>2. \A k \in Slots : streams[k].id <= last_stream_id
  BY DEF Inv, StreamTable
<1>3. last_stream_id \in Nat /\ id > last_stream_id
  BY DEF Inv, TypeOK, TableType, RejectedStreamId
<1>4. \A k \in Slots : streams[k].id # id
  BY <1>1, <1>2, <1>3
<1>5. FindSlot(id) = NoSlot
  BY <1>4, FindSlotProp
<1> DEFINE S == {k \in Slots : Reusable(streams[k])}
<1>6. GetSlot(id) = FirstSlot(S)
  BY <1>5 DEF GetSlot
<1>7. GetSlot(id) \in S
  BY <1>6, FirstSlotProp
<1>8. GetStream(id) = StreamInit(id, initial_stream_window)
  BY <1>5 DEF GetStream
<1>9. initial_stream_window \in INT32_MIN .. INT32_MAX
  BY WindowAssumption DEF Inv, TypeOK, SettingType, INT32_MIN
<1>10. StreamInit(id, initial_stream_window) \in Stream
  BY <1>9, StreamInitType
<1>11. StreamInit(id, initial_stream_window).id = id
  BY DEF StreamInit, FreeSlot
<1> QED
  BY <1>7, <1>8, <1>10, <1>11

-----------------------------------------------------------------------------
(* One lemma per step inside h2_connection_process_frame.                  *)

(* A handler that returns a code and changes nothing. *)
LEMMA ReturnOnlyStep ==
    ASSUME Inv, UNCHANGED feedVars, input # << >>,
           NEW r \in ErrorCode, ReturnOnly(r)
    PROVE  StepOK
<1>1. ControlType' /\ Busy'
  BY Unchanged, DoneType DEF ReturnOnly
<1>2. /\ FeedType' /\ SettingType' /\ SendType' /\ RecvType' /\ TableType'
      /\ OutputType'
  BY Unchanged DEF ReturnOnly, Inv, TypeOK
<1>3. KeepsIds
  BY Unchanged DEF ReturnOnly, tableVars
<1> QED
  BY <1>1, <1>2, <1>3 DEF StepOK, TypeOK

LEMMA RejectStep ==
    ASSUME Inv, UNCHANGED feedVars, input # << >>,
           NEW r \in ErrorCode, Reject(r)
    PROVE  StepOK
BY ReturnOnlyStep DEF Reject

(* RejectFrame: the checks before the switch. *)
LEMMA RejectFrameStep ==
    ASSUME Inv, UNCHANGED feedVars, RejectFrame
    PROVE  StepOK
<1>1. input # << >>
  BY DEF RejectFrame, HeadComplete
<1>2. Admission(Current) \in ErrorCode
  BY DEF Admission, ErrorCode, H2_OK, H2_FRAME_SIZE_ERROR, H2_PROTOCOL_ERROR
<1> QED
  BY <1>1, <1>2, RejectStep DEF RejectFrame

(* PRIORITY, PUSH_PROMISE, GOAWAY and extension frames. *)
LEMMA CheckOnlyStep ==
    ASSUME Inv, UNCHANGED feedVars,
           ProcessPriority \/ ProcessPushPromise \/ ProcessGoaway
           \/ ProcessUnknown
    PROVE  StepOK
<1>1. input # << >>
  BY DEF ProcessPriority, ProcessPushPromise, ProcessGoaway, ProcessUnknown,
         Dispatch, HeadComplete
<1>2. PICK r \in ErrorCode : ReturnOnly(r)
  <2>1. H2_OK \in ErrorCode /\ H2_PROTOCOL_ERROR \in ErrorCode
    BY DEF ErrorCode
  <2> QED
    BY <2>1, ParseType
       DEF ProcessPriority, ProcessPushPromise, ProcessGoaway, ProcessUnknown
<1> QED
  BY <1>1, <1>2, ReturnOnlyStep

(* A slot of a table of streams may be replaced by a stream. *)
LEMMA ReplaceSlot ==
    ASSUME Inv, NEW k \in Slots, NEW s \in Stream, s.id = streams[k].id,
           streams' = [streams EXCEPT ![k] = s],
           UNCHANGED <<last_stream_id, header_block>>
    PROVE  TableType' /\ KeepsIds
BY DEF Inv, TypeOK, TableType, KeepsIds

(* RST_STREAM closes a tracked stream. *)
LEMMA RstStreamStep ==
    ASSUME Inv, UNCHANGED feedVars, ProcessRstStream
    PROVE  StepOK
<1> DEFINE f == Current
           k == FindSlot(f.stream_id)
<1>1. input # << >>
  BY DEF ProcessRstStream, Dispatch, HeadComplete
<1>2. CASE Reject(RstVerdict(f))
  <2>1. RstVerdict(f) \in ErrorCode
    BY ParseType DEF RstVerdict, ErrorCode, H2_OK, H2_PROTOCOL_ERROR
  <2> QED
    BY <1>1, <1>2, <2>1, RejectStep
<1>3. CASE ~Reject(RstVerdict(f))
  <2>1. /\ streams' = IF k = NoSlot THEN streams
                      ELSE [streams EXCEPT ![k] = StreamClose(@)]
        /\ Done(H2_OK)
        /\ UNCHANGED <<settingVars, sendVars, recvVars, last_stream_id,
                       header_block, output_len>>
    BY <1>3 DEF ProcessRstStream
  <2>2. TableType' /\ KeepsIds
    <3>1. CASE k = NoSlot
      BY <2>1, <3>1 DEF Inv, TypeOK, TableType, KeepsIds
    <3>2. CASE k # NoSlot
      <4>1. k \in Slots
        BY <3>2, FindSlotProp
      <4>2. streams[k] \in Stream /\ streams \in [Slots -> Stream]
        BY <4>1 DEF Inv, TypeOK, TableType
      <4>3. StreamClose(streams[k]) \in Stream
            /\ StreamClose(streams[k]).id = streams[k].id
        BY <4>2, StreamCloseType
      <4>4. streams' = [streams EXCEPT ![k] = StreamClose(streams[k])]
        BY <2>1, <3>2, <4>1, <4>2
      <4> QED
        BY <2>1, <4>1, <4>3, <4>4, ReplaceSlot
    <3> QED
      BY <3>1, <3>2
  <2>3. ControlType' /\ Busy'
    BY <1>1, <2>1, Unchanged, DoneType DEF ErrorCode
  <2> QED
    BY <2>1, <2>2, <2>3, Unchanged DEF Inv, StepOK, TypeOK
<1> QED
  BY <1>2, <1>3

(* PING is answered if the answer fits. *)
LEMMA PingStep ==
    ASSUME Inv, UNCHANGED feedVars, ProcessPing
    PROVE  StepOK
<1> DEFINE f == Current
<1>1. input # << >>
  BY DEF ProcessPing, Dispatch, HeadComplete
<1>2. CASE Reject(ParsePing(f))
  BY <1>1, <1>2, ParseType, RejectStep
<1>3. CASE ReturnOnly(H2_OK)
  BY <1>1, <1>3, ReturnOnlyStep DEF ErrorCode
<1>4. CASE ~Reject(ParsePing(f)) /\ ~ReturnOnly(H2_OK)
  <2>1. /\ output_len' = QueueLen(output_len, PingSize)
        /\ Done(QueueRet(output_len, PingSize))
        /\ UNCHANGED <<settingVars, sendVars, recvVars, tableVars>>
    BY <1>4 DEF ProcessPing
  <2>2. /\ output_len' \in 0 .. H2_CONN_OUTPUT_CAP
        /\ QueueRet(output_len, PingSize) \in ErrorCode
    BY <2>1, QueueType
       DEF Inv, TypeOK, OutputType, PingSize, H2_FRAME_HEADER_LEN
  <2>3. ControlType' /\ Busy'
    BY <1>1, <2>1, <2>2, Unchanged, DoneType
  <2>4. KeepsIds
    BY <2>1, Unchanged DEF tableVars
  <2>5. OutputType'
    BY <2>2 DEF OutputType
  <2> QED
    BY <2>1, <2>3, <2>4, <2>5, Unchanged DEF Inv, StepOK, TypeOK
<1> QED
  BY <1>2, <1>3, <1>4

(* SETTINGS: the frame is checked and the loop starts. *)
LEMMA SettingsStep ==
    ASSUME Inv, UNCHANGED feedVars, ProcessSettings
    PROVE  StepOK
<1> DEFINE f == Current
<1>1. input # << >>
  BY DEF ProcessSettings, Dispatch, HeadComplete
<1>2. CASE Reject(ParseSettings(f))
  BY <1>1, <1>2, ParseType, RejectStep
<1>3. CASE ReturnOnly(H2_OK)
  BY <1>1, <1>3, ReturnOnlyStep DEF ErrorCode
<1>4. CASE ~Reject(ParseSettings(f)) /\ ~ReturnOnly(H2_OK)
  <2>1. /\ Goto("settings", 1)
        /\ UNCHANGED <<settingVars, sendVars, recvVars, tableVars, output_len>>
    BY <1>4 DEF ProcessSettings
  <2>2. ControlType' /\ Busy'
    BY <1>1, <2>1, Unchanged DEF Goto, ControlType, Busy, PC, ErrorCode
  <2>3. KeepsIds
    BY <2>1, Unchanged DEF tableVars
  <2> QED
    BY <2>1, <2>2, <2>3, Unchanged DEF Inv, StepOK, TypeOK
<1> QED
  BY <1>2, <1>3, <1>4

(* Moving the windows by delta keeps each in range: a slot that would leave *)
(* it is not moved, nor is any after it.                                    *)
LEMMA MovedStreamsType ==
    ASSUME Inv, NEW delta \in Int
    PROVE  /\ MovedStreams(delta) \in [Slots -> Stream]
           /\ \A k \in Slots : MovedStreams(delta)[k].id = streams[k].id
<1>1. \A k \in Moved(delta) : /\ k \in Slots /\ k \in LiveSlots
                              /\ k \notin Overflowing(delta)
  <2>1. Overflowing(delta) \subseteq Nat
    BY Constants DEF Overflowing, LiveSlots
  <2>2. LiveSlots \subseteq Slots /\ Slots \subseteq Nat
    BY Constants DEF LiveSlots
  <2>3. CASE Overflowing(delta) = {}
    BY <2>2, <2>3 DEF Moved
  <2>4. CASE Overflowing(delta) # {}
    <3> DEFINE m == First(Overflowing(delta))
    <3>1. m \in Nat /\ \A j \in Overflowing(delta) : m <= j
      BY <2>1, <2>4, FirstIsLeast
    <3>2. \A k \in Moved(delta) : k \in LiveSlots /\ k < m
      BY <2>4 DEF Moved
    <3>3. \A k \in Nat : k < m => ~(m <= k)
      BY <3>1
    <3> HIDE DEF m
    <3> QED
      BY <2>2, <3>1, <3>2, <3>3
  <2> QED
    BY <2>3, <2>4
<1>2. \A k \in Slots : streams[k] \in Stream
  BY DEF Inv, TypeOK, TableType
<1>3. \A k \in Moved(delta) :
         streams[k].send_window + delta \in INT32_MIN .. INT32_MAX
  BY <1>1 DEF Overflowing
<1>4. \A k \in Moved(delta) :
         /\ [streams[k] EXCEPT !.send_window = @ + delta] \in Stream
         /\ [streams[k] EXCEPT !.send_window = @ + delta].id = streams[k].id
  <2> SUFFICES ASSUME NEW k \in Moved(delta)
               PROVE  /\ [streams[k] EXCEPT !.send_window = @ + delta] \in Stream
                      /\ [streams[k] EXCEPT !.send_window = @ + delta].id
                            = streams[k].id
    OBVIOUS
  <2>1. streams[k] \in Stream
    BY <1>1, <1>2
  <2>2. streams[k].send_window + delta \in INT32_MIN .. INT32_MAX
    BY <1>3
  <2> QED
    BY <2>1, <2>2 DEF Stream
<1> QED
  BY <1>2, <1>4 DEF MovedStreams

(* SETTINGS_INITIAL_WINDOW_SIZE *)
LEMMA SetInitialWindowStep ==
    ASSUME Inv, input # << >>, input' = input, pc = "settings",
           NEW value \in Nat, SetInitialWindow(value)
    PROVE  /\ ControlType' /\ Busy'
           /\ initial_stream_window' \in 0 .. INT32_MAX
           /\ credit' \in [{NoSlot} \cup Slots -> Int]
           /\ streams' \in [Slots -> Stream]
           /\ \A k \in Slots : streams'[k].id = streams[k].id
<1> DEFINE delta == value - initial_stream_window
<1>1. /\ initial_stream_window \in 0 .. INT32_MAX
      /\ credit \in [{NoSlot} \cup Slots -> Int]
      /\ streams \in [Slots -> Stream]
      /\ pos \in Nat /\ pos >= 1
  BY DEF Inv, TypeOK, SettingType, SendType, TableType, ControlType, Busy
<1>2. delta \in Int
  BY <1>1, WindowAssumption
<1>3. /\ MovedStreams(delta) \in [Slots -> Stream]
      /\ \A k \in Slots : MovedStreams(delta)[k].id = streams[k].id
  BY <1>2, MovedStreamsType
<1>4. H2_FLOW_CONTROL_ERROR \in ErrorCode /\ H2_OK \in ErrorCode
  BY DEF ErrorCode
<1> HIDE DEF delta
<1>5. CASE value > INT32_MAX
  <2>1. /\ Done(H2_FLOW_CONTROL_ERROR)
        /\ UNCHANGED <<streams, initial_stream_window, credit>>
    BY <1>5, WindowAssumption DEF SetInitialWindow
  <2>2. ControlType' /\ Busy'
    BY <1>4, <2>1, DoneType
  <2> QED
    BY <1>1, <2>1, <2>2
<1>6. CASE value <= INT32_MAX /\ Overflowing(delta) # {}
  <2>1. /\ Done(H2_FLOW_CONTROL_ERROR) /\ streams' = MovedStreams(delta)
        /\ UNCHANGED <<initial_stream_window, credit>>
    BY <1>6, WindowAssumption DEF SetInitialWindow, delta
  <2>2. ControlType' /\ Busy'
    BY <1>4, <2>1, DoneType
  <2> QED
    BY <1>1, <1>3, <2>1, <2>2
<1>7. CASE value <= INT32_MAX /\ Overflowing(delta) = {}
  <2>1. /\ streams' = MovedStreams(delta) /\ initial_stream_window' = value
        /\ credit' = [k \in DOMAIN credit |-> IF k \in LiveSlots
                                              THEN credit[k] + delta
                                              ELSE credit[k]]
        /\ Goto("settings", pos + 1)
    BY <1>7, WindowAssumption DEF SetInitialWindow, delta
  <2>2. ControlType' /\ Busy'
    BY <1>1, <1>4, <2>1 DEF Goto, ControlType, Busy, PC
  <2>3. credit' \in [{NoSlot} \cup Slots -> Int]
    BY <1>1, <1>2, <2>1
  <2>4. initial_stream_window' \in 0 .. INT32_MAX
    BY <1>7, <2>1, WindowAssumption
  <2> QED
    BY <1>3, <2>1, <2>2, <2>3, <2>4
<1> QED
  BY <1>5, <1>6, <1>7, WindowAssumption

(* One setting of a SETTINGS frame. *)
LEMMA ApplySettingStep ==
    ASSUME Inv, UNCHANGED feedVars, ApplySetting
    PROVE  StepOK
<1> DEFINE s == Current.settings[pos]
<1>1. input # << >> /\ pc = "settings" /\ pos \in Nat /\ pos >= 1
  BY DEF ApplySetting, Inv, Busy, TypeOK, ControlType
<1>2. s \in Setting
  <2>1. Current.settings \in Seq(Setting) /\ pos <= Len(Current.settings)
    BY <1>1, CurrentType DEF Inv, TypeOK, ApplySetting
  <2> QED
    BY <1>1, <2>1
<1>3. s.id \in Nat /\ s.value \in Nat
  BY <1>2 DEF Setting
<1>4. UNCHANGED <<conn_send_window, wire, responses_sent, recvVars,
                  last_stream_id, header_block, output_len>>
  BY DEF ApplySetting
<1>5. input' = input
  BY Unchanged
<1>6. /\ ControlType' /\ Busy' /\ SettingType'
      /\ credit' \in [{NoSlot} \cup Slots -> Int]
      /\ streams' \in [Slots -> Stream]
      /\ \A k \in Slots : streams'[k].id = streams[k].id
  <2>1. /\ max_frame_size \in H2_DEFAULT_MAX_FRAME_SIZE .. H2_MAX_FRAME_SIZE
        /\ initial_stream_window \in 0 .. INT32_MAX
        /\ credit \in [{NoSlot} \cup Slots -> Int]
        /\ streams \in [Slots -> Stream]
    BY DEF Inv, TypeOK, SettingType, SendType, TableType
  <2>2. CASE s.id = H2_SETTINGS_INITIAL_WINDOW_SIZE
    <3>1. SetInitialWindow(s.value) /\ UNCHANGED max_frame_size
      BY <2>2 DEF ApplySetting
    <3>2. /\ ControlType' /\ Busy'
          /\ initial_stream_window' \in 0 .. INT32_MAX
          /\ credit' \in [{NoSlot} \cup Slots -> Int]
          /\ streams' \in [Slots -> Stream]
          /\ \A k \in Slots : streams'[k].id = streams[k].id
      BY <1>1, <1>3, <1>5, <3>1, SetInitialWindowStep
    <3> QED
      BY <2>1, <3>1, <3>2 DEF SettingType
  <2>3. CASE s.id # H2_SETTINGS_INITIAL_WINDOW_SIZE /\ SettingVerdict(s) # H2_OK
    <3>1. /\ Done(SettingVerdict(s))
          /\ UNCHANGED <<settingVars, streams, credit>>
      BY <2>3 DEF ApplySetting
    <3>2. SettingVerdict(s) \in ErrorCode
      BY DEF SettingVerdict, ErrorCode
    <3>3. ControlType' /\ Busy'
      BY <1>1, <1>5, <3>1, <3>2, DoneType
    <3> QED
      BY <2>1, <3>1, <3>3 DEF SettingType, settingVars
  <2>4. CASE s.id # H2_SETTINGS_INITIAL_WINDOW_SIZE /\ SettingVerdict(s) = H2_OK
    <3>1. /\ max_frame_size' = IF s.id = H2_SETTINGS_MAX_FRAME_SIZE
                               THEN s.value ELSE max_frame_size
          /\ Goto("settings", pos + 1)
          /\ UNCHANGED <<initial_stream_window, streams, credit>>
      BY <2>4 DEF ApplySetting
    <3>2. s.id = H2_SETTINGS_MAX_FRAME_SIZE =>
             s.value \in H2_DEFAULT_MAX_FRAME_SIZE .. H2_MAX_FRAME_SIZE
      BY <2>4 DEF SettingVerdict, H2_OK, H2_PROTOCOL_ERROR
    <3>3. ControlType' /\ Busy'
      BY <1>1, <1>5, <3>1 DEF Goto, ControlType, Busy, PC, ErrorCode
    <3> QED
      BY <2>1, <3>1, <3>2, <3>3 DEF SettingType
  <2> QED
    BY <2>2, <2>3, <2>4
<1>7. SendType' /\ TableType' /\ KeepsIds
  BY <1>4, <1>6 DEF Inv, TypeOK, SendType, TableType, KeepsIds
<1> QED
  BY <1>4, <1>6, <1>7, Unchanged DEF Inv, StepOK, TypeOK

(* The SETTINGS acknowledgement. *)
LEMMA AcknowledgeStep ==
    ASSUME Inv, UNCHANGED feedVars, AcknowledgeSettings
    PROVE  StepOK
<1>1. input # << >>
  BY DEF AcknowledgeSettings, Inv, Busy
<1>2. /\ output_len' \in 0 .. H2_CONN_OUTPUT_CAP
      /\ QueueRet(output_len, SettingsAckSize) \in ErrorCode
  BY QueueType DEF AcknowledgeSettings, Inv, TypeOK, OutputType,
                   SettingsAckSize, H2_FRAME_HEADER_LEN
<1>3. ControlType' /\ Busy'
  BY <1>1, <1>2, Unchanged, DoneType DEF AcknowledgeSettings
<1>4. KeepsIds
  BY Unchanged DEF AcknowledgeSettings, tableVars
<1>5. OutputType'
  BY <1>2 DEF OutputType
<1> QED
  BY <1>3, <1>4, <1>5, Unchanged
     DEF AcknowledgeSettings, Inv, StepOK, TypeOK

(* A response queued on slot k keeps the send side in range. *)
LEMMA RespondType ==
    ASSUME Inv, NEW k \in Slots, NEW q, NEW s, ResponseResult(q, s),
           NEW base \in Int, Respond(k, q, base)
    PROVE  /\ SendType' /\ OutputType'
           /\ streams' = [streams EXCEPT ![k] = q.stream]
           /\ streams' \in [Slots -> Stream]
<1> DEFINE spent == conn_send_window - q.send_window
<1>1. /\ conn_send_window \in 0 .. INT32_MAX /\ responses_sent \in Nat
      /\ credit \in [{NoSlot} \cup Slots -> Int]
      /\ wire \in [StreamIds -> Wire] /\ streams \in [Slots -> Stream]
  BY DEF Inv, TypeOK, SendType, TableType
<1>2. spent \in Int
  BY <1>1, WindowAssumption DEF ResponseResult
<1>3. conn_send_window' \in 0 .. INT32_MAX /\ OutputType'
  BY DEF Respond, ResponseResult, OutputType
<1>4. responses_sent' \in Nat
  BY <1>1 DEF Respond
<1>5. \A w \in Wire : WireResponse(w, q) \in Wire
  BY DEF WireResponse, WireHeaders, WireData, Wire
<1>6. wire' \in [StreamIds -> Wire]
  BY <1>1, <1>5 DEF Respond
<1>7. credit' \in [{NoSlot} \cup Slots -> Int]
  <2>1. credit' = [credit EXCEPT ![NoSlot] = credit[NoSlot] - spent,
                                 ![k] = base - spent]
    BY <1>1 DEF Respond
  <2> QED
    BY <1>1, <1>2, <2>1
<1>8. /\ streams' = [streams EXCEPT ![k] = q.stream]
      /\ streams' \in [Slots -> Stream]
  BY <1>1 DEF Respond, ResponseResult
<1> QED
  BY <1>3, <1>4, <1>6, <1>7, <1>8 DEF SendType

(* WINDOW_UPDATE adds to a window what the check found to fit. *)
LEMMA WindowUpdateStep ==
    ASSUME Inv, UNCHANGED feedVars, ProcessWindowUpdate
    PROVE  StepOK
<1> DEFINE f == Current
           k == FindSlot(f.stream_id)
<1>1. input # << >>
  BY DEF ProcessWindowUpdate, Dispatch, HeadComplete
<1>2. f.increment \in Nat /\ f.stream_id \in Nat
  BY <1>1, CurrentType DEF Inv, TypeOK
<1>3. /\ conn_send_window \in 0 .. INT32_MAX
      /\ credit \in [{NoSlot} \cup Slots -> Int]
      /\ streams \in [Slots -> Stream]
  BY DEF Inv, TypeOK, SendType, TableType
<1>4. k # NoSlot => /\ k \in Slots /\ streams[k] \in Stream
                    /\ AddSendWindow(streams[k], f.increment).ret \in ErrorCode
                    /\ AddSendWindow(streams[k], f.increment).stream \in Stream
                    /\ AddSendWindow(streams[k], f.increment).stream.id
                          = streams[k].id
  BY <1>2, <1>3, FindSlotProp, AddSendWindowType
<1> HIDE DEF f, k
<1>5. CASE Reject(WindowUpdateVerdict(f))
  <2>1. WindowUpdateVerdict(f) \in ErrorCode
    BY <1>4, ParseType
       DEF WindowUpdateVerdict, ErrorCode, H2_OK, H2_FLOW_CONTROL_ERROR, k
  <2> QED
    BY <1>1, <1>5, <2>1, RejectStep
<1>6. CASE ReturnOnly(H2_OK)
  BY <1>1, <1>6, ReturnOnlyStep DEF ErrorCode
<1>7. CASE ~Reject(WindowUpdateVerdict(f)) /\ ~ReturnOnly(H2_OK)
  <2>1. /\ WindowUpdateVerdict(f) = H2_OK
        /\ \/ /\ f.stream_id = 0
              /\ conn_send_window' = conn_send_window + f.increment
              /\ credit' = [credit EXCEPT ![NoSlot] = Grant(@, f.increment)]
              /\ UNCHANGED streams
           \/ /\ f.stream_id # 0 /\ k # NoSlot
              /\ streams' = [streams EXCEPT
                                ![k] = AddSendWindow(@, f.increment).stream]
              /\ credit' = IF Live(streams[k])
                           THEN [credit EXCEPT ![k] = Grant(@, f.increment)]
                           ELSE credit
              /\ UNCHANGED conn_send_window
        /\ Goto("flush", 1)
        /\ UNCHANGED <<settingVars, recvVars, last_stream_id, header_block,
                       output_len, responses_sent, wire>>
    BY <1>7 DEF ProcessWindowUpdate, f, k
  <2>2. ControlType' /\ Busy'
    BY <1>1, <2>1, Unchanged DEF Goto, ControlType, Busy, PC, ErrorCode
  <2>3. \A i \in {NoSlot} \cup Slots : Grant(credit[i], f.increment) \in Int
    BY <1>2, <1>3 DEF Grant
  <2>4. CASE f.stream_id = 0
    <3>1. conn_send_window + f.increment <= INT32_MAX
      BY <1>2, <1>3, <2>1, <2>4, WindowAssumption
         DEF WindowUpdateVerdict, H2_OK, H2_FLOW_CONTROL_ERROR
    <3>2. conn_send_window' \in 0 .. INT32_MAX
      BY <1>2, <1>3, <2>1, <2>4, <3>1, WindowAssumption
    <3>3. credit' \in [{NoSlot} \cup Slots -> Int]
      BY <1>3, <2>1, <2>3, <2>4
    <3>4. SendType'
      BY <2>1, <3>2, <3>3 DEF Inv, TypeOK, SendType
    <3>5. TableType' /\ KeepsIds
      BY <2>1, <2>4 DEF Inv, TypeOK, TableType, KeepsIds
    <3> QED
      BY <2>1, <2>2, <3>4, <3>5, Unchanged DEF Inv, StepOK, TypeOK
  <2>5. CASE f.stream_id # 0
    <3>1. k \in Slots /\ k # NoSlot
      BY <1>4, <2>1, <2>5
    <3>2. credit' \in [{NoSlot} \cup Slots -> Int]
      BY <1>3, <2>1, <2>3, <2>5, <3>1
    <3>3. SendType'
      BY <2>1, <2>5, <3>2 DEF Inv, TypeOK, SendType
    <3>4. streams' = [streams EXCEPT
                         ![k] = AddSendWindow(streams[k], f.increment).stream]
      BY <1>3, <2>1, <2>5, <3>1
    <3>5. TableType' /\ KeepsIds
      BY <1>4, <2>1, <3>1, <3>4, ReplaceSlot
    <3> QED
      BY <2>1, <2>2, <3>3, <3>5, Unchanged DEF Inv, StepOK, TypeOK
  <2> QED
    BY <2>4, <2>5
<1> QED
  BY <1>5, <1>6, <1>7

(* One deferred response. *)
LEMMA FlushStep ==
    ASSUME Inv, UNCHANGED feedVars, FlushDeferred
    PROVE  StepOK
<1> DEFINE k == First(DeferredFrom(pos))
           q == QueueResponse(streams[k], conn_send_window, output_len)
<1>1. input # << >>
  BY DEF FlushDeferred, Inv, Busy
<1>2. CASE ReturnOnly(H2_OK)
  BY <1>1, <1>2, ReturnOnlyStep DEF ErrorCode
<1>3. CASE ~ReturnOnly(H2_OK)
  <2>1. /\ DeferredFrom(pos) # {}
        /\ Respond(k, q, credit[k])
        /\ IF q.ret = H2_OK THEN Goto("flush", k + 1) ELSE Done(q.ret)
        /\ UNCHANGED <<settingVars, recvVars, last_stream_id, header_block>>
    BY <1>3 DEF FlushDeferred
  <2>2. k \in Slots /\ k \in Nat
    <3>1. DeferredFrom(pos) \subseteq Slots /\ Slots \subseteq Nat
      BY Constants DEF DeferredFrom
    <3> QED
      BY <2>1, <3>1, FirstIsLeast
  <2> HIDE DEF k
  <2>3. /\ streams[k] \in Stream /\ conn_send_window \in 0 .. INT32_MAX
        /\ output_len \in 0 .. H2_CONN_OUTPUT_CAP /\ credit[k] \in Int
    BY <2>2 DEF Inv, TypeOK, TableType, SendType, OutputType
  <2>4. ResponseResult(q, streams[k])
    BY <2>3, QueueResponseType
  <2> HIDE DEF q
  <2>5. /\ SendType' /\ OutputType'
        /\ streams' = [streams EXCEPT ![k] = q.stream]
    BY <2>1, <2>2, <2>3, <2>4, RespondType
  <2>6. TableType' /\ KeepsIds
    BY <2>1, <2>2, <2>4, <2>5, ReplaceSlot DEF ResponseResult
  <2>7. ControlType' /\ Busy'
    <3>1. input' = input
      BY Unchanged
    <3>2. CASE q.ret = H2_OK
      BY <1>1, <2>1, <2>2, <3>1, <3>2 DEF Goto, ControlType, Busy, PC, ErrorCode
    <3>3. CASE q.ret # H2_OK
      BY <1>1, <2>1, <2>4, <3>1, <3>3, DoneType DEF ResponseResult
    <3> QED
      BY <3>2, <3>3
  <2> QED
    BY <2>1, <2>5, <2>6, <2>7, Unchanged DEF Inv, StepOK, TypeOK
<1> QED
  BY <1>2, <1>3

(* What the peer is allowed stays a number. *)
LEMMA GrantedType ==
    ASSUME NEW old \in Int, NEW n \in Int, NEW w \in Int,
           NEW r, r.window \in Int
    PROVE  Granted(old, n, w, r) \in Int
<1>1. PICK x \in Int : x = r.window
  OBVIOUS
<1>2. old - n \in Int /\ old - n + (x - w) \in Int /\ old - n + 0 \in Int
  OBVIOUS
<1> QED
  BY <1>1, <1>2 DEF Granted

(* DATA on a stream that takes none. *)
LEMMA DataOnClosedStreamType ==
    ASSUME Inv, input # << >>, input' = input, NEW f \in Frame,
           conn_recv_window >= f.length, DataOnClosedStream(f),
           UNCHANGED <<last_stream_id, header_block>>
    PROVE  ControlType' /\ Busy' /\ RecvType' /\ OutputType' /\ TableType'
           /\ KeepsIds
<1> DEFINE w == conn_recv_window - f.length
           r == Refresh(w, output_len)
<1>1. /\ f.length \in Nat /\ conn_recv_window \in 0 .. H2_DEFAULT_WINDOW_SIZE
      /\ output_len \in 0 .. H2_CONN_OUTPUT_CAP
      /\ allowance \in [{NoSlot} \cup Slots -> Int]
  BY DEF Inv, TypeOK, RecvType, OutputType, Frame
<1>2. w \in 0 .. H2_DEFAULT_WINDOW_SIZE
  BY <1>1, WindowAssumption
<1>3. /\ r.window \in 0 .. H2_DEFAULT_WINDOW_SIZE
      /\ r.output_len \in 0 .. H2_CONN_OUTPUT_CAP
  BY <1>1, <1>2, RefreshType
<1>4. /\ conn_recv_window' = r.window /\ output_len' = r.output_len
      /\ allowance' = [allowance EXCEPT
                          ![NoSlot] = Granted(allowance[NoSlot], f.length, w, r)]
      /\ Done(H2_STREAM_CLOSED) /\ UNCHANGED streams
  BY <1>1 DEF DataOnClosedStream
<1> HIDE DEF r
<1>5. Granted(allowance[NoSlot], f.length, w, r) \in Int
  <2>1. /\ allowance[NoSlot] \in Int /\ f.length \in Int /\ w \in Int
        /\ r.window \in Int
    BY <1>1, <1>2, <1>3
  <2> HIDE DEF w
  <2> QED
    BY <2>1, GrantedType
<1>6. RecvType' /\ OutputType'
  BY <1>1, <1>3, <1>4, <1>5 DEF RecvType, OutputType
<1>7. ControlType' /\ Busy'
  BY <1>4, DoneType DEF ErrorCode
<1>8. TableType' /\ KeepsIds
  BY <1>4 DEF Inv, TypeOK, TableType, KeepsIds
<1> QED
  BY <1>6, <1>7, <1>8

(* DATA on an open stream: both windows are charged no more than they hold *)
(* and are raised no higher than the default.                              *)
LEMMA DataOnStreamType ==
    ASSUME Inv, input # << >>, input' = input, NEW f \in Frame,
           NEW k \in Slots, conn_recv_window >= f.length, DataOnStream(f, k),
           UNCHANGED <<last_stream_id, header_block>>
    PROVE  ControlType' /\ Busy' /\ RecvType' /\ OutputType' /\ TableType'
           /\ KeepsIds
<1> DEFINE w == conn_recv_window - f.length
           d == ReceiveData(streams[k], f.length, H2_FLAG_END_STREAM \in f.flags)
           s == d.stream
           r == Refresh(w, output_len)
           q == Refresh(s.recv_window, r.output_len)
           refreshStream == r.ret = H2_OK /\ s.state # "CLOSED"
<1>1. /\ f.length \in Nat /\ conn_recv_window \in 0 .. H2_DEFAULT_WINDOW_SIZE
      /\ output_len \in 0 .. H2_CONN_OUTPUT_CAP
      /\ allowance \in [{NoSlot} \cup Slots -> Int]
      /\ streams \in [Slots -> Stream]
  BY DEF Inv, TypeOK, RecvType, OutputType, TableType, Frame
<1>2. w \in 0 .. H2_DEFAULT_WINDOW_SIZE
  BY <1>1, WindowAssumption
<1>3. d.ret \in ErrorCode /\ s \in Stream /\ s.id = streams[k].id
  BY <1>1, ReceiveDataType
<1>4. /\ r.ret \in ErrorCode /\ r.window \in 0 .. H2_DEFAULT_WINDOW_SIZE
      /\ r.output_len \in 0 .. H2_CONN_OUTPUT_CAP
  BY <1>1, <1>2, RefreshType
<1>5. s.recv_window \in 0 .. H2_DEFAULT_WINDOW_SIZE /\ s.state \in StreamState
  BY <1>3 DEF Stream
<1>6. /\ q.ret \in ErrorCode /\ q.window \in 0 .. H2_DEFAULT_WINDOW_SIZE
      /\ q.output_len \in 0 .. H2_CONN_OUTPUT_CAP
  BY <1>4, <1>5, RefreshType
<1>7. \/ /\ conn_recv_window' = w /\ Done(d.ret)
         /\ UNCHANGED <<streams, output_len, allowance>>
      \/ /\ conn_recv_window' = r.window /\ output_len' = r.output_len
         /\ streams' = [streams EXCEPT ![k] = s]
         /\ allowance' = [allowance EXCEPT
                             ![NoSlot] = Granted(@, f.length, w, r)]
         /\ Done(r.ret)
      \/ /\ conn_recv_window' = r.window /\ output_len' = q.output_len
         /\ streams' = [streams EXCEPT ![k].state = s.state,
                                       ![k].recv_window = q.window]
         /\ allowance' = [allowance EXCEPT
                             ![NoSlot] = Granted(@, f.length, w, r),
                             ![k] = Granted(@, f.length, s.recv_window, q)]
         /\ Done(q.ret)
  BY DEF DataOnStream
<1>8. \A i \in {NoSlot} \cup Slots :
         /\ Granted(allowance[i], f.length, w, r) \in Int
         /\ Granted(allowance[i], f.length, s.recv_window, q) \in Int
  <2> SUFFICES ASSUME NEW i \in {NoSlot} \cup Slots
               PROVE  /\ Granted(allowance[i], f.length, w, r) \in Int
                      /\ Granted(allowance[i], f.length, s.recv_window, q) \in Int
    OBVIOUS
  <2>1. /\ allowance[i] \in Int /\ w \in Int /\ r.window \in Int
        /\ s.recv_window \in Int /\ q.window \in Int
    BY <1>1, <1>2, <1>4, <1>5, <1>6, WindowAssumption
  <2> HIDE DEF w, r, q, s
  <2>2. Granted(allowance[i], f.length, w, r) \in Int
    BY <1>1, <2>1, GrantedType
  <2>3. Granted(allowance[i], f.length, s.recv_window, q) \in Int
    BY <1>1, <2>1, GrantedType
  <2> QED
    BY <2>2, <2>3
<1> HIDE DEF w, d, r, q
<1>9. CASE /\ conn_recv_window' = w /\ Done(d.ret)
           /\ UNCHANGED <<streams, output_len, allowance>>
  <2>1. ControlType' /\ Busy'
    BY <1>3, <1>9, DoneType
  <2> QED
    BY <1>1, <1>2, <1>9, <2>1
       DEF RecvType, OutputType, TableType, KeepsIds, Inv, TypeOK
<1>10. CASE /\ conn_recv_window' = r.window /\ output_len' = r.output_len
            /\ streams' = [streams EXCEPT ![k] = s]
            /\ allowance' = [allowance EXCEPT
                                ![NoSlot] = Granted(@, f.length, w, r)]
            /\ Done(r.ret)
  <2>1. ControlType' /\ Busy'
    BY <1>4, <1>10, DoneType
  <2>2. TableType' /\ KeepsIds
    BY <1>3, <1>10, ReplaceSlot
  <2>3. RecvType' /\ OutputType'
    BY <1>1, <1>4, <1>8, <1>10 DEF RecvType, OutputType
  <2> QED
    BY <2>1, <2>2, <2>3
<1>11. CASE /\ conn_recv_window' = r.window /\ output_len' = q.output_len
            /\ streams' = [streams EXCEPT ![k].state = s.state,
                                          ![k].recv_window = q.window]
            /\ allowance' = [allowance EXCEPT
                                ![NoSlot] = Granted(@, f.length, w, r),
                                ![k] = Granted(@, f.length, s.recv_window, q)]
            /\ Done(q.ret)
  <2> HIDE DEF s
  <2>1. ControlType' /\ Busy'
    BY <1>6, <1>11, DoneType
  <2> DEFINE t == [streams[k] EXCEPT !.state = s.state,
                                     !.recv_window = q.window]
  <2>2. t \in Stream /\ t.id = streams[k].id
    BY <1>1, <1>5, <1>6 DEF Stream
  <2>3. streams' = [streams EXCEPT ![k] = t]
    BY <1>1, <1>11
  <2>4. TableType' /\ KeepsIds
    BY <2>2, <2>3, ReplaceSlot
  <2>5. k # NoSlot
    BY Constants
  <2>6. allowance' = [allowance EXCEPT
                         ![NoSlot] = Granted(allowance[NoSlot], f.length, w, r),
                         ![k] = Granted(allowance[k], f.length, s.recv_window, q)]
    BY <1>1, <1>11, <2>5
  <2>7. RecvType' /\ OutputType'
    BY <1>1, <1>4, <1>6, <1>8, <1>11, <2>6 DEF RecvType, OutputType
  <2> QED
    BY <2>1, <2>4, <2>7
<1> QED
  BY <1>7, <1>9, <1>10, <1>11

(* DATA *)
LEMMA DataStep ==
    ASSUME Inv, UNCHANGED feedVars, ProcessData
    PROVE  StepOK
<1> DEFINE f == Current
           k == FindSlot(f.stream_id)
<1>1. input # << >> /\ input' = input
  BY Unchanged DEF ProcessData, Dispatch, HeadComplete
<1>2. f \in Frame
  BY <1>1, CurrentType DEF Inv, TypeOK
<1> HIDE DEF f
<1>3. CASE Reject(DataVerdict(f))
  <2>1. DataVerdict(f) \in ErrorCode
    BY ParseType DEF DataVerdict, ErrorCode, H2_OK, H2_PROTOCOL_ERROR,
                     H2_FLOW_CONTROL_ERROR
  <2> QED
    BY <1>1, <1>3, <2>1, RejectStep
<1>4. CASE ~Reject(DataVerdict(f))
  <2>1. /\ DataVerdict(f) = H2_OK
        /\ IF ReceivesData(streams[k]) THEN DataOnStream(f, k)
                                       ELSE DataOnClosedStream(f)
        /\ UNCHANGED <<settingVars, sendVars, last_stream_id, header_block>>
    BY <1>4 DEF ProcessData, f
  <2>2. k # NoSlot /\ ~(conn_recv_window < f.length)
    BY <2>1 DEF DataVerdict, H2_OK, H2_PROTOCOL_ERROR, H2_FLOW_CONTROL_ERROR
  <2>3. k \in Slots
    BY <2>2, FindSlotProp
  <2>4. conn_recv_window >= f.length
    BY <1>2, <2>2, WindowAssumption DEF Inv, TypeOK, RecvType, Frame
  <2> HIDE DEF k
  <2>5. ControlType' /\ Busy' /\ RecvType' /\ OutputType' /\ TableType'
        /\ KeepsIds
    BY <1>1, <1>2, <2>1, <2>3, <2>4, DataOnStreamType, DataOnClosedStreamType
  <2> QED
    BY <2>1, <2>5, Unchanged DEF Inv, StepOK, TypeOK
<1> QED
  BY <1>3, <1>4

(* h2_connection_finish_headers refuses the stream, or gives it a slot that *)
(* can be reused and leaves all windows in range.                           *)
LEMMA FinishHeadersType ==
    ASSUME Inv, input # << >>, input' = input, NEW id \in Nat, NEW flags,
           NEW block \in Seq(HpackItem), FinishHeaders(id, flags, block)
    PROVE  /\ ControlType' /\ Busy' /\ SendType' /\ OutputType'
           /\ allowance' \in [{NoSlot} \cup Slots -> Int]
           /\ last_stream_id' \in Nat /\ streams' \in [Slots -> Stream]
           /\ KeepsIds \/ OpensStream
<1> DEFINE k == GetSlot(id)
           x == ExtractPath(block)
           g == GetStream(id)
           s == [g EXCEPT !.path = x.path]
           h == ReceiveHeaders(s, H2_FLAG_END_STREAM \in flags)
           q == QueueResponse(h.stream, conn_send_window, output_len)
           bad == RejectedStreamId(id)
<1>1. /\ allowance \in [{NoSlot} \cup Slots -> Int] /\ last_stream_id \in Nat
      /\ streams \in [Slots -> Stream] /\ SendType /\ OutputType
  BY DEF Inv, TypeOK, RecvType, TableType
<1>2. H2_PROTOCOL_ERROR \in ErrorCode /\ H2_REFUSED_STREAM \in ErrorCode
  BY DEF ErrorCode
<1>3. CASE bad \/ k = NoSlot
  <2>1. /\ Done(H2_PROTOCOL_ERROR) \/ Done(H2_REFUSED_STREAM)
        /\ UNCHANGED <<last_stream_id, streams, output_len, sendVars, allowance>>
    BY <1>3 DEF FinishHeaders
  <2>2. ControlType' /\ Busy'
    BY <1>2, <2>1, DoneType
  <2>3. KeepsIds
    BY <2>1, Unchanged
  <2> QED
    BY <1>1, <2>1, <2>2, <2>3, Unchanged
<1>4. CASE ~bad /\ k # NoSlot
  <2>1. /\ last_stream_id' = id
        /\ allowance' = [allowance EXCEPT ![k] = H2_DEFAULT_WINDOW_SIZE]
        /\ IF x.ret = H2_OK /\ h.ret = H2_OK
           THEN Respond(k, q, initial_stream_window) /\ Done(q.ret)
           ELSE /\ streams' = [streams EXCEPT ![k] = s]
                /\ credit' = [credit EXCEPT ![k] = initial_stream_window]
                /\ Done(IF x.ret # H2_OK THEN x.ret ELSE h.ret)
                /\ UNCHANGED <<output_len, conn_send_window, responses_sent,
                               wire>>
    BY <1>4 DEF FinishHeaders
  <2>2. k \in Slots /\ Reusable(streams[k]) /\ g \in Stream /\ g.id = id
    BY <1>4, NewStream
  <2>3. x.ret \in ErrorCode /\ x.path \in 0 .. PathCap - 1
    BY ExtractPathType
  <2> HIDE DEF k, g, x
  <2>4. s \in Stream /\ s.id = id
    BY <2>2, <2>3 DEF Stream
  <2> HIDE DEF s
  <2>5. h.ret \in ErrorCode /\ h.stream \in Stream /\ h.stream.id = id
    BY <2>4, ReceiveHeadersType
  <2> HIDE DEF h
  <2>6. /\ conn_send_window \in 0 .. INT32_MAX
        /\ output_len \in 0 .. H2_CONN_OUTPUT_CAP
        /\ initial_stream_window \in Int
    BY WindowAssumption DEF Inv, TypeOK, SendType, OutputType, SettingType
  <2>7. ResponseResult(q, h.stream)
    BY <2>5, <2>6, QueueResponseType
  <2> HIDE DEF q
  <2>8. allowance' \in [{NoSlot} \cup Slots -> Int]
    BY <1>1, <2>1, <2>2, WindowAssumption
  <2>9. CASE x.ret = H2_OK /\ h.ret = H2_OK
    <3>1. Respond(k, q, initial_stream_window) /\ Done(q.ret)
      BY <2>1, <2>9
    <3>2. /\ SendType' /\ OutputType'
          /\ streams' = [streams EXCEPT ![k] = q.stream]
          /\ streams' \in [Slots -> Stream]
      BY <2>2, <2>6, <2>7, <3>1, RespondType
    <3>3. ControlType' /\ Busy'
      BY <2>7, <3>1, DoneType DEF ResponseResult
    <3>4. OpensStream
      <4>1. /\ streams'[k].id = id
            /\ \A j \in Slots \ {k} : streams'[j].id = streams[j].id
        BY <1>1, <2>2, <2>5, <2>7, <3>2 DEF ResponseResult
      <4> QED
        BY <1>4, <2>1, <2>2, <4>1 DEF OpensStream
    <3> QED
      BY <2>1, <2>8, <3>2, <3>3, <3>4
  <2>10. CASE ~(x.ret = H2_OK /\ h.ret = H2_OK)
    <3>1. /\ streams' = [streams EXCEPT ![k] = s]
          /\ credit' = [credit EXCEPT ![k] = initial_stream_window]
          /\ Done(IF x.ret # H2_OK THEN x.ret ELSE h.ret)
          /\ UNCHANGED <<output_len, conn_send_window, responses_sent, wire>>
      BY <2>1, <2>10
    <3>2. SendType' /\ OutputType' /\ streams' \in [Slots -> Stream]
      BY <1>1, <2>2, <2>4, <2>6, <3>1 DEF SendType, OutputType
    <3>3. ControlType' /\ Busy'
      <4>1. (IF x.ret # H2_OK THEN x.ret ELSE h.ret) \in ErrorCode
        BY <2>3, <2>5
      <4> QED
        BY <3>1, <4>1, DoneType
    <3>4. OpensStream
      <4>1. /\ streams'[k].id = id
            /\ \A j \in Slots \ {k} : streams'[j].id = streams[j].id
        BY <1>1, <2>2, <2>4, <3>1
      <4> QED
        BY <1>4, <2>1, <2>2, <4>1 DEF OpensStream
    <3> QED
      BY <2>1, <2>8, <3>2, <3>3, <3>4
  <2> QED
    BY <2>9, <2>10
<1> QED
  BY <1>3, <1>4

(* h2_connection_append_header_block never exceeds its buffer. *)
LEMMA AppendType ==
    ASSUME NEW h \in HeaderBlock, NEW n \in Nat, NEW b \in Seq(HpackItem)
    PROVE  /\ AppendRet(h, n) \in ErrorCode
           /\ AppendHeaderBlock(h, b, n) \in HeaderBlock
<1>1. AppendRet(h, n) \in ErrorCode
  BY DEF AppendRet, ErrorCode
<1>2. CASE AppendRet(h, n) = H2_OK
  <2>1. h.len + n \in 0 .. HeaderBlockCap
    BY <1>2, ConnectionAssumption
       DEF AppendRet, HeaderBlock, H2_OK, H2_COMPRESSION_ERROR
  <2>2. h.block \o b \in Seq(HpackItem)
    BY DEF HeaderBlock
  <2> QED
    BY <1>1, <1>2, <2>1, <2>2 DEF AppendHeaderBlock, HeaderBlock
<1>3. CASE AppendRet(h, n) # H2_OK
  BY <1>1, <1>3 DEF AppendHeaderBlock
<1> QED
  BY <1>2, <1>3

(* HEADERS *)
LEMMA HeadersStep ==
    ASSUME Inv, UNCHANGED feedVars, ProcessHeaders
    PROVE  StepOK
<1> DEFINE f == Current
<1>1. input # << >> /\ input' = input
  BY Unchanged DEF ProcessHeaders, Dispatch, HeadComplete
<1>2. f \in Frame /\ f.stream_id \in Nat /\ f.block \in Seq(HpackItem)
      /\ f.flags \in SUBSET Flag
  BY <1>1, CurrentType DEF Inv, TypeOK
<1> HIDE DEF f
<1>3. CASE Reject(HeadersVerdict(f))
  <2>1. HeadersVerdict(f) \in ErrorCode
    BY ParseType DEF HeadersVerdict, ErrorCode, H2_OK, H2_PROTOCOL_ERROR
  <2> QED
    BY <1>1, <1>3, <2>1, RejectStep
<1>4. CASE ~Reject(HeadersVerdict(f))
  <2>1. /\ HeadersVerdict(f) = H2_OK
        /\ \/ OpenHeaderBlock(f)
           \/ /\ FinishHeaders(f.stream_id, f.flags, f.block)
              /\ UNCHANGED header_block
        /\ UNCHANGED <<settingVars, conn_recv_window>>
    BY <1>4 DEF ProcessHeaders, f
  <2>2. CASE OpenHeaderBlock(f)
    <3> DEFINE h == [open |-> TRUE, stream_id |-> f.stream_id,
                     flags |-> f.flags, block |-> << >>, len |-> 0]
    <3>1. h \in HeaderBlock
      BY <1>2, ConnectionAssumption DEF HeaderBlock
    <3>2. HeaderBlockLen(f) \in Nat
      BY <1>2, <2>1, HeaderBlockLenType DEF HeadersVerdict
    <3>3. /\ header_block' = AppendHeaderBlock(h, f.block, HeaderBlockLen(f))
          /\ Done(AppendRet(h, HeaderBlockLen(f)))
          /\ UNCHANGED <<last_stream_id, streams, output_len, sendVars,
                         allowance>>
      BY <2>2 DEF OpenHeaderBlock
    <3> HIDE DEF h
    <3>4. ControlType' /\ Busy' /\ header_block' \in HeaderBlock
      BY <1>1, <1>2, <3>1, <3>2, <3>3, AppendType, DoneType
    <3>5. TableType' /\ KeepsIds
      BY <3>3, <3>4, Unchanged DEF Inv, TypeOK, TableType
    <3>6. RecvType'
      BY <2>1, <3>3 DEF Inv, TypeOK, RecvType
    <3> QED
      BY <2>1, <3>3, <3>4, <3>5, <3>6, Unchanged DEF Inv, StepOK, TypeOK
  <2>3. CASE FinishHeaders(f.stream_id, f.flags, f.block)
             /\ UNCHANGED header_block
    <3>1. /\ ControlType' /\ Busy' /\ SendType' /\ OutputType'
          /\ allowance' \in [{NoSlot} \cup Slots -> Int]
          /\ last_stream_id' \in Nat /\ streams' \in [Slots -> Stream]
          /\ KeepsIds \/ OpensStream
      BY <1>1, <1>2, <2>3, FinishHeadersType
    <3>2. TableType' /\ RecvType'
      BY <2>1, <2>3, <3>1 DEF Inv, TypeOK, TableType, RecvType
    <3> QED
      BY <2>1, <3>1, <3>2, Unchanged DEF Inv, StepOK, TypeOK
  <2> QED
    BY <2>1, <2>2, <2>3
<1> QED
  BY <1>3, <1>4

(* CONTINUATION *)
LEMMA ContinuationStep ==
    ASSUME Inv, UNCHANGED feedVars, ProcessContinuation
    PROVE  StepOK
<1> DEFINE f == Current
           h == AppendHeaderBlock(header_block, f.block, f.length)
<1>1. input # << >> /\ input' = input
  BY Unchanged DEF ProcessContinuation, Dispatch, HeadComplete
<1>2. f.length \in Nat /\ f.block \in Seq(HpackItem)
  BY <1>1, CurrentType DEF Inv, TypeOK
<1> HIDE DEF f
<1>3. /\ AppendRet(header_block, f.length) \in ErrorCode
      /\ h \in HeaderBlock
  BY <1>2, AppendType DEF Inv, TypeOK, TableType
<1>4. CASE Reject(ContinuationVerdict(f))
  <2>1. ContinuationVerdict(f) \in ErrorCode
    BY <1>3, ParseType DEF ContinuationVerdict, ErrorCode, H2_PROTOCOL_ERROR
  <2> QED
    BY <1>1, <1>4, <2>1, RejectStep
<1>5. CASE ~Reject(ContinuationVerdict(f))
  <2>1. /\ \/ /\ header_block' = h /\ Done(H2_OK)
              /\ UNCHANGED <<last_stream_id, streams, output_len, sendVars,
                             allowance>>
           \/ /\ header_block' = [h EXCEPT !.open = FALSE]
              /\ FinishHeaders(h.stream_id, h.flags, h.block)
        /\ UNCHANGED <<settingVars, conn_recv_window>>
    BY <1>5 DEF ProcessContinuation, f
  <2> HIDE DEF h
  <2>2. CASE /\ header_block' = h /\ Done(H2_OK)
             /\ UNCHANGED <<last_stream_id, streams, output_len, sendVars,
                            allowance>>
    <3>1. ControlType' /\ Busy'
      BY <1>1, <2>2, DoneType DEF ErrorCode
    <3>2. TableType' /\ KeepsIds
      BY <1>3, <2>2, Unchanged DEF Inv, TypeOK, TableType
    <3>3. RecvType'
      BY <2>1, <2>2 DEF Inv, TypeOK, RecvType
    <3> QED
      BY <2>1, <2>2, <3>1, <3>2, <3>3, Unchanged DEF Inv, StepOK, TypeOK
  <2>3. CASE /\ header_block' = [h EXCEPT !.open = FALSE]
             /\ FinishHeaders(h.stream_id, h.flags, h.block)
    <3>1. /\ header_block' \in HeaderBlock
          /\ h.stream_id \in Nat /\ h.block \in Seq(HpackItem)
      BY <1>3, <2>3 DEF HeaderBlock
    <3>2. /\ ControlType' /\ Busy' /\ SendType' /\ OutputType'
          /\ allowance' \in [{NoSlot} \cup Slots -> Int]
          /\ last_stream_id' \in Nat /\ streams' \in [Slots -> Stream]
          /\ KeepsIds \/ OpensStream
      BY <1>1, <2>3, <3>1, FinishHeadersType
    <3>3. TableType' /\ RecvType'
      BY <2>1, <3>1, <3>2 DEF Inv, TypeOK, TableType, RecvType
    <3> QED
      BY <2>1, <3>2, <3>3, Unchanged DEF Inv, StepOK, TypeOK
  <2> QED
    BY <2>1, <2>2, <2>3
<1> QED
  BY <1>4, <1>5

-----------------------------------------------------------------------------
(* One lemma per step of h2_connection_feed around process_frame.          *)

(* feed returns to its caller. *)
LEMMA ReturnType ==
    ASSUME FeedType, NEW r, Return(r)
    PROVE  ControlType' /\ Busy' /\ failed' \in BOOLEAN
<1>1. pc' \in {"closed", "idle"} /\ ret' = H2_OK /\ pos' = 0
  BY DEF Return
<1>2. ControlType' /\ Busy'
  BY <1>1 DEF ControlType, Busy, PC, ErrorCode
<1>3. failed' \in BOOLEAN
  BY Zenon DEF Return
<1> QED
  BY <1>2, <1>3

(* The loop of feed goes on. *)
LEMMA LoopType ==
    ASSUME Goto("frames", 0)
    PROVE  ControlType' /\ Busy'
BY DEF Goto, ControlType, Busy, PC, ErrorCode

LEMMA QueueGoawayType ==
    ASSUME Inv, NEW r \in ErrorCode, QueueGoaway(r)
    PROVE  /\ OutputType' /\ goaway_sent' \in BOOLEAN
           /\ goaway_error' \in ErrorCode /\ goaway_last' \in Nat \cup {-1}
<1>1. /\ output_len \in 0 .. H2_CONN_OUTPUT_CAP /\ last_stream_id \in Nat
      /\ goaway_sent \in BOOLEAN /\ goaway_error \in ErrorCode
      /\ goaway_last \in Nat \cup {-1}
  BY DEF Inv, TypeOK, OutputType, TableType, FeedType
<1>2. QueueLen(output_len, GoawaySize) \in 0 .. H2_CONN_OUTPUT_CAP
  BY <1>1, QueueType DEF GoawaySize, H2_FRAME_HEADER_LEN
<1>3. CASE goaway_sent
  <2>1. UNCHANGED <<goaway_sent, goaway_error, goaway_last, output_len>>
    BY <1>3 DEF QueueGoaway, goawayVars
  <2> QED
    BY <1>1, <2>1 DEF OutputType
<1>4. CASE ~goaway_sent
  <2>1. /\ goaway_sent' = TRUE /\ goaway_error' = r
        /\ output_len' = QueueLen(output_len, GoawaySize)
        /\ goaway_last' = IF Fits(output_len, GoawaySize)
                          THEN last_stream_id ELSE goaway_last
    BY <1>4 DEF QueueGoaway
  <2> QED
    BY <1>1, <1>2, <2>1 DEF OutputType
<1> QED
  BY <1>3, <1>4

(* Taking the head frame out, or keeping it, leaves a sequence of frames. *)
LEMMA InputType ==
    ASSUME Inv, input # << >>, ConsumeFrame \/ KeepFrame
    PROVE  /\ input' \in Seq(Frames) /\ missing' \in Nat
           /\ retried' \in BOOLEAN
<1>1. input \in Seq(Frames) /\ missing \in Nat
  BY DEF Inv, TypeOK, FeedType
<1>2. CASE ConsumeFrame
  <2>1. input' = Tail(input) /\ missing' = missing /\ retried' = FALSE
    BY <1>2 DEF ConsumeFrame
  <2>2. Tail(input) \in Seq(Frames)
    BY <1>1
  <2> QED
    BY <1>1, <2>1, <2>2
<1>3. CASE KeepFrame
  <2>1. input' = input /\ missing' = missing /\ retried' = TRUE
    BY <1>3 DEF KeepFrame
  <2> QED
    BY <1>1, <2>1
<1> QED
  BY <1>2, <1>3

LEMMA FrameDoneStep ==
    ASSUME Inv, FrameDone
    PROVE  StepOK
<1>1. input # << >>
  BY DEF FrameDone, Inv, Busy
<1>2. input' \in Seq(Frames) /\ missing' \in Nat /\ retried' \in BOOLEAN
  BY <1>1, InputType DEF FrameDone
<1>3. FeedType'
  BY <1>2 DEF FrameDone, Inv, TypeOK, FeedType, prefaceVars, goawayVars
<1>4. ControlType' /\ Busy' /\ KeepsIds
  BY LoopType, Unchanged DEF FrameDone, tableVars
<1> QED
  BY <1>3, <1>4, Unchanged DEF FrameDone, Inv, StepOK, TypeOK

LEMMA StreamErrorStep ==
    ASSUME Inv, StreamError
    PROVE  StepOK
<1> DEFINE id == Current.stream_id
           k  == FindSlot(id)
<1>1. input # << >>
  BY DEF StreamError, Inv, Busy
<1>2. /\ \/ /\ Fits(output_len, RstStreamSize)
            /\ output_len' = output_len + RstStreamSize
            /\ streams' = IF k = NoSlot THEN streams
                          ELSE [streams EXCEPT ![k] = StreamClose(@)]
            /\ wire' = [wire EXCEPT ![id] = WireReset(@, k)]
            /\ ConsumeFrame
            /\ Goto("frames", 0)
            /\ UNCHANGED failed
         \/ /\ UNCHANGED <<output_len, streams, wire>>
            /\ KeepFrame
            /\ Return(H2_INTERNAL_ERROR)
      /\ UNCHANGED <<prefaceVars, goawayVars, settingVars, recvVars,
                     conn_send_window, responses_sent, credit,
                     last_stream_id, header_block>>
  BY DEF StreamError
<1>3. input' \in Seq(Frames) /\ missing' \in Nat /\ retried' \in BOOLEAN
  BY <1>1, <1>2, InputType
<1>4. ControlType' /\ Busy' /\ failed' \in BOOLEAN
  BY <1>2, LoopType, ReturnType DEF Inv, TypeOK, FeedType
<1>5. FeedType'
  BY <1>2, <1>3, <1>4 DEF Inv, TypeOK, FeedType, prefaceVars, goawayVars
<1>6. OutputType'
  BY <1>2, OutputAssumption DEF Inv, TypeOK, OutputType, Fits, RstStreamSize,
                                H2_FRAME_HEADER_LEN
<1>7. SendType'
  <2>1. wire \in [StreamIds -> Wire]
    BY DEF Inv, TypeOK, SendType
  <2>2. \A w : WireReset(w, k) \in Wire
    BY DEF WireReset, Wire
  <2>3. wire' \in [StreamIds -> Wire]
    BY <1>2, <2>1, <2>2
  <2> QED
    BY <1>2, <2>3 DEF Inv, TypeOK, SendType
<1>8. TableType' /\ KeepsIds
  <2>1. streams \in [Slots -> Stream]
    BY DEF Inv, TypeOK, TableType
  <2>2. CASE UNCHANGED streams
    BY <1>2, <2>2, Unchanged DEF Inv, TypeOK, TableType
  <2>3. CASE streams' # streams
    <3>1. k # NoSlot /\ streams' = [streams EXCEPT ![k] = StreamClose(@)]
      BY <1>2, <2>3
    <3>2. k \in Slots
      BY <3>1, FindSlotProp
    <3> HIDE DEF k
    <3>3. /\ StreamClose(streams[k]) \in Stream
          /\ StreamClose(streams[k]).id = streams[k].id
      BY <2>1, <3>2, StreamCloseType
    <3>4. streams' = [streams EXCEPT ![k] = StreamClose(streams[k])]
      BY <2>1, <3>1, <3>2
    <3> QED
      BY <1>2, <3>2, <3>3, <3>4, ReplaceSlot
  <2> QED
    BY <2>2, <2>3
<1> QED
  BY <1>2, <1>4, <1>5, <1>6, <1>7, <1>8, Unchanged DEF Inv, StepOK, TypeOK

LEMMA ConnectionErrorStep ==
    ASSUME Inv, ConnectionError
    PROVE  StepOK
<1>1. input # << >> /\ ret \in ErrorCode
  BY DEF ConnectionError, Inv, Busy, TypeOK, ControlType
<1>2. input' \in Seq(Frames) /\ missing' \in Nat /\ retried' \in BOOLEAN
  BY <1>1, InputType DEF ConnectionError
<1>3. ControlType' /\ Busy' /\ failed' \in BOOLEAN
  BY ReturnType DEF ConnectionError, Inv, TypeOK
<1>4. /\ OutputType' /\ goaway_sent' \in BOOLEAN
      /\ goaway_error' \in ErrorCode /\ goaway_last' \in Nat \cup {-1}
  BY <1>1, QueueGoawayType DEF ConnectionError
<1>5. FeedType'
  BY <1>2, <1>3, <1>4 DEF ConnectionError, Inv, TypeOK, FeedType, prefaceVars
<1>6. KeepsIds
  BY Unchanged DEF ConnectionError, tableVars
<1> QED
  BY <1>3, <1>4, <1>5, <1>6, Unchanged DEF ConnectionError, Inv, StepOK, TypeOK

LEMMA FeedDoneStep ==
    ASSUME Inv, FeedDone
    PROVE  StepOK
<1>1. ControlType' /\ Busy' /\ failed' \in BOOLEAN
  BY ReturnType DEF FeedDone, Inv, TypeOK
<1>2. FeedType'
  BY <1>1 DEF FeedDone, Inv, TypeOK, FeedType, prefaceVars, goawayVars, inputVars
<1>3. KeepsIds
  BY Unchanged DEF FeedDone, tableVars
<1> QED
  BY <1>1, <1>2, <1>3, Unchanged DEF FeedDone, Inv, StepOK, TypeOK

(* The preface check. *)
LEMMA CheckPrefaceType ==
    ASSUME Inv, NEW p, CheckPreface(p)
    PROVE  /\ ControlType' /\ Busy' /\ OutputType'
           /\ preface_seen' \in BOOLEAN /\ settings_sent' \in BOOLEAN
           /\ goaway_sent' \in BOOLEAN /\ goaway_error' \in ErrorCode
           /\ goaway_last' \in Nat \cup {-1} /\ failed' \in BOOLEAN
<1>1. /\ FeedType /\ OutputType
      /\ preface_seen \in BOOLEAN /\ settings_sent \in BOOLEAN
      /\ goaway_sent \in BOOLEAN /\ goaway_error \in ErrorCode
      /\ goaway_last \in Nat \cup {-1} /\ failed \in BOOLEAN
  BY DEF Inv, TypeOK, FeedType
<1>2. CASE Goto("frames", 0) /\ UNCHANGED <<preface_seen, settings_sent,
                                    goawayVars, output_len, failed>>
  BY <1>1, <1>2, LoopType DEF goawayVars, OutputType
<1>3. CASE /\ UNCHANGED <<preface_seen, settings_sent, goawayVars, output_len>>
           /\ Return(H2_OK)
  <2>1. ControlType' /\ Busy' /\ failed' \in BOOLEAN
    BY <1>1, <1>3, ReturnType
  <2> QED
    BY <1>1, <1>3, <2>1 DEF goawayVars, OutputType
<1>4. CASE /\ UNCHANGED <<preface_seen, settings_sent>>
           /\ QueueGoaway(H2_PROTOCOL_ERROR) /\ Return(H2_PROTOCOL_ERROR)
  <2>1. ControlType' /\ Busy' /\ failed' \in BOOLEAN
    BY <1>1, <1>4, ReturnType
  <2>2. H2_PROTOCOL_ERROR \in ErrorCode
    BY DEF ErrorCode
  <2>3. /\ OutputType' /\ goaway_sent' \in BOOLEAN
        /\ goaway_error' \in ErrorCode /\ goaway_last' \in Nat \cup {-1}
    BY <1>4, <2>2, QueueGoawayType
  <2> QED
    BY <1>1, <1>4, <2>1, <2>3
<1>5. CASE /\ preface_seen' = TRUE
           /\ output_len' = QueueLen(output_len, SettingsSize)
           /\ settings_sent' = Fits(output_len, SettingsSize)
           /\ IF Fits(output_len, SettingsSize)
              THEN Goto("frames", 0) /\ UNCHANGED failed
              ELSE Return(H2_INTERNAL_ERROR)
           /\ UNCHANGED goawayVars
  <2>1. ControlType' /\ Busy' /\ failed' \in BOOLEAN
    BY <1>1, <1>5, ReturnType, LoopType
  <2>2. OutputType'
    BY <1>1, <1>5, QueueType DEF OutputType, SettingsSize, H2_FRAME_HEADER_LEN
  <2>3. settings_sent' \in BOOLEAN
    <3>1. CASE Fits(output_len, SettingsSize)
      BY <1>5, <3>1 DEF Fits
    <3>2. CASE ~Fits(output_len, SettingsSize)
      BY <1>5, <3>2 DEF Fits
    <3> QED
      BY <3>1, <3>2
  <2> QED
    BY <1>1, <1>5, <2>1, <2>2, <2>3 DEF goawayVars
<1> QED
  BY <1>2, <1>3, <1>4, <1>5 DEF CheckPreface

(* A call of h2_connection_feed, until its loop. *)
LEMMA FeedCallStep ==
    ASSUME Inv, NEW n, NEW inp \in Seq(Frames), NEW miss \in Nat,
           NEW p \in Preface, Feed(n, inp, miss, p)
    PROVE  StepOK
<1>1. UNCHANGED <<settingVars, sendVars, recvVars, tableVars, retried>>
  BY DEF Feed
<1>2. ControlType' /\ Busy' /\ FeedType' /\ OutputType'
  <2>1. CASE /\ UNCHANGED <<prefaceVars, goawayVars, input, missing, output_len>>
             /\ Return(H2_INTERNAL_ERROR)
    <3>1. ControlType' /\ Busy' /\ failed' \in BOOLEAN
      BY <2>1, ReturnType DEF Inv, TypeOK
    <3> QED
      BY <1>1, <2>1, <3>1
         DEF Inv, TypeOK, FeedType, OutputType, prefaceVars, goawayVars
  <2>2. CASE /\ input' = inp /\ missing' = miss /\ preface' = p
             /\ CheckPreface(p)
    <3>1. /\ ControlType' /\ Busy' /\ OutputType'
          /\ preface_seen' \in BOOLEAN /\ settings_sent' \in BOOLEAN
          /\ goaway_sent' \in BOOLEAN /\ goaway_error' \in ErrorCode
          /\ goaway_last' \in Nat \cup {-1} /\ failed' \in BOOLEAN
      BY <2>2, CheckPrefaceType
    <3> QED
      BY <1>1, <2>2, <3>1 DEF Inv, TypeOK, FeedType
  <2> QED
    BY <2>1, <2>2 DEF Feed
<1>3. KeepsIds
  BY <1>1, Unchanged DEF tableVars
<1> QED
  BY <1>1, <1>2, <1>3, Unchanged DEF Inv, StepOK, TypeOK

LEMMA FeedBytesStep ==
    ASSUME Inv, FeedPreface \/ FeedFrame \/ FeedRest
    PROVE  StepOK
<1>1. input \in Seq(Frames) /\ missing \in Nat /\ preface \in Preface
  BY DEF Inv, TypeOK, FeedType
<1>2. CASE FeedPreface
  <2>1. PICK p \in Preface \ {"none", preface} :
          Feed(PrefaceBytes(p) - PrefaceBytes(preface), input, missing, p)
    BY <1>2 DEF FeedPreface
  <2> QED
    BY <1>1, <2>1, FeedCallStep
<1>3. CASE FeedFrame
  <2>1. PICK f \in Frames, cut \in Cuts :
          Feed(WholeLen(f) - cut, Append(input, f), cut, preface)
    BY <1>3 DEF FeedFrame
  <2>2. Append(input, f) \in Seq(Frames) /\ cut \in Nat
    BY <1>1, ConnectionAssumption
  <2> QED
    BY <1>1, <2>1, <2>2, FeedCallStep
<1>4. CASE FeedRest
  BY <1>1, <1>4, FeedCallStep DEF FeedRest
<1> QED
  BY <1>2, <1>3, <1>4

(* write() takes some of the output. *)
LEMMA WriteStep ==
    ASSUME Inv, Write
    PROVE  StepOK
<1>1. PICK n \in WriteSizes :
         output_len' = IF n > output_len THEN 0 ELSE output_len - n
  BY DEF Write
<1>2. OutputType'
  BY <1>1, ConnectionAssumption, OutputAssumption DEF Inv, TypeOK, OutputType
<1>3. UNCHANGED <<control, feedVars, settingVars, sendVars, recvVars, tableVars>>
  BY DEF Write
<1>4. ControlType' /\ Busy'
  BY <1>3, Unchanged DEF Inv, TypeOK, ControlType, Busy, control
<1>5. KeepsIds
  BY <1>3, Unchanged DEF tableVars
<1> QED
  BY <1>2, <1>3, <1>4, <1>5, Unchanged DEF Inv, StepOK, TypeOK

LEMMA StutterStep ==
    ASSUME Inv, UNCHANGED vars
    PROVE  StepOK
<1>1. UNCHANGED <<control, feedVars, settingVars, sendVars, recvVars, tableVars,
                  output_len>>
  BY DEF vars
<1>2. ControlType' /\ Busy'
  BY <1>1, Unchanged DEF Inv, TypeOK, ControlType, Busy, control
<1>3. KeepsIds
  BY <1>1, Unchanged DEF tableVars
<1> QED
  BY <1>1, <1>2, <1>3, Unchanged DEF Inv, StepOK, TypeOK

(* Every step of the connection. *)
LEMMA NextStep ==
    ASSUME Inv, [Next]_vars
    PROVE  StepOK
<1>1. CASE ProcessFrame
  BY <1>1, RejectFrameStep, DataStep, HeadersStep, ContinuationStep,
     CheckOnlyStep, RstStreamStep, PingStep, SettingsStep, ApplySettingStep,
     AcknowledgeStep, WindowUpdateStep, FlushStep
     DEF ProcessFrame
<1>2. CASE FrameDone \/ StreamError \/ ConnectionError \/ FeedDone
  BY <1>2, FrameDoneStep, StreamErrorStep, ConnectionErrorStep, FeedDoneStep
<1>3. CASE FeedPreface \/ FeedFrame \/ FeedRest
  BY <1>3, FeedBytesStep
<1>4. CASE Write
  BY <1>4, WriteStep
<1>5. CASE UNCHANGED vars
  BY <1>5, StutterStep
<1> QED
  BY <1>1, <1>2, <1>3, <1>4, <1>5 DEF Next, FeedStep, Closed

(* The stream table survives both kinds of step: a new id is above every   *)
(* id in the table, odd, and not zero.                                     *)
LEMMA TableStep ==
    ASSUME Inv, StepOK
    PROVE  StreamTable'
<1>1. /\ \A k \in Slots : streams[k].id \in Nat /\ streams'[k].id \in Nat
      /\ last_stream_id \in Nat /\ last_stream_id' \in Nat
  BY DEF Inv, StepOK, TypeOK, TableType, Stream
<1>2. CASE KeepsIds
  BY <1>1, <1>2 DEF Inv, StreamTable, KeepsIds, Tracked
<1>3. CASE OpensStream
  <2>1. PICK k \in Slots, id \in Nat :
          /\ ~RejectedStreamId(id) /\ last_stream_id' = id
          /\ streams'[k].id = id
          /\ \A j \in Slots \ {k} : streams'[j].id = streams[j].id
    BY <1>3 DEF OpensStream
  <2>2. id % 2 = 1 /\ id > last_stream_id
    BY <1>1, <2>1 DEF RejectedStreamId
  <2>3. \A j \in Slots \ {k} : streams'[j].id < id
    BY <1>1, <2>1, <2>2 DEF Inv, StreamTable
  <2>4. \A i, j \in Slots :
          Tracked(streams'[i]) /\ streams'[i].id = streams'[j].id => i = j
    BY <1>1, <2>1, <2>3 DEF Inv, StreamTable, Tracked
  <2>5. \A j \in Slots : /\ streams'[j].id <= last_stream_id'
                         /\ Tracked(streams'[j]) => streams'[j].id % 2 = 1
    BY <1>1, <2>1, <2>2, <2>3 DEF Inv, StreamTable, Tracked
  <2> QED
    BY <2>4, <2>5 DEF StreamTable
<1> QED
  BY <1>2, <1>3 DEF StepOK

-----------------------------------------------------------------------------
(* Whatever the peer sends and however writes interleave with it, the      *)
(* inductive invariant holds.                                              *)
THEOREM Invariance == Spec => []Inv
<1>1. Inv /\ [Next]_vars => Inv'
  BY NextStep, TableStep DEF StepOK, Inv
<1> QED
  BY <1>1, InitInv, PTL DEF Spec

(* Every window of connection.c and stream.c keeps to the range of its     *)
(* int32_t, no receive window is negative and no buffer exceeds its        *)
(* capacity, for any frames, sizes and number of slots.                    *)
THEOREM TypeCorrect == Spec => []TypeOK
<1>1. Inv => TypeOK
  BY DEF Inv
<1> QED
  BY <1>1, Invariance, PTL

(* h2_connection_find_stream has one answer for an id, and every tracked   *)
(* stream is a client stream that last_stream_id covers.                   *)
THEOREM TableCorrect == Spec => []StreamTable
<1>1. Inv => StreamTable
  BY DEF Inv
<1> QED
  BY <1>1, Invariance, PTL

(* h2_connection_get_stream never evicts a live stream and never gives a   *)
(* slot to an id that is not above every earlier one.                      *)
THEOREM ReuseCorrect == Spec => SlotReuse
<1> DEFINE Reuse == \A k \in Slots : streams'[k].id # streams[k].id =>
                       ~Live(streams[k]) /\ streams'[k].id > last_stream_id
<1>1. Inv /\ [Next]_vars => [Reuse]_vars
  <2> SUFFICES ASSUME Inv, [Next]_vars PROVE Reuse
    OBVIOUS
  <2>1. KeepsIds \/ OpensStream
    BY NextStep DEF StepOK
  <2>2. CASE KeepsIds
    BY <2>2 DEF KeepsIds
  <2>3. CASE OpensStream
    <3>1. PICK k \in Slots, id \in Nat :
            /\ ~RejectedStreamId(id)
            /\ Reusable(streams[k]) /\ streams'[k].id = id
            /\ \A j \in Slots \ {k} : streams'[j].id = streams[j].id
      BY <2>3 DEF OpensStream
    <3>2. last_stream_id \in Nat
      BY DEF Inv, TypeOK, TableType
    <3>3. id > last_stream_id
      BY <3>1, <3>2 DEF RejectedStreamId
    <3>4. ~Live(streams[k])
      BY <3>1 DEF Reusable, Live, Tracked
    <3> QED
      BY <3>1, <3>3, <3>4
  <2> QED
    BY <2>1, <2>2, <2>3
<1> QED
  BY <1>1, Invariance, PTL DEF Spec, SlotReuse
=============================================================================
