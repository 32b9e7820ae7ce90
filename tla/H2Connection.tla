---------------------------- MODULE H2Connection ----------------------------
(***************************************************************************)
(* One HTTP/2 server connection (connection.c, connection.h), driven by    *)
(* the client loop of server.c: bytes from the peer go into                *)
(* h2_connection_feed, queued output leaves through                        *)
(* h2_connection_consume_output, and the client slot is closed and used    *)
(* again for a new connection.                                             *)
(*                                                                         *)
(* The server has one thread, so a call of h2_connection_feed is never     *)
(* interrupted: while pc is not "idle" or "closed" only the steps of that  *)
(* call are enabled.  The call is split into steps (one per frame handler, *)
(* one per setting of a SETTINGS frame, one per deferred response that is  *)
(* flushed, one for the result of a handler) so that each early return of  *)
(* the code leaves exactly the state that the code leaves.                 *)
(*                                                                         *)
(* The peer sends any frames of the set Frames in any order.  A frame may  *)
(* arrive in two pieces.  Several frames in one segment behave as the same *)
(* frames in consecutive segments without a write between them, so a call  *)
(* of feed brings at most one frame.                                       *)
(*                                                                         *)
(* A frame whose handler fails with a connection error stays in the input  *)
(* buffer, and server.c keeps the connection while output is pending: the  *)
(* next call of feed processes that frame again.                           *)
(***************************************************************************)
EXTENDS H2Response, Functions

CONSTANTS
    Frames,               \* the frames that the peer may send
    Cuts,                 \* how many bytes of a frame its first piece lacks
    WriteSizes,           \* how many bytes one write() may take
    H2_CONN_MAX_STREAMS,  \* 128 in connection.h
    H2_CONN_INPUT_CAP,    \* 131072 in connection.h
    HeaderBlockCap        \* sizeof(conn->header_block), 65536

(* Frames are records of the frame layer with 31-bit fields as the parsers *)
(* read them; a SETTINGS payload holds length / 6 settings; a frame that   *)
(* carries no header-block bytes carries no HPACK instruction.             *)
WellFormed(f) ==
    /\ f \in Frame
    /\ f.type = H2_FRAME_SETTINGS => Len(f.settings) = f.length \div 6
    /\ f.length = 0 => f.block = << >>

ASSUME FramesAssumption == \A f \in Frames : WellFormed(f)

ASSUME ConnectionAssumption ==
    /\ H2_CONN_MAX_STREAMS \in Nat \ {0}
    /\ H2_CONN_INPUT_CAP \in Nat
    /\ HeaderBlockCap \in Nat
    /\ Cuts \subseteq Nat
    /\ WriteSizes \subseteq Nat \ {0}

Slots     == 1 .. H2_CONN_MAX_STREAMS  \* slot k is conn->streams[k - 1]
NoSlot    == 0
StreamIds == {f.stream_id : f \in Frames}

VARIABLES
    \* where the server is: outside feed, or in a step of a call of feed
    pc,                     \* see PC below
    ret,                    \* what h2_connection_process_frame returned
    pos,                    \* loop index of the settings or flush loop
    \* struct h2_connection
    preface,                \* the first 24 input bytes, see Preface below
    preface_seen, settings_sent,
    goaway_sent, goaway_error,
    last_stream_id, max_frame_size, initial_stream_window,
    conn_send_window, conn_recv_window, responses_sent,
    header_block,           \* header_block_open, _stream_id, _flags, block, _len
    streams,
    input,                  \* the frames in conn->input, the head first
    missing,                \* bytes of the last of them still to arrive
    output_len,
    \* history, not in the code
    credit,                 \* DATA bytes the peer's grants leave the server
    allowance,              \* DATA bytes the server's grants leave the peer
    retried,                \* the head frame was processed by an earlier call
    failed,                 \* some call of feed returned an error
    wire,                   \* what was queued for each stream id
    goaway_last             \* last stream id of the queued GOAWAY, or -1

PC      == {"idle", "frames", "settings", "flush", "result", "closed"}
Preface == {"none", "part", "good", "bad"}
Wire    == {"none", "refused", "headers", "reopened", "done", "reset", "bad"}

control     == <<pc, ret, pos>>
prefaceVars == <<preface, preface_seen, settings_sent>>
goawayVars  == <<goaway_sent, goaway_error, goaway_last>>
inputVars   == <<input, missing, retried>>
feedVars    == <<prefaceVars, goawayVars, inputVars, failed>>
settingVars == <<max_frame_size, initial_stream_window>>
sendVars    == <<conn_send_window, responses_sent, credit, wire>>
recvVars    == <<conn_recv_window, allowance>>
tableVars   == <<last_stream_id, header_block, streams>>
vars == <<control, feedVars, settingVars, sendVars, recvVars, tableVars,
          output_len>>

NoHeaderBlock == [open |-> FALSE, stream_id |-> 0, flags |-> {},
                  block |-> << >>, len |-> 0]

(* h2_connection_init *)
Init ==
    /\ pc = "idle" /\ ret = H2_OK /\ pos = 0
    /\ preface = "none" /\ preface_seen = FALSE /\ settings_sent = FALSE
    /\ goaway_sent = FALSE /\ goaway_error = H2_OK
    /\ last_stream_id = 0
    /\ max_frame_size = H2_DEFAULT_MAX_FRAME_SIZE
    /\ initial_stream_window = H2_DEFAULT_WINDOW_SIZE
    /\ conn_send_window = H2_DEFAULT_WINDOW_SIZE
    /\ conn_recv_window = H2_DEFAULT_WINDOW_SIZE
    /\ responses_sent = 0
    /\ header_block = NoHeaderBlock
    /\ streams = [k \in Slots |-> FreeSlot]
    /\ input = << >> /\ missing = 0 /\ output_len = 0
    /\ credit = [k \in {NoSlot} \cup Slots |-> H2_DEFAULT_WINDOW_SIZE]
    /\ allowance = [k \in {NoSlot} \cup Slots |-> H2_DEFAULT_WINDOW_SIZE]
    /\ retried = FALSE /\ failed = FALSE
    /\ wire = [i \in StreamIds |-> "none"]
    /\ goaway_last = -1

-----------------------------------------------------------------------------
(* h2_connection_queue_goaway: goaway_sent is set before the bytes are     *)
(* queued, whether or not they fit.                                        *)
QueueGoaway(error_code) ==
    IF goaway_sent THEN UNCHANGED <<goawayVars, output_len>>
    ELSE /\ goaway_sent' = TRUE
         /\ goaway_error' = error_code
         /\ output_len' = QueueLen(output_len, GoawaySize)
         /\ goaway_last' = IF Fits(output_len, GoawaySize)
                           THEN last_stream_id ELSE goaway_last

Goto(label, p) == pc' = label /\ ret' = H2_OK /\ pos' = p

(* A handler of h2_connection_process_frame returns r. *)
Done(r) == pc' = "result" /\ ret' = r /\ pos' = 0

(* h2_connection_feed returns r to h2_read_client, which closes the client *)
(* on an error unless output is pending.                                   *)
Return(r) ==
    /\ pc' = IF r # H2_OK /\ output_len' = 0 THEN "closed" ELSE "idle"
    /\ ret' = H2_OK /\ pos' = 0
    /\ failed' = (failed \/ r # H2_OK)

-----------------------------------------------------------------------------
(* The stream table. *)
Tracked(s)  == s.id # 0
Live(s)     == Tracked(s) /\ s.state # "CLOSED"
FirstSlot(S) == IF S = {} THEN NoSlot ELSE First(S)

FindSlot(stream_id) == FirstSlot({k \in Slots : streams[k].id = stream_id})

ReusableEarly(s) == s.id = 0 \/ s.state \in {"CLOSED", "HALF_CLOSED_LOCAL"}  \* mutant
Reusable(s) == s.id = 0 \/ s.state = "CLOSED"

(* h2_connection_get_stream: the slot, and the stream it then holds *)
GetSlot(stream_id) ==
    IF FindSlot(stream_id) # NoSlot THEN FindSlot(stream_id)
    ELSE FirstSlot({k \in Slots : Reusable(streams[k])})

GetStream(stream_id) ==
    IF FindSlot(stream_id) # NoSlot THEN streams[FindSlot(stream_id)]
    ELSE StreamInit(stream_id, initial_stream_window)

-----------------------------------------------------------------------------
(* Responses.  What was queued on a stream id, as the peer will see it. *)
WireHeaders(w) == CASE w = "none"    -> "headers"
                    [] w = "refused" -> "reopened"
                    [] OTHER         -> "bad"
WireData(w)    == IF w \in {"headers", "reopened"} THEN "done" ELSE "bad"
(* RST_STREAM: a refusal if nothing was ever opened for the id. *)
WireReset(w, k) == CASE w = "bad" -> "bad"
                     [] w \in {"none", "refused"} /\ k = NoSlot -> "refused"
                     [] OTHER -> "reset"

WireResponse(w, q) ==
    LET h == IF q.headers THEN WireHeaders(w) ELSE w
    IN  IF q.data THEN WireData(h) ELSE h

(* The connection after queue_response on slot k gave q; base is the       *)
(* peer's view of the stream's window before it.                           *)
Respond(k, q, base) ==
    LET spent == conn_send_window - q.send_window
    IN  /\ streams' = [streams EXCEPT ![k] = q.stream]
        /\ conn_send_window' = q.send_window
        /\ output_len' = q.output_len
        /\ responses_sent' = responses_sent + (IF q.data THEN 1 ELSE 0)
        /\ wire' = [wire EXCEPT ![q.stream.id] = WireResponse(@, q)]
        /\ credit' = [credit EXCEPT ![NoSlot] = @ - spent,
                                    ![k] = base - spent]

-----------------------------------------------------------------------------
(* h2_connection_process_frame: the frame at the head of the input, once   *)
(* it has arrived whole.                                                   *)
HeadComplete == input # << >> /\ (Len(input) > 1 \/ missing = 0)
Current      == Head(input)

(* Mutant: other frames are admitted inside a header block. *)
AdmissionAnyTime(f) ==
    IF f.length > max_frame_size THEN H2_FRAME_SIZE_ERROR ELSE H2_OK

(* The two checks before the switch on the frame type. *)
Admission(f) ==
    IF f.length > max_frame_size THEN H2_FRAME_SIZE_ERROR
    ELSE IF /\ header_block.open
            /\ \/ f.type # H2_FRAME_CONTINUATION
               \/ f.stream_id # header_block.stream_id
         THEN H2_PROTOCOL_ERROR
    ELSE H2_OK

Dispatch == pc = "frames" /\ HeadComplete /\ Admission(Current) = H2_OK

(* The handler returns r and has changed nothing. *)
ReturnOnly(r) ==
    /\ Done(r)
    /\ UNCHANGED <<settingVars, sendVars, recvVars, tableVars, output_len>>

(* An early return with an error code. *)
Reject(r) == r # H2_OK /\ ReturnOnly(r)

RejectFrame ==
    /\ pc = "frames" /\ HeadComplete
    /\ Reject(Admission(Current))

-----------------------------------------------------------------------------
(* DATA. *)

(* What the peer may send after n bytes of DATA that left w bytes of the   *)
(* window, and refresh r of it; not followed once a call has failed.       *)
Granted(old, n, w, r) ==
    IF failed THEN old
    ELSE old - n + (IF r.ret = H2_OK THEN r.window - w ELSE 0)

(* Checks that return before any window is charged. *)
DataVerdict(f) ==
    IF ParseData(f) # H2_OK THEN ParseData(f)
    ELSE IF FindSlot(f.stream_id) = NoSlot THEN H2_PROTOCOL_ERROR
    ELSE IF conn_recv_window < f.length THEN H2_FLOW_CONTROL_ERROR
    ELSE H2_OK

(* DATA on a stream that takes none: charged to the connection, and the    *)
(* result of the refresh is ignored.                                       *)
DataOnClosedUncharged(f) ==  \* mutant: such DATA is not charged
    /\ allowance' = IF failed THEN allowance
                    ELSE [allowance EXCEPT ![NoSlot] = @ - f.length]
    /\ Done(H2_STREAM_CLOSED)
    /\ UNCHANGED <<streams, output_len, conn_recv_window>>

DataOnClosedStream(f) ==
    LET w == conn_recv_window - f.length
        r == Refresh(w, output_len)
    IN  /\ conn_recv_window' = r.window
        /\ output_len' = r.output_len
        /\ allowance' = [allowance EXCEPT ![NoSlot] = Granted(@, f.length, w, r)]
        /\ Done(H2_STREAM_CLOSED)
        /\ UNCHANGED streams

DataOnStream(f, k) ==
    LET w == conn_recv_window - f.length
        d == ReceiveData(streams[k], f.length, H2_FLAG_END_STREAM \in f.flags)
        s == d.stream
        r == Refresh(w, output_len)
        q == Refresh(s.recv_window, r.output_len)
        refreshStream == r.ret = H2_OK /\ s.state # "CLOSED"
    IN  \/ /\ d.ret # H2_OK
           /\ conn_recv_window' = w
           /\ Done(d.ret)
           /\ UNCHANGED <<streams, output_len, allowance>>
        \/ /\ d.ret = H2_OK /\ ~refreshStream
           /\ conn_recv_window' = r.window
           /\ output_len' = r.output_len
           /\ streams' = [streams EXCEPT ![k] = s]
           /\ allowance' = [allowance EXCEPT
                               ![NoSlot] = Granted(@, f.length, w, r)]
           /\ Done(r.ret)
        \/ /\ d.ret = H2_OK /\ refreshStream
           /\ conn_recv_window' = r.window
           /\ output_len' = q.output_len
           /\ streams' = [streams EXCEPT ![k].state = s.state,
                                         ![k].recv_window = q.window]
           /\ allowance' = [allowance EXCEPT
                               ![NoSlot] = Granted(@, f.length, w, r),
                               ![k] = Granted(@, f.length, s.recv_window, q)]
           /\ Done(q.ret)

ProcessData ==
    LET f == Current
        k == FindSlot(f.stream_id)
    IN  /\ Dispatch /\ f.type = H2_FRAME_DATA
        /\ \/ Reject(DataVerdict(f))
           \/ /\ DataVerdict(f) = H2_OK
              /\ IF ReceivesData(streams[k]) THEN DataOnStream(f, k)
                                             ELSE DataOnClosedStream(f)
              /\ UNCHANGED <<settingVars, sendVars, last_stream_id,
                             header_block>>

-----------------------------------------------------------------------------
(* HEADERS and CONTINUATION.                                               *)

(* Only odd ids above every earlier one. *)
EvenStreamId(stream_id)    == stream_id % 2 = 0  \* mutant: the order is not checked
RejectedStreamId(stream_id) == stream_id % 2 = 0 \/ stream_id <= last_stream_id

(* h2_connection_finish_headers.  A stream that is refused because the     *)
(* table is full does not advance last_stream_id; one whose header block   *)
(* does not decode does, and keeps its slot in state IDLE.                 *)
FinishHeaders(stream_id, flags, block) ==
    LET k == GetSlot(stream_id)
        x == ExtractPath(block)
        s == [GetStream(stream_id) EXCEPT !.path = x.path]
        h == ReceiveHeaders(s, H2_FLAG_END_STREAM \in flags)
        q == QueueResponse(h.stream, conn_send_window, output_len)
        bad == RejectedStreamId(stream_id)
    IN  \/ /\ bad
           /\ Done(H2_PROTOCOL_ERROR)
           /\ UNCHANGED <<last_stream_id, streams, output_len, sendVars,
                          allowance>>
        \/ /\ ~bad /\ k = NoSlot
           /\ Done(H2_REFUSED_STREAM)
           /\ UNCHANGED <<last_stream_id, streams, output_len, sendVars,
                          allowance>>
        \/ /\ ~bad /\ k # NoSlot
           /\ last_stream_id' = stream_id
           /\ allowance' = [allowance EXCEPT ![k] = H2_DEFAULT_WINDOW_SIZE]
           /\ IF x.ret = H2_OK /\ h.ret = H2_OK
              THEN Respond(k, q, initial_stream_window) /\ Done(q.ret)
              ELSE /\ streams' = [streams EXCEPT ![k] = s]
                   /\ credit' = [credit EXCEPT ![k] = initial_stream_window]
                   /\ Done(IF x.ret # H2_OK THEN x.ret ELSE h.ret)
                   /\ UNCHANGED <<output_len, conn_send_window,
                                  responses_sent, wire>>

(* h2_connection_append_header_block *)
AppendRet(h, n) == IF n > HeaderBlockCap - h.len THEN H2_COMPRESSION_ERROR
                                                 ELSE H2_OK
AppendHeaderBlock(h, block, n) ==
    IF AppendRet(h, n) = H2_OK
    THEN [h EXCEPT !.block = @ \o block, !.len = @ + n]
    ELSE h

EndHeaders(f) == H2_FLAG_END_HEADERS \in f.flags

HeadersVerdict(f) ==
    IF ParseHeaders(f) # H2_OK THEN ParseHeaders(f)
    ELSE IF ~EndHeaders(f) /\ header_block.open THEN H2_PROTOCOL_ERROR
    ELSE H2_OK

OpenHeaderBlock(f) ==
    LET h == [open |-> TRUE, stream_id |-> f.stream_id, flags |-> f.flags,
              block |-> << >>, len |-> 0]
    IN  /\ header_block' = AppendHeaderBlock(h, f.block, HeaderBlockLen(f))
        /\ Done(AppendRet(h, HeaderBlockLen(f)))
        /\ UNCHANGED <<last_stream_id, streams, output_len, sendVars,
                       allowance>>

ProcessHeaders ==
    LET f == Current
    IN  /\ Dispatch /\ f.type = H2_FRAME_HEADERS
        /\ \/ Reject(HeadersVerdict(f))
           \/ /\ HeadersVerdict(f) = H2_OK
              /\ \/ /\ ~EndHeaders(f)
                    /\ OpenHeaderBlock(f)
                 \/ /\ EndHeaders(f)
                    /\ FinishHeaders(f.stream_id, f.flags, f.block)
                    /\ UNCHANGED header_block
              /\ UNCHANGED <<settingVars, conn_recv_window>>

ContinuationVerdict(f) ==
    IF ~header_block.open \/ f.stream_id # header_block.stream_id
    THEN H2_PROTOCOL_ERROR
    ELSE IF ParseContinuation(f) # H2_OK THEN ParseContinuation(f)
    ELSE AppendRet(header_block, f.length)

ProcessContinuation ==
    LET f == Current
        h == AppendHeaderBlock(header_block, f.block, f.length)
    IN  /\ Dispatch /\ f.type = H2_FRAME_CONTINUATION
        /\ \/ Reject(ContinuationVerdict(f))
           \/ /\ ContinuationVerdict(f) = H2_OK
              /\ \/ /\ ~EndHeaders(f)
                    /\ header_block' = h
                    /\ Done(H2_OK)
                    /\ UNCHANGED <<last_stream_id, streams, output_len,
                                   sendVars, allowance>>
                 \/ /\ EndHeaders(f)
                    /\ header_block' = [h EXCEPT !.open = FALSE]
                    /\ FinishHeaders(h.stream_id, h.flags, h.block)
              /\ UNCHANGED <<settingVars, conn_recv_window>>

-----------------------------------------------------------------------------
(* Frames whose handlers only check them. *)
ProcessPriority ==
    /\ Dispatch /\ Current.type = H2_FRAME_PRIORITY
    /\ ReturnOnly(ParsePriority(Current))

ProcessPushPromise ==
    /\ Dispatch /\ Current.type = H2_FRAME_PUSH_PROMISE
    /\ ReturnOnly(H2_PROTOCOL_ERROR)

ProcessGoaway ==
    /\ Dispatch /\ Current.type = H2_FRAME_GOAWAY
    /\ ReturnOnly(ValidatePayload(Current))

ProcessUnknown ==
    /\ Dispatch /\ Current.type > H2_FRAME_CONTINUATION
    /\ ReturnOnly(H2_OK)

(* RST_STREAM: an untracked stream is idle unless it is odd and not above  *)
(* last_stream_id.                                                         *)
RstVerdict(f) ==
    IF ParseRstStream(f) # H2_OK THEN ParseRstStream(f)
    ELSE IF FindSlot(f.stream_id) # NoSlot THEN H2_OK
    ELSE IF f.stream_id % 2 = 0 \/ f.stream_id > last_stream_id
         THEN H2_PROTOCOL_ERROR
    ELSE H2_OK

ProcessRstStream ==
    LET f == Current
        k == FindSlot(f.stream_id)
    IN  /\ Dispatch /\ f.type = H2_FRAME_RST_STREAM
        /\ \/ Reject(RstVerdict(f))
           \/ /\ RstVerdict(f) = H2_OK
              /\ streams' = IF k = NoSlot THEN streams
                            ELSE [streams EXCEPT ![k] = StreamClose(@)]
              /\ Done(H2_OK)
              /\ UNCHANGED <<settingVars, sendVars, recvVars, last_stream_id,
                             header_block, output_len>>

ProcessPing ==
    LET f == Current
    IN  /\ Dispatch /\ f.type = H2_FRAME_PING
        /\ \/ Reject(ParsePing(f))
           \/ /\ ParsePing(f) = H2_OK /\ H2_FLAG_ACK \in f.flags
              /\ ReturnOnly(H2_OK)
           \/ /\ ParsePing(f) = H2_OK /\ H2_FLAG_ACK \notin f.flags
              /\ output_len' = QueueLen(output_len, PingSize)
              /\ Done(QueueRet(output_len, PingSize))
              /\ UNCHANGED <<settingVars, sendVars, recvVars, tableVars>>

-----------------------------------------------------------------------------
(* SETTINGS: h2_connection_apply_settings, one step per setting. *)
ProcessSettings ==
    LET f == Current
    IN  /\ Dispatch /\ f.type = H2_FRAME_SETTINGS
        /\ \/ Reject(ParseSettings(f))
           \/ /\ ParseSettings(f) = H2_OK /\ H2_FLAG_ACK \in f.flags
              /\ ReturnOnly(H2_OK)
           \/ /\ ParseSettings(f) = H2_OK /\ H2_FLAG_ACK \notin f.flags
              /\ Goto("settings", 1)
              /\ UNCHANGED <<settingVars, sendVars, recvVars, tableVars,
                             output_len>>

(* SETTINGS_INITIAL_WINDOW_SIZE moves the send window of every live stream *)
(* by the same amount, slot by slot, and stops at the first that leaves    *)
(* the range of int32_t: the slots before it stay changed.                 *)
LiveSlots == {k \in Slots : Live(streams[k])}
NeverOverflowing(delta) == {}  \* mutant: no range check
Overflowing(delta) ==
    {k \in LiveSlots : streams[k].send_window + delta \notin INT32_MIN .. INT32_MAX}
MovedNone(delta) == {}  \* mutant: only new streams get the new window
Moved(delta) ==
    IF Overflowing(delta) = {} THEN LiveSlots
    ELSE {k \in LiveSlots : k < First(Overflowing(delta))}
MovedStreams(delta) ==
    [k \in Slots |-> IF k \in Moved(delta)
                     THEN [streams[k] EXCEPT !.send_window = @ + delta]
                     ELSE streams[k]]

(* Mutant: the setting is stored before the windows are known to fit. *)
SetInitialWindowEarly(value) ==
    LET delta == value - initial_stream_window
    IN  /\ initial_stream_window' = value
        /\ streams' = MovedStreams(delta)
        /\ IF Overflowing(delta) # {} THEN Done(H2_FLOW_CONTROL_ERROR)
                                      ELSE Goto("settings", pos + 1)
        /\ UNCHANGED credit

SetInitialWindow(value) ==
    LET delta == value - initial_stream_window
    IN  \/ /\ value > INT32_MAX
           /\ Done(H2_FLOW_CONTROL_ERROR)
           /\ UNCHANGED <<streams, initial_stream_window, credit>>
        \/ /\ value <= INT32_MAX /\ Overflowing(delta) # {}
           /\ streams' = MovedStreams(delta)
           /\ Done(H2_FLOW_CONTROL_ERROR)
           /\ UNCHANGED <<initial_stream_window, credit>>
        \/ /\ value <= INT32_MAX /\ Overflowing(delta) = {}
           /\ streams' = MovedStreams(delta)
           /\ initial_stream_window' = value
           /\ credit' = [k \in DOMAIN credit |-> IF k \in LiveSlots
                                                 THEN credit[k] + delta
                                                 ELSE credit[k]]
           /\ Goto("settings", pos + 1)

(* The settings that only get a range check, and the ones ignored. *)
SettingVerdict(s) ==
    IF \/ s.id = H2_SETTINGS_ENABLE_PUSH /\ s.value > 1
       \/ /\ s.id = H2_SETTINGS_MAX_FRAME_SIZE
          /\ s.value \notin H2_DEFAULT_MAX_FRAME_SIZE .. H2_MAX_FRAME_SIZE
    THEN H2_PROTOCOL_ERROR ELSE H2_OK

ApplySetting ==
    LET s == Current.settings[pos]
    IN  /\ pc = "settings" /\ pos <= Len(Current.settings)
        /\ \/ /\ s.id = H2_SETTINGS_INITIAL_WINDOW_SIZE
              /\ SetInitialWindow(s.value)
              /\ UNCHANGED max_frame_size
           \/ /\ s.id # H2_SETTINGS_INITIAL_WINDOW_SIZE
              /\ SettingVerdict(s) # H2_OK
              /\ Done(SettingVerdict(s))
              /\ UNCHANGED <<settingVars, streams, credit>>
           \/ /\ s.id # H2_SETTINGS_INITIAL_WINDOW_SIZE
              /\ SettingVerdict(s) = H2_OK
              /\ max_frame_size' = IF s.id = H2_SETTINGS_MAX_FRAME_SIZE
                                   THEN s.value ELSE max_frame_size
              /\ Goto("settings", pos + 1)
              /\ UNCHANGED <<initial_stream_window, streams, credit>>
        /\ UNCHANGED <<conn_send_window, wire, responses_sent, recvVars,
                       last_stream_id, header_block, output_len>>

AcknowledgeSettings ==
    /\ pc = "settings" /\ pos > Len(Current.settings)
    /\ output_len' = QueueLen(output_len, SettingsAckSize)
    /\ Done(QueueRet(output_len, SettingsAckSize))
    /\ UNCHANGED <<settingVars, sendVars, recvVars, tableVars>>

-----------------------------------------------------------------------------
(* WINDOW_UPDATE: add the increment, then flush deferred responses.        *)
WindowUpdateVerdict(f) ==
    LET k == FindSlot(f.stream_id)
    IN  IF ParseWindowUpdate(f) # H2_OK THEN ParseWindowUpdate(f)
        ELSE IF f.stream_id = 0
             THEN IF conn_send_window + f.increment > INT32_MAX
                  THEN H2_FLOW_CONTROL_ERROR ELSE H2_OK
        ELSE IF k = NoSlot THEN H2_OK
        ELSE AddSendWindow(streams[k], f.increment).ret

(* A grant counts once, however often its frame is processed. *)
Grant(old, n) == IF retried THEN old ELSE old + n

ProcessWindowUpdate ==
    LET f == Current
        k == FindSlot(f.stream_id)
    IN  /\ Dispatch /\ f.type = H2_FRAME_WINDOW_UPDATE
        /\ \/ Reject(WindowUpdateVerdict(f))
           \/ /\ WindowUpdateVerdict(f) = H2_OK
              /\ f.stream_id # 0 /\ k = NoSlot
              /\ ReturnOnly(H2_OK)
           \/ /\ WindowUpdateVerdict(f) = H2_OK
              /\ \/ /\ f.stream_id = 0
                    /\ conn_send_window' = conn_send_window + f.increment
                    /\ credit' = [credit EXCEPT
                                     ![NoSlot] = Grant(@, f.increment)]
                    /\ UNCHANGED streams
                 \/ /\ f.stream_id # 0 /\ k # NoSlot
                    /\ streams' = [streams EXCEPT
                                      ![k] = AddSendWindow(@, f.increment).stream]
                    /\ credit' = IF Live(streams[k])
                                 THEN [credit EXCEPT
                                          ![k] = Grant(@, f.increment)]
                                 ELSE credit
                    /\ UNCHANGED conn_send_window
              /\ Goto("flush", 1)
              /\ UNCHANGED <<settingVars, recvVars, last_stream_id,
                             header_block, output_len, responses_sent, wire>>

(* h2_connection_flush_deferred_responses, from slot pos on *)
Flushable(s) == Live(s) /\ s.response_body_deferred
DeferredFrom(p) == {k \in Slots : k >= p /\ Flushable(streams[k])}

FlushDeferred ==
    LET k == First(DeferredFrom(pos))
        q == QueueResponse(streams[k], conn_send_window, output_len)
    IN  /\ pc = "flush"
        /\ \/ /\ DeferredFrom(pos) = {}
              /\ ReturnOnly(H2_OK)
           \/ /\ DeferredFrom(pos) # {}
              /\ Respond(k, q, credit[k])
              /\ IF q.ret = H2_OK THEN Goto("flush", k + 1) ELSE Done(q.ret)
              /\ UNCHANGED <<settingVars, recvVars, last_stream_id,
                             header_block>>

-----------------------------------------------------------------------------
(* The result of h2_connection_process_frame in h2_connection_feed. *)
ConsumeNothing == UNCHANGED inputVars  \* mutant: the frame is not taken out
ConsumeFrame ==
    /\ input' = Tail(input)
    /\ retried' = FALSE
    /\ UNCHANGED missing

KeepNothing == ConsumeFrame  \* mutant: a frame that failed is dropped
KeepFrame == retried' = TRUE /\ UNCHANGED <<input, missing>>

IsStreamError(r) == r \in {H2_REFUSED_STREAM, H2_STREAM_CLOSED}

FrameDone ==
    /\ pc = "result" /\ ret = H2_OK
    /\ ConsumeFrame
    /\ Goto("frames", 0)
    /\ UNCHANGED <<prefaceVars, goawayVars, settingVars, sendVars, recvVars,
                   tableVars, output_len, failed>>

(* h2_connection_reset_stream_error; when RST_STREAM does not fit, feed    *)
(* returns without a GOAWAY.                                               *)
StreamError ==
    LET id == Current.stream_id
        k  == FindSlot(id)
    IN  /\ pc = "result" /\ IsStreamError(ret) /\ id # 0
        /\ \/ /\ Fits(output_len, RstStreamSize)
              /\ output_len' = output_len + RstStreamSize
              /\ streams' = IF k = NoSlot THEN streams
                            ELSE [streams EXCEPT ![k] = StreamClose(@)]
              /\ wire' = [wire EXCEPT ![id] = WireReset(@, k)]
              /\ ConsumeFrame
              /\ Goto("frames", 0)
              /\ UNCHANGED failed
           \/ /\ ~Fits(output_len, RstStreamSize)
              /\ UNCHANGED <<output_len, streams, wire>>
              /\ KeepFrame
              /\ Return(H2_INTERNAL_ERROR)
        /\ UNCHANGED <<prefaceVars, goawayVars, settingVars, recvVars,
                       conn_send_window, responses_sent, credit,
                       last_stream_id, header_block>>

(* Any other error ends the call; its frame stays at the head of input. *)
ConnectionError ==
    /\ pc = "result" /\ ret # H2_OK
    /\ ~(IsStreamError(ret) /\ Current.stream_id # 0)
    /\ QueueGoaway(ret)
    /\ KeepFrame
    /\ Return(ret)
    /\ UNCHANGED <<prefaceVars, settingVars, sendVars, recvVars, tableVars>>

(* No whole frame is left. *)
FeedDone ==
    /\ pc = "frames" /\ ~HeadComplete
    /\ Return(H2_OK)
    /\ UNCHANGED <<prefaceVars, goawayVars, inputVars, settingVars, sendVars,
                   recvVars, tableVars, output_len>>

-----------------------------------------------------------------------------
(* h2_connection_feed called with n bytes.  If they do not fit they are    *)
(* dropped and the call fails; otherwise the input becomes inp with miss   *)
(* bytes outstanding, and its first 24 bytes stand as p.                   *)
H2_CLIENT_PREFACE_LEN == 24

PrefaceBytes(p) == CASE p = "none" -> 0
                     [] p = "part" -> H2_CLIENT_PREFACE_LEN - 1
                     [] OTHER      -> H2_CLIENT_PREFACE_LEN

(* conn->input_len *)
InputLen == FoldFunction(LAMBDA f, n : WholeLen(f) + n, 0, input) - missing
            + (IF preface_seen THEN 0 ELSE PrefaceBytes(preface))

(* The preface check of feed once the bytes are in the buffer. *)
CheckPreface(p) ==
    \/ /\ preface_seen
       /\ Goto("frames", 0)
       /\ UNCHANGED <<preface_seen, settings_sent, goawayVars, output_len,
                      failed>>
    \/ /\ ~preface_seen /\ p = "part"
       /\ UNCHANGED <<preface_seen, settings_sent, goawayVars, output_len>>
       /\ Return(H2_OK)
    \/ /\ ~preface_seen /\ p = "bad"
       /\ UNCHANGED <<preface_seen, settings_sent>>
       /\ QueueGoaway(H2_PROTOCOL_ERROR)
       /\ Return(H2_PROTOCOL_ERROR)
    \/ /\ ~preface_seen /\ p = "good"
       /\ preface_seen' = TRUE
       /\ output_len' = QueueLen(output_len, SettingsSize)
       /\ settings_sent' = Fits(output_len, SettingsSize)
       /\ IF Fits(output_len, SettingsSize)
          THEN /\ Goto("frames", 0)
               /\ UNCHANGED failed
          ELSE Return(H2_INTERNAL_ERROR)
       /\ UNCHANGED goawayVars

Feed(n, inp, miss, p) ==
    /\ pc = "idle"
    /\ \/ /\ n > H2_CONN_INPUT_CAP - InputLen
          /\ UNCHANGED <<prefaceVars, goawayVars, input, missing, output_len>>
          /\ Return(H2_INTERNAL_ERROR)
       \/ /\ n <= H2_CONN_INPUT_CAP - InputLen
          /\ input' = inp /\ missing' = miss /\ preface' = p
          /\ CheckPreface(p)
    /\ UNCHANGED <<settingVars, sendVars, recvVars, tableVars, retried>>

FeedPreface ==
    /\ preface \in {"none", "part"}
    /\ \E p \in Preface \ {"none", preface} :
          Feed(PrefaceBytes(p) - PrefaceBytes(preface), input, missing, p)

FeedFrame ==
    /\ preface \in {"good", "bad"} /\ missing = 0
    /\ \E f \in Frames, cut \in Cuts :
          /\ cut < WholeLen(f)
          /\ Feed(WholeLen(f) - cut, Append(input, f), cut, preface)

FeedRest ==
    /\ missing > 0
    /\ Feed(missing, input, 0, preface)

-----------------------------------------------------------------------------
(* server.c around the connection.                                         *)

(* h2_flush_client: write() took n bytes, h2_connection_consume_output. *)
Write ==
    /\ pc = "idle" /\ output_len > 0
    /\ \E n \in WriteSizes :
          output_len' = IF n > output_len THEN 0 ELSE output_len - n
    /\ UNCHANGED <<control, feedVars, settingVars, sendVars, recvVars,
                   tableVars>>

(* h2_read_client gave up on the connection and h2_close_client freed its  *)
(* slot; a new client starts again from Init.  (A peer that closes or goes *)
(* silent is one that no longer sends.)                                    *)
Closed == pc = "closed" /\ UNCHANGED vars

(* The steps inside one call of h2_connection_feed. *)
ProcessFrame ==
    /\ \/ RejectFrame \/ ProcessData \/ ProcessHeaders \/ ProcessContinuation
       \/ ProcessPriority \/ ProcessPushPromise \/ ProcessGoaway
       \/ ProcessUnknown \/ ProcessRstStream \/ ProcessPing
       \/ ProcessSettings \/ ApplySetting \/ AcknowledgeSettings
       \/ ProcessWindowUpdate \/ FlushDeferred
    /\ UNCHANGED feedVars

FeedStep == ProcessFrame \/ FrameDone \/ StreamError \/ ConnectionError
            \/ FeedDone

Next == FeedPreface \/ FeedFrame \/ FeedRest \/ FeedStep \/ Write
        \/ Closed

Spec == Init /\ [][Next]_vars

(* A call of h2_connection_feed does not block: its steps keep happening. *)
FairSpec == Spec /\ WF_vars(FeedStep)

-----------------------------------------------------------------------------
(* Properties.                                                             *)

HeaderBlock == [open : BOOLEAN, stream_id : Nat, flags : SUBSET Flag,
                block : Seq(HpackItem), len : 0 .. HeaderBlockCap]

ControlType == pc \in PC /\ ret \in ErrorCode /\ pos \in Nat
FeedType ==
    /\ preface \in Preface
    /\ preface_seen \in BOOLEAN /\ settings_sent \in BOOLEAN
    /\ goaway_sent \in BOOLEAN /\ goaway_error \in ErrorCode
    /\ goaway_last \in Nat \cup {-1}
    /\ input \in Seq(Frames) /\ missing \in Nat
    /\ retried \in BOOLEAN /\ failed \in BOOLEAN
SettingType ==
    /\ max_frame_size \in H2_DEFAULT_MAX_FRAME_SIZE .. H2_MAX_FRAME_SIZE
    /\ initial_stream_window \in 0 .. INT32_MAX
SendType ==
    /\ conn_send_window \in 0 .. INT32_MAX
    /\ responses_sent \in Nat
    /\ credit \in [{NoSlot} \cup Slots -> Int]
    /\ wire \in [StreamIds -> Wire]
RecvType ==
    /\ conn_recv_window \in 0 .. H2_DEFAULT_WINDOW_SIZE
    /\ allowance \in [{NoSlot} \cup Slots -> Int]
TableType ==
    /\ last_stream_id \in Nat
    /\ header_block \in HeaderBlock
    /\ streams \in [Slots -> Stream]
OutputType == output_len \in 0 .. H2_CONN_OUTPUT_CAP

(* Every window keeps to the range of int32_t, and the header block, the   *)
(* paths and the output to their buffers: the casts to int32_t in          *)
(* connection.c and stream.c lose nothing, a receive window is never       *)
(* negative (so that its cast to size_t in h2_connection_process_data is   *)
(* exact) and never above the default.  How many bytes the input holds is  *)
(* not bounded here; feed checks it before it copies (Feed).               *)
TypeOK ==
    /\ ControlType /\ FeedType /\ SettingType
    /\ SendType /\ RecvType /\ TableType /\ OutputType

(* No call of feed has failed, nor is the current one about to. *)
Healthy == ~failed /\ ret = H2_OK

(* The stream table never holds two slots for one id, so that              *)
(* h2_connection_find_stream has one answer, and every tracked id is a     *)
(* client id not above last_stream_id: finish_headers never meets a        *)
(* tracked stream, and GOAWAY's last stream id covers every stream.        *)
StreamTable ==
    /\ \A j, k \in Slots :
          Tracked(streams[j]) /\ streams[j].id = streams[k].id => j = k
    /\ \A k \in Slots : /\ streams[k].id <= last_stream_id
                        /\ Tracked(streams[k]) => streams[k].id % 2 = 1

(* As long as no call of feed has failed, a stream that was accepted is    *)
(* never forgotten: from the moment its header block is processed its      *)
(* response is sent, or its HEADERS are sent and its body waits for        *)
(* window.  (A call that fails on a full output buffer does leave its      *)
(* stream without an answer.)  Failed or not, a body is deferred only      *)
(* behind its HEADERS, and END_STREAM is only ever sent from a state that  *)
(* allows it, so h2_stream_send_end_stream cannot fail halfway through a   *)
(* response that is already queued.                                        *)
ResponsePhase ==
    \A k \in Slots : Tracked(streams[k]) =>
        LET s == streams[k]
        IN  /\ s.response_body_deferred =>
                  /\ s.response_headers_sent /\ ~s.response_sent
                  /\ s.state \in {"OPEN", "HALF_CLOSED_REMOTE"}
            /\ s.response_sent <=> s.state = "HALF_CLOSED_LOCAL"
            /\ Healthy /\ s.state \in {"IDLE", "OPEN", "HALF_CLOSED_REMOTE"}
                  => s.response_body_deferred

(* What the peer sees of a stream is a response in order: HEADERS once,    *)
(* then at most one DATA with END_STREAM, and after the RST_STREAM of a    *)
(* stream that was opened nothing but RST_STREAM.  An id that was refused  *)
(* for want of a slot may still be opened, and then has its one response   *)
(* (see NotReopened).                                                      *)
WireOrder == \A i \in StreamIds : wire[i] # "bad"

(* As long as no call of feed has failed, the send windows are exactly     *)
(* what the peer granted less what was queued, however WINDOW_UPDATE,      *)
(* SETTINGS, deferred responses, resets and slot reuse interleave.         *)
SendAccounting ==
    Healthy => /\ conn_send_window = credit[NoSlot]
               /\ \A k \in LiveSlots : streams[k].send_window = credit[k]

(* Likewise the receive windows are what the peer believes it may still    *)
(* send: no byte of a DATA frame is charged twice or forgotten, and no     *)
(* window is raised whose WINDOW_UPDATE was not queued, although           *)
(* process_data ignores that failure for a closed stream.                  *)
RecvAccounting ==
    Healthy => /\ conn_recv_window = allowance[NoSlot]
               /\ \A k \in Slots : ReceivesData(streams[k])
                     => streams[k].recv_window = allowance[k]

(* A peer that uploads is never starved of receive window: between calls   *)
(* of feed more than half of each window is open.                          *)
RecvWindowOpen ==
    pc = "idle" /\ ~failed =>
        /\ conn_recv_window > H2_DEFAULT_WINDOW_SIZE \div 2
        /\ \A k \in Slots : ReceivesData(streams[k])
              => streams[k].recv_window > H2_DEFAULT_WINDOW_SIZE \div 2

(* Between calls of feed a deferred response really is blocked by one of   *)
(* the two windows: no WINDOW_UPDATE leaves a response behind that it      *)
(* could have released, whichever slots compete for the connection window. *)
DeferredIsBlocked ==
    pc = "idle" /\ ~failed =>
        \A k \in Slots : Flushable(streams[k]) =>
            LET n == streams[k].path + 1
            IN  conn_send_window < n \/ streams[k].send_window < n

(* A slot passes from one stream to another only when it is free or its    *)
(* stream is closed, and only to a stream above every earlier one: a live  *)
(* stream is never evicted and an id is never accepted twice.              *)
SlotReuse ==
    [][\A k \in Slots : streams'[k].id # streams[k].id =>
          ~Live(streams[k]) /\ streams'[k].id > last_stream_id]_vars

(* While a header block is open nothing but its own CONTINUATION frames    *)
(* has an effect on the connection.                                        *)
HeaderBlockExclusive ==
    [][header_block.open /\ header_block'.open =>
          /\ header_block'.stream_id = header_block.stream_id
          /\ UNCHANGED <<streams, settingVars, conn_send_window,
                         conn_recv_window, last_stream_id>>]_vars

(* A connection error is final although its frame stays in the input and   *)
(* every later call of feed processes it again: after a GOAWAY for         *)
(* anything but INTERNAL_ERROR that frame is never consumed, whatever its  *)
(* first, partial processing changed, so no later frame has any effect.    *)
ErrorIsFinal ==
    [][/\ goaway_sent /\ goaway_error # H2_INTERNAL_ERROR
       /\ input # << >>
       => input' # << >> /\ Head(input') = Head(input)]_vars

(* A GOAWAY keeps its word: after an error other than INTERNAL_ERROR no    *)
(* stream above the last stream id that it named is ever opened, however   *)
(* often feed is called with more requests (h2_read_client keeps calling   *)
(* it while output is pending).                                            *)
GoawayBinding ==
    goaway_last # -1 /\ goaway_error # H2_INTERNAL_ERROR
    => last_stream_id <= goaway_last

(* Every call of h2_connection_feed returns: each turn of its loop         *)
(* consumes a frame or leaves the loop.                                    *)
FeedReturns == pc \notin {"idle", "closed"} ~> pc \in {"idle", "closed"}

-----------------------------------------------------------------------------
(* What the protocol notes in docs/research/http2-rfc7540.md and the tests *)
(* of connection.c ask of the server and connection.c does not keep to.    *)

(* The server never sends more DATA than the peer has granted for the      *)
(* connection.  A WINDOW_UPDATE whose flush fails on a full output buffer  *)
(* is processed, and counted, again by the next call of feed.              *)
CreditRespected == credit[NoSlot] >= 0

(* After RST_STREAM nothing but RST_STREAM is sent on a stream, a refusal  *)
(* included.  A stream refused for want of a slot does not advance         *)
(* last_stream_id, so its id is accepted when it is used again.            *)
NotReopened == \A i \in StreamIds : wire[i] # "reopened"
=============================================================================
