---------------------------- MODULE H2WireProofs ----------------------------
(***************************************************************************)
(* Responses and errors of a connection, for every value of its constants. *)
(*                                                                         *)
(* What the peer sees of a stream is a response in order, and no stream    *)
(* that was accepted is left without one.  A frame that fails with a       *)
(* connection error stays at the head of the input and is processed again  *)
(* by every later call of feed, on the state that its first, partial       *)
(* processing left: it fails again each time, so that nothing behind it is *)
(* ever looked at and GOAWAY keeps its word.                               *)
(*                                                                         *)
(* A response is deferred only while a window holds it, unless SETTINGS    *)
(* raises the initial window.                                              *)
(***************************************************************************)
EXTENDS H2FlowProofs

-----------------------------------------------------------------------------
(* The inductive invariant.                                                *)

(* Every slot is in a phase of a response, failed calls or not. *)
PhaseInv == \A k \in Slots : StreamPhase(streams[k])

(* A stream without an answer is the one whose stream error is about to    *)
(* reset it.                                                               *)
AnsweredInv ==
    Sound => \A k \in Slots : Tracked(streams[k]) =>
                \/ Answered(streams[k])
                \/ ret # H2_OK /\ streams[k].id = Current.stream_id

(* What was queued for the id of a live stream is what its flags say. *)
WireFits(s, w) ==
    /\ ~s.response_headers_sent => w \in {"none", "refused"}
    /\ s.response_headers_sent /\ ~s.response_sent =>
          w \in {"headers", "reopened"}

(* Nothing but a refusal was ever sent for an id not yet accepted. *)
WireInv ==
    /\ WireOrder
    /\ \A k \in Slots : Live(streams[k]) /\ streams[k].id \in StreamIds =>
          WireFits(streams[k], wire[streams[k].id])
    /\ \A i \in StreamIds : i > last_stream_id => wire[i] \in {"none", "refused"}

ResponseInv == PhaseInv /\ AnsweredInv /\ WireInv

(* Every tracked stream has its answer. *)
AllAnswered == \A k \in Slots : Tracked(streams[k]) => Answered(streams[k])

LEMMA InitResponse == Init => ResponseInv
<1> SUFFICES ASSUME Init PROVE ResponseInv
  OBVIOUS
<1>1. \A k \in Slots : streams[k] = FreeSlot
  BY DEF Init
<1>2. StreamPhase(FreeSlot) /\ ~Tracked(FreeSlot) /\ ~Live(FreeSlot)
  BY DEF StreamPhase, FreeSlot, Tracked, Live
<1>3. \A i \in StreamIds : wire[i] = "none"
  BY DEF Init
<1> QED
  BY <1>1, <1>2, <1>3
     DEF ResponseInv, PhaseInv, AnsweredInv, WireInv, WireOrder

-----------------------------------------------------------------------------
(* Steps that queue no response.                                           *)

(* Stream t still is stream s, as far as its response matters. *)
ResponseKept(s, t) ==
    /\ t.id = s.id
    /\ StreamPhase(s) => StreamPhase(t)
    /\ Answered(s) => Answered(t)
    /\ Live(t) => /\ Live(s)
                  /\ t.response_headers_sent = s.response_headers_sent
                  /\ t.response_sent = s.response_sent

LEMMA KeptItself == ASSUME NEW s PROVE ResponseKept(s, s)
BY DEF ResponseKept

(* Nothing that the response depends on is touched. *)
LEMMA KeptByWindows ==
    ASSUME NEW s, NEW t, t.id = s.id, t.state = s.state,
           t.response_headers_sent = s.response_headers_sent,
           t.response_body_deferred = s.response_body_deferred,
           t.response_sent = s.response_sent
    PROVE  ResponseKept(s, t)
BY DEF ResponseKept, StreamPhase, Answered, Live, Tracked

LEMMA KeptByClose ==
    ASSUME NEW s PROVE ResponseKept(s, StreamClose(s))
BY DEF ResponseKept, StreamPhase, Answered, Live, StreamClose, FreeSlot

ResponseStep ==
    /\ PhaseInv' /\ WireInv'
    /\ AllAnswered /\ Sound' =>
          \A k \in Slots : Tracked(streams'[k]) =>
             \/ Answered(streams'[k])
             \/ ret' # H2_OK /\ streams'[k].id = Current'.stream_id

LEMMA KeptStep ==
    ASSUME Inv, PhaseInv, WireInv, UNCHANGED <<wire, last_stream_id>>,
           \A k \in Slots : ResponseKept(streams[k], streams'[k])
    PROVE  ResponseStep
<1>1. PhaseInv'
  BY DEF PhaseInv, ResponseKept
<1>2. WireInv'
  <2>1. WireOrder'
    BY DEF WireInv, WireOrder
  <2>2. ASSUME NEW k \in Slots, Live(streams'[k]), streams'[k].id \in StreamIds
        PROVE  WireFits(streams'[k], wire'[streams'[k].id])
    BY <2>2 DEF WireInv, ResponseKept, WireFits
  <2> QED
    BY <2>1, <2>2 DEF WireInv
<1>3. AllAnswered => \A k \in Slots : Tracked(streams'[k])
                                        => Answered(streams'[k])
  BY DEF AllAnswered, ResponseKept, Tracked
<1> QED
  BY <1>1, <1>2, <1>3 DEF ResponseStep

LEMMA CloseSlotKeeps ==
    ASSUME Inv, NEW id,
           streams' = IF FindSlot(id) = NoSlot THEN streams
                      ELSE [streams EXCEPT ![FindSlot(id)] = StreamClose(@)]
    PROVE  \A k \in Slots : ResponseKept(streams[k], streams'[k])
<1>1. streams \in [Slots -> Stream]
  BY DEF Inv, TypeOK, TableType
<1>2. \A k \in Slots : \/ streams'[k] = streams[k]
                       \/ streams'[k] = StreamClose(streams[k])
  BY <1>1
<1> QED
  BY <1>2, KeptItself, KeptByClose

LEMMA QuietResponse ==
    ASSUME Inv, PhaseInv, WireInv, UNCHANGED <<streams, wire, last_stream_id>>
    PROVE  ResponseStep
BY KeptStep, KeptItself

LEMMA RstStreamResponse ==
    ASSUME Inv, PhaseInv, WireInv, ProcessRstStream
    PROVE  ResponseStep
<1> DEFINE id == Current.stream_id
<1>1. CASE Quiet
  BY <1>1, QuietResponse DEF Quiet, sendVars, tableVars
<1>2. CASE ~Quiet
  <2>1. /\ streams' = IF FindSlot(id) = NoSlot THEN streams
                      ELSE [streams EXCEPT ![FindSlot(id)] = StreamClose(@)]
        /\ UNCHANGED <<wire, last_stream_id>>
    BY <1>2 DEF ProcessRstStream, Reject, ReturnOnly, Quiet, sendVars
  <2> QED
    BY <2>1, CloseSlotKeeps, KeptStep
<1> QED
  BY <1>1, <1>2

(* SETTINGS_INITIAL_WINDOW_SIZE only moves windows. *)
LEMMA ApplySettingResponse ==
    ASSUME Inv, PhaseInv, WireInv, ApplySetting
    PROVE  ResponseStep
<1>1. UNCHANGED <<wire, last_stream_id>>
  BY DEF ApplySetting
<1>2. UNCHANGED streams \/ \E delta : streams' = MovedStreams(delta)
  BY DEF ApplySetting, SetInitialWindow
<1>3. CASE UNCHANGED streams
  BY <1>1, <1>3, QuietResponse
<1>4. CASE \E delta : streams' = MovedStreams(delta)
  <2>1. PICK delta : streams' = MovedStreams(delta)
    BY <1>4
  <2>2. \A k \in Slots :
           \/ streams'[k] = streams[k]
           \/ streams'[k] = [streams[k] EXCEPT !.send_window = @ + delta]
    BY <2>1 DEF MovedStreams
  <2>3. ASSUME NEW k \in Slots PROVE ResponseKept(streams[k], streams'[k])
    <3>1. streams[k] \in Stream
      BY DEF Inv, TypeOK, TableType
    <3>2. /\ streams'[k].id = streams[k].id
          /\ streams'[k].state = streams[k].state
          /\ streams'[k].response_headers_sent = streams[k].response_headers_sent
          /\ streams'[k].response_body_deferred = streams[k].response_body_deferred
          /\ streams'[k].response_sent = streams[k].response_sent
      BY <2>2, <3>1 DEF Stream
    <3> QED
      BY <3>2, KeptByWindows
  <2> QED
    BY <1>1, <2>3, KeptStep
<1> QED
  BY <1>2, <1>3, <1>4

LEMMA WindowUpdateResponse ==
    ASSUME Inv, PhaseInv, WireInv, ProcessWindowUpdate
    PROVE  ResponseStep
<1> DEFINE f == Current
           k == FindSlot(f.stream_id)
<1>1. UNCHANGED <<wire, last_stream_id>>
  BY DEF ProcessWindowUpdate, Reject, ReturnOnly, sendVars, tableVars
<1>2. \/ UNCHANGED streams
      \/ /\ k # NoSlot
         /\ streams' = [streams EXCEPT
                           ![k] = AddSendWindow(@, f.increment).stream]
  BY DEF ProcessWindowUpdate, Reject, ReturnOnly, tableVars
<1>3. CASE UNCHANGED streams
  BY <1>1, <1>3, QuietResponse
<1>4. CASE k # NoSlot /\ streams' = [streams EXCEPT
                           ![k] = AddSendWindow(@, f.increment).stream]
  <2>1. k \in Slots
    BY <1>4, FindSlotProp
  <2>2. streams \in [Slots -> Stream] /\ streams[k] \in Stream
    BY <2>1 DEF Inv, TypeOK, TableType
  <2> HIDE DEF k, f
  <2> DEFINE t == AddSendWindow(streams[k], f.increment).stream
  <2>3. /\ t.id = streams[k].id /\ t.state = streams[k].state
        /\ t.response_headers_sent = streams[k].response_headers_sent
        /\ t.response_body_deferred = streams[k].response_body_deferred
        /\ t.response_sent = streams[k].response_sent
    BY <2>2 DEF AddSendWindow, Stream
  <2> HIDE DEF t
  <2>4. ResponseKept(streams[k], t)
    BY <2>3, KeptByWindows
  <2>5. streams' = [streams EXCEPT ![k] = t]
    BY <1>4, <2>1, <2>2 DEF t
  <2>6. \A j \in Slots : ResponseKept(streams[j], streams'[j])
    BY <2>1, <2>2, <2>4, <2>5, KeptItself
  <2> QED
    BY <1>1, <2>6, KeptStep
<1> QED
  BY <1>2, <1>3, <1>4

(* The end of an upload moves a stream on without touching its response.   *)
DataMoves(s, t) ==
    /\ t.id = s.id
    /\ \/ t.state = s.state
       \/ s.state = "OPEN" /\ t.state = "HALF_CLOSED_REMOTE"
    /\ t.response_headers_sent = s.response_headers_sent
    /\ t.response_body_deferred = s.response_body_deferred
    /\ t.response_sent = s.response_sent

LEMMA KeptByData ==
    ASSUME NEW s, NEW t, DataMoves(s, t)
    PROVE  ResponseKept(s, t)
BY DEF DataMoves, ResponseKept, StreamPhase, Answered, Live, Tracked

LEMMA ReceiveDataKeeps ==
    ASSUME NEW s \in Stream, NEW n, NEW e, NEW t,
           t = ReceiveData(s, n, e).stream
    PROVE  /\ ResponseKept(s, t)
           /\ t.state # "CLOSED" =>
                 \A w : ResponseKept(s, [s EXCEPT !.state = t.state,
                                                 !.recv_window = w])
<1> DEFINE u == [s EXCEPT !.recv_window = @ - n]
           v == [u EXCEPT !.state = "HALF_CLOSED_REMOTE"]
<1>1. \/ t = s
      \/ t = u
      \/ t = StreamClose(u)
      \/ s.state = "OPEN" /\ t = v
  BY DEF ReceiveData, ReceivesData
<1>2. /\ u.id = s.id /\ u.state = s.state
      /\ u.response_headers_sent = s.response_headers_sent
      /\ u.response_body_deferred = s.response_body_deferred
      /\ u.response_sent = s.response_sent
  BY DEF Stream
<1>3. /\ v.id = s.id /\ v.state = "HALF_CLOSED_REMOTE"
      /\ v.response_headers_sent = s.response_headers_sent
      /\ v.response_body_deferred = s.response_body_deferred
      /\ v.response_sent = s.response_sent
  BY DEF Stream
<1>4. /\ StreamClose(u).state = "CLOSED" /\ StreamClose(u).id = s.id
      /\ ~StreamClose(u).response_body_deferred
      /\ ~StreamClose(u).response_sent
  BY <1>2 DEF StreamClose, FreeSlot
<1> HIDE DEF u, v
<1>5. ResponseKept(s, t)
  <2>1. CASE t = StreamClose(u)
    BY <1>4, <2>1 DEF ResponseKept, StreamPhase, Answered, Live
  <2>2. CASE t # StreamClose(u)
    <3>1. DataMoves(s, t)
      BY <1>1, <1>2, <1>3, <2>2 DEF DataMoves
    <3> QED
      BY <3>1, KeptByData
  <2> QED
    BY <2>1, <2>2
<1>6. ASSUME t.state # "CLOSED", NEW w
      PROVE  ResponseKept(s, [s EXCEPT !.state = t.state, !.recv_window = w])
  <2> DEFINE x == [s EXCEPT !.state = t.state, !.recv_window = w]
  <2>1. \/ t.state = s.state
        \/ s.state = "OPEN" /\ t.state = "HALF_CLOSED_REMOTE"
    BY <1>1, <1>2, <1>3, <1>4, <1>6
  <2>2. /\ x.id = s.id /\ x.state = t.state
        /\ x.response_headers_sent = s.response_headers_sent
        /\ x.response_body_deferred = s.response_body_deferred
        /\ x.response_sent = s.response_sent
    BY DEF Stream
  <2>3. ResponseKept(s, x)
    <3> HIDE DEF x
    <3>1. DataMoves(s, x)
      BY <2>1, <2>2 DEF DataMoves
    <3> QED
      BY <3>1, KeptByData
  <2> QED
    BY <2>3
<1> QED
  BY <1>5, <1>6

LEMMA DataResponse ==
    ASSUME Inv, PhaseInv, WireInv, ProcessData
    PROVE  ResponseStep
<1> DEFINE f == Current
           k == FindSlot(f.stream_id)
           d == ReceiveData(streams[k], f.length, H2_FLAG_END_STREAM \in f.flags)
<1>1. UNCHANGED <<wire, last_stream_id>>
  BY DEF ProcessData, Reject, ReturnOnly, sendVars, tableVars
<1>2. \/ UNCHANGED streams
      \/ k # NoSlot /\ streams' = [streams EXCEPT ![k] = d.stream]
      \/ /\ k # NoSlot /\ d.stream.state # "CLOSED"
         /\ \E w : streams' = [streams EXCEPT ![k].state = d.stream.state,
                                              ![k].recv_window = w]
  <2>1. CASE Reject(DataVerdict(f))
    BY <2>1 DEF Reject, ReturnOnly, tableVars
  <2>2. CASE ~Reject(DataVerdict(f))
    <3>1. /\ DataVerdict(f) = H2_OK
          /\ DataOnStream(f, k) \/ DataOnClosedStream(f)
      BY <2>2 DEF ProcessData
    <3>2. k # NoSlot
      BY <3>1 DEF DataVerdict, H2_OK, H2_PROTOCOL_ERROR
    <3>3. CASE DataOnClosedStream(f)
      BY <3>3 DEF DataOnClosedStream
    <3>4. CASE DataOnStream(f, k)
      BY <3>2, <3>4 DEF DataOnStream
    <3> QED
      BY <3>1, <3>3, <3>4
  <2> QED
    BY <2>1, <2>2
<1>3. CASE UNCHANGED streams
  BY <1>1, <1>3, QuietResponse
<1>4. CASE ~UNCHANGED streams
  <2>1. k \in Slots
    BY <1>2, <1>4, FindSlotProp
  <2>2. streams \in [Slots -> Stream] /\ streams[k] \in Stream
    BY <2>1 DEF Inv, TypeOK, TableType
  <2> HIDE DEF k, f
  <2>3. /\ ResponseKept(streams[k], d.stream)
        /\ d.stream.state # "CLOSED" =>
              \A w : ResponseKept(streams[k],
                                  [streams[k] EXCEPT !.state = d.stream.state,
                                                     !.recv_window = w])
    BY <2>2, ReceiveDataKeeps
  <2> HIDE DEF d
  <2>4. /\ ResponseKept(streams[k], streams'[k])
        /\ \A j \in Slots \ {k} : streams'[j] = streams[j]
    <3>1. CASE streams' = [streams EXCEPT ![k] = d.stream]
      BY <2>1, <2>2, <2>3, <3>1
    <3>2. CASE ~(streams' = [streams EXCEPT ![k] = d.stream])
      <4>1. d.stream.state # "CLOSED"
        BY <1>2, <1>4, <3>2
      <4>2. PICK w : streams' = [streams EXCEPT ![k].state = d.stream.state,
                                                ![k].recv_window = w]
        BY <1>2, <1>4, <3>2
      <4>3. streams' = [streams EXCEPT
                           ![k] = [streams[k] EXCEPT !.state = d.stream.state,
                                                     !.recv_window = w]]
        BY <2>1, <2>2, <4>2
      <4> QED
        BY <2>1, <2>2, <2>3, <4>1, <4>3
    <3> QED
      BY <3>1, <3>2
  <2>5. \A j \in Slots : ResponseKept(streams[j], streams'[j])
    BY <2>4, KeptItself
  <2> QED
    BY <1>1, <2>5, KeptStep
<1> QED
  BY <1>3, <1>4

-----------------------------------------------------------------------------
(* RST_STREAM for a stream error: whatever the stream was waiting for, it  *)
(* is reset and its slot is closed.                                        *)
LEMMA StreamErrorResponse ==
    ASSUME Inv, PhaseInv, WireInv, AnsweredInv, StreamError,
           Fits(output_len, RstStreamSize)
    PROVE  PhaseInv' /\ WireInv' /\ (Sound => AllAnswered')
<1> DEFINE id == Current.stream_id
           k == FindSlot(id)
<1>1. /\ streams' = IF k = NoSlot THEN streams
                    ELSE [streams EXCEPT ![k] = StreamClose(@)]
      /\ wire' = [wire EXCEPT ![id] = WireReset(@, k)]
      /\ UNCHANGED last_stream_id /\ id # 0
  BY DEF StreamError
<1>2. \A j \in Slots : ResponseKept(streams[j], streams'[j])
  BY <1>1, CloseSlotKeeps
<1>3. /\ streams \in [Slots -> Stream] /\ wire \in [StreamIds -> Wire]
  BY DEF Inv, TypeOK, TableType, SendType
<1>4. ASSUME NEW j \in Slots, streams[j].id = id
      PROVE  streams'[j].state = "CLOSED"
  <2>1. k # NoSlot
    BY <1>4, FindSlotProp
  <2>2. k \in Slots /\ streams[k].id = id
    BY <2>1, FindSlotProp
  <2>3. j = k
    BY <1>1, <1>4, <2>2 DEF Inv, StreamTable, Tracked
  <2> QED
    BY <1>1, <1>3, <2>1, <2>2, <2>3 DEF StreamClose, FreeSlot
<1>5. k = NoSlot \/ ~(id > last_stream_id)
  <2>1. k # NoSlot => k \in Slots /\ streams[k].id = id
    BY FindSlotProp
  <2>2. \A j \in Slots : streams[j].id \in Nat /\ streams[j].id <= last_stream_id
    BY <1>3 DEF Inv, StreamTable, Stream
  <2>3. last_stream_id \in Nat
    BY DEF Inv, TypeOK, TableType
  <2> QED
    BY <2>1, <2>2, <2>3
<1> HIDE DEF id, k
<1>6. PhaseInv'
  BY <1>2 DEF PhaseInv, ResponseKept
<1>7. WireInv'
  <2>1. \A i \in StreamIds : wire'[i] = IF i = id THEN WireReset(wire[i], k)
                                                  ELSE wire[i]
    BY <1>1, <1>3
  <2>2. WireOrder'
    BY <2>1 DEF WireInv, WireOrder, WireReset
  <2>3. ASSUME NEW j \in Slots, Live(streams'[j]), streams'[j].id \in StreamIds
        PROVE  WireFits(streams'[j], wire'[streams'[j].id])
    <3>1. streams'[j].id = streams[j].id /\ streams[j].id # id
      BY <1>2, <1>4, <2>3 DEF ResponseKept, Live
    <3> QED
      BY <1>2, <2>1, <2>3, <3>1 DEF WireInv, ResponseKept, WireFits
  <2>4. ASSUME NEW i \in StreamIds, i > last_stream_id'
        PROVE  wire'[i] \in {"none", "refused"}
    <3>1. wire[i] \in {"none", "refused"}
      BY <1>1, <2>4 DEF WireInv
    <3>2. k = NoSlot \/ i # id
      BY <1>1, <1>5, <2>4
    <3> QED
      BY <2>1, <3>1, <3>2 DEF WireReset
  <2> QED
    BY <2>2, <2>3, <2>4 DEF WireInv
<1>8. ASSUME Sound, NEW j \in Slots, Tracked(streams'[j])
      PROVE  Answered(streams'[j])
  <2>1. Tracked(streams[j])
    BY <1>2, <1>8 DEF ResponseKept, Tracked
  <2>2. CASE Answered(streams[j])
    BY <1>2, <2>2 DEF ResponseKept
  <2>3. CASE streams[j].id = id
    BY <1>4, <2>3 DEF Answered
  <2> QED
    BY <1>8, <2>1, <2>2, <2>3 DEF AnsweredInv, id
<1> QED
  BY <1>6, <1>7, <1>8 DEF AllAnswered

-----------------------------------------------------------------------------
(* Steps that queue a response.                                            *)

(* HEADERS and DATA of a response fit what was queued before them. *)
LEMMA RespondWire ==
    ASSUME NEW s, NEW q, NEW w, Responds(q, s), WireFits(s, w),
           ~s.response_sent, w # "bad"
    PROVE  /\ WireResponse(w, q) # "bad"
           /\ Live(q.stream) => WireFits(q.stream, WireResponse(w, q))
<1>1. CASE q.headers
  <2>1. ~s.response_headers_sent /\ w \in {"none", "refused"}
    BY <1>1 DEF Responds, WireFits
  <2>2. WireHeaders(w) \in {"headers", "reopened"}
    BY <2>1 DEF WireHeaders
  <2>3. CASE q.data
    BY <1>1, <2>2, <2>3 DEF WireResponse, WireData, Responds, WireFits, Live
  <2>4. CASE ~q.data
    BY <1>1, <2>2, <2>4 DEF WireResponse, Responds, WireFits
  <2> QED
    BY <2>3, <2>4
<1>2. CASE ~q.headers
  <2>1. CASE q.data
    BY <1>2, <2>1 DEF WireResponse, WireData, Responds, WireFits, Live
  <2>2. CASE ~q.data
    BY <1>2, <2>2 DEF WireResponse, Responds, WireFits
  <2> QED
    BY <2>1, <2>2
<1> QED
  BY <1>1, <1>2

(* A response on slot k, which holds stream s or is about to. *)
LEMMA RespondResponse ==
    ASSUME Inv, PhaseInv, WireInv, NEW k \in Slots, NEW s \in Stream, NEW q,
           NEW base, Respond(k, q, base), ResponseResult(q, s), Responds(q, s),
           ~s.response_sent, last_stream_id' \in Nat,
           last_stream_id' >= last_stream_id, last_stream_id' >= s.id,
           s.id \in StreamIds => WireFits(s, wire[s.id]),
           \A j \in Slots \ {k} : streams[j].id # s.id
    PROVE  /\ PhaseInv' /\ WireInv'
           /\ AllAnswered /\ q.ret = H2_OK => AllAnswered'
<1>1. /\ streams \in [Slots -> Stream] /\ wire \in [StreamIds -> Wire]
      /\ last_stream_id \in Nat
  BY DEF Inv, TypeOK, TableType, SendType
<1>2. q.stream.id = s.id
  BY DEF ResponseResult
<1>3. /\ streams'[k] = q.stream
      /\ \A j \in Slots \ {k} : streams'[j] = streams[j]
      /\ wire' = [wire EXCEPT ![s.id] = WireResponse(@, q)]
  BY <1>1, <1>2 DEF Respond
<1>4. PhaseInv'
  BY <1>3 DEF PhaseInv, Responds
<1>5. \A i \in StreamIds : wire'[i] = IF i = s.id THEN WireResponse(wire[i], q)
                                                  ELSE wire[i]
  BY <1>1, <1>3
<1>6. s.id \in StreamIds =>
         /\ WireResponse(wire[s.id], q) # "bad"
         /\ Live(q.stream) => WireFits(q.stream, WireResponse(wire[s.id], q))
  BY RespondWire DEF WireInv, WireOrder
<1>7. WireInv'
  <2>1. WireOrder'
    BY <1>5, <1>6 DEF WireInv, WireOrder
  <2>2. ASSUME NEW j \in Slots, Live(streams'[j]), streams'[j].id \in StreamIds
        PROVE  WireFits(streams'[j], wire'[streams'[j].id])
    <3>1. CASE j = k
      BY <1>2, <1>3, <1>5, <1>6, <2>2, <3>1
    <3>2. CASE j # k
      BY <1>3, <1>5, <2>2, <3>2 DEF WireInv
    <3> QED
      BY <3>1, <3>2
  <2>3. ASSUME NEW i \in StreamIds, i > last_stream_id'
        PROVE  wire'[i] \in {"none", "refused"}
    <3>1. i \in Nat /\ s.id \in Nat
      BY Constants DEF Stream
    <3>2. i > last_stream_id /\ i # s.id
      BY <1>1, <2>3, <3>1
    <3> QED
      BY <1>5, <3>2 DEF WireInv
  <2> QED
    BY <2>1, <2>2, <2>3 DEF WireInv
<1>8. AllAnswered /\ q.ret = H2_OK => AllAnswered'
  BY <1>3 DEF AllAnswered, Responds
<1> QED
  BY <1>4, <1>7, <1>8

(* One deferred response: a stream whose body was deferred may still send, *)
(* so only a full output buffer makes this fail.                           *)
LEMMA FlushResponse ==
    ASSUME Inv, PhaseInv, WireInv, FlushDeferred
    PROVE  ResponseStep
<1> DEFINE k == First(DeferredFrom(pos))
           q == QueueResponse(streams[k], conn_send_window, output_len)
<1>1. CASE DeferredFrom(pos) = {}
  <2>1. UNCHANGED <<streams, wire, last_stream_id>>
    BY <1>1 DEF FlushDeferred, ReturnOnly, sendVars, tableVars
  <2> QED
    BY <2>1, QuietResponse
<1>2. CASE DeferredFrom(pos) # {}
  <2>1. /\ Respond(k, q, credit[k]) /\ UNCHANGED last_stream_id
        /\ q.ret # H2_OK => Done(q.ret)
    BY <1>2 DEF FlushDeferred
  <2>2. k \in DeferredFrom(pos)
    <3>1. DeferredFrom(pos) \subseteq Nat
      BY Constants DEF DeferredFrom
    <3> QED
      BY <1>2, <3>1, FirstIsLeast
  <2>3. k \in Slots /\ Live(streams[k]) /\ streams[k].response_body_deferred
    BY <2>2 DEF DeferredFrom, Flushable
  <2> HIDE DEF k
  <2> DEFINE s == streams[k]
  <2>4. /\ s \in Stream /\ conn_send_window \in 0 .. INT32_MAX
        /\ output_len \in 0 .. H2_CONN_OUTPUT_CAP /\ last_stream_id \in Nat
    BY <2>3 DEF Inv, TypeOK, TableType, SendType, OutputType
  <2>5. /\ StreamPhase(s) /\ s.state \in {"OPEN", "HALF_CLOSED_REMOTE"}
        /\ ~s.response_sent
    BY <2>3 DEF PhaseInv, StreamPhase
  <2>6. ResponseResult(q, s) /\ Responds(q, s)
    BY <2>4, <2>5, QueueResponseType, QueueResponseResponds
  <2>7. s.id \in StreamIds => WireFits(s, wire[s.id])
    BY <2>3 DEF WireInv
  <2>8. s.id <= last_stream_id /\ \A j \in Slots \ {k} : streams[j].id # s.id
    BY <2>3 DEF Inv, StreamTable, Live, Tracked
  <2>9. /\ last_stream_id' \in Nat /\ last_stream_id' >= last_stream_id
        /\ last_stream_id' >= s.id
    BY <2>1, <2>4, <2>8 DEF Stream
  <2> HIDE DEF q, s
  <2>10. /\ PhaseInv' /\ WireInv'
         /\ AllAnswered /\ q.ret = H2_OK => AllAnswered'
    BY <2>1, <2>3, <2>4, <2>5, <2>6, <2>7, <2>8, <2>9, RespondResponse
  <2>11. Sound' => q.ret = H2_OK
    BY <2>1, <2>6 DEF Responds, Done, Sound, Fatal, H2_OK, H2_INTERNAL_ERROR,
                      H2_REFUSED_STREAM, H2_STREAM_CLOSED
  <2> QED
    BY <2>10, <2>11 DEF ResponseStep, AllAnswered
<1> QED
  BY <1>1, <1>2

(* h2_connection_finish_headers: a new stream gets its response at once,   *)
(* or its header block does not decode and it is left for feed to reset.   *)
LEMMA FinishHeadersResponse ==
    ASSUME Inv, PhaseInv, WireInv,
           NEW id \in Nat, NEW flags, NEW block \in Seq(HpackItem),
           FinishHeaders(id, flags, block), id = Current'.stream_id
    PROVE  ResponseStep
<1> DEFINE k == GetSlot(id)
           x == ExtractPath(block)
           g == GetStream(id)
           s == [g EXCEPT !.path = x.path]
           h == ReceiveHeaders(s, H2_FLAG_END_STREAM \in flags)
           q == QueueResponse(h.stream, conn_send_window, output_len)
           bad == RejectedStreamId(id)
<1>1. CASE bad \/ k = NoSlot
  <2>1. UNCHANGED <<streams, wire, last_stream_id>>
    BY <1>1 DEF FinishHeaders, sendVars
  <2> QED
    BY <2>1, QuietResponse
<1>2. CASE ~bad /\ k # NoSlot
  <2>1. /\ last_stream_id' = id
        /\ IF x.ret = H2_OK /\ h.ret = H2_OK
           THEN Respond(k, q, initial_stream_window) /\ Done(q.ret)
           ELSE /\ streams' = [streams EXCEPT ![k] = s]
                /\ Done(IF x.ret # H2_OK THEN x.ret ELSE h.ret)
                /\ UNCHANGED wire
    BY <1>2 DEF FinishHeaders
  <2>2. k \in Slots /\ g = StreamInit(id, initial_stream_window) /\ g \in Stream
    BY <1>2, NewStream
  <2>3. x.path \in 0 .. PathCap - 1
    BY ExtractPathType
  <2>4. /\ streams \in [Slots -> Stream] /\ conn_send_window \in 0 .. INT32_MAX
        /\ output_len \in 0 .. H2_CONN_OUTPUT_CAP /\ last_stream_id \in Nat
    BY DEF Inv, TypeOK, TableType, SendType, OutputType
  <2>5. id > last_stream_id
    BY <1>2, <2>4 DEF RejectedStreamId
  <2>6. \A j \in Slots : streams[j].id # id
    <3>1. \A j \in Slots : streams[j].id \in Nat /\ streams[j].id <= last_stream_id
      BY <2>4 DEF Inv, StreamTable, Stream
    <3> QED
      BY <2>4, <2>5, <3>1
  <2>7. id \in StreamIds => wire[id] \in {"none", "refused"}
    BY <2>5 DEF WireInv
  <2>8. /\ g.id = id /\ g.state = "IDLE" /\ ~g.response_headers_sent
        /\ ~g.response_body_deferred /\ ~g.response_sent
    BY <2>2 DEF StreamInit, FreeSlot
  <2> HIDE DEF k, g, x
  <2>9. /\ s \in Stream /\ s.id = id /\ s.state = "IDLE"
        /\ ~s.response_headers_sent /\ ~s.response_body_deferred
        /\ ~s.response_sent
    BY <2>2, <2>3, <2>8 DEF Stream
  <2> HIDE DEF s
  <2>10. /\ h.ret = H2_OK /\ h.stream.id = id
         /\ h.stream.state \in {"OPEN", "HALF_CLOSED_REMOTE"}
         /\ ~h.stream.response_headers_sent
         /\ ~h.stream.response_body_deferred /\ ~h.stream.response_sent
    BY <2>9 DEF ReceiveHeaders, Stream
  <2>11. h.stream \in Stream
    BY <2>9, ReceiveHeadersType
  <2> HIDE DEF h
  <2>12. CASE x.ret = H2_OK
    <3>1. Respond(k, q, initial_stream_window) /\ Done(q.ret)
      BY <2>1, <2>10, <2>12
    <3>2. StreamPhase(h.stream)
      BY <2>10 DEF StreamPhase
    <3>3. ResponseResult(q, h.stream) /\ Responds(q, h.stream)
      BY <2>4, <2>10, <2>11, <3>2, QueueResponseType, QueueResponseResponds
    <3>4. h.stream.id \in StreamIds => WireFits(h.stream, wire[h.stream.id])
      BY <2>7, <2>10 DEF WireFits
    <3>5. /\ last_stream_id' \in Nat /\ last_stream_id' >= last_stream_id
          /\ last_stream_id' >= h.stream.id
      BY <2>1, <2>4, <2>5, <2>10
    <3> HIDE DEF q
    <3>6. /\ PhaseInv' /\ WireInv'
          /\ AllAnswered /\ q.ret = H2_OK => AllAnswered'
      BY <2>2, <2>6, <2>10, <2>11, <3>1, <3>3, <3>4, <3>5, RespondResponse
    <3>7. Sound' => q.ret = H2_OK
      BY <3>1, <3>3 DEF Responds, Done, Sound, Fatal, H2_OK, H2_INTERNAL_ERROR,
                        H2_REFUSED_STREAM, H2_STREAM_CLOSED
    <3> QED
      BY <3>6, <3>7 DEF ResponseStep, AllAnswered
  <2>13. CASE x.ret # H2_OK
    <3>1. /\ streams'[k] = s
          /\ \A j \in Slots \ {k} : streams'[j] = streams[j]
          /\ Done(x.ret) /\ UNCHANGED wire
      BY <2>1, <2>2, <2>4, <2>13
    <3>2. PhaseInv'
      BY <2>9, <3>1 DEF PhaseInv, StreamPhase
    <3>3. WireInv'
      <4>1. WireOrder'
        BY <3>1 DEF WireInv, WireOrder
      <4>2. ASSUME NEW j \in Slots, Live(streams'[j]),
                   streams'[j].id \in StreamIds
            PROVE  WireFits(streams'[j], wire'[streams'[j].id])
        <5>1. CASE j = k
          BY <2>7, <2>9, <3>1, <4>2, <5>1 DEF WireFits
        <5>2. CASE j # k
          BY <3>1, <4>2, <5>2 DEF WireInv
        <5> QED
          BY <5>1, <5>2
      <4>3. \A i \in StreamIds : i > id => i > last_stream_id
        BY <2>4, <2>5, Constants
      <4> QED
        BY <2>1, <3>1, <4>1, <4>2, <4>3 DEF WireInv
    <3>4. ret' # H2_OK
      BY <2>13, <3>1 DEF Done
    <3>5. AllAnswered => \A j \in Slots : Tracked(streams'[j]) =>
             \/ Answered(streams'[j])
             \/ ret' # H2_OK /\ streams'[j].id = Current'.stream_id
      BY <2>9, <3>1, <3>4 DEF AllAnswered
    <3> QED
      BY <3>2, <3>3, <3>5 DEF ResponseStep
  <2> QED
    BY <2>12, <2>13
<1> QED
  BY <1>1, <1>2

(* HEADERS and CONTINUATION. *)
LEMMA HeadersResponse ==
    ASSUME Inv, PhaseInv, WireInv, ProcessHeaders, UNCHANGED feedVars
    PROVE  ResponseStep
<1> DEFINE f == Current
<1>1. f.stream_id \in Nat /\ f.block \in Seq(HpackItem)
  <2>1. input # << >>
    BY DEF ProcessHeaders, Dispatch, HeadComplete
  <2> QED
    BY <2>1, CurrentType DEF Inv, TypeOK
<1>2. CASE UNCHANGED <<streams, wire, last_stream_id>>
  BY <1>2, QuietResponse
<1>3. CASE ~UNCHANGED <<streams, wire, last_stream_id>>
  <2>1. FinishHeaders(f.stream_id, f.flags, f.block)
    BY <1>3 DEF ProcessHeaders, OpenHeaderBlock, Reject, ReturnOnly,
                tableVars, sendVars
  <2>2. Current'.stream_id = f.stream_id
    BY Unchanged DEF Current
  <2> QED
    BY <1>1, <2>1, <2>2, FinishHeadersResponse
<1> QED
  BY <1>2, <1>3

LEMMA ContinuationResponse ==
    ASSUME Inv, PhaseInv, WireInv, ProcessContinuation, UNCHANGED feedVars
    PROVE  ResponseStep
<1> DEFINE f == Current
           h == AppendHeaderBlock(header_block, f.block, f.length)
<1>1. /\ h \in HeaderBlock /\ header_block \in HeaderBlock
  <2>1. input # << >>
    BY DEF ProcessContinuation, Dispatch, HeadComplete
  <2>2. f.block \in Seq(HpackItem) /\ f.length \in Nat
    BY <2>1, CurrentType DEF Inv, TypeOK
  <2> QED
    BY <2>2, AppendType DEF Inv, TypeOK, TableType
<1>2. CASE UNCHANGED <<streams, wire, last_stream_id>>
  BY <1>2, QuietResponse
<1>3. CASE ~UNCHANGED <<streams, wire, last_stream_id>>
  <2>1. /\ FinishHeaders(h.stream_id, h.flags, h.block)
        /\ ContinuationVerdict(f) = H2_OK
    BY <1>3 DEF ProcessContinuation, Reject, ReturnOnly, tableVars, sendVars
  <2>2. f.stream_id = header_block.stream_id
    BY <2>1 DEF ContinuationVerdict, H2_OK, H2_PROTOCOL_ERROR
  <2>3. h.stream_id = header_block.stream_id
    BY <1>1 DEF AppendHeaderBlock, HeaderBlock
  <2>4. Current'.stream_id = f.stream_id
    BY Unchanged DEF Current
  <2>5. h.stream_id \in Nat /\ h.block \in Seq(HpackItem)
    BY <1>1 DEF HeaderBlock
  <2>6. h.stream_id = Current'.stream_id
    BY <2>2, <2>3, <2>4
  <2> HIDE DEF h, f
  <2> QED
    BY <2>1, <2>5, <2>6, FinishHeadersResponse
<1> QED
  BY <1>2, <1>3

LEMMA HandlerResponse ==
    ASSUME Inv, PhaseInv, WireInv, Handler, UNCHANGED feedVars
    PROVE  ResponseStep
BY DataResponse, HeadersResponse, ContinuationResponse, RstStreamResponse,
   ApplySettingResponse, WindowUpdateResponse, FlushResponse DEF Handler

-----------------------------------------------------------------------------
(* Every step, failing calls included. *)
LEMMA TableKinds ==
    ASSUME Inv, CallInv, [Next]_vars
    PROVE  \/ UNCHANGED <<streams, wire, last_stream_id>>
           \/ UNCHANGED feedVars /\ Handler
           \/ StreamError /\ Fits(output_len, RstStreamSize)
<1>1. CASE ProcessFrame
  BY <1>1, ProcessFrameKinds DEF Quiet, sendVars, tableVars
<1>2. CASE StreamError
  BY <1>2 DEF StreamError
<1>3. CASE FrameDone \/ ConnectionError \/ FeedDone \/ Write
  BY <1>3 DEF FrameDone, ConnectionError, FeedDone, Write, sendVars, tableVars
<1>4. CASE FeedPreface \/ FeedFrame \/ FeedRest
  BY <1>4, FeedCall DEF Quiet, sendVars, tableVars
<1>5. CASE UNCHANGED vars
  BY <1>5 DEF vars, sendVars, tableVars
<1> QED
  BY <1>1, <1>2, <1>3, <1>4, <1>5 DEF Next, FeedStep, Closed

(* The phases of every response and what the peer sees of it, through      *)
(* failed calls and frames processed again.                                *)
THEOREM ResponseInvariance == Spec => []ResponseInv
<1>1. Inv /\ CallInv /\ ResponseInv /\ [Next]_vars => ResponseInv'
  <2> SUFFICES ASSUME Inv, CallInv, PhaseInv, WireInv, AnsweredInv, [Next]_vars
               PROVE  ResponseInv'
    BY DEF ResponseInv
  <2>1. PhaseInv' /\ WireInv'
    <3>1. CASE UNCHANGED <<streams, wire, last_stream_id>>
      BY <3>1, QuietResponse DEF ResponseStep
    <3>2. CASE UNCHANGED feedVars /\ Handler
      BY <3>2, HandlerResponse DEF ResponseStep
    <3>3. CASE StreamError /\ Fits(output_len, RstStreamSize)
      BY <3>3, StreamErrorResponse
    <3> QED
      BY <3>1, <3>2, <3>3, TableKinds
  <2>2. ASSUME Sound', NEW k \in Slots, Tracked(streams'[k])
        PROVE  \/ Answered(streams'[k])
               \/ ret' # H2_OK /\ streams'[k].id = Current'.stream_id
    <3>1. /\ Sound
          /\ \/ UNCHANGED vars
             \/ ret = H2_OK /\ Quiet
             \/ ret = H2_OK /\ UNCHANGED feedVars /\ Handler
             \/ StreamError /\ Fits(output_len, RstStreamSize)
      BY <2>2, StepKinds
    <3>2. ret = H2_OK => AllAnswered
      BY <3>1 DEF AnsweredInv, AllAnswered
    <3>3. CASE UNCHANGED vars
      <4>1. UNCHANGED <<streams, ret, input>>
        BY <3>3 DEF vars, control, tableVars, feedVars, inputVars
      <4> QED
        BY <2>2, <3>1, <4>1 DEF AnsweredInv, Current
    <3>4. CASE ret = H2_OK /\ Quiet
      BY <2>2, <3>2, <3>4 DEF AllAnswered, Quiet, tableVars
    <3>5. CASE ret = H2_OK /\ UNCHANGED feedVars /\ Handler
      BY <2>2, <3>2, <3>5, HandlerResponse DEF ResponseStep
    <3>6. CASE StreamError /\ Fits(output_len, RstStreamSize)
      BY <2>2, <3>1, <3>6, StreamErrorResponse DEF AllAnswered
    <3> QED
      BY <3>1, <3>3, <3>4, <3>5, <3>6
  <2> QED
    BY <2>1, <2>2 DEF ResponseInv, AnsweredInv
<1> QED
  BY <1>1, InitResponse, Invariance, FlowInvariance, PTL DEF Spec

(* A stream that was accepted is never forgotten, a deferred body always   *)
(* follows its HEADERS, and END_STREAM is only sent from a state that      *)
(* allows it: h2_stream_send_end_stream cannot fail halfway through a      *)
(* response that is already queued.                                        *)
THEOREM PhaseCorrect == Spec => []ResponsePhase
<1>1. ResponseInv => ResponsePhase
  BY DEF ResponseInv, PhaseInv, StreamPhase, AnsweredInv, Answered,
         ResponsePhase, Healthy, Sound, Fatal
<1> QED
  BY <1>1, ResponseInvariance, PTL

(* What the peer sees of a stream is HEADERS once, then at most one DATA   *)
(* with END_STREAM, and nothing after RST_STREAM unless the id was refused *)
(* and opened again.                                                       *)
THEOREM WireCorrect == Spec => []WireOrder
<1>1. ResponseInv => WireOrder
  BY DEF ResponseInv, WireInv
<1> QED
  BY <1>1, ResponseInvariance, PTL

-----------------------------------------------------------------------------
(* When the frame at the head of the input is bound to fail.               *)

(* A setting that h2_connection_apply_settings rejects, now or after any   *)
(* number of settings that it accepts: those move the window of a live     *)
(* stream and the initial window alike.                                    *)
OutOfRange(k, v) == streams[k].send_window - initial_stream_window + v
                       \notin INT32_MIN .. INT32_MAX
BadSetting(s) ==
    \/ /\ s.id = H2_SETTINGS_INITIAL_WINDOW_SIZE
       /\ s.value > INT32_MAX \/ \E k \in LiveSlots : OutOfRange(k, s.value)
    \/ /\ s.id # H2_SETTINGS_INITIAL_WINDOW_SIZE
       /\ SettingVerdict(s) # H2_OK
SettingsFail(f, p) ==
    \E j \in DOMAIN f.settings : j >= p /\ BadSetting(f.settings[j])

FailsData(f) ==
    \/ DataVerdict(f) # H2_OK
    \/ LET s == streams[FindSlot(f.stream_id)]
       IN  ReceivesData(s) /\ s.recv_window < f.length
FailsHeaders(f) ==
    \/ HeadersVerdict(f) # H2_OK
    \/ EndHeaders(f) /\ RejectedStreamId(f.stream_id)
FailsSettings(f) ==
    \/ ParseSettings(f) # H2_OK
    \/ H2_FLAG_ACK \notin f.flags /\ SettingsFail(f, 1)

(* process_frame gives a connection error for f. *)
Fails(f) ==
    \/ Admission(f) # H2_OK
    \/ f.type = H2_FRAME_DATA /\ FailsData(f)
    \/ f.type = H2_FRAME_HEADERS /\ FailsHeaders(f)
    \/ f.type = H2_FRAME_CONTINUATION /\ ContinuationVerdict(f) # H2_OK
    \/ f.type = H2_FRAME_PRIORITY /\ ParsePriority(f) # H2_OK
    \/ f.type = H2_FRAME_GOAWAY /\ ValidatePayload(f) # H2_OK
    \/ f.type = H2_FRAME_PING /\ ParsePing(f) # H2_OK
    \/ f.type = H2_FRAME_RST_STREAM /\ RstVerdict(f) # H2_OK
    \/ f.type = H2_FRAME_WINDOW_UPDATE /\ WindowUpdateVerdict(f) # H2_OK
    \/ f.type = H2_FRAME_PUSH_PROMISE
    \/ f.type = H2_FRAME_SETTINGS /\ FailsSettings(f)

(* What feed does not answer with RST_STREAM. *)
ConnError(r) == r # H2_OK /\ ~(IsStreamError(r) /\ Current.stream_id # 0)

-----------------------------------------------------------------------------
(* The inductive invariant.                                                *)

(* Where the loops of feed and of apply_settings are. *)
LoopInv ==
    /\ pc \in {"settings", "flush", "result"} => HeadComplete
    /\ pc = "settings" => /\ Current.type = H2_FRAME_SETTINGS
                          /\ H2_FLAG_ACK \notin Current.flags
    /\ ~preface_seen => pc \in {"idle", "closed"}
    /\ goaway_sent /\ ~preface_seen => preface = "bad"
    /\ ~goaway_sent => goaway_last = -1

(* The connection error of a handler is one that it would give again. *)
ResultInv == pc = "result" /\ ConnError(ret) /\ ret # H2_INTERNAL_ERROR
             => Fails(Current)

(* After GOAWAY for such an error the frame still fails, however far its   *)
(* processing has come.                                                    *)
Poisoned == goaway_sent /\ goaway_error # H2_INTERNAL_ERROR /\ preface_seen
PoisonInv ==
    Poisoned => /\ HeadComplete /\ pc # "flush"
                /\ pc = "settings" => SettingsFail(Current, pos)
                /\ pc = "result" => ConnError(ret)
                /\ pc # "settings" => Fails(Current)

ErrorInv == LoopInv /\ ResultInv /\ PoisonInv /\ GoawayBinding

LEMMA InitError == Init => ErrorInv
BY DEF Init, ErrorInv, LoopInv, ResultInv, PoisonInv, Poisoned, GoawayBinding

-----------------------------------------------------------------------------
(* What Fails depends on.                                                  *)
Watched == <<settingVars, tableVars, conn_send_window, conn_recv_window>>

LEMMA FailsSame ==
    ASSUME UNCHANGED Watched, Current' = Current
    PROVE  /\ Fails(Current)' <=> Fails(Current)
           /\ \A p : SettingsFail(Current, p)' <=> SettingsFail(Current, p)
<1> USE DEF Watched, settingVars, tableVars
<1>1. LiveSlots' = LiveSlots
  BY DEF LiveSlots
<1>2. \A s : BadSetting(s)' <=> BadSetting(s)
  BY <1>1 DEF BadSetting, OutOfRange
<1>3. \A i : FindSlot(i)' = FindSlot(i)
  BY DEF FindSlot
<1>4. Admission(Current)' = Admission(Current)
  BY DEF Admission
<1>5. FailsData(Current)' <=> FailsData(Current)
  BY <1>3 DEF FailsData, DataVerdict
<1>6. FailsHeaders(Current)' <=> FailsHeaders(Current)
  BY DEF FailsHeaders, HeadersVerdict, RejectedStreamId
<1>7. ContinuationVerdict(Current)' = ContinuationVerdict(Current)
  BY DEF ContinuationVerdict
<1>8. RstVerdict(Current)' = RstVerdict(Current)
  BY <1>3 DEF RstVerdict
<1>9. WindowUpdateVerdict(Current)' = WindowUpdateVerdict(Current)
  BY <1>3 DEF WindowUpdateVerdict
<1>10. \A p : SettingsFail(Current, p)' <=> SettingsFail(Current, p)
  BY <1>2 DEF SettingsFail
<1>11. FailsSettings(Current)' <=> FailsSettings(Current)
  BY <1>10 DEF FailsSettings
<1> QED
  BY <1>4, <1>5, <1>6, <1>7, <1>8, <1>9, <1>10, <1>11 DEF Fails

(* What an admitted frame fails for is decided by its type. *)
LEMMA FailsByType ==
    ASSUME NEW f, Admission(f) = H2_OK
    PROVE  /\ f.type = H2_FRAME_DATA => (Fails(f) <=> FailsData(f))
           /\ f.type = H2_FRAME_HEADERS => (Fails(f) <=> FailsHeaders(f))
           /\ f.type = H2_FRAME_CONTINUATION =>
                 (Fails(f) <=> ContinuationVerdict(f) # H2_OK)
           /\ f.type = H2_FRAME_PRIORITY =>
                 (Fails(f) <=> ParsePriority(f) # H2_OK)
           /\ f.type = H2_FRAME_GOAWAY =>
                 (Fails(f) <=> ValidatePayload(f) # H2_OK)
           /\ f.type = H2_FRAME_PING => (Fails(f) <=> ParsePing(f) # H2_OK)
           /\ f.type = H2_FRAME_RST_STREAM =>
                 (Fails(f) <=> RstVerdict(f) # H2_OK)
           /\ f.type = H2_FRAME_WINDOW_UPDATE =>
                 (Fails(f) <=> WindowUpdateVerdict(f) # H2_OK)
           /\ f.type = H2_FRAME_SETTINGS => (Fails(f) <=> FailsSettings(f))
           /\ f.type \in Nat /\ f.type > H2_FRAME_CONTINUATION => ~Fails(f)
BY DEF Fails, H2_FRAME_DATA, H2_FRAME_HEADERS, H2_FRAME_PRIORITY,
       H2_FRAME_RST_STREAM, H2_FRAME_SETTINGS, H2_FRAME_PUSH_PROMISE,
       H2_FRAME_PING, H2_FRAME_GOAWAY, H2_FRAME_WINDOW_UPDATE,
       H2_FRAME_CONTINUATION

-----------------------------------------------------------------------------
(* One lemma per handler: an error it gives is one that it would give      *)
(* again, and a frame that is bound to fail fails, opens no stream and     *)
(* still is bound to fail.                                                 *)
FailsAgain ==
    /\ UNCHANGED last_stream_id
    /\ \/ pc' = "result" /\ ConnError(ret)' /\ Fails(Current)'
       \/ pc' = "settings" /\ SettingsFail(Current, pos)'
ErrorStep == ResultInv' /\ (Fails(Current) => FailsAgain)

(* A check that fails, before anything is changed. *)
LEMMA RejectError ==
    ASSUME Current' = Current, NEW r, Reject(r), r \notin StreamCode,
           Fails(Current)
    PROVE  ErrorStep
<1>1. /\ UNCHANGED Watched /\ UNCHANGED last_stream_id
      /\ pc' = "result" /\ ret' = r /\ r # H2_OK
  BY DEF Reject, ReturnOnly, Done, Watched, sendVars, recvVars, tableVars
<1>2. Fails(Current)'
  BY <1>1, FailsSame
<1>3. ConnError(ret)'
  BY <1>1 DEF ConnError, IsStreamError, StreamCode
<1> QED
  BY <1>1, <1>2, <1>3 DEF ErrorStep, FailsAgain, ResultInv

(* A handler that returns H2_OK for a frame that does not fail. *)
LEMMA AcceptError ==
    ASSUME ret' = H2_OK \/ ret' = H2_INTERNAL_ERROR, ~Fails(Current)
    PROVE  ErrorStep
BY DEF ErrorStep, ResultInv, ConnError

LEMMA AdmissionCode ==
    ASSUME NEW f PROVE Admission(f) \notin StreamCode
BY DEF Admission, StreamCode, H2_OK, H2_PROTOCOL_ERROR, H2_FRAME_SIZE_ERROR,
       H2_REFUSED_STREAM, H2_STREAM_CLOSED

LEMMA CheckOnlyError ==
    ASSUME Inv, Current' = Current,
           \/ RejectFrame \/ ProcessPriority \/ ProcessPushPromise
           \/ ProcessGoaway \/ ProcessUnknown
    PROVE  ErrorStep
<1>1. CASE RejectFrame
  <2>1. Reject(Admission(Current)) /\ Fails(Current)
    BY <1>1 DEF RejectFrame, Reject, Fails
  <2> QED
    BY <2>1, AdmissionCode, RejectError
<1>2. \A r : ReturnOnly(r) /\ r # H2_OK => Reject(r)
  BY DEF Reject
<1>3. \A r : ReturnOnly(r) => ret' = r
  BY DEF ReturnOnly, Done
<1>4. CASE ProcessPriority
  <2>1. /\ ReturnOnly(ParsePriority(Current))
        /\ Fails(Current) <=> ParsePriority(Current) # H2_OK
    BY <1>4, FailsByType DEF ProcessPriority, Dispatch
  <2> QED
    BY <1>2, <1>3, <2>1, ParseCode, RejectError, AcceptError
<1>5. CASE ProcessPushPromise
  <2>1. Reject(H2_PROTOCOL_ERROR) /\ Fails(Current)
    BY <1>2, <1>5 DEF ProcessPushPromise, Fails, H2_OK, H2_PROTOCOL_ERROR
  <2>2. H2_PROTOCOL_ERROR \notin StreamCode
    BY DEF StreamCode, H2_PROTOCOL_ERROR, H2_REFUSED_STREAM, H2_STREAM_CLOSED
  <2> QED
    BY <2>1, <2>2, RejectError
<1>6. CASE ProcessGoaway
  <2>1. /\ ReturnOnly(ValidatePayload(Current))
        /\ Fails(Current) <=> ValidatePayload(Current) # H2_OK
    BY <1>6, FailsByType DEF ProcessGoaway, Dispatch
  <2> QED
    BY <1>2, <1>3, <2>1, ParseCode, RejectError, AcceptError
<1>7. CASE ProcessUnknown
  <2>1. Current.type \in Nat
    <3>1. input # << >>
      BY <1>7 DEF ProcessUnknown, Dispatch, HeadComplete
    <3> QED
      BY <3>1, CurrentType DEF Inv, TypeOK
  <2>2. ReturnOnly(H2_OK) /\ ~Fails(Current)
    BY <1>7, <2>1, FailsByType DEF ProcessUnknown, Dispatch
  <2> QED
    BY <1>3, <2>2, AcceptError
<1> QED
  BY <1>1, <1>4, <1>5, <1>6, <1>7

LEMMA RstStreamError ==
    ASSUME Current' = Current, ProcessRstStream
    PROVE  ErrorStep
<1> DEFINE f == Current
<1>1. /\ Admission(f) = H2_OK /\ f.type = H2_FRAME_RST_STREAM
      /\ Reject(RstVerdict(f)) \/ (RstVerdict(f) = H2_OK /\ ret' = H2_OK)
  BY DEF ProcessRstStream, Dispatch, Done
<1>2. Fails(f) <=> RstVerdict(f) # H2_OK
  BY <1>1, FailsByType
<1>3. RstVerdict(f) \notin StreamCode
  BY ParseCode DEF RstVerdict, StreamCode, H2_OK, H2_PROTOCOL_ERROR,
                   H2_REFUSED_STREAM, H2_STREAM_CLOSED
<1> QED
  BY <1>1, <1>2, <1>3, RejectError, AcceptError DEF Reject

LEMMA PingError ==
    ASSUME Current' = Current, ProcessPing
    PROVE  ErrorStep
<1> DEFINE f == Current
<1>1. /\ Admission(f) = H2_OK /\ f.type = H2_FRAME_PING
      /\ \/ Reject(ParsePing(f))
         \/ ParsePing(f) = H2_OK /\ ret' \in {H2_OK, H2_INTERNAL_ERROR}
  BY DEF ProcessPing, Dispatch, Done, ReturnOnly, QueueRet
<1>2. Fails(f) <=> ParsePing(f) # H2_OK
  BY <1>1, FailsByType
<1> QED
  BY <1>1, <1>2, ParseCode, RejectError, AcceptError DEF Reject

LEMMA WindowUpdateError ==
    ASSUME Current' = Current, ProcessWindowUpdate
    PROVE  ErrorStep
<1> DEFINE f == Current
<1>1. /\ Admission(f) = H2_OK /\ f.type = H2_FRAME_WINDOW_UPDATE
      /\ \/ Reject(WindowUpdateVerdict(f))
         \/ WindowUpdateVerdict(f) = H2_OK /\ ret' = H2_OK
  BY DEF ProcessWindowUpdate, Dispatch, Done, ReturnOnly, Goto
<1>2. Fails(f) <=> WindowUpdateVerdict(f) # H2_OK
  BY <1>1, FailsByType
<1>3. WindowUpdateVerdict(f) \notin StreamCode
  BY ParseCode DEF WindowUpdateVerdict, AddSendWindow, StreamCode, H2_OK,
     H2_PROTOCOL_ERROR, H2_FLOW_CONTROL_ERROR, H2_REFUSED_STREAM,
     H2_STREAM_CLOSED
<1> QED
  BY <1>1, <1>2, <1>3, RejectError, AcceptError DEF Reject

(* A flush of deferred responses fails only for want of room. *)
LEMMA FlushError ==
    ASSUME Inv, PhaseInv, FlushDeferred
    PROVE  ResultInv'
<1> DEFINE k == First(DeferredFrom(pos))
           q == QueueResponse(streams[k], conn_send_window, output_len)
<1>1. CASE DeferredFrom(pos) = {}
  BY <1>1 DEF FlushDeferred, ReturnOnly, Done, ResultInv, ConnError
<1>2. CASE DeferredFrom(pos) # {}
  <2>1. k \in DeferredFrom(pos)
    <3>1. DeferredFrom(pos) \subseteq Nat
      BY Constants DEF DeferredFrom
    <3> QED
      BY <1>2, <3>1, FirstIsLeast
  <2>2. k \in Slots /\ streams[k].response_body_deferred
    BY <2>1 DEF DeferredFrom, Flushable
  <2>3. q.ret \in {H2_OK, H2_INTERNAL_ERROR}
    <3>1. /\ streams[k] \in Stream /\ conn_send_window \in 0 .. INT32_MAX
      BY <2>2 DEF Inv, TypeOK, TableType, SendType
    <3>2. /\ StreamPhase(streams[k])
          /\ streams[k].state \in {"OPEN", "HALF_CLOSED_REMOTE"}
      BY <2>2 DEF PhaseInv, StreamPhase
    <3> HIDE DEF k
    <3>3. Responds(q, streams[k])
      BY <3>1, <3>2, QueueResponseResponds
    <3> HIDE DEF q
    <3> QED
      BY <3>3 DEF Responds
  <2>4. ret' \in {H2_OK, H2_INTERNAL_ERROR}
    BY <1>2, <2>3 DEF FlushDeferred, Goto, Done
  <2> QED
    BY <2>4 DEF ResultInv, ConnError
<1> QED
  BY <1>1, <1>2

-----------------------------------------------------------------------------
(* SETTINGS.                                                               *)
LEMMA SettingsError ==
    ASSUME Current' = Current, ProcessSettings
    PROVE  ErrorStep
<1> DEFINE f == Current
<1>1. Admission(f) = H2_OK /\ f.type = H2_FRAME_SETTINGS
  BY DEF ProcessSettings, Dispatch
<1>2. Fails(f) <=> FailsSettings(f)
  BY <1>1, FailsByType
<1>3. CASE Reject(ParseSettings(f))
  BY <1>2, <1>3, ParseCode, RejectError DEF Reject, FailsSettings
<1>4. CASE /\ ParseSettings(f) = H2_OK /\ H2_FLAG_ACK \in f.flags
           /\ ReturnOnly(H2_OK)
  BY <1>2, <1>4, AcceptError DEF FailsSettings, ReturnOnly, Done
<1>5. CASE /\ ParseSettings(f) = H2_OK /\ H2_FLAG_ACK \notin f.flags
           /\ Goto("settings", 1)
           /\ UNCHANGED <<settingVars, sendVars, recvVars, tableVars,
                          output_len>>
  <2>1. /\ pc' = "settings" /\ ret' = H2_OK /\ pos' = 1
        /\ UNCHANGED Watched /\ UNCHANGED last_stream_id
    BY <1>5 DEF Goto, Watched, sendVars, recvVars, tableVars
  <2>2. Fails(f) => SettingsFail(f, 1)
    BY <1>2, <1>5 DEF FailsSettings
  <2>3. ResultInv'
    BY <2>1 DEF ResultInv
  <2>4. SettingsFail(f, 1) => SettingsFail(Current, pos)'
    <3>1. SettingsFail(Current, 1)' <=> SettingsFail(Current, 1)
      BY <2>1, FailsSame
    <3> QED
      BY <2>1, <3>1 DEF SettingsFail
  <2> QED
    BY <2>1, <2>2, <2>3, <2>4 DEF ErrorStep, FailsAgain
<1> QED
  BY <1>3, <1>4, <1>5 DEF ProcessSettings

(* A setting that is rejected leaves a frame that fails: the window that   *)
(* overflowed was not moved.  A setting that is accepted leaves every bad  *)
(* one after it bad, since it moves the window of each live stream by as   *)
(* much as the initial window.                                             *)
LEMMA SetInitialWindowBad ==
    ASSUME Inv, NEW v \in Nat, SetInitialWindow(v)
    PROVE  \/ /\ pc' = "result" /\ ret' = H2_FLOW_CONTROL_ERROR
              /\ \/ v > INT32_MAX
                 \/ \E k \in LiveSlots' : OutOfRange(k, v)'
           \/ /\ Goto("settings", pos + 1)
              /\ ~(v > INT32_MAX) /\ \A k \in LiveSlots : ~OutOfRange(k, v)
              /\ LiveSlots' = LiveSlots
              /\ \A k \in LiveSlots, u \in Nat :
                    OutOfRange(k, u)' <=> OutOfRange(k, u)
<1> DEFINE delta == v - initial_stream_window
<1>1. /\ streams \in [Slots -> Stream] /\ initial_stream_window \in Int
      /\ \A k \in Slots : streams[k].send_window \in Int
  BY WindowAssumption DEF Inv, TypeOK, TableType, SettingType, Stream, INT32_MIN
<1>2. \A k \in LiveSlots : streams[k].send_window + delta
                              = streams[k].send_window - initial_stream_window + v
  BY <1>1 DEF LiveSlots
<1>3. CASE v > INT32_MAX /\ Done(H2_FLOW_CONTROL_ERROR)
  BY <1>3 DEF Done
<1>4. CASE /\ Overflowing(delta) # {} /\ streams' = MovedStreams(delta)
           /\ Done(H2_FLOW_CONTROL_ERROR) /\ UNCHANGED initial_stream_window
  <2>1. Overflowing(delta) \subseteq Nat
    BY Constants DEF Overflowing, LiveSlots
  <2>2. PICK k \in Overflowing(delta) : k = First(Overflowing(delta))
    BY <1>4, <2>1, FirstIsLeast
  <2>3. /\ k \in LiveSlots /\ k \in Slots /\ k \in Nat
        /\ streams[k].send_window + delta \notin INT32_MIN .. INT32_MAX
    BY <2>1, <2>2 DEF Overflowing, LiveSlots
  <2>4. k \notin Moved(delta)
    BY <1>4, <2>2, <2>3 DEF Moved
  <2>5. streams'[k] = streams[k]
    BY <1>4, <2>3, <2>4 DEF MovedStreams
  <2>6. k \in LiveSlots'
    BY <2>3, <2>5 DEF LiveSlots
  <2>7. OutOfRange(k, v)'
    BY <1>2, <1>4, <2>3, <2>5 DEF OutOfRange
  <2> QED
    BY <1>4, <2>6, <2>7 DEF Done
<1>5. CASE /\ v <= INT32_MAX /\ Overflowing(delta) = {}
           /\ streams' = MovedStreams(delta) /\ initial_stream_window' = v
           /\ Goto("settings", pos + 1)
  <2>1. \A k \in LiveSlots : ~OutOfRange(k, v)
    BY <1>2, <1>5 DEF Overflowing, OutOfRange
  <2> HIDE DEF delta
  <2>2. \A k \in Slots :
           streams'[k] = IF k \in LiveSlots
                         THEN [streams[k] EXCEPT !.send_window = @ + delta]
                         ELSE streams[k]
    BY <1>5 DEF MovedStreams, Moved
  <2>3. \A k \in Slots : /\ streams'[k].state = streams[k].state
                         /\ streams'[k].id = streams[k].id
    BY <1>1, <2>2 DEF Stream
  <2>4. LiveSlots' = LiveSlots
    BY <2>3 DEF LiveSlots, Live, Tracked
  <2>5. \A k \in LiveSlots :
           streams'[k].send_window = streams[k].send_window + delta
    BY <1>1, <2>2 DEF Stream, LiveSlots
  <2>6. ASSUME NEW k \in LiveSlots, NEW u \in Nat
        PROVE  OutOfRange(k, u)' <=> OutOfRange(k, u)
    <3>1. streams[k].send_window \in Int
      BY <1>1 DEF LiveSlots
    <3>2. streams'[k].send_window - initial_stream_window' + u
             = streams[k].send_window - initial_stream_window + u
      BY <1>1, <1>5, <2>5, <3>1 DEF delta
    <3> QED
      BY <3>2 DEF OutOfRange
  <2>7. ~(v > INT32_MAX)
    BY <1>5, WindowAssumption
  <2> QED
    BY <1>5, <2>1, <2>4, <2>6, <2>7
<1> QED
  BY <1>3, <1>4, <1>5 DEF SetInitialWindow

LEMMA ApplySettingError ==
    ASSUME Inv, LoopInv, Current' = Current, ApplySetting
    PROVE  ResultInv' /\ (SettingsFail(Current, pos) => FailsAgain)
<1>1. PICK f : f = Current
  OBVIOUS
<1>2. PICK p : p = pos
  OBVIOUS
<1>3. /\ f.type = H2_FRAME_SETTINGS /\ H2_FLAG_ACK \notin f.flags
      /\ f.settings \in Seq(Setting) /\ p \in Nat /\ p >= 1
      /\ p <= Len(f.settings)
  <2>1. pc = "settings" /\ input # << >> /\ pos <= Len(Current.settings)
    BY DEF ApplySetting, Inv, Busy
  <2> QED
    BY <1>1, <1>2, <2>1, CurrentType
       DEF Inv, TypeOK, ControlType, LoopInv, Busy
<1>4. PICK s : s = f.settings[p]
  OBVIOUS
<1>5. /\ p \in DOMAIN f.settings /\ s \in Setting /\ s.value \in Nat
      /\ \A j \in DOMAIN f.settings : /\ j \in Nat /\ f.settings[j] \in Setting
                                      /\ f.settings[j].value \in Nat
  <2>1. p \in DOMAIN f.settings /\ s \in Setting
        /\ \A j \in DOMAIN f.settings : j \in Nat /\ f.settings[j] \in Setting
    BY <1>3, <1>4
  <2>2. \A t \in Setting : t.value \in Nat
    BY DEF Setting
  <2> QED
    BY <2>1, <2>2
<1>6. UNCHANGED last_stream_id
  BY DEF ApplySetting
<1> DEFINE Failed == /\ pc' = "result" /\ BadSetting(s)'
                     /\ ret' \in {H2_FLOW_CONTROL_ERROR, H2_PROTOCOL_ERROR}
           Applied == /\ Goto("settings", pos + 1) /\ ~BadSetting(s)
                      /\ \A t \in Setting : BadSetting(t) => BadSetting(t)'
<1>7. Failed \/ Applied
  <2>1. CASE s.id = H2_SETTINGS_INITIAL_WINDOW_SIZE
    <3>1. SetInitialWindow(s.value)
      BY <1>1, <1>2, <1>4, <2>1 DEF ApplySetting
    <3>2. CASE /\ pc' = "result" /\ ret' = H2_FLOW_CONTROL_ERROR
               /\ \/ s.value > INT32_MAX
                  \/ \E k \in LiveSlots' : OutOfRange(k, s.value)'
      BY <2>1, <3>2 DEF BadSetting
    <3>3. CASE /\ Goto("settings", pos + 1)
               /\ ~(s.value > INT32_MAX)
               /\ \A k \in LiveSlots : ~OutOfRange(k, s.value)
               /\ LiveSlots' = LiveSlots
               /\ \A k \in LiveSlots, u \in Nat :
                     OutOfRange(k, u)' <=> OutOfRange(k, u)
      <4>1. ~BadSetting(s)
        BY <2>1, <3>3 DEF BadSetting
      <4>2. \A t \in Setting : BadSetting(t) => BadSetting(t)'
        BY <3>3 DEF BadSetting, Setting
      <4> QED
        BY <3>3, <4>1, <4>2
    <3> QED
      BY <1>5, <3>1, <3>2, <3>3, SetInitialWindowBad
  <2>2. CASE s.id # H2_SETTINGS_INITIAL_WINDOW_SIZE
    <3>1. CASE SettingVerdict(s) # H2_OK
      <4>1. Done(SettingVerdict(s))
        BY <1>1, <1>2, <1>4, <2>2, <3>1 DEF ApplySetting
      <4>2. SettingVerdict(s) \in {H2_OK, H2_PROTOCOL_ERROR}
        BY DEF SettingVerdict
      <4> QED
        BY <2>2, <3>1, <4>1, <4>2 DEF Done, BadSetting
    <3>2. CASE SettingVerdict(s) = H2_OK
      <4>1. /\ Goto("settings", pos + 1)
            /\ UNCHANGED <<initial_stream_window, streams>>
        BY <1>1, <1>2, <1>4, <2>2, <3>2 DEF ApplySetting
      <4>2. ~BadSetting(s)
        BY <2>2, <3>2 DEF BadSetting
      <4>3. LiveSlots' = LiveSlots
        BY <4>1 DEF LiveSlots
      <4>4. \A t \in Setting : BadSetting(t) => BadSetting(t)'
        BY <4>1, <4>3 DEF BadSetting, OutOfRange
      <4> QED
        BY <4>1, <4>2, <4>4
    <3> QED
      BY <3>1, <3>2
  <2> QED
    BY <2>1, <2>2
<1>8. CASE Failed
  <2>1. SettingsFail(Current, 1)'
    BY <1>1, <1>3, <1>4, <1>5, <1>8 DEF SettingsFail
  <2>2. Fails(Current)'
    BY <1>1, <1>3, <2>1 DEF Fails, FailsSettings
  <2>3. ConnError(ret)'
    BY <1>8 DEF ConnError, IsStreamError, H2_OK, H2_FLOW_CONTROL_ERROR,
                H2_PROTOCOL_ERROR, H2_REFUSED_STREAM, H2_STREAM_CLOSED
  <2> QED
    BY <1>6, <1>8, <2>2, <2>3 DEF ResultInv, FailsAgain
<1>9. CASE Applied
  <2>1. pc' = "settings" /\ pos' = p + 1
    BY <1>2, <1>9 DEF Goto
  <2>2. ASSUME SettingsFail(Current, pos) PROVE SettingsFail(Current, pos)'
    <3>1. PICK j \in DOMAIN f.settings : j >= p /\ BadSetting(f.settings[j])
      BY <1>1, <1>2, <2>2 DEF SettingsFail
    <3>2. j # p
      BY <1>4, <1>9, <3>1
    <3>3. j >= p + 1
      BY <1>3, <1>5, <3>1, <3>2
    <3>4. BadSetting(f.settings[j])'
      BY <1>5, <1>9, <3>1
    <3> QED
      BY <1>1, <2>1, <3>3, <3>4 DEF SettingsFail
  <2> QED
    BY <1>6, <2>1, <2>2 DEF ResultInv, FailsAgain
<1> QED
  BY <1>7, <1>8, <1>9

(* With every setting applied nothing is left to fail. *)
LEMMA AcknowledgeError ==
    ASSUME Inv, AcknowledgeSettings
    PROVE  ResultInv' /\ ~SettingsFail(Current, pos)
<1>1. Current.settings \in Seq(Setting) /\ pos \in Nat
      /\ pos > Len(Current.settings)
  <2>1. pc = "settings" /\ input # << >>
    BY DEF AcknowledgeSettings, Inv, Busy
  <2> QED
    BY <2>1, CurrentType DEF AcknowledgeSettings, Inv, TypeOK, ControlType
<1>2. ~SettingsFail(Current, pos)
  BY <1>1 DEF SettingsFail
<1>3. ret' \in {H2_OK, H2_INTERNAL_ERROR}
  BY DEF AcknowledgeSettings, Done, QueueRet
<1> QED
  BY <1>2, <1>3 DEF ResultInv, ConnError

-----------------------------------------------------------------------------
(* DATA: a frame that exceeds the stream's window is charged to the        *)
(* connection each time, and exceeds the stream's window each time.        *)
LEMMA DataError ==
    ASSUME Inv, Current' = Current, ProcessData
    PROVE  ErrorStep
<1> USE DEF H2_OK, H2_INTERNAL_ERROR, H2_STREAM_CLOSED, H2_FLOW_CONTROL_ERROR,
            H2_PROTOCOL_ERROR, H2_REFUSED_STREAM
<1> DEFINE f == Current
           k == FindSlot(f.stream_id)
           d == ReceiveData(streams[k], f.length, H2_FLAG_END_STREAM \in f.flags)
<1>1. Admission(f) = H2_OK /\ f.type = H2_FRAME_DATA
  BY DEF ProcessData, Dispatch
<1>2. Fails(f) <=> FailsData(f)
  BY <1>1, FailsByType
<1>3. DataVerdict(f) \notin StreamCode
  BY ParseCode DEF DataVerdict, StreamCode
<1>4. CASE Reject(DataVerdict(f))
  BY <1>2, <1>3, <1>4, RejectError DEF Reject, FailsData
<1>5. CASE /\ DataVerdict(f) = H2_OK
           /\ IF ReceivesData(streams[k]) THEN DataOnStream(f, k)
                                          ELSE DataOnClosedStream(f)
           /\ UNCHANGED last_stream_id
  <2>1. FailsData(f) <=> ReceivesData(streams[k])
                         /\ streams[k].recv_window < f.length
    BY <1>5 DEF FailsData
  <2>2. CASE ~ReceivesData(streams[k])
    <3>1. f.stream_id # 0
      BY <1>1, <1>5, OnStreamOnly DEF DataVerdict, ParseData
    <3>2. ret' = H2_STREAM_CLOSED
      BY <1>5, <2>2 DEF DataOnClosedStream, Done
    <3>3. ~ConnError(ret)'
      BY <3>1, <3>2 DEF ConnError, IsStreamError
    <3> QED
      BY <1>2, <2>1, <2>2, <3>3 DEF ErrorStep, ResultInv
  <2>3. CASE ReceivesData(streams[k]) /\ d.ret = H2_OK
    <3>1. ~(streams[k].recv_window < f.length)
      BY <2>3 DEF ReceiveData
    <3>2. \A w, out : Refresh(w, out).ret \in {H2_OK, H2_INTERNAL_ERROR}
      BY DEF Refresh, QueueRet
    <3>3. ret' \in {H2_OK, H2_INTERNAL_ERROR}
      BY <1>5, <2>3, <3>2 DEF DataOnStream, Done
    <3> QED
      BY <1>2, <2>1, <3>1, <3>3, AcceptError
  <2>4. CASE ReceivesData(streams[k]) /\ d.ret # H2_OK
    <3>1. /\ UNCHANGED streams /\ pc' = "result" /\ ret' = d.ret
      BY <1>5, <2>4 DEF DataOnStream, Done
    <3>2. /\ d.ret \in {H2_INTERNAL_ERROR, H2_FLOW_CONTROL_ERROR}
          /\ d.ret = H2_FLOW_CONTROL_ERROR => streams[k].recv_window < f.length
      BY <2>4 DEF ReceiveData
    <3> HIDE DEF d
    <3>3. ConnError(ret)'
      BY <3>1, <3>2 DEF ConnError, IsStreamError
    <3>4. ASSUME streams[k].recv_window < f.length PROVE Fails(Current)'
      <4>1. \A i : FindSlot(i)' = FindSlot(i)
        BY <3>1 DEF FindSlot
      <4>2. FailsData(Current)'
        BY <2>4, <3>1, <3>4, <4>1 DEF FailsData
      <4> QED
        BY <1>1, <4>2 DEF Fails
    <3> QED
      BY <1>2, <1>5, <2>1, <3>1, <3>2, <3>3, <3>4
         DEF ErrorStep, ResultInv, FailsAgain
  <2> QED
    BY <2>2, <2>3, <2>4
<1> QED
  BY <1>4, <1>5 DEF ProcessData

(* HEADERS whose block does not decode has advanced last_stream_id, and    *)
(* HEADERS whose first fragment is too long has opened the header block:   *)
(* neither is accepted a second time.                                      *)
LEMMA HeadersError ==
    ASSUME Inv, Current' = Current, ProcessHeaders
    PROVE  ErrorStep
<1> DEFINE f == Current
<1>1. Admission(f) = H2_OK /\ f.type = H2_FRAME_HEADERS
  BY DEF ProcessHeaders, Dispatch
<1>2. Fails(f) <=> FailsHeaders(f)
  BY <1>1, FailsByType
<1>3. f.stream_id \in Nat
  <2>1. input # << >>
    BY DEF ProcessHeaders, Dispatch, HeadComplete
  <2> QED
    BY <2>1, CurrentType DEF Inv, TypeOK
<1>4. HeadersVerdict(f) \notin StreamCode
  BY ParseCode DEF HeadersVerdict, StreamCode, H2_OK, H2_PROTOCOL_ERROR,
                   H2_REFUSED_STREAM, H2_STREAM_CLOSED
<1>5. CASE Reject(HeadersVerdict(f))
  BY <1>2, <1>4, <1>5, RejectError DEF Reject, FailsHeaders
<1>6. CASE HeadersVerdict(f) = H2_OK /\ ~EndHeaders(f) /\ OpenHeaderBlock(f)
  <2>1. ~Fails(f)
    BY <1>2, <1>6 DEF FailsHeaders
  <2>2. header_block'.open /\ header_block'.stream_id = f.stream_id
    BY <1>6 DEF OpenHeaderBlock, AppendHeaderBlock
  <2>3. Admission(Current)' # H2_OK
    BY <1>1, <2>2 DEF Admission, H2_OK, H2_PROTOCOL_ERROR,
       H2_FRAME_SIZE_ERROR, H2_FRAME_HEADERS, H2_FRAME_CONTINUATION
  <2> QED
    BY <2>1, <2>3 DEF ErrorStep, ResultInv, Fails
<1>7. CASE /\ HeadersVerdict(f) = H2_OK /\ EndHeaders(f)
           /\ FinishHeaders(f.stream_id, f.flags, f.block)
           /\ UNCHANGED <<header_block, settingVars, conn_recv_window>>
  <2>1. Fails(f) <=> RejectedStreamId(f.stream_id)
    BY <1>2, <1>7 DEF FailsHeaders
  <2>2. CASE RejectedStreamId(f.stream_id)
    <3>1. /\ Done(H2_PROTOCOL_ERROR)
          /\ UNCHANGED <<last_stream_id, streams, sendVars>>
      BY <1>7, <2>2 DEF FinishHeaders
    <3>2. UNCHANGED Watched
      BY <1>7, <3>1 DEF Watched, tableVars, sendVars
    <3>3. Fails(Current)'
      BY <2>1, <2>2, <3>2, FailsSame
    <3>4. pc' = "result" /\ ConnError(ret)'
      BY <3>1 DEF Done, ConnError, IsStreamError, H2_OK, H2_PROTOCOL_ERROR,
                  H2_REFUSED_STREAM, H2_STREAM_CLOSED
    <3> QED
      BY <3>1, <3>3, <3>4 DEF ErrorStep, ResultInv, FailsAgain
  <2>3. CASE ~RejectedStreamId(f.stream_id)
    <3>1. f.stream_id # 0
      BY <2>3 DEF RejectedStreamId
    <3>2. \/ ret' = H2_REFUSED_STREAM
          \/ last_stream_id' = f.stream_id
      BY <1>7, <2>3 DEF FinishHeaders, Done
    <3>3. CASE ret' = H2_REFUSED_STREAM
      <4>1. ~ConnError(ret)'
        BY <3>1, <3>3 DEF ConnError, IsStreamError
      <4> QED
        BY <2>1, <2>3, <4>1 DEF ErrorStep, ResultInv
    <3>4. CASE last_stream_id' = f.stream_id
      <4>1. RejectedStreamId(Current.stream_id)'
        BY <1>3, <3>4 DEF RejectedStreamId
      <4>2. Fails(Current)'
        BY <1>1, <1>7, <4>1 DEF Fails, FailsHeaders, EndHeaders
      <4> QED
        BY <2>1, <2>3, <4>2 DEF ErrorStep, ResultInv
    <3> QED
      BY <3>2, <3>3, <3>4
  <2> QED
    BY <2>2, <2>3
<1> QED
  BY <1>5, <1>6, <1>7 DEF ProcessHeaders

(* A CONTINUATION that ends a header block has closed it. *)
LEMMA ContinuationError ==
    ASSUME Inv, Current' = Current, ProcessContinuation
    PROVE  ErrorStep
<1> DEFINE f == Current
           h == AppendHeaderBlock(header_block, f.block, f.length)
<1>1. Admission(f) = H2_OK /\ f.type = H2_FRAME_CONTINUATION
  BY DEF ProcessContinuation, Dispatch
<1>2. Fails(f) <=> ContinuationVerdict(f) # H2_OK
  BY <1>1, FailsByType
<1>3. ContinuationVerdict(f) \notin StreamCode
  BY ParseCode DEF ContinuationVerdict, AppendRet, StreamCode, H2_OK,
     H2_PROTOCOL_ERROR, H2_COMPRESSION_ERROR, H2_REFUSED_STREAM,
     H2_STREAM_CLOSED
<1>4. CASE Reject(ContinuationVerdict(f))
  BY <1>2, <1>3, <1>4, RejectError DEF Reject
<1>5. CASE ContinuationVerdict(f) = H2_OK /\ Done(H2_OK)
  BY <1>2, <1>5, AcceptError DEF Done
<1>6. CASE ContinuationVerdict(f) = H2_OK /\ header_block' = [h EXCEPT !.open = FALSE]
  <2>1. header_block \in HeaderBlock
    BY DEF Inv, TypeOK, TableType
  <2>2. h.open = header_block.open /\ ~header_block'.open
    BY <1>6, <2>1 DEF AppendHeaderBlock, HeaderBlock
  <2>3. ContinuationVerdict(Current)' # H2_OK
    BY <2>2 DEF ContinuationVerdict, H2_OK, H2_PROTOCOL_ERROR
  <2>4. Fails(Current)'
    BY <1>1, <2>3 DEF Fails
  <2> QED
    BY <1>2, <1>6, <2>4 DEF ErrorStep, ResultInv
<1> QED
  BY <1>4, <1>5, <1>6 DEF ProcessContinuation

-----------------------------------------------------------------------------
(* Steps of process_frame. *)
LEMMA ProcessFrameLoop ==
    ASSUME Inv, CallInv, LoopInv, ProcessFrame
    PROVE  /\ LoopInv' /\ HeadComplete /\ HeadComplete' /\ Current' = Current
           /\ Poisoned' = Poisoned
<1>1. pc \in {"frames", "settings", "flush"} /\ UNCHANGED feedVars
  BY ProcessFrameKinds
<1>2. UNCHANGED <<preface, preface_seen, goaway_sent, goaway_error, goaway_last,
                  input, missing>>
  BY <1>1 DEF feedVars, prefaceVars, goawayVars, inputVars
<1>3. HeadComplete
  <2>1. pc = "frames" => HeadComplete
    BY DEF ProcessFrame, RejectFrame, ProcessData, ProcessHeaders,
         ProcessContinuation, ProcessPriority, ProcessPushPromise,
         ProcessGoaway, ProcessUnknown, ProcessRstStream, ProcessPing,
         ProcessSettings, ApplySetting, AcknowledgeSettings,
         ProcessWindowUpdate, FlushDeferred, Dispatch
  <2> QED
    BY <1>1, <2>1 DEF LoopInv
<1>4. HeadComplete' /\ Current' = Current
  BY <1>2, <1>3 DEF HeadComplete, Current
<1>5. pc' = "settings" => ProcessSettings \/ ApplySetting
  <2>1. \A r : Done(r) => pc' # "settings"
    BY DEF Done
  <2>2. \A p : Goto("flush", p) => pc' # "settings"
    BY DEF Goto
  <2>3. \A r : ReturnOnly(r) \/ Reject(r) => pc' # "settings"
    BY <2>1 DEF Reject, ReturnOnly
  <2>4. ProcessData => pc' # "settings"
    BY <2>1, <2>3 DEF ProcessData, DataOnStream, DataOnClosedStream
  <2>5. \A id, fl, b : FinishHeaders(id, fl, b) => pc' # "settings"
    BY <2>1 DEF FinishHeaders
  <2>6. ProcessHeaders \/ ProcessContinuation => pc' # "settings"
    BY <2>1, <2>3, <2>5 DEF ProcessHeaders, ProcessContinuation, OpenHeaderBlock
  <2>7. RejectFrame \/ ProcessPriority \/ ProcessPushPromise \/ ProcessGoaway
        \/ ProcessUnknown => pc' # "settings"
    BY <2>3 DEF RejectFrame, ProcessPriority, ProcessPushPromise,
                ProcessGoaway, ProcessUnknown
  <2>8. ProcessRstStream \/ ProcessPing \/ AcknowledgeSettings
        => pc' # "settings"
    BY <2>1, <2>3 DEF ProcessRstStream, ProcessPing, AcknowledgeSettings
  <2>9. ProcessWindowUpdate \/ FlushDeferred => pc' # "settings"
    BY <2>1, <2>2, <2>3 DEF ProcessWindowUpdate, FlushDeferred
  <2> QED
    BY <2>4, <2>6, <2>7, <2>8, <2>9 DEF ProcessFrame
<1>6. pc' = "settings" => /\ Current'.type = H2_FRAME_SETTINGS
                          /\ H2_FLAG_ACK \notin Current'.flags
  <2>1. ProcessSettings /\ pc' = "settings" =>
           Current.type = H2_FRAME_SETTINGS /\ H2_FLAG_ACK \notin Current.flags
    BY DEF ProcessSettings, Reject, ReturnOnly, Done
  <2>2. ApplySetting =>
           Current.type = H2_FRAME_SETTINGS /\ H2_FLAG_ACK \notin Current.flags
    BY DEF ApplySetting, LoopInv
  <2> QED
    BY <1>4, <1>5, <2>1, <2>2
<1>7. LoopInv'
  BY <1>1, <1>2, <1>4, <1>6 DEF LoopInv
<1> QED
  BY <1>2, <1>3, <1>4, <1>7 DEF Poisoned

LEMMA ProcessFrameError ==
    ASSUME Inv, CallInv, PhaseInv, LoopInv, PoisonInv, ProcessFrame
    PROVE  /\ ResultInv' /\ PoisonInv'
           /\ Poisoned => UNCHANGED last_stream_id
<1>1. /\ HeadComplete' /\ Current' = Current /\ Poisoned' = Poisoned
  BY ProcessFrameLoop
<1>2. CASE FlushDeferred
  <2>1. ~Poisoned
    BY <1>2 DEF FlushDeferred, PoisonInv
  <2> QED
    BY <1>1, <1>2, <2>1, FlushError DEF PoisonInv
<1>3. CASE AcknowledgeSettings
  <2>1. ~Poisoned
    BY <1>3, AcknowledgeError DEF AcknowledgeSettings, PoisonInv
  <2> QED
    BY <1>1, <1>3, <2>1, AcknowledgeError DEF PoisonInv
<1>4. FailsAgain => PoisonInv'
  BY <1>1 DEF FailsAgain, PoisonInv
<1>5. CASE ApplySetting
  <2>1. Poisoned => SettingsFail(Current, pos)
    BY <1>5 DEF ApplySetting, PoisonInv
  <2>2. ResultInv' /\ (Poisoned => FailsAgain)
    BY <1>1, <1>5, <2>1, ApplySettingError
  <2> QED
    BY <1>1, <1>4, <2>2 DEF PoisonInv, FailsAgain
<1>6. CASE ~(FlushDeferred \/ AcknowledgeSettings \/ ApplySetting)
  <2>1. ErrorStep
    BY <1>1, <1>6, CheckOnlyError, DataError, HeadersError, ContinuationError,
       RstStreamError, PingError, SettingsError, WindowUpdateError
       DEF ProcessFrame
  <2>2. pc = "frames"
    BY <1>6 DEF ProcessFrame, RejectFrame, ProcessData, ProcessHeaders,
         ProcessContinuation, ProcessPriority, ProcessPushPromise,
         ProcessGoaway, ProcessUnknown, ProcessRstStream, ProcessPing,
         ProcessSettings, ProcessWindowUpdate, Dispatch
  <2>3. Poisoned => FailsAgain
    BY <2>1, <2>2 DEF PoisonInv, ErrorStep
  <2> QED
    BY <1>1, <1>4, <2>1, <2>3 DEF PoisonInv, ErrorStep, FailsAgain
<1> QED
  BY <1>2, <1>3, <1>5, <1>6

-----------------------------------------------------------------------------
(* The other steps of feed. *)
KeepsHead == /\ goaway_sent /\ goaway_error # H2_INTERNAL_ERROR
             /\ input # << >>
             => input' # << >> /\ Head(input') = Head(input)
ErrorNext == ErrorInv' /\ KeepsHead

(* A handler's result other than a connection error: there has been none. *)
LEMMA ResultDoneError ==
    ASSUME Inv, ErrorInv, FrameDone \/ StreamError
    PROVE  ErrorNext
<1>1. /\ pc = "result" /\ pc' \in {"frames", "idle", "closed"}
      /\ ~ConnError(ret)
      /\ UNCHANGED <<prefaceVars, goawayVars, last_stream_id>>
  BY DEF FrameDone, StreamError, Goto, Return, ConnError, tableVars
<1>2. preface_seen /\ ~Poisoned
  BY <1>1 DEF ErrorInv, LoopInv, PoisonInv
<1>3. preface_seen' /\ ~Poisoned'
  BY <1>1, <1>2 DEF Poisoned, prefaceVars, goawayVars
<1>4. LoopInv'
  BY <1>1, <1>3 DEF ErrorInv, LoopInv, goawayVars
<1>5. ResultInv'
  BY <1>1 DEF ResultInv
<1>6. PoisonInv' /\ KeepsHead
  BY <1>2, <1>3 DEF PoisonInv, KeepsHead, Poisoned
<1>7. GoawayBinding'
  BY <1>1 DEF ErrorInv, GoawayBinding, goawayVars
<1> QED
  BY <1>4, <1>5, <1>6, <1>7 DEF ErrorNext, ErrorInv

(* The connection error that sends GOAWAY, or one after it. *)
LEMMA ConnectionErrorError ==
    ASSUME Inv, ErrorInv, ConnectionError
    PROVE  ErrorNext
<1>1. /\ pc = "result" /\ ConnError(ret) /\ pc' \in {"idle", "closed"}
      /\ UNCHANGED <<preface, preface_seen, input, missing, last_stream_id>>
      /\ UNCHANGED Watched /\ QueueGoaway(ret)
  BY DEF ConnectionError, Return, ConnError, KeepFrame, prefaceVars, sendVars,
         recvVars, tableVars, Watched
<1>2. preface_seen /\ HeadComplete
  BY <1>1 DEF ErrorInv, LoopInv
<1>3. /\ Current' = Current /\ HeadComplete'
  BY <1>1, <1>2 DEF Current, HeadComplete
<1>4. CASE goaway_sent
  <2>1. UNCHANGED <<goaway_sent, goaway_error, goaway_last>>
    BY <1>1, <1>4 DEF QueueGoaway, goawayVars
  <2>2. Poisoned' => Fails(Current)
    BY <1>1, <2>1 DEF ErrorInv, PoisonInv, Poisoned
  <2>3. LoopInv' /\ GoawayBinding'
    BY <1>1, <1>2, <2>1 DEF ErrorInv, LoopInv, GoawayBinding
  <2> QED
    BY <1>1, <1>3, <2>2, <2>3, FailsSame
       DEF ErrorNext, ErrorInv, ResultInv, PoisonInv, KeepsHead, HeadComplete
<1>5. CASE ~goaway_sent
  <2>1. /\ goaway_sent' /\ goaway_error' = ret
        /\ goaway_last' \in {last_stream_id, goaway_last}
    BY <1>1, <1>5 DEF QueueGoaway
  <2>2. Poisoned' => Fails(Current)
    BY <1>1, <2>1 DEF ErrorInv, ResultInv, Poisoned
  <2>3. LoopInv'
    BY <1>1, <1>2, <2>1 DEF LoopInv
  <2>4. GoawayBinding'
    <3>1. goaway_last = -1 /\ last_stream_id \in Nat
      BY <1>5 DEF ErrorInv, LoopInv, Inv, TypeOK, TableType
    <3> QED
      BY <1>1, <2>1, <3>1 DEF GoawayBinding
  <2> QED
    BY <1>1, <1>3, <1>5, <2>2, <2>3, <2>4, FailsSame
       DEF ErrorNext, ErrorInv, ResultInv, PoisonInv, KeepsHead
<1> QED
  BY <1>4, <1>5 DEF Inv, TypeOK, FeedType

(* Steps between the frames: no byte of what is watched changes, and more  *)
(* input leaves the head of the input alone.                               *)
LEMMA OutsideError ==
    ASSUME Inv, ErrorInv, UNCHANGED Watched,
           pc' \notin {"settings", "flush", "result"},
           UNCHANGED <<goaway_sent, goaway_error, goaway_last>>,
           preface_seen' => preface_seen \/ ~goaway_sent,
           ~preface_seen' => /\ pc' \in {"idle", "closed"} /\ ~preface_seen
                             /\ preface = "bad" => preface' = "bad",
           input # << >> => input' # << >> /\ Head(input') = Head(input),
           HeadComplete /\ pc \notin {"settings", "flush", "result"}
              => HeadComplete',
           Poisoned => pc \notin {"settings", "flush", "result"}
    PROVE  ErrorNext
<1>1. LoopInv'
  BY DEF ErrorInv, LoopInv
<1>2. ResultInv' /\ KeepsHead
  BY DEF ResultInv, KeepsHead
<1>3. GoawayBinding'
  BY DEF ErrorInv, GoawayBinding, Watched, tableVars
<1>4. PoisonInv'
  <2> SUFFICES ASSUME Poisoned' PROVE HeadComplete' /\ Fails(Current)'
    BY DEF PoisonInv
  <2>1. Poisoned
    BY DEF Poisoned
  <2>2. HeadComplete /\ Fails(Current) /\ HeadComplete'
    BY <2>1 DEF ErrorInv, PoisonInv
  <2>3. Current' = Current
    BY <2>2 DEF HeadComplete, Current
  <2> QED
    BY <2>2, <2>3, FailsSame
<1> QED
  BY <1>1, <1>2, <1>3, <1>4 DEF ErrorNext, ErrorInv

LEMMA FeedDoneError ==
    ASSUME Inv, ErrorInv, FeedDone
    PROVE  ErrorNext
<1>1. /\ pc = "frames" /\ ~HeadComplete /\ pc' \in {"idle", "closed"}
      /\ UNCHANGED Watched
      /\ UNCHANGED <<goaway_sent, goaway_error, goaway_last, preface,
                     preface_seen, input, missing>>
  BY DEF FeedDone, Return, Watched, prefaceVars, goawayVars, inputVars,
         sendVars, recvVars, tableVars
<1>2. HeadComplete' = HeadComplete
  BY <1>1 DEF HeadComplete
<1>3. preface_seen
  BY <1>1 DEF ErrorInv, LoopInv
<1> QED
  BY <1>1, <1>2, <1>3, OutsideError

(* h2_connection_feed takes bytes in.  Bytes that are not the preface get  *)
(* their GOAWAY from feed itself, and no frame is ever processed.          *)
LEMMA FeedError ==
    ASSUME Inv, ErrorInv, NEW n, NEW inp, NEW miss, NEW p,
           Feed(n, inp, miss, p), preface = "bad" => p = "bad",
           input # << >> => inp # << >> /\ Head(inp) = Head(input),
           HeadComplete => inp # << >> /\ (Len(inp) > 1 \/ miss = 0)
    PROVE  ErrorNext
<1>1. pc = "idle" /\ UNCHANGED Watched
  BY DEF Feed, Watched, sendVars, recvVars, tableVars
<1>2. \A r : Return(r) => pc' \in {"idle", "closed"}
  BY DEF Return
<1>3. \A l, q : Goto(l, q) => pc' = l
  BY DEF Goto
<1>4. CASE /\ UNCHANGED <<prefaceVars, goawayVars, input, missing>>
           /\ Return(H2_INTERNAL_ERROR)
  <2>1. UNCHANGED <<preface, preface_seen, goaway_sent, goaway_error,
                    goaway_last, input, missing>>
    BY <1>4 DEF prefaceVars, goawayVars
  <2>2. HeadComplete' = HeadComplete
    BY <2>1 DEF HeadComplete
  <2>3. pc' \in {"idle", "closed"}
    BY <1>2, <1>4
  <2> QED
    BY <1>1, <2>1, <2>2, <2>3, OutsideError
<1>5. CASE input' = inp /\ missing' = miss /\ preface' = p /\ CheckPreface(p)
  <2>1. HeadComplete => HeadComplete'
    BY <1>5 DEF HeadComplete
  <2>2. input # << >> => input' # << >> /\ Head(input') = Head(input)
    BY <1>5
  <2>3. CASE preface_seen /\ Goto("frames", 0)
             /\ UNCHANGED <<preface_seen, goawayVars>>
    <3>1. /\ UNCHANGED <<goaway_sent, goaway_error, goaway_last>>
          /\ pc' = "frames" /\ preface_seen'
      BY <1>3, <2>3 DEF goawayVars
    <3> QED
      BY <1>1, <2>1, <2>2, <2>3, <3>1, OutsideError
  <2>4. CASE /\ ~preface_seen /\ Return(H2_OK)
             /\ UNCHANGED <<preface_seen, goawayVars>>
    <3>1. /\ UNCHANGED <<goaway_sent, goaway_error, goaway_last>>
          /\ pc' \in {"idle", "closed"} /\ ~preface_seen'
      BY <1>2, <2>4 DEF goawayVars
    <3> QED
      BY <1>1, <1>5, <2>1, <2>2, <2>4, <3>1, OutsideError
  <2>5. CASE /\ ~preface_seen /\ p = "bad" /\ UNCHANGED preface_seen
             /\ QueueGoaway(H2_PROTOCOL_ERROR) /\ Return(H2_PROTOCOL_ERROR)
    <3>1. /\ pc' \in {"idle", "closed"} /\ ~preface_seen' /\ preface' = "bad"
      BY <1>2, <1>5, <2>5
    <3>2. /\ goaway_sent' /\ UNCHANGED last_stream_id
          /\ \/ UNCHANGED <<goaway_error, goaway_last>>
             \/ goaway_last' \in {last_stream_id, goaway_last} /\ ~goaway_sent
      BY <1>1, <2>5 DEF QueueGoaway, Watched, tableVars, goawayVars
    <3>3. LoopInv' /\ ResultInv' /\ PoisonInv'
      BY <3>1, <3>2 DEF LoopInv, ResultInv, PoisonInv, Poisoned
    <3>4. GoawayBinding'
      <4>1. ~goaway_sent => goaway_last = -1
        BY DEF ErrorInv, LoopInv
      <4>2. last_stream_id \in Nat
        BY DEF Inv, TypeOK, TableType
      <4> QED
        BY <3>2, <4>1, <4>2 DEF ErrorInv, GoawayBinding
    <3> QED
      BY <2>2, <3>3, <3>4 DEF ErrorNext, ErrorInv, KeepsHead
  <2>6. CASE /\ ~preface_seen /\ p = "good" /\ preface_seen' = TRUE
             /\ \E r : Goto("frames", 0) \/ Return(r)
             /\ UNCHANGED goawayVars
    <3>1. /\ UNCHANGED <<goaway_sent, goaway_error, goaway_last>>
          /\ pc' \in {"frames", "idle", "closed"} /\ preface_seen'
      BY <1>2, <1>3, <2>6 DEF goawayVars
    <3>2. ~goaway_sent
      BY <2>6 DEF ErrorInv, LoopInv
    <3> QED
      BY <1>1, <2>1, <2>2, <3>1, <3>2, OutsideError
  <2> QED
    BY <1>5, <2>3, <2>4, <2>5, <2>6 DEF CheckPreface
<1> QED
  BY <1>4, <1>5 DEF Feed

LEMMA FeedBytesError ==
    ASSUME Inv, ErrorInv, FeedPreface \/ FeedFrame \/ FeedRest
    PROVE  ErrorNext
<1>1. CASE FeedPreface
  <2>1. PICK p \in Preface \ {"none", preface} :
           Feed(PrefaceBytes(p) - PrefaceBytes(preface), input, missing, p)
    BY <1>1 DEF FeedPreface
  <2>2. preface # "bad"
    BY <1>1 DEF FeedPreface
  <2>3. HeadComplete => input # << >> /\ (Len(input) > 1 \/ missing = 0)
    BY DEF HeadComplete
  <2> QED
    BY <2>1, <2>2, <2>3, FeedError
<1>2. CASE FeedFrame
  <2>1. PICK f \in Frames, cut \in Cuts :
           Feed(WholeLen(f) - cut, Append(input, f), cut, preface)
    BY <1>2 DEF FeedFrame
  <2>2. input \in Seq(Frames)
    BY DEF Inv, TypeOK, FeedType
  <2>3. Append(input, f) # << >>
    <3>1. Len(Append(input, f)) = Len(input) + 1 /\ Len(input) \in Nat
      BY <2>2
    <3> QED
      BY <3>1
  <2>4. input # << >> => /\ Head(Append(input, f)) = Head(input)
                         /\ Len(Append(input, f)) > 1
    BY <2>2
  <2>5. HeadComplete => input # << >>
    BY DEF HeadComplete
  <2> QED
    BY <2>1, <2>3, <2>4, <2>5, FeedError
<1>3. CASE FeedRest
  <2>1. Feed(missing, input, 0, preface)
    BY <1>3 DEF FeedRest
  <2>2. HeadComplete => input # << >>
    BY DEF HeadComplete
  <2> QED
    BY <2>1, <2>2, FeedError
<1> QED
  BY <1>1, <1>2, <1>3

(* Writes and stuttering. *)
LEMMA QuietError ==
    ASSUME Inv, ErrorInv, Write \/ UNCHANGED vars
    PROVE  ErrorNext
<1>1. /\ UNCHANGED Watched /\ Current' = Current /\ HeadComplete' = HeadComplete
      /\ UNCHANGED <<pc, ret, pos, preface, preface_seen, goaway_sent,
                     goaway_error, goaway_last, input, missing, last_stream_id>>
  BY DEF Write, vars, control, feedVars, prefaceVars, goawayVars, inputVars,
         Watched, sendVars, recvVars, tableVars, Current, HeadComplete
<1>2. /\ Fails(Current)' <=> Fails(Current)
      /\ SettingsFail(Current, pos)' <=> SettingsFail(Current, pos)
  BY <1>1, FailsSame DEF SettingsFail
<1>3. ConnError(ret)' <=> ConnError(ret)
  BY <1>1 DEF ConnError
<1>4. Poisoned' = Poisoned
  BY <1>1 DEF Poisoned
<1>5. LoopInv' /\ GoawayBinding'
  BY <1>1 DEF ErrorInv, LoopInv, GoawayBinding
<1>6. ResultInv' /\ PoisonInv'
  BY <1>1, <1>2, <1>3, <1>4 DEF ErrorInv, ResultInv, PoisonInv
<1> QED
  BY <1>1, <1>5, <1>6 DEF ErrorNext, ErrorInv, KeepsHead

LEMMA ProcessFrameNext ==
    ASSUME Inv, CallInv, PhaseInv, ErrorInv, ProcessFrame
    PROVE  ErrorNext
<1>1. LoopInv' /\ ResultInv' /\ PoisonInv'
      /\ (Poisoned => UNCHANGED last_stream_id)
  BY ProcessFrameLoop, ProcessFrameError DEF ErrorInv
<1>2. pc \in {"frames", "settings", "flush"} /\ UNCHANGED feedVars
  BY ProcessFrameKinds
<1>3. UNCHANGED <<goaway_sent, goaway_error, goaway_last, input>>
  BY <1>2 DEF feedVars, goawayVars, inputVars
<1>4. goaway_last # -1 /\ goaway_error # H2_INTERNAL_ERROR => Poisoned
  BY <1>2 DEF ErrorInv, LoopInv, Poisoned
<1>5. GoawayBinding'
  BY <1>1, <1>3, <1>4 DEF ErrorInv, GoawayBinding
<1> QED
  BY <1>1, <1>3, <1>5 DEF ErrorNext, ErrorInv, KeepsHead

LEMMA ErrorNextStep ==
    ASSUME Inv, CallInv, PhaseInv, ErrorInv, [Next]_vars
    PROVE  ErrorNext
BY ProcessFrameNext, ResultDoneError, ConnectionErrorError, FeedDoneError,
   FeedBytesError, QuietError DEF Next, FeedStep, Closed

-----------------------------------------------------------------------------
(* A frame that failed with a connection error keeps failing. *)
THEOREM ErrorInvariance == Spec => []ErrorInv
<1>1. Inv /\ CallInv /\ ResponseInv /\ ErrorInv /\ [Next]_vars => ErrorInv'
  BY ErrorNextStep DEF ErrorNext, ResponseInv
<1> QED
  BY <1>1, InitError, Invariance, FlowInvariance, ResponseInvariance, PTL
     DEF Spec

(* After a GOAWAY for anything but INTERNAL_ERROR no stream above the last *)
(* stream id that it named is ever opened, however often feed is called.   *)
THEOREM GoawayCorrect == Spec => []GoawayBinding
<1>1. ErrorInv => GoawayBinding
  BY DEF ErrorInv
<1> QED
  BY <1>1, ErrorInvariance, PTL

(* A connection error is final: the frame that caused it is never taken    *)
(* out of the input, whatever its first, partial processing changed, so no *)
(* later frame has any effect.                                             *)
THEOREM ErrorCorrect == Spec => ErrorIsFinal
<1>1. Inv /\ CallInv /\ ResponseInv /\ ErrorInv /\ [Next]_vars => KeepsHead
  BY ErrorNextStep DEF ErrorNext, ResponseInv
<1>2. Inv /\ CallInv /\ ResponseInv /\ ErrorInv /\ [Next]_vars =>
         [/\ goaway_sent /\ goaway_error # H2_INTERNAL_ERROR
          /\ input # << >>
          => input' # << >> /\ Head(input') = Head(input)]_vars
  BY <1>1 DEF KeepsHead
<1> QED
  BY <1>2, Invariance, FlowInvariance, ResponseInvariance, ErrorInvariance, PTL
     DEF Spec, ErrorIsFinal

-----------------------------------------------------------------------------
(* While a header block is open only its own CONTINUATION frames get past  *)
(* the checks of process_frame: neither loop is running, and no result is  *)
(* a stream error that would close a slot.                                 *)
BlockInv == header_block.open =>
               /\ pc \notin {"settings", "flush"}
               /\ pc = "result" => ~IsStreamError(ret)

BlockKeeps == header_block.open /\ header_block'.open =>
                 /\ header_block'.stream_id = header_block.stream_id
                 /\ UNCHANGED <<streams, settingVars, conn_send_window,
                                conn_recv_window, last_stream_id>>
BlockNext == BlockInv' /\ BlockKeeps

LEMMA InitBlock == Init => BlockInv
BY DEF Init, BlockInv, NoHeaderBlock

LEMMA ContinuationBlock ==
    ASSUME Inv, ProcessContinuation
    PROVE  BlockNext
<1> DEFINE f == Current
           h == AppendHeaderBlock(header_block, f.block, f.length)
<1>1. header_block \in HeaderBlock
  BY DEF Inv, TypeOK, TableType
<1>2. h.open = header_block.open /\ h.stream_id = header_block.stream_id
  BY <1>1 DEF AppendHeaderBlock, HeaderBlock
<1>3. CASE Reject(ContinuationVerdict(f))
  <2>1. ContinuationVerdict(f) \notin StreamCode
    BY ParseCode DEF ContinuationVerdict, AppendRet, StreamCode, H2_OK,
       H2_PROTOCOL_ERROR, H2_COMPRESSION_ERROR, H2_REFUSED_STREAM,
       H2_STREAM_CLOSED
  <2>2. /\ pc' = "result" /\ ~IsStreamError(ret')
        /\ UNCHANGED <<header_block, streams, settingVars, conn_send_window,
                       conn_recv_window, last_stream_id>>
    BY <1>3, <2>1 DEF Reject, ReturnOnly, Done, IsStreamError, StreamCode,
                      sendVars, recvVars, tableVars
  <2> QED
    BY <2>2 DEF BlockNext, BlockInv, BlockKeeps
<1>4. CASE /\ header_block' = h /\ Done(H2_OK)
           /\ UNCHANGED <<last_stream_id, streams, sendVars, settingVars,
                          conn_recv_window>>
  <2>1. pc' = "result" /\ ~IsStreamError(ret')
    BY <1>4 DEF Done, IsStreamError, H2_OK, H2_REFUSED_STREAM, H2_STREAM_CLOSED
  <2> QED
    BY <1>2, <1>4, <2>1 DEF BlockNext, BlockInv, BlockKeeps, sendVars
<1>5. CASE header_block' = [h EXCEPT !.open = FALSE]
  <2>1. ~header_block'.open
    BY <1>1, <1>5 DEF AppendHeaderBlock, HeaderBlock
  <2> QED
    BY <2>1 DEF BlockNext, BlockInv, BlockKeeps
<1> QED
  BY <1>3, <1>4, <1>5 DEF ProcessContinuation

LEMMA HeadersBlock ==
    ASSUME Inv, ~header_block.open, ProcessHeaders
    PROVE  BlockNext
<1> DEFINE f == Current
<1>1. CASE UNCHANGED header_block
  BY <1>1 DEF BlockNext, BlockInv, BlockKeeps
<1>2. CASE OpenHeaderBlock(f)
  <2>1. pc' = "result" /\ ~IsStreamError(ret')
    BY <1>2 DEF OpenHeaderBlock, AppendRet, Done, IsStreamError, H2_OK,
                H2_COMPRESSION_ERROR, H2_REFUSED_STREAM, H2_STREAM_CLOSED
  <2> QED
    BY <2>1 DEF BlockNext, BlockInv, BlockKeeps
<1> QED
  BY <1>1, <1>2 DEF ProcessHeaders, Reject, ReturnOnly, tableVars

LEMMA ProcessFrameBlock ==
    ASSUME Inv, CallInv, BlockInv, ProcessFrame
    PROVE  BlockNext
<1>1. CASE header_block.open
  <2>1. pc = "frames"
    BY <1>1, ProcessFrameKinds DEF BlockInv
  <2>2. RejectFrame \/ Dispatch
    BY <2>1 DEF ProcessFrame, ProcessData, ProcessHeaders,
         ProcessContinuation, ProcessPriority, ProcessPushPromise,
         ProcessGoaway, ProcessUnknown, ProcessRstStream, ProcessPing,
         ProcessSettings, ApplySetting, AcknowledgeSettings,
         ProcessWindowUpdate, FlushDeferred
  <2>3. CASE RejectFrame
    <3>1. /\ pc' = "result" /\ ~IsStreamError(ret')
          /\ UNCHANGED <<header_block, streams, settingVars, conn_send_window,
                         conn_recv_window, last_stream_id>>
      BY <2>3, AdmissionCode
         DEF RejectFrame, Reject, ReturnOnly, Done, IsStreamError, StreamCode,
             sendVars, recvVars, tableVars
    <3> QED
      BY <3>1 DEF BlockNext, BlockInv, BlockKeeps
  <2>4. CASE Dispatch /\ ~RejectFrame
    <3>1. Current.type = H2_FRAME_CONTINUATION
      BY <1>1, <2>4 DEF Dispatch, Admission, H2_OK, H2_PROTOCOL_ERROR,
                        H2_FRAME_SIZE_ERROR
    <3>2. ProcessContinuation
      BY <2>1, <2>4, <3>1
         DEF ProcessFrame, ProcessData, ProcessHeaders, ProcessPriority,
             ProcessPushPromise, ProcessGoaway, ProcessUnknown,
             ProcessRstStream, ProcessPing, ProcessSettings, ApplySetting,
             AcknowledgeSettings, ProcessWindowUpdate, FlushDeferred,
             H2_FRAME_DATA, H2_FRAME_HEADERS, H2_FRAME_PRIORITY,
             H2_FRAME_RST_STREAM, H2_FRAME_SETTINGS, H2_FRAME_PUSH_PROMISE,
             H2_FRAME_PING, H2_FRAME_GOAWAY, H2_FRAME_WINDOW_UPDATE,
             H2_FRAME_CONTINUATION
    <3> QED
      BY <3>2, ContinuationBlock
  <2> QED
    BY <2>2, <2>3, <2>4
<1>2. CASE ~header_block.open
  <2>1. CASE ProcessHeaders
    BY <1>2, <2>1, HeadersBlock
  <2>2. CASE ProcessContinuation
    BY <2>2, ContinuationBlock
  <2>3. CASE ~(ProcessHeaders \/ ProcessContinuation)
    <3>1. UNCHANGED header_block
      BY <2>3, ProcessFrameKinds
         DEF Quiet, Handler, tableVars, ProcessData, Reject, ReturnOnly,
             ProcessRstStream, ApplySetting, ProcessWindowUpdate, FlushDeferred
    <3> QED
      BY <1>2, <3>1 DEF BlockNext, BlockInv, BlockKeeps
  <2> QED
    BY <2>1, <2>2, <2>3
<1> QED
  BY <1>1, <1>2

LEMMA BlockNextStep ==
    ASSUME Inv, CallInv, BlockInv, [Next]_vars
    PROVE  BlockNext
<1>1. CASE ProcessFrame
  BY <1>1, ProcessFrameBlock
<1>2. CASE StreamError
  <2>1. ~header_block.open /\ UNCHANGED header_block
    BY <1>2 DEF StreamError, BlockInv
  <2> QED
    BY <2>1 DEF BlockNext, BlockInv, BlockKeeps
<1>3. CASE FrameDone \/ ConnectionError \/ FeedDone
  <2>1. UNCHANGED Watched /\ pc' \in {"frames", "idle", "closed"}
    BY <1>3 DEF FrameDone, ConnectionError, FeedDone, Goto, Return, Watched,
                sendVars, recvVars, tableVars
  <2> QED
    BY <2>1 DEF BlockNext, BlockInv, BlockKeeps, Watched, tableVars
<1>4. CASE FeedPreface \/ FeedFrame \/ FeedRest
  <2>1. PICK n, inp, miss, p : Feed(n, inp, miss, p)
    BY <1>4 DEF FeedPreface, FeedFrame, FeedRest
  <2>2. UNCHANGED Watched /\ pc' \in {"frames", "idle", "closed"}
    BY <2>1 DEF Feed, CheckPreface, Goto, Return, Watched, sendVars, recvVars,
                tableVars
  <2> QED
    BY <2>2 DEF BlockNext, BlockInv, BlockKeeps, Watched, tableVars
<1>5. CASE Write \/ UNCHANGED vars
  <2>1. UNCHANGED Watched /\ UNCHANGED <<pc, ret>>
    BY <1>5 DEF Write, vars, control, Watched, sendVars, recvVars, tableVars
  <2> QED
    BY <2>1 DEF BlockNext, BlockInv, BlockKeeps, Watched, tableVars
<1> QED
  BY <1>1, <1>2, <1>3, <1>4, <1>5 DEF Next, FeedStep, Closed

(* While a header block is open nothing but its own CONTINUATION frames    *)
(* has an effect on the connection.                                        *)
THEOREM BlockCorrect == Spec => HeaderBlockExclusive
<1>1. Inv /\ CallInv /\ BlockInv /\ [Next]_vars => BlockInv'
  BY BlockNextStep DEF BlockNext
<1>2. Inv /\ CallInv /\ BlockInv /\ [Next]_vars =>
         [header_block.open /\ header_block'.open =>
            /\ header_block'.stream_id = header_block.stream_id
            /\ UNCHANGED <<streams, settingVars, conn_send_window,
                           conn_recv_window, last_stream_id>>]_vars
  BY BlockNextStep DEF BlockNext, BlockKeeps
<1> QED
  BY <1>1, <1>2, InitBlock, Invariance, FlowInvariance, PTL
     DEF Spec, HeaderBlockExclusive

-----------------------------------------------------------------------------
(* Deferred responses.  DeferredIsBlocked does not hold of every behaviour *)
(* (run `stranded'): raising SETTINGS_INITIAL_WINDOW_SIZE opens windows    *)
(* and flushes nothing.  This section shows that nothing else breaks it.   *)

(* A response that is deferred is blocked, by the connection's window w or *)
(* by that of its stream.                                                  *)
Held(s, w) == Flushable(s) => Blocked(s, s.path + 1, w)

(* Between a WINDOW_UPDATE and the end of its flush this is known only of  *)
(* the slots that the loop has passed.                                     *)
HeldInv ==
    Sound => \A k \in Slots : (pc = "flush" => k < pos)
                                 => Held(streams[k], conn_send_window)

AllHeld == \A k \in Slots : Held(streams[k], conn_send_window)

(* No step raises the initial window of a stream. *)
NeverRaised == [][initial_stream_window' <= initial_stream_window]_vars

LEMMA InitHeld == Init => HeldInv
BY DEF Init, HeldInv, Held, Flushable, FreeSlot

(* Stream t is no nearer to its response than s. *)
NoNearer(s, t) ==
    Flushable(t) => /\ Flushable(s) /\ t.path = s.path
                    /\ t.send_window <= s.send_window

LEMMA NoNearerItself ==
    ASSUME NEW s \in Stream PROVE NoNearer(s, s)
<1>1. s.send_window \in Int
  BY WindowAssumption DEF Stream, INT32_MIN
<1> QED
  BY <1>1 DEF NoNearer

LEMMA NoNearerClosed ==
    ASSUME NEW s PROVE NoNearer(s, StreamClose(s))
BY DEF NoNearer, Flushable, StreamClose, FreeSlot

LEMMA NoNearerHeld ==
    ASSUME NEW s \in Stream, NEW t \in Stream, NoNearer(s, t),
           NEW w \in Int, NEW v \in Int, v <= w, Held(s, w)
    PROVE  Held(t, v)
<1>1. /\ s.send_window \in Int /\ t.send_window \in Int /\ s.path \in Int
  BY WindowAssumption, PathCapAssumption DEF Stream, INT32_MIN
<1> QED
  BY <1>1 DEF NoNearer, Held, Blocked

(* No response comes nearer in a step that moves no slot nearer. *)
LEMMA NoNearerStep ==
    ASSUME Inv, Inv', AllHeld, UNCHANGED conn_send_window,
           \A k \in Slots : NoNearer(streams[k], streams'[k])
    PROVE  AllHeld'
<1>1. conn_send_window \in Int /\ conn_send_window' \in Int
  BY WindowAssumption DEF Inv, TypeOK, SendType
<1>2. \A k \in Slots : streams[k] \in Stream /\ streams'[k] \in Stream
  BY DEF Inv, TypeOK, TableType
<1>3. conn_send_window' <= conn_send_window
  BY <1>1
<1> QED
  BY <1>1, <1>2, <1>3, NoNearerHeld DEF AllHeld

(* h2_connection_queue_response leaves its stream answered, blocked, or    *)
(* fails for want of room.                                                 *)
LEMMA QueueDeferredDataHeld ==
    ASSUME NEW s \in Stream, NEW w \in 0 .. INT32_MAX, NEW out, NEW h, NEW q,
           q = QueueDeferredData(s, s.path + 1, w, out, h)
    PROVE  q.ret # H2_INTERNAL_ERROR => Held(q.stream, q.send_window)
<1> DEFINE n == s.path + 1
           t == [s EXCEPT !.send_window = @ - n,
                          !.response_body_deferred = FALSE,
                          !.response_sent = TRUE]
           d == [s EXCEPT !.response_body_deferred = TRUE]
<1>1. ~t.response_body_deferred
  BY DEF Stream
<1>2. ~SendEndStream(t).stream.response_body_deferred
  <2>1. \/ SendEndStream(t).stream = t
        \/ SendEndStream(t).stream = StreamClose(t)
        \/ SendEndStream(t).stream = [t EXCEPT !.state = "HALF_CLOSED_LOCAL"]
    BY DEF SendEndStream
  <2>2. ~StreamClose(t).response_body_deferred
    BY DEF StreamClose, FreeSlot
  <2>3. ~[t EXCEPT !.state = "HALF_CLOSED_LOCAL"].response_body_deferred
    BY DEF Stream
  <2> HIDE DEF t
  <2> QED
    BY <1>1, <2>1, <2>2, <2>3
<1>3. d.path = s.path /\ d.send_window = s.send_window
  BY DEF Stream
<1> HIDE DEF t
<1>4. CASE Blocked(s, n, w)
  <2>1. q.stream = d /\ q.send_window = w
    BY <1>4 DEF QueueDeferredData
  <2> HIDE DEF d
  <2> QED
    BY <1>3, <1>4, <2>1 DEF Held, Blocked
<1>5. CASE ~Blocked(s, n, w)
  <2>1. q.ret = H2_INTERNAL_ERROR \/ q.stream = SendEndStream(t).stream
    BY <1>5 DEF QueueDeferredData, t
  <2> QED
    BY <1>2, <2>1 DEF Held, Flushable
<1> QED
  BY <1>4, <1>5

LEMMA QueueResponseHeld ==
    ASSUME NEW s \in Stream, NEW w \in 0 .. INT32_MAX, NEW out, NEW q,
           q = QueueResponse(s, w, out), ~s.response_sent
    PROVE  q.ret # H2_INTERNAL_ERROR => Held(q.stream, q.send_window)
<1> DEFINE t == [s EXCEPT !.path = IF @ = 0 THEN 1 ELSE @]
           size == ResponseHeadersSize(t.path + 1)
           u == [t EXCEPT !.response_headers_sent = TRUE]
<1>1. t \in Stream
  BY PathCapAssumption DEF Stream
<1>2. u \in Stream /\ u.path = t.path
  BY <1>1 DEF Stream
<1>3. \/ q.ret = H2_INTERNAL_ERROR
      \/ q = QueueDeferredData(t, t.path + 1, w, out, FALSE)
      \/ q = QueueDeferredData(u, t.path + 1, w, out + size, TRUE)
  BY DEF QueueResponse
<1> HIDE DEF t, u, size
<1> QED
  BY <1>1, <1>2, <1>3, QueueDeferredDataHeld

(* The connection's window only shrinks by a response. *)
LEMMA QueueResponseSpends ==
    ASSUME NEW s \in Stream, NEW w \in 0 .. INT32_MAX, NEW out
    PROVE  QueueResponse(s, w, out).send_window <= w
<1> DEFINE t == [s EXCEPT !.path = IF @ = 0 THEN 1 ELSE @]
           n == t.path + 1
           q == QueueResponse(s, w, out)
<1>1. n \in Nat /\ w \in Int
  BY PathCapAssumption, WindowAssumption DEF Stream
<1>2. q.send_window = w \/ q.send_window = w - n
  BY DEF QueueResponse, QueueDeferredData
<1> HIDE DEF q, n
<1> QED
  BY <1>1, <1>2 DEF q

(* A response on slot k, for stream s: the others only lose window. *)
LEMMA RespondHeld ==
    ASSUME Inv, Inv', NEW k \in Slots, NEW s \in Stream, ~s.response_sent,
           NEW base, NEW q, q = QueueResponse(s, conn_send_window, output_len),
           Respond(k, q, base)
    PROVE  /\ q.ret # H2_INTERNAL_ERROR => Held(streams'[k], conn_send_window')
           /\ \A j \in Slots \ {k} :
                 Held(streams[j], conn_send_window)
                    => Held(streams'[j], conn_send_window')
<1>1. /\ conn_send_window \in 0 .. INT32_MAX
      /\ streams \in [Slots -> Stream] /\ streams' \in [Slots -> Stream]
  BY DEF Inv, TypeOK, SendType, TableType
<1>2. conn_send_window \in Int /\ conn_send_window' \in Int
  BY WindowAssumption DEF Inv, TypeOK, SendType
<1>3. /\ streams'[k] = q.stream /\ conn_send_window' = q.send_window
      /\ \A j \in Slots \ {k} : streams'[j] = streams[j]
  BY <1>1 DEF Respond
<1>4. conn_send_window' <= conn_send_window
  BY <1>1, <1>3, QueueResponseSpends
<1>5. q.ret # H2_INTERNAL_ERROR => Held(streams'[k], conn_send_window')
  BY <1>1, <1>3, QueueResponseHeld
<1>6. ASSUME NEW j \in Slots \ {k}, Held(streams[j], conn_send_window)
      PROVE  Held(streams'[j], conn_send_window')
  <2>1. streams[j] \in Stream /\ streams'[j] = streams[j]
    BY <1>1, <1>3
  <2> QED
    BY <1>2, <1>4, <1>6, <2>1, NoNearerHeld, NoNearerItself
<1> QED
  BY <1>5, <1>6

(* One turn of h2_connection_flush_deferred_responses: the slots between   *)
(* pos and k have nothing to send, and k has sent its response or cannot.  *)
LEMMA FlushHeld ==
    ASSUME Inv, Inv', PhaseInv, Sound, Sound', HeldInv, FlushDeferred
    PROVE  HeldInv'
<1> DEFINE k == First(DeferredFrom(pos))
           q == QueueResponse(streams[k], conn_send_window, output_len)
<1>0. /\ pc = "flush" /\ pos \in Nat
      /\ \A j \in Slots : j \in Nat
  BY Constants DEF FlushDeferred, Inv, TypeOK, ControlType
<1>1. CASE DeferredFrom(pos) = {}
  <2>1. UNCHANGED <<streams, conn_send_window>>
    BY <1>1 DEF FlushDeferred, ReturnOnly, sendVars, tableVars
  <2>2. \A j \in Slots : j >= pos => ~Flushable(streams[j])
    BY <1>1 DEF DeferredFrom
  <2>3. \A j \in Slots : Held(streams[j], conn_send_window)
    BY <1>0, <2>2 DEF HeldInv, Held
  <2> QED
    BY <2>1, <2>3 DEF HeldInv
<1>2. CASE DeferredFrom(pos) # {}
  <2>1. /\ Respond(k, q, credit[k])
        /\ IF q.ret = H2_OK THEN Goto("flush", k + 1) ELSE Done(q.ret)
    BY <1>2 DEF FlushDeferred
  <2>2. k \in DeferredFrom(pos) /\ \A j \in DeferredFrom(pos) : k <= j
    <3>1. DeferredFrom(pos) \subseteq Nat
      BY <1>0 DEF DeferredFrom
    <3> QED
      BY <1>2, <3>1, FirstIsLeast
  <2>3. k \in Slots /\ Flushable(streams[k])
    BY <2>2 DEF DeferredFrom
  <2>4. \A j \in Slots : j < k => Held(streams[j], conn_send_window)
    <3>1. ASSUME NEW j \in Slots, j < k, j >= pos
          PROVE  ~Flushable(streams[j])
      <4>1. ~(k <= j)
        BY <1>0, <2>3, <3>1
      <4> QED
        BY <2>2, <3>1, <4>1 DEF DeferredFrom
    <3> QED
      BY <1>0, <3>1 DEF HeldInv, Held
  <2> HIDE DEF k
  <2>5. /\ streams[k] \in Stream /\ conn_send_window \in 0 .. INT32_MAX
        /\ output_len \in 0 .. H2_CONN_OUTPUT_CAP
    BY <2>3 DEF Inv, TypeOK, TableType, SendType, OutputType
  <2>6. /\ StreamPhase(streams[k]) /\ ~streams[k].response_sent
        /\ streams[k].state \in {"OPEN", "HALF_CLOSED_REMOTE"}
    BY <2>3 DEF PhaseInv, StreamPhase, Flushable
  <2>7. Responds(q, streams[k])
    BY <2>5, <2>6, QueueResponseResponds
  <2>8. q.ret = H2_OK
    BY <2>1, <2>7 DEF Responds, Done, Sound, Fatal, H2_OK, H2_INTERNAL_ERROR,
                      H2_REFUSED_STREAM, H2_STREAM_CLOSED
  <2>9. pos' = k + 1
    BY <2>1, <2>8 DEF Goto
  <2>10. /\ Held(streams'[k], conn_send_window')
         /\ \A j \in Slots \ {k} : Held(streams[j], conn_send_window)
                                     => Held(streams'[j], conn_send_window')
    <3>1. q.ret # H2_INTERNAL_ERROR
      BY <2>8 DEF H2_OK, H2_INTERNAL_ERROR
    <3> QED
      BY <2>1, <2>3, <2>5, <2>6, <3>1, RespondHeld
  <2>11. \A j \in Slots : j < k + 1 => j = k \/ j < k
    BY <1>0, <2>3
  <2>12. pc' = "flush"
    BY <2>1, <2>8 DEF Goto
  <2> HIDE DEF q
  <2> QED
    BY <2>4, <2>9, <2>10, <2>11, <2>12 DEF HeldInv
<1> QED
  BY <1>1, <1>2

(* h2_connection_finish_headers: a new stream sends its response or defers *)
(* it for want of window, and takes window from the others.                *)
LEMMA FinishHeadersHeld ==
    ASSUME Inv, Inv', AllHeld, Sound', NEW id \in Nat, NEW flags,
           NEW block \in Seq(HpackItem), FinishHeaders(id, flags, block)
    PROVE  AllHeld'
<1> DEFINE k == GetSlot(id)
           x == ExtractPath(block)
           g == GetStream(id)
           s == [g EXCEPT !.path = x.path]
           h == ReceiveHeaders(s, H2_FLAG_END_STREAM \in flags)
           q == QueueResponse(h.stream, conn_send_window, output_len)
           bad == RejectedStreamId(id)
<1>1. CASE bad \/ k = NoSlot
  <2>1. UNCHANGED <<streams, conn_send_window>>
    BY <1>1 DEF FinishHeaders, sendVars
  <2> QED
    BY <2>1 DEF AllHeld
<1>2. CASE ~bad /\ k # NoSlot
  <2>1. IF x.ret = H2_OK /\ h.ret = H2_OK
        THEN Respond(k, q, initial_stream_window) /\ Done(q.ret)
        ELSE /\ streams' = [streams EXCEPT ![k] = s]
             /\ UNCHANGED conn_send_window
    BY <1>2 DEF FinishHeaders
  <2>2. k \in Slots /\ g = StreamInit(id, initial_stream_window) /\ g \in Stream
    BY <1>2, NewStream
  <2>3. x.path \in 0 .. PathCap - 1
    BY ExtractPathType
  <2>4. streams \in [Slots -> Stream]
    BY DEF Inv, TypeOK, TableType
  <2>5. ~g.response_body_deferred /\ ~g.response_sent
    BY <2>2 DEF StreamInit, FreeSlot
  <2> HIDE DEF k, g, x
  <2>6. s \in Stream /\ ~s.response_body_deferred /\ ~s.response_sent
    BY <2>2, <2>3, <2>5 DEF Stream
  <2> HIDE DEF s
  <2>7. h.stream \in Stream /\ ~h.stream.response_sent
    BY <2>6, ReceiveHeadersType DEF ReceiveHeaders, Stream
  <2> HIDE DEF h
  <2>8. CASE x.ret = H2_OK /\ h.ret = H2_OK
    <3>1. Respond(k, q, initial_stream_window) /\ Done(q.ret)
      BY <2>1, <2>8
    <3>2. q.ret # H2_INTERNAL_ERROR
      BY <3>1 DEF Done, Sound, Fatal, H2_OK, H2_INTERNAL_ERROR,
                  H2_REFUSED_STREAM, H2_STREAM_CLOSED
    <3>3. /\ Held(streams'[k], conn_send_window')
          /\ \A j \in Slots \ {k} : Held(streams[j], conn_send_window)
                                      => Held(streams'[j], conn_send_window')
      BY <2>2, <2>7, <3>1, <3>2, RespondHeld
    <3> QED
      BY <3>3 DEF AllHeld
  <2>9. CASE ~(x.ret = H2_OK /\ h.ret = H2_OK)
    <3>1. /\ streams'[k] = s /\ \A j \in Slots \ {k} : streams'[j] = streams[j]
          /\ UNCHANGED conn_send_window
      BY <2>1, <2>2, <2>4, <2>9
    <3> QED
      BY <2>6, <3>1 DEF AllHeld, Held, Flushable
  <2> QED
    BY <2>8, <2>9
<1> QED
  BY <1>1, <1>2

LEMMA HeadersHeld ==
    ASSUME Inv, Inv', AllHeld, Sound', ProcessHeaders \/ ProcessContinuation
    PROVE  AllHeld'
<1>1. CASE UNCHANGED <<streams, conn_send_window>>
  BY <1>1 DEF AllHeld
<1>2. CASE ~UNCHANGED <<streams, conn_send_window>>
  <2>1. PICK id \in Nat, block \in Seq(HpackItem) :
           \E flags : FinishHeaders(id, flags, block)
    <3>1. input # << >>
      BY DEF ProcessHeaders, ProcessContinuation, Dispatch, HeadComplete
    <3>2. /\ Current.stream_id \in Nat /\ Current.block \in Seq(HpackItem)
          /\ Current.length \in Nat
      BY <3>1, CurrentType DEF Inv, TypeOK
    <3>3. CASE ProcessHeaders
      <4>1. FinishHeaders(Current.stream_id, Current.flags, Current.block)
        BY <1>2, <3>3 DEF ProcessHeaders, OpenHeaderBlock, Reject, ReturnOnly,
                          tableVars, sendVars
      <4> QED
        BY <3>2, <4>1
    <3>4. CASE ProcessContinuation
      <4> DEFINE h == AppendHeaderBlock(header_block, Current.block,
                                        Current.length)
      <4>1. h \in HeaderBlock
        BY <3>2, AppendType DEF Inv, TypeOK, TableType
      <4>2. FinishHeaders(h.stream_id, h.flags, h.block)
        BY <1>2, <3>4 DEF ProcessContinuation, Reject, ReturnOnly, tableVars,
                          sendVars
      <4>3. h.stream_id \in Nat /\ h.block \in Seq(HpackItem)
        BY <4>1 DEF HeaderBlock
      <4> HIDE DEF h
      <4> QED
        BY <4>2, <4>3
    <3> QED
      BY <3>3, <3>4
  <2> QED
    BY <2>1, FinishHeadersHeld
<1> QED
  BY <1>1, <1>2

-----------------------------------------------------------------------------
(* The steps that queue no response move none nearer. *)
LEMMA CloseSlotHeld ==
    ASSUME Inv, Inv', AllHeld, UNCHANGED conn_send_window, NEW id,
           streams' = IF FindSlot(id) = NoSlot THEN streams
                      ELSE [streams EXCEPT ![FindSlot(id)] = StreamClose(@)]
    PROVE  AllHeld'
<1>1. streams \in [Slots -> Stream]
  BY DEF Inv, TypeOK, TableType
<1>2. \A k \in Slots : \/ streams'[k] = streams[k]
                       \/ streams'[k] = StreamClose(streams[k])
  BY <1>1
<1>3. \A k \in Slots : NoNearer(streams[k], streams'[k])
  BY <1>1, <1>2, NoNearerItself, NoNearerClosed
<1> QED
  BY <1>3, NoNearerStep

LEMMA RstStreamHeld ==
    ASSUME Inv, Inv', AllHeld, ProcessRstStream
    PROVE  AllHeld'
<1>1. UNCHANGED conn_send_window
  BY DEF ProcessRstStream, Reject, ReturnOnly, sendVars
<1>2. CASE UNCHANGED streams
  BY <1>1, <1>2 DEF AllHeld
<1>3. CASE ~UNCHANGED streams
  <2> DEFINE id == Current.stream_id
  <2>1. streams' = IF FindSlot(id) = NoSlot THEN streams
                   ELSE [streams EXCEPT ![FindSlot(id)] = StreamClose(@)]
    BY <1>3 DEF ProcessRstStream, Reject, ReturnOnly, tableVars
  <2> QED
    BY <1>1, <2>1, CloseSlotHeld
<1> QED
  BY <1>2, <1>3

LEMMA StreamErrorHeld ==
    ASSUME Inv, Inv', AllHeld, StreamError, Fits(output_len, RstStreamSize)
    PROVE  AllHeld'
<1> DEFINE id == Current.stream_id
<1>1. /\ UNCHANGED conn_send_window
      /\ streams' = IF FindSlot(id) = NoSlot THEN streams
                    ELSE [streams EXCEPT ![FindSlot(id)] = StreamClose(@)]
  BY DEF StreamError
<1> QED
  BY <1>1, CloseSlotHeld

(* SETTINGS that do not raise the initial window move no window up.        *)
LEMMA ApplySettingHeld ==
    ASSUME Inv, Inv', AllHeld, Sound', ApplySetting,
           initial_stream_window' <= initial_stream_window
    PROVE  AllHeld'
<1> DEFINE s == Current.settings[pos]
           delta == s.value - initial_stream_window
<1>1. UNCHANGED conn_send_window
  BY DEF ApplySetting
<1>2. CASE UNCHANGED streams
  BY <1>1, <1>2 DEF AllHeld
<1>3. CASE ~UNCHANGED streams
  <2>1. ~Done(H2_FLOW_CONTROL_ERROR)
    BY DEF Done, Sound, Fatal, H2_FLOW_CONTROL_ERROR, H2_OK,
           H2_REFUSED_STREAM, H2_STREAM_CLOSED
  <2>2. streams' = MovedStreams(delta) /\ initial_stream_window' = s.value
    BY <1>3, <2>1 DEF ApplySetting, SetInitialWindow
  <2>3. initial_stream_window \in Int /\ initial_stream_window' \in Int
    BY WindowAssumption DEF Inv, TypeOK, SettingType
  <2>4. PICK m \in Int : m = delta /\ m <= 0
    BY <2>2, <2>3
  <2> HIDE DEF s, delta
  <2>5. \A k \in Slots :
           \/ streams'[k] = streams[k]
           \/ streams'[k] = [streams[k] EXCEPT !.send_window = @ + m]
    BY <2>2, <2>4 DEF MovedStreams
  <2>6. ASSUME NEW k \in Slots PROVE NoNearer(streams[k], streams'[k])
    <3>1. streams[k] \in Stream /\ streams[k].send_window \in Int
      BY WindowAssumption DEF Inv, TypeOK, TableType, Stream, INT32_MIN
    <3>2. CASE streams'[k] = streams[k]
      BY <3>1, <3>2, NoNearerItself
    <3>3. CASE streams'[k] = [streams[k] EXCEPT !.send_window = @ + m]
      <4>1. /\ streams'[k].id = streams[k].id
            /\ streams'[k].state = streams[k].state
            /\ streams'[k].path = streams[k].path
            /\ streams'[k].response_body_deferred
                  = streams[k].response_body_deferred
            /\ streams'[k].send_window = streams[k].send_window + m
        BY <3>1, <3>3 DEF Stream
      <4> QED
        BY <2>4, <3>1, <4>1 DEF NoNearer, Flushable, Live, Tracked
    <3> QED
      BY <2>5, <3>2, <3>3
  <2> QED
    BY <1>1, <2>6, NoNearerStep
<1> QED
  BY <1>2, <1>3

LEMMA NoNearerByData ==
    ASSUME NEW s \in Stream, NEW t, t.id = s.id, t.path = s.path,
           t.send_window = s.send_window, s.state # "CLOSED",
           t.response_body_deferred = s.response_body_deferred
    PROVE  NoNearer(s, t)
<1>1. s.send_window \in Int
  BY WindowAssumption DEF Stream, INT32_MIN
<1> QED
  BY <1>1 DEF NoNearer, Flushable, Live, Tracked

(* DATA moves receive windows, and may end the peer's half of a stream. *)
LEMMA ReceiveDataHeld ==
    ASSUME NEW s \in Stream, NEW n, NEW e, NEW t,
           t = ReceiveData(s, n, e).stream, ReceivesData(s)
    PROVE  /\ NoNearer(s, t)
           /\ \A st, w : NoNearer(s, [s EXCEPT !.state = st, !.recv_window = w])
<1> DEFINE u == [s EXCEPT !.recv_window = @ - n]
           v == [u EXCEPT !.state = "HALF_CLOSED_REMOTE"]
<1>0. s.state # "CLOSED"
  BY DEF ReceivesData
<1>1. \/ t = s
      \/ t = u
      \/ t = StreamClose(u)
      \/ t = v
  BY DEF ReceiveData
<1>2. /\ u.id = s.id /\ u.path = s.path /\ u.send_window = s.send_window
      /\ u.response_body_deferred = s.response_body_deferred
  BY DEF Stream
<1>3. /\ v.id = s.id /\ v.path = s.path /\ v.send_window = s.send_window
      /\ v.response_body_deferred = s.response_body_deferred
  BY DEF Stream
<1>4. ASSUME NEW st, NEW w
      PROVE  NoNearer(s, [s EXCEPT !.state = st, !.recv_window = w])
  <2> DEFINE x == [s EXCEPT !.state = st, !.recv_window = w]
  <2>1. /\ x.id = s.id /\ x.path = s.path /\ x.send_window = s.send_window
        /\ x.response_body_deferred = s.response_body_deferred
    BY DEF Stream
  <2>2. NoNearer(s, x)
    <3> HIDE DEF x
    <3> QED
      BY <1>0, <2>1, NoNearerByData
  <2> QED
    BY <2>2
<1>5. NoNearer(s, u) /\ NoNearer(s, v)
  <2> HIDE DEF u, v
  <2> QED
    BY <1>0, <1>2, <1>3, NoNearerByData
<1>6. NoNearer(s, StreamClose(u))
  BY DEF NoNearer, Flushable, StreamClose, FreeSlot
<1> HIDE DEF u, v
<1> QED
  BY <1>1, <1>4, <1>5, <1>6, NoNearerItself

LEMMA DataHeld ==
    ASSUME Inv, Inv', AllHeld, ProcessData
    PROVE  AllHeld'
<1> DEFINE f == Current
           k == FindSlot(f.stream_id)
           d == ReceiveData(streams[k], f.length, H2_FLAG_END_STREAM \in f.flags)
<1>1. UNCHANGED conn_send_window
  BY DEF ProcessData, Reject, ReturnOnly, sendVars
<1>2. CASE UNCHANGED streams
  BY <1>1, <1>2 DEF AllHeld
<1>3. CASE ~UNCHANGED streams
  <2>1. /\ DataVerdict(f) = H2_OK /\ ReceivesData(streams[k])
        /\ DataOnStream(f, k)
    BY <1>3 DEF ProcessData, Reject, ReturnOnly, tableVars, DataOnClosedStream
  <2>2. k # NoSlot
    BY <2>1 DEF DataVerdict, H2_OK, H2_PROTOCOL_ERROR
  <2>3. k \in Slots
    BY <2>2, FindSlotProp
  <2>4. streams \in [Slots -> Stream] /\ streams[k] \in Stream
    BY <2>3 DEF Inv, TypeOK, TableType
  <2>5. \/ streams' = [streams EXCEPT ![k] = d.stream]
        \/ \E w : streams' = [streams EXCEPT ![k].state = d.stream.state,
                                             ![k].recv_window = w]
    BY <1>3, <2>1 DEF DataOnStream
  <2> HIDE DEF k, f
  <2>6. /\ NoNearer(streams[k], d.stream)
        /\ \A st, w : NoNearer(streams[k], [streams[k] EXCEPT !.state = st,
                                                      !.recv_window = w])
    BY <2>1, <2>4, ReceiveDataHeld
  <2> HIDE DEF d
  <2>7. /\ NoNearer(streams[k], streams'[k])
        /\ \A j \in Slots \ {k} : streams'[j] = streams[j]
    <3>1. CASE streams' = [streams EXCEPT ![k] = d.stream]
      BY <2>3, <2>4, <2>6, <3>1
    <3>2. CASE ~(streams' = [streams EXCEPT ![k] = d.stream])
      <4>1. PICK w : streams' = [streams EXCEPT ![k].state = d.stream.state,
                                                ![k].recv_window = w]
        BY <2>5, <3>2
      <4>2. streams' = [streams EXCEPT
                           ![k] = [streams[k] EXCEPT !.state = d.stream.state,
                                                     !.recv_window = w]]
        BY <2>3, <2>4, <4>1
      <4> QED
        BY <2>3, <2>4, <2>6, <4>2
    <3> QED
      BY <3>1, <3>2
  <2>8. \A j \in Slots : NoNearer(streams[j], streams'[j])
    BY <2>4, <2>7, NoNearerItself
  <2> QED
    BY <1>1, <2>8, NoNearerStep
<1> QED
  BY <1>2, <1>3

-----------------------------------------------------------------------------
(* WINDOW_UPDATE opens windows, and starts to flush at the first slot.     *)
LEMMA WindowUpdateHeld ==
    ASSUME Inv, AllHeld, ProcessWindowUpdate
    PROVE  HeldInv'
<1>1. CASE UNCHANGED <<streams, conn_send_window>>
  BY <1>1 DEF AllHeld, HeldInv
<1>2. CASE ~UNCHANGED <<streams, conn_send_window>>
  <2>1. pc' = "flush" /\ pos' = 1
    BY <1>2 DEF ProcessWindowUpdate, Reject, ReturnOnly, tableVars, sendVars,
                Goto
  <2>2. \A k \in Slots : ~(k < 1)
    BY DEF Slots
  <2> QED
    BY <2>1, <2>2 DEF HeldInv
<1> QED
  BY <1>1, <1>2

(* Inside the flush loop there is no other step. *)
LEMMA FlushOnly ==
    ASSUME pc = "flush", [Next]_vars
    PROVE  FlushDeferred \/ UNCHANGED vars
<1>1. ~(FeedPreface \/ FeedFrame \/ FeedRest)
  BY DEF FeedPreface, FeedFrame, FeedRest, Feed
<1>2. ~(FrameDone \/ StreamError \/ ConnectionError \/ FeedDone \/ Write
        \/ Closed)
  BY DEF FrameDone, StreamError, ConnectionError, FeedDone, Write, Closed
<1>3. ProcessFrame => FlushDeferred
  BY DEF ProcessFrame, RejectFrame, ProcessData, ProcessHeaders,
         ProcessContinuation, ProcessPriority, ProcessPushPromise,
         ProcessGoaway, ProcessUnknown, ProcessRstStream, ProcessPing,
         ProcessSettings, ApplySetting, AcknowledgeSettings,
         ProcessWindowUpdate, Dispatch
<1> QED
  BY <1>1, <1>2, <1>3 DEF Next, FeedStep

LEMMA HeldStep ==
    ASSUME Inv, Inv', CallInv, PhaseInv, HeldInv, [Next]_vars,
           [initial_stream_window' <= initial_stream_window]_vars
    PROVE  HeldInv'
<1> SUFFICES ASSUME Sound' PROVE HeldInv'
  BY DEF HeldInv
<1>1. /\ Sound
      /\ \/ UNCHANGED vars
         \/ ret = H2_OK /\ Quiet
         \/ ret = H2_OK /\ UNCHANGED feedVars /\ Handler
         \/ StreamError /\ Fits(output_len, RstStreamSize)
  BY StepKinds
<1>2. CASE UNCHANGED vars
  <2>1. UNCHANGED <<pc, pos, streams, conn_send_window>>
    BY <1>2 DEF vars, control, tableVars, sendVars
  <2> QED
    BY <1>1, <2>1 DEF HeldInv
<1>3. CASE ~UNCHANGED vars /\ pc = "flush"
  BY <1>1, <1>3, FlushOnly, FlushHeld
<1>4. CASE ~UNCHANGED vars /\ pc # "flush"
  <2>1. AllHeld
    BY <1>1, <1>4 DEF HeldInv, AllHeld
  <2>2. AllHeld' => HeldInv'
    BY DEF HeldInv, AllHeld
  <2>3. CASE Quiet
    BY <2>1, <2>2, <2>3 DEF Quiet, tableVars, sendVars, AllHeld
  <2>4. CASE StreamError /\ Fits(output_len, RstStreamSize)
    BY <2>1, <2>2, <2>4, StreamErrorHeld
  <2>5. CASE Handler
    <3>1. ~FlushDeferred
      BY <1>4 DEF FlushDeferred
    <3>2. initial_stream_window' <= initial_stream_window
      BY <1>4
    <3> QED
      BY <2>1, <2>2, <2>5, <3>1, <3>2, DataHeld, HeadersHeld, RstStreamHeld,
         ApplySettingHeld, WindowUpdateHeld DEF Handler
  <2> QED
    BY <1>1, <1>4, <2>3, <2>4, <2>5
<1> QED
  BY <1>2, <1>3, <1>4

(* Between calls of feed a deferred response really is blocked by one of   *)
(* the two windows, for any slots, frames and buffer, in every behaviour   *)
(* in which SETTINGS never raises the initial window: WINDOW_UPDATE, the   *)
(* competition for the connection's window, resets, slot reuse and a full  *)
(* output buffer leave no response behind.  Run `stranded' shows that the  *)
(* hypothesis is needed.                                                   *)
THEOREM DeferredCorrect == Spec /\ NeverRaised => []DeferredIsBlocked
<1>1. Inv /\ Inv' /\ CallInv /\ ResponseInv /\ HeldInv /\ [Next]_vars
      /\ [initial_stream_window' <= initial_stream_window]_vars => HeldInv'
  BY HeldStep DEF ResponseInv
<1>2. CallInv /\ HeldInv => DeferredIsBlocked
  BY DEF CallInv, HeldInv, Sound, Fatal, Held, Blocked, DeferredIsBlocked
<1> QED
  BY <1>1, <1>2, InitHeld, Invariance, FlowInvariance, ResponseInvariance, PTL
     DEF Spec, NeverRaised
=============================================================================
