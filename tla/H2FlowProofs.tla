---------------------------- MODULE H2FlowProofs ----------------------------
(***************************************************************************)
(* Flow control of a connection, for every value of its constants: the     *)
(* windows are what was granted less what was used, and a peer that        *)
(* uploads always has window.                                              *)
(***************************************************************************)
EXTENDS H2ConnectionProofs

(* A connection error: feed will return it. *)
Fatal(r) == r \notin {H2_OK, H2_REFUSED_STREAM, H2_STREAM_CLOSED}

(* No call of feed has failed, and the handler that has just returned has  *)
(* not met a connection error.  Weaker than Healthy: it also holds between *)
(* a stream error and the RST_STREAM for it.                               *)
Sound == ~failed /\ ~Fatal(ret)

(* Only a handler's result is an error, and a frame is processed again     *)
(* only after a call that failed.                                          *)
CallInv == /\ ret # H2_OK => pc = "result"
           /\ retried => failed

(* A step that leaves windows, table, settings and history alone. *)
Quiet == UNCHANGED <<settingVars, sendVars, recvVars, tableVars>>

(* The handlers that can do more. *)
Handler == ProcessData \/ ProcessHeaders \/ ProcessContinuation
           \/ ProcessRstStream \/ ApplySetting \/ ProcessWindowUpdate
           \/ FlushDeferred

LEMMA InitCall == Init => CallInv
BY DEF Init, CallInv

(* Steps of process_frame start from no error, and all but the handlers    *)
(* above are quiet.                                                        *)
LEMMA ProcessFrameKinds ==
    ASSUME Inv, CallInv, ProcessFrame
    PROVE  /\ pc \in {"frames", "settings", "flush"} /\ ret = H2_OK
           /\ UNCHANGED feedVars
           /\ pc' = "result" \/ ret' = H2_OK
           /\ Quiet \/ Handler
<1>1. pc \in {"frames", "settings", "flush"}
  BY DEF ProcessFrame, RejectFrame, ProcessData, ProcessHeaders,
         ProcessContinuation, ProcessPriority, ProcessPushPromise,
         ProcessGoaway, ProcessUnknown, ProcessRstStream, ProcessPing,
         ProcessSettings, ApplySetting, AcknowledgeSettings,
         ProcessWindowUpdate, FlushDeferred, Dispatch
<1>2. UNCHANGED feedVars
  BY DEF ProcessFrame
<1>3. \/ RejectFrame \/ ProcessData \/ ProcessHeaders \/ ProcessContinuation
      \/ ProcessPriority \/ ProcessPushPromise \/ ProcessGoaway
      \/ ProcessUnknown \/ ProcessRstStream \/ ProcessPing
      \/ ProcessSettings \/ ApplySetting \/ AcknowledgeSettings
      \/ ProcessWindowUpdate \/ FlushDeferred
  BY DEF ProcessFrame
<1> DEFINE Returned == pc' = "result" \/ ret' = H2_OK
<1>4. \A r : Done(r) => Returned
  BY DEF Done
<1>5. \A l, p : Goto(l, p) => Returned
  BY DEF Goto
<1>6. \A r : ReturnOnly(r) => Returned /\ Quiet
  BY <1>4 DEF ReturnOnly, Quiet
<1>7. \A r : Reject(r) => Returned
  BY <1>6 DEF Reject
<1> HIDE DEF Returned
<1>8. CASE RejectFrame \/ ProcessPriority \/ ProcessPushPromise
           \/ ProcessGoaway \/ ProcessUnknown
  BY <1>1, <1>2, <1>6, <1>8 DEF CallInv, RejectFrame, Reject, ProcessPriority,
        ProcessPushPromise, ProcessGoaway, ProcessUnknown, Returned
<1>9. CASE ProcessPing \/ ProcessSettings \/ AcknowledgeSettings
  <2>1. Returned /\ Quiet
    BY <1>4, <1>5, <1>6, <1>9 DEF ProcessPing, ProcessSettings,
       AcknowledgeSettings, Reject, Quiet
  <2> QED
    BY <1>1, <1>2, <2>1 DEF CallInv, Returned
<1>10. CASE Handler
  <2>1. ProcessData => Returned
    BY <1>4, <1>7 DEF ProcessData, DataOnStream, DataOnClosedStream
  <2>2. \A id, fl, b : FinishHeaders(id, fl, b) => Returned
    BY <1>4 DEF FinishHeaders
  <2>3. ProcessHeaders => Returned
    BY <1>4, <1>7, <2>2 DEF ProcessHeaders, OpenHeaderBlock
  <2>4. ProcessContinuation => Returned
    BY <1>4, <1>7, <2>2 DEF ProcessContinuation
  <2>5. ProcessRstStream => Returned
    BY <1>4, <1>7 DEF ProcessRstStream
  <2>6. ApplySetting => Returned
    BY <1>4, <1>5 DEF ApplySetting, SetInitialWindow
  <2>7. ProcessWindowUpdate => Returned
    BY <1>5, <1>6, <1>7 DEF ProcessWindowUpdate
  <2>8. FlushDeferred => Returned
    BY <1>4, <1>5, <1>6 DEF FlushDeferred
  <2>9. Returned
    BY <1>10, <2>1, <2>3, <2>4, <2>5, <2>6, <2>7, <2>8 DEF Handler
  <2> QED
    BY <1>1, <1>2, <1>10, <2>9 DEF CallInv, Returned
<1> QED
  BY <1>3, <1>8, <1>9, <1>10 DEF Handler

(* What feed returns is remembered in failed. *)
LEMMA ReturnFails ==
    ASSUME NEW r, Return(r)
    PROVE  /\ ret' = H2_OK
           /\ failed \/ r # H2_OK => failed'
           /\ ~failed' => ~failed
BY Zenon DEF Return

LEMMA FeedCall ==
    ASSUME CallInv, FeedPreface \/ FeedFrame \/ FeedRest
    PROVE  /\ ret = H2_OK /\ Quiet /\ CallInv'
           /\ ~failed' => ~failed
<1>1. PICK n, inp, miss, p : Feed(n, inp, miss, p)
  BY DEF FeedPreface, FeedFrame, FeedRest
<1>2. ret = H2_OK /\ Quiet /\ UNCHANGED retried
  BY <1>1 DEF Feed, CallInv, Quiet
<1>3. \/ \E r : Return(r)
      \/ Goto("frames", 0) /\ UNCHANGED failed
  BY <1>1 DEF Feed, CheckPreface
<1>4. ret' = H2_OK /\ (~failed' => ~failed)
  BY <1>3, ReturnFails DEF Goto
<1> QED
  BY <1>2, <1>4 DEF CallInv

(* Every step, as the flow-control proofs see it. *)
LEMMA StepKinds ==
    ASSUME Inv, CallInv, [Next]_vars
    PROVE  /\ CallInv'
           /\ Sound' => /\ Sound
                        /\ \/ UNCHANGED vars
                           \/ ret = H2_OK /\ Quiet
                           \/ ret = H2_OK /\ UNCHANGED feedVars /\ Handler
                           \/ StreamError /\ Fits(output_len, RstStreamSize)
<1>1. CASE ProcessFrame
  <2>1. /\ ret = H2_OK /\ UNCHANGED feedVars
        /\ pc' = "result" \/ ret' = H2_OK
        /\ Quiet \/ Handler
    BY <1>1, ProcessFrameKinds
  <2>2. failed' = failed /\ retried' = retried
    BY <2>1 DEF feedVars, inputVars
  <2> QED
    BY <2>1, <2>2 DEF CallInv, Sound, Fatal
<1>2. CASE FrameDone
  <2>1. /\ ret = H2_OK /\ Quiet /\ ret' = H2_OK /\ failed' = failed
        /\ retried' = FALSE
    BY <1>2 DEF FrameDone, Quiet, Goto, ConsumeFrame
  <2> QED
    BY <2>1 DEF CallInv, Sound, Fatal
<1>3. CASE StreamError
  <2>1. CASE Fits(output_len, RstStreamSize)
    <3>1. ret' = H2_OK /\ failed' = failed /\ retried' = FALSE
      BY <1>3, <2>1 DEF StreamError, Goto, ConsumeFrame
    <3>2. ~Fatal(ret)
      BY <1>3 DEF StreamError, IsStreamError, Fatal
    <3> QED
      BY <1>3, <2>1, <3>1, <3>2 DEF CallInv, Sound
  <2>2. CASE ~Fits(output_len, RstStreamSize)
    <3>1. Return(H2_INTERNAL_ERROR)
      BY <1>3, <2>2 DEF StreamError
    <3>2. ret' = H2_OK /\ failed'
      BY <3>1, ReturnFails DEF H2_OK, H2_INTERNAL_ERROR
    <3> QED
      BY <3>2 DEF CallInv, Sound
  <2> QED
    BY <2>1, <2>2
<1>4. CASE ConnectionError
  <2>1. Return(ret) /\ ret # H2_OK
    BY <1>4 DEF ConnectionError
  <2>2. ret' = H2_OK /\ failed'
    BY <2>1, ReturnFails
  <2> QED
    BY <2>2 DEF CallInv, Sound
<1>5. CASE FeedDone
  <2>1. /\ Return(H2_OK) /\ Quiet /\ UNCHANGED retried /\ pc = "frames"
    BY <1>5 DEF FeedDone, Quiet, inputVars
  <2>2. ret' = H2_OK /\ (~failed' => ~failed)
    BY <2>1, ReturnFails
  <2>3. ret = H2_OK
    BY <2>1 DEF CallInv
  <2> QED
    BY <2>1, <2>2, <2>3 DEF CallInv, Sound, Fatal
<1>6. CASE FeedPreface \/ FeedFrame \/ FeedRest
  BY <1>6, FeedCall DEF Sound, Fatal
<1>7. CASE Write
  <2>1. /\ UNCHANGED <<pc, ret, failed, retried>> /\ Quiet /\ pc = "idle"
    BY <1>7 DEF Write, control, feedVars, inputVars, Quiet
  <2>2. ret = H2_OK
    BY <2>1 DEF CallInv
  <2> QED
    BY <2>1, <2>2 DEF CallInv, Sound
<1>8. CASE UNCHANGED vars
  <2>1. UNCHANGED <<pc, ret, failed, retried>>
    BY <1>8 DEF vars, control, feedVars, inputVars
  <2> QED
    BY <1>8, <2>1 DEF CallInv, Sound
<1> QED
  BY <1>1, <1>2, <1>3, <1>4, <1>5, <1>6, <1>7, <1>8
     DEF Next, FeedStep, Closed

-----------------------------------------------------------------------------
(* The inductive invariant of flow control.                                *)

(* The send windows are what the peer granted less what was queued. *)
SendEven == /\ conn_send_window = credit[NoSlot]
            /\ \A k \in LiveSlots : streams[k].send_window = credit[k]

(* The receive windows are what the peer may still send. *)
RecvEven == /\ conn_recv_window = allowance[NoSlot]
            /\ \A k \in Slots : ReceivesData(streams[k])
                  => streams[k].recv_window = allowance[k]

(* More than half of each receive window is open. *)
Half == H2_DEFAULT_WINDOW_SIZE \div 2
RecvOpen == /\ conn_recv_window > Half
            /\ \A k \in Slots : ReceivesData(streams[k])
                  => streams[k].recv_window > Half

(* process_data ignores a refresh that fails when the stream is closed.    *)
(* The window is then above what the peer knows, but the RST_STREAM that   *)
(* must follow does not fit either, so this call of feed fails.            *)
Overdrawn == ret # H2_OK /\ ~Fits(output_len, RstStreamSize)

FlowInv == Sound => SendEven /\ RecvOpen /\ (RecvEven \/ Overdrawn)

(* Stream t still is stream s, as far as its receive window, or its send   *)
(* window, matters.                                                        *)
RecvKept(s, t) ==
    ReceivesData(t) => ReceivesData(s) /\ t.recv_window = s.recv_window
SendKept(s, t) == Live(t) => Live(s) /\ t.send_window = s.send_window

LEMMA InitFlow == Init => FlowInv
<1> SUFFICES ASSUME Init PROVE SendEven /\ RecvOpen /\ RecvEven
  BY DEF FlowInv
<1>1. Half \in Int /\ H2_DEFAULT_WINDOW_SIZE > Half
  BY WindowAssumption DEF Half
<1>2. \A k \in Slots : ~Live(streams[k]) /\ ~ReceivesData(streams[k])
  BY DEF Init, FreeSlot, Live, Tracked, ReceivesData
<1> QED
  BY <1>1, <1>2 DEF Init, SendEven, RecvOpen, RecvEven, LiveSlots

LEMMA RecvKeptStep ==
    ASSUME UNCHANGED recvVars,
           \A k \in Slots : RecvKept(streams[k], streams'[k])
    PROVE  (RecvEven => RecvEven') /\ (RecvOpen => RecvOpen')
<1>1. RecvEven => RecvEven'
  BY DEF RecvEven, RecvKept, recvVars
<1>2. RecvOpen => RecvOpen'
  BY DEF RecvOpen, RecvKept, recvVars, Half
<1> QED
  BY <1>1, <1>2

LEMMA SendKeptStep ==
    ASSUME UNCHANGED <<conn_send_window, credit>>,
           \A k \in Slots : SendKept(streams[k], streams'[k])
    PROVE  SendEven => SendEven'
BY DEF SendEven, SendKept, LiveSlots

(* A closed stream has no window. *)
LEMMA CloseKept ==
    ASSUME NEW s
    PROVE  RecvKept(s, StreamClose(s)) /\ SendKept(s, StreamClose(s))
BY DEF RecvKept, SendKept, StreamClose, FreeSlot, ReceivesData, Live, Tracked

LEMMA CloseSlotKept ==
    ASSUME Inv, NEW id,
           streams' = IF FindSlot(id) = NoSlot THEN streams
                      ELSE [streams EXCEPT ![FindSlot(id)] = StreamClose(@)]
    PROVE  \A k \in Slots : /\ RecvKept(streams[k], streams'[k])
                            /\ SendKept(streams[k], streams'[k])
<1>1. \A s : RecvKept(s, s) /\ SendKept(s, s)
  BY DEF RecvKept, SendKept
<1>2. streams \in [Slots -> Stream]
  BY DEF Inv, TypeOK, TableType
<1>3. \A k \in Slots : \/ streams'[k] = streams[k]
                       \/ streams'[k] = StreamClose(streams[k])
  BY <1>2
<1> QED
  BY <1>1, <1>3, CloseKept

-----------------------------------------------------------------------------
(* One lemma per handler: from even windows to even windows.               *)
FlowStep == SendEven' /\ RecvOpen' /\ (RecvEven' \/ Overdrawn')

LEMMA QuietFlow ==
    ASSUME Quiet, SendEven, RecvOpen, RecvEven
    PROVE  FlowStep
<1>1. UNCHANGED <<conn_send_window, credit, conn_recv_window, allowance,
                  streams>>
  BY DEF Quiet, sendVars, recvVars, tableVars
<1> QED
  BY <1>1 DEF FlowStep, SendEven, RecvOpen, RecvEven, Half, LiveSlots

LEMMA RstStreamFlow ==
    ASSUME Inv, SendEven, RecvOpen, RecvEven, ProcessRstStream
    PROVE  FlowStep
<1> DEFINE id == Current.stream_id
<1>1. CASE Quiet
  BY <1>1, QuietFlow
<1>2. CASE ~Quiet
  <2>1. /\ streams' = IF FindSlot(id) = NoSlot THEN streams
                      ELSE [streams EXCEPT ![FindSlot(id)] = StreamClose(@)]
        /\ UNCHANGED <<sendVars, recvVars>>
    BY <1>2 DEF ProcessRstStream, Reject, ReturnOnly, Quiet
  <2>2. \A k \in Slots : /\ RecvKept(streams[k], streams'[k])
                         /\ SendKept(streams[k], streams'[k])
    BY <2>1, CloseSlotKept
  <2> QED
    BY <2>1, <2>2, RecvKeptStep, SendKeptStep DEF FlowStep, sendVars
<1> QED
  BY <1>1, <1>2

(* RST_STREAM for a stream error. *)
LEMMA StreamErrorFlow ==
    ASSUME Inv, SendEven, RecvOpen, RecvEven, StreamError,
           Fits(output_len, RstStreamSize)
    PROVE  FlowStep
<1> DEFINE id == Current.stream_id
<1>1. /\ streams' = IF FindSlot(id) = NoSlot THEN streams
                    ELSE [streams EXCEPT ![FindSlot(id)] = StreamClose(@)]
      /\ UNCHANGED <<recvVars, conn_send_window, credit>>
  BY DEF StreamError
<1>2. \A k \in Slots : /\ RecvKept(streams[k], streams'[k])
                       /\ SendKept(streams[k], streams'[k])
  BY <1>1, CloseSlotKept
<1> QED
  BY <1>1, <1>2, RecvKeptStep, SendKeptStep DEF FlowStep

(* SETTINGS_INITIAL_WINDOW_SIZE moves every live window and the peer's     *)
(* view of it alike, or fails.                                             *)
LEMMA ApplySettingFlow ==
    ASSUME Inv, SendEven, RecvOpen, RecvEven, ApplySetting, Sound'
    PROVE  FlowStep
<1> DEFINE s == Current.settings[pos]
           delta == s.value - initial_stream_window
<1>1. UNCHANGED recvVars /\ UNCHANGED conn_send_window
  BY DEF ApplySetting
<1>2. CASE s.id # H2_SETTINGS_INITIAL_WINDOW_SIZE
  <2>1. UNCHANGED <<streams, credit>>
    BY <1>2 DEF ApplySetting
  <2> QED
    BY <1>1, <2>1 DEF FlowStep, SendEven, RecvOpen, RecvEven, Half, LiveSlots,
                      recvVars
<1>3. CASE s.id = H2_SETTINGS_INITIAL_WINDOW_SIZE
  <2>1. ~Done(H2_FLOW_CONTROL_ERROR)
    BY DEF Done, Sound, Fatal, H2_FLOW_CONTROL_ERROR, H2_OK,
           H2_REFUSED_STREAM, H2_STREAM_CLOSED
  <2>2. /\ Overflowing(delta) = {} /\ streams' = MovedStreams(delta)
        /\ credit' = [k \in DOMAIN credit |-> IF k \in LiveSlots
                                              THEN credit[k] + delta
                                              ELSE credit[k]]
    BY <1>3, <2>1 DEF ApplySetting, SetInitialWindow
  <2> HIDE DEF delta
  <2>3. Moved(delta) = LiveSlots
    BY <2>2 DEF Moved
  <2>4. /\ streams \in [Slots -> Stream]
        /\ credit \in [{NoSlot} \cup Slots -> Int] /\ NoSlot \notin Slots
    BY Constants DEF Inv, TypeOK, TableType, SendType
  <2>5. \A k \in Slots :
           streams'[k] = IF k \in LiveSlots
                         THEN [streams[k] EXCEPT !.send_window = @ + delta]
                         ELSE streams[k]
    BY <2>2, <2>3 DEF MovedStreams
  <2>6. \A k \in Slots : /\ streams'[k].state = streams[k].state
                         /\ streams'[k].id = streams[k].id
                         /\ streams'[k].recv_window = streams[k].recv_window
    BY <2>4, <2>5 DEF Stream
  <2>7. \A k \in LiveSlots :
           streams'[k].send_window = streams[k].send_window + delta
    BY <2>4, <2>5 DEF Stream, LiveSlots
  <2>8. LiveSlots' = LiveSlots
    BY <2>6 DEF LiveSlots, Live, Tracked
  <2>9. LiveSlots \subseteq Slots
    BY DEF LiveSlots
  <2>10. credit'[NoSlot] = credit[NoSlot]
         /\ \A k \in LiveSlots : credit'[k] = credit[k] + delta
    BY <2>2, <2>4, <2>9
  <2>11. SendEven'
    BY <1>1, <2>7, <2>8, <2>10 DEF SendEven
  <2>12. \A k \in Slots : RecvKept(streams[k], streams'[k])
    BY <2>6 DEF RecvKept, ReceivesData
  <2> QED
    BY <1>1, <2>11, <2>12, RecvKeptStep DEF FlowStep
<1> QED
  BY <1>2, <1>3

(* WINDOW_UPDATE, on a frame that is processed for the first time. *)
LEMMA WindowUpdateFlow ==
    ASSUME Inv, SendEven, RecvOpen, RecvEven, ProcessWindowUpdate, ~retried
    PROVE  FlowStep
<1> DEFINE f == Current
           k == FindSlot(f.stream_id)
           t == AddSendWindow(streams[k], f.increment).stream
<1>1. CASE Quiet
  BY <1>1, QuietFlow
<1>2. CASE ~Quiet
  <2>1. /\ WindowUpdateVerdict(f) = H2_OK
        /\ \/ /\ f.stream_id = 0
              /\ conn_send_window' = conn_send_window + f.increment
              /\ credit' = [credit EXCEPT ![NoSlot] = Grant(@, f.increment)]
              /\ UNCHANGED streams
           \/ /\ f.stream_id # 0 /\ k # NoSlot
              /\ streams' = [streams EXCEPT
                                ![k] = AddSendWindow(@, f.increment).stream]
              /\ credit' = IF Live(streams[k])
                           THEN [credit EXCEPT ![k] = Grant(@, f.increment)]
                           ELSE credit
              /\ UNCHANGED conn_send_window
        /\ UNCHANGED recvVars
    BY <1>2 DEF ProcessWindowUpdate, Reject, ReturnOnly, Quiet
  <2>2. /\ streams \in [Slots -> Stream] /\ conn_send_window \in Int
        /\ credit \in [{NoSlot} \cup Slots -> Int] /\ NoSlot \notin Slots
    BY Constants, WindowAssumption DEF Inv, TypeOK, TableType, SendType
  <2>3. f.increment \in Nat
    <3>1. input # << >>
      BY DEF ProcessWindowUpdate, Dispatch, HeadComplete
    <3> QED
      BY <3>1, CurrentType DEF Inv, TypeOK
  <2> HIDE DEF f
  <2>4. \A c : Grant(c, f.increment) = c + f.increment
    BY DEF Grant
  <2>5. CASE f.stream_id = 0
    <3>1. /\ conn_send_window' = conn_send_window + f.increment
          /\ credit' = [credit EXCEPT
                           ![NoSlot] = credit[NoSlot] + f.increment]
          /\ UNCHANGED streams
      BY <2>1, <2>2, <2>4, <2>5
    <3>2. SendEven'
      BY <2>2, <3>1 DEF SendEven, LiveSlots
    <3>3. RecvOpen' /\ RecvEven'
      BY <2>1, <3>1 DEF RecvOpen, RecvEven, Half, recvVars
    <3> QED
      BY <3>2, <3>3 DEF FlowStep
  <2>6. CASE f.stream_id # 0
    <3>1. k \in Slots /\ k # NoSlot
      BY <2>1, <2>6, FindSlotProp
    <3>2. AddSendWindow(streams[k], f.increment).ret = H2_OK
      BY <2>1, <2>6, <3>1 DEF WindowUpdateVerdict
    <3>3. t = [streams[k] EXCEPT !.send_window = @ + f.increment]
      BY <3>2 DEF AddSendWindow, H2_OK, H2_PROTOCOL_ERROR,
                  H2_FLOW_CONTROL_ERROR
    <3> HIDE DEF k
    <3>4. /\ t.state = streams[k].state /\ t.id = streams[k].id
          /\ t.recv_window = streams[k].recv_window
          /\ t.send_window = streams[k].send_window + f.increment
      BY <2>2, <3>1, <3>3 DEF Stream
    <3> HIDE DEF t
    <3>5. streams' = [streams EXCEPT ![k] = t]
      BY <2>1, <2>2, <2>6, <3>1 DEF t
    <3>6. credit' = IF Live(streams[k])
                    THEN [credit EXCEPT ![k] = credit[k] + f.increment]
                    ELSE credit
      BY <2>1, <2>2, <2>4, <2>6, <3>1
    <3>7. LiveSlots' = LiveSlots
      BY <2>2, <3>1, <3>4, <3>5 DEF LiveSlots, Live, Tracked
    <3>8. SendEven'
      BY <2>1, <2>2, <2>6, <3>1, <3>4, <3>5, <3>6, <3>7
         DEF SendEven, LiveSlots
    <3>9. \A j \in Slots : RecvKept(streams[j], streams'[j])
      BY <2>2, <3>1, <3>4, <3>5 DEF RecvKept, ReceivesData
    <3> QED
      BY <2>1, <3>8, <3>9, RecvKeptStep DEF FlowStep
  <2> QED
    BY <2>5, <2>6
<1> QED
  BY <1>1, <1>2

(* A response is charged to the stream, to the connection and to what the  *)
(* peer granted alike.                                                     *)
LEMMA RespondFlow ==
    ASSUME Inv, SendEven, NEW k \in Slots, NEW s \in Stream, NEW q,
           ResponseResult(q, s), KeepsWindows(q, s, conn_send_window),
           NEW base, base = s.send_window, Respond(k, q, base)
    PROVE  /\ SendEven'
           /\ \A j \in Slots \ {k} : streams'[j] = streams[j]
           /\ RecvKept(s, streams'[k])
<1> DEFINE spent == conn_send_window - q.send_window
<1>1. /\ streams \in [Slots -> Stream] /\ conn_send_window \in Int
      /\ credit \in [{NoSlot} \cup Slots -> Int] /\ NoSlot \notin Slots
      /\ q.send_window \in Int /\ base \in Int
  BY Constants, WindowAssumption
     DEF Inv, TypeOK, TableType, SendType, ResponseResult, Stream, INT32_MIN
<1>2. /\ streams' = [streams EXCEPT ![k] = q.stream]
      /\ conn_send_window' = q.send_window
      /\ credit' = [credit EXCEPT ![NoSlot] = credit[NoSlot] - spent,
                                  ![k] = base - spent]
  BY <1>1 DEF Respond
<1>3. spent \in Int /\ conn_send_window - spent = q.send_window
  BY <1>1
<1>4. q.stream.state # "CLOSED" => q.stream.send_window = base - spent
  BY DEF KeepsWindows
<1> HIDE DEF spent
<1>5. conn_send_window' = credit'[NoSlot]
  BY <1>1, <1>2, <1>3 DEF SendEven
<1>6. \A j \in LiveSlots' : streams'[j].send_window = credit'[j]
  BY <1>1, <1>2, <1>4 DEF SendEven, LiveSlots, Live
<1>7. \A j \in Slots \ {k} : streams'[j] = streams[j]
  BY <1>1, <1>2
<1>8. RecvKept(s, streams'[k])
  BY <1>1, <1>2 DEF RecvKept, KeepsWindows
<1> QED
  BY <1>5, <1>6, <1>7, <1>8 DEF SendEven

(* One deferred response. *)
LEMMA FlushFlow ==
    ASSUME Inv, SendEven, RecvOpen, RecvEven, FlushDeferred
    PROVE  FlowStep
<1> DEFINE k == First(DeferredFrom(pos))
           q == QueueResponse(streams[k], conn_send_window, output_len)
<1>1. CASE Quiet
  BY <1>1, QuietFlow
<1>2. CASE ~Quiet
  <2>1. DeferredFrom(pos) # {} /\ Respond(k, q, credit[k]) /\ UNCHANGED recvVars
    BY <1>2 DEF FlushDeferred, ReturnOnly, Quiet
  <2>2. k \in DeferredFrom(pos)
    <3>1. DeferredFrom(pos) \subseteq Nat
      BY Constants DEF DeferredFrom
    <3> QED
      BY <2>1, <3>1, FirstIsLeast
  <2>3. k \in Slots /\ Live(streams[k])
    BY <2>2 DEF DeferredFrom, Flushable
  <2> HIDE DEF k
  <2>4. /\ streams[k] \in Stream /\ conn_send_window \in 0 .. INT32_MAX
        /\ output_len \in 0 .. H2_CONN_OUTPUT_CAP
    BY <2>3 DEF Inv, TypeOK, TableType, SendType, OutputType
  <2>5. ResponseResult(q, streams[k]) /\ KeepsWindows(q, streams[k], conn_send_window)
    BY <2>4, QueueResponseType, QueueResponseWindows
  <2>6. credit[k] = streams[k].send_window
    BY <2>3 DEF SendEven, LiveSlots
  <2> HIDE DEF q
  <2>7. /\ SendEven'
        /\ \A j \in Slots \ {k} : streams'[j] = streams[j]
        /\ RecvKept(streams[k], streams'[k])
    BY <2>1, <2>3, <2>4, <2>5, <2>6, RespondFlow
  <2>8. \A j \in Slots : RecvKept(streams[j], streams'[j])
    BY <2>7 DEF RecvKept
  <2> QED
    BY <2>1, <2>7, <2>8, RecvKeptStep DEF FlowStep
<1> QED
  BY <1>1, <1>2

(* h2_connection_finish_headers: a new stream starts with the windows that *)
(* both sides agree on.                                                    *)
LEMMA FinishHeadersFlow ==
    ASSUME Inv, SendEven, RecvOpen, RecvEven, UNCHANGED conn_recv_window,
           NEW id \in Nat, NEW flags, NEW block \in Seq(HpackItem),
           FinishHeaders(id, flags, block)
    PROVE  FlowStep
<1> DEFINE k == GetSlot(id)
           x == ExtractPath(block)
           g == GetStream(id)
           s == [g EXCEPT !.path = x.path]
           h == ReceiveHeaders(s, H2_FLAG_END_STREAM \in flags)
           q == QueueResponse(h.stream, conn_send_window, output_len)
           bad == RejectedStreamId(id)
<1>1. CASE bad \/ k = NoSlot
  <2>1. UNCHANGED <<streams, sendVars, allowance>>
    BY <1>1 DEF FinishHeaders
  <2> QED
    BY <2>1 DEF FlowStep, SendEven, RecvOpen, RecvEven, Half, LiveSlots, sendVars
<1>2. CASE ~bad /\ k # NoSlot
  <2>1. /\ allowance' = [allowance EXCEPT ![k] = H2_DEFAULT_WINDOW_SIZE]
        /\ IF x.ret = H2_OK /\ h.ret = H2_OK
           THEN Respond(k, q, initial_stream_window)
           ELSE /\ streams' = [streams EXCEPT ![k] = s]
                /\ credit' = [credit EXCEPT ![k] = initial_stream_window]
                /\ UNCHANGED conn_send_window
    BY <1>2 DEF FinishHeaders
  <2>2. k \in Slots /\ g = StreamInit(id, initial_stream_window) /\ g \in Stream
    BY <1>2, NewStream
  <2>3. x.path \in 0 .. PathCap - 1
    BY ExtractPathType
  <2>4. /\ streams \in [Slots -> Stream] /\ conn_send_window \in 0 .. INT32_MAX
        /\ credit \in [{NoSlot} \cup Slots -> Int] /\ NoSlot \notin Slots
        /\ allowance \in [{NoSlot} \cup Slots -> Int]
        /\ output_len \in 0 .. H2_CONN_OUTPUT_CAP
    BY Constants
       DEF Inv, TypeOK, TableType, SendType, RecvType, OutputType
  <2>5. /\ g.send_window = initial_stream_window
        /\ g.recv_window = H2_DEFAULT_WINDOW_SIZE
    BY <2>2 DEF StreamInit, FreeSlot
  <2> HIDE DEF k, g, x
  <2>6. /\ s \in Stream /\ s.send_window = initial_stream_window
        /\ s.recv_window = H2_DEFAULT_WINDOW_SIZE
    BY <2>2, <2>3, <2>5 DEF Stream
  <2> HIDE DEF s
  <2>7. /\ h.stream \in Stream /\ h.stream.send_window = initial_stream_window
        /\ h.stream.recv_window = H2_DEFAULT_WINDOW_SIZE
    <3>1. h.stream \in Stream
      BY <2>6, ReceiveHeadersType
    <3>2. /\ h.stream.send_window = s.send_window
          /\ h.stream.recv_window = s.recv_window
      BY <2>6 DEF ReceiveHeaders, Stream
    <3> QED
      BY <2>6, <3>1, <3>2
  <2> HIDE DEF h
  <2>8. /\ SendEven'
        /\ \A j \in Slots \ {k} : streams'[j] = streams[j]
        /\ ReceivesData(streams'[k]) =>
              streams'[k].recv_window = H2_DEFAULT_WINDOW_SIZE
    <3>1. CASE x.ret = H2_OK /\ h.ret = H2_OK
      <4>1. Respond(k, q, initial_stream_window)
        BY <2>1, <3>1
      <4>2. /\ ResponseResult(q, h.stream)
            /\ KeepsWindows(q, h.stream, conn_send_window)
        BY <2>4, <2>7, QueueResponseType, QueueResponseWindows
      <4> HIDE DEF q
      <4>3. /\ SendEven'
            /\ \A j \in Slots \ {k} : streams'[j] = streams[j]
            /\ RecvKept(h.stream, streams'[k])
        BY <2>2, <2>7, <4>1, <4>2, RespondFlow
      <4> QED
        BY <2>7, <4>3 DEF RecvKept
    <3>2. CASE ~(x.ret = H2_OK /\ h.ret = H2_OK)
      <4>1. /\ streams' = [streams EXCEPT ![k] = s]
            /\ credit' = [credit EXCEPT ![k] = initial_stream_window]
            /\ UNCHANGED conn_send_window
        BY <2>1, <3>2
      <4>2. SendEven'
        BY <2>2, <2>4, <2>6, <4>1 DEF SendEven, LiveSlots
      <4> QED
        BY <2>2, <2>4, <2>6, <4>1, <4>2
    <3> QED
      BY <3>1, <3>2
  <2>9. RecvEven'
    BY <2>1, <2>2, <2>4, <2>8 DEF RecvEven
  <2>10. Half \in Int /\ H2_DEFAULT_WINDOW_SIZE > Half
    BY WindowAssumption DEF Half
  <2>11. RecvOpen'
    <3>1. \A j \in Slots : ReceivesData(streams'[j])
             => streams'[j].recv_window > H2_DEFAULT_WINDOW_SIZE \div 2
      BY <2>8, <2>10 DEF RecvOpen, Half
    <3> QED
      BY <3>1 DEF RecvOpen, Half
  <2> QED
    BY <2>8, <2>9, <2>11 DEF FlowStep
<1> QED
  BY <1>1, <1>2

(* HEADERS and CONTINUATION. *)
LEMMA HeadersFlow ==
    ASSUME Inv, SendEven, RecvOpen, RecvEven, ProcessHeaders
    PROVE  FlowStep
<1> DEFINE f == Current
<1>1. f.stream_id \in Nat /\ f.block \in Seq(HpackItem)
  <2>1. input # << >>
    BY DEF ProcessHeaders, Dispatch, HeadComplete
  <2> QED
    BY <2>1, CurrentType DEF Inv, TypeOK
<1>2. CASE UNCHANGED <<sendVars, recvVars, streams>>
  BY <1>2 DEF FlowStep, SendEven, RecvOpen, RecvEven, Half, LiveSlots,
              sendVars, recvVars
<1>3. CASE ~UNCHANGED <<sendVars, recvVars, streams>>
  <2>1. FinishHeaders(f.stream_id, f.flags, f.block)
        /\ UNCHANGED conn_recv_window
    BY <1>3 DEF ProcessHeaders, OpenHeaderBlock, Reject, ReturnOnly,
                tableVars, recvVars
  <2> QED
    BY <1>1, <2>1, FinishHeadersFlow
<1> QED
  BY <1>2, <1>3

LEMMA ContinuationFlow ==
    ASSUME Inv, SendEven, RecvOpen, RecvEven, ProcessContinuation
    PROVE  FlowStep
<1> DEFINE f == Current
           h == AppendHeaderBlock(header_block, f.block, f.length)
<1>1. h \in HeaderBlock
  <2>1. input # << >>
    BY DEF ProcessContinuation, Dispatch, HeadComplete
  <2>2. f.block \in Seq(HpackItem) /\ f.length \in Nat
    BY <2>1, CurrentType DEF Inv, TypeOK
  <2> QED
    BY <2>2, AppendType DEF Inv, TypeOK, TableType
<1>2. CASE UNCHANGED <<sendVars, recvVars, streams>>
  BY <1>2 DEF FlowStep, SendEven, RecvOpen, RecvEven, Half, LiveSlots,
              sendVars, recvVars
<1>3. CASE ~UNCHANGED <<sendVars, recvVars, streams>>
  <2>1. FinishHeaders(h.stream_id, h.flags, h.block)
        /\ UNCHANGED conn_recv_window
    BY <1>3 DEF ProcessContinuation, Reject, ReturnOnly, tableVars, recvVars
  <2>2. h.stream_id \in Nat /\ h.block \in Seq(HpackItem)
    BY <1>1 DEF HeaderBlock
  <2> QED
    BY <2>1, <2>2, FinishHeadersFlow
<1> QED
  BY <1>2, <1>3

(* h2_connection_refresh_recv_windows leaves a window that is more than    *)
(* half open, and fails only when its WINDOW_UPDATE does not fit.          *)
LEMMA RefreshOpens ==
    ASSUME NEW w \in 0 .. H2_DEFAULT_WINDOW_SIZE, NEW out
    PROVE  /\ Refresh(w, out).window > Half
           /\ \/ Refresh(w, out).ret = H2_OK
              \/ /\ Refresh(w, out).ret = H2_INTERNAL_ERROR
                 /\ Refresh(w, out).output_len = out
                 /\ ~Fits(out, WindowUpdateSize)
<1>1. H2_DEFAULT_WINDOW_SIZE > Half
  BY WindowAssumption DEF Half
<1> QED
  BY <1>1 DEF Refresh, Half, QueueRet, QueueLen

(* DATA on a stream that takes none is charged to the connection. *)
LEMMA ClosedDataFlow ==
    ASSUME Inv, SendEven, RecvOpen, RecvEven, ~failed,
           NEW f \in Frame, conn_recv_window >= f.length,
           DataOnClosedStream(f), UNCHANGED sendVars
    PROVE  FlowStep
<1> DEFINE w == conn_recv_window - f.length
           r == Refresh(w, output_len)
<1>1. /\ f.length \in Nat /\ conn_recv_window \in 0 .. H2_DEFAULT_WINDOW_SIZE
      /\ allowance \in [{NoSlot} \cup Slots -> Int] /\ NoSlot \notin Slots
      /\ output_len \in 0 .. H2_CONN_OUTPUT_CAP
  BY Constants DEF Inv, TypeOK, RecvType, OutputType, Frame
<1>2. w \in 0 .. H2_DEFAULT_WINDOW_SIZE /\ w \in Int
  BY <1>1, WindowAssumption
<1>3. /\ r.window > Half
      /\ \/ r.ret = H2_OK
         \/ r.output_len = output_len /\ ~Fits(output_len, WindowUpdateSize)
  BY <1>2, RefreshOpens
<1>4. r.window \in Int
  BY <1>1, <1>2, RefreshType, WindowAssumption
<1>5. /\ conn_recv_window' = r.window /\ output_len' = r.output_len
      /\ allowance' = [allowance EXCEPT
                          ![NoSlot] = Granted(allowance[NoSlot], f.length, w, r)]
      /\ ret' = H2_STREAM_CLOSED /\ UNCHANGED streams
  BY <1>1 DEF DataOnClosedStream, Done
<1> HIDE DEF r
<1>6. SendEven' /\ RecvOpen'
  BY <1>3, <1>5 DEF SendEven, RecvOpen, Half, LiveSlots, sendVars
<1>7. CASE r.ret = H2_OK
  <2>1. Granted(allowance[NoSlot], f.length, w, r) = r.window
    BY <1>1, <1>4, <1>7, WindowAssumption DEF Granted, RecvEven
  <2>2. RecvEven'
    BY <1>1, <1>5, <2>1 DEF RecvEven
  <2> QED
    BY <1>6, <2>2 DEF FlowStep
<1>8. CASE r.ret # H2_OK
  <2>1. Overdrawn'
    BY <1>3, <1>5, <1>8 DEF Overdrawn, Fits, WindowUpdateSize, RstStreamSize,
                            H2_OK, H2_STREAM_CLOSED
  <2> QED
    BY <1>6, <2>1 DEF FlowStep
<1> QED
  BY <1>7, <1>8

(* What h2_stream_receive_data leaves of a stream that takes DATA. *)
LEMMA ReceiveDataKept ==
    ASSUME NEW s \in Stream, NEW n \in Nat, NEW e, s.id # 0,
           ReceivesData(s), ReceiveData(s, n, e).ret = H2_OK
    PROVE  LET t == ReceiveData(s, n, e).stream
           IN  /\ SendKept(s, t) /\ s.recv_window >= n
               /\ t.state # "CLOSED" => t.recv_window = s.recv_window - n
               /\ ReceivesData(t) => t.state # "CLOSED"
<1> DEFINE d == ReceiveData(s, n, e)
           t == [s EXCEPT !.recv_window = @ - n]
<1>1. /\ t.state = s.state /\ t.id = s.id /\ t.send_window = s.send_window
      /\ t.recv_window = s.recv_window - n
  BY DEF Stream
<1>3. ~(s.recv_window < n)
  BY DEF ReceiveData, H2_OK, H2_INTERNAL_ERROR, H2_STREAM_CLOSED,
         H2_FLOW_CONTROL_ERROR
<1>4. s.recv_window \in Int
  BY WindowAssumption DEF Stream
<1>5. \/ d.stream = t
      \/ d.stream = StreamClose(t)
      \/ d.stream = [t EXCEPT !.state = "HALF_CLOSED_REMOTE"]
  BY DEF ReceiveData, H2_OK, H2_INTERNAL_ERROR, H2_STREAM_CLOSED,
         H2_FLOW_CONTROL_ERROR
<1>6. s.state # "CLOSED"
  BY DEF ReceivesData
<1>7. CASE d.stream = t
  BY <1>1, <1>3, <1>4, <1>6, <1>7 DEF SendKept, Live, Tracked
<1>8. CASE d.stream = StreamClose(t)
  BY <1>3, <1>4, <1>8
     DEF StreamClose, FreeSlot, SendKept, Live, ReceivesData
<1>9. CASE d.stream = [t EXCEPT !.state = "HALF_CLOSED_REMOTE"]
  <2> DEFINE u == [t EXCEPT !.state = "HALF_CLOSED_REMOTE"]
  <2>1. /\ u.state = "HALF_CLOSED_REMOTE" /\ u.id = s.id
        /\ u.send_window = s.send_window /\ u.recv_window = s.recv_window - n
    BY DEF Stream
  <2> HIDE DEF u, t
  <2> QED
    BY <1>3, <1>4, <1>6, <1>9, <2>1
       DEF SendKept, Live, Tracked, ReceivesData, u
<1> QED
  BY <1>5, <1>7, <1>8, <1>9

(* DATA on an open stream: charged to both windows, and each is raised     *)
(* together with the WINDOW_UPDATE that says so, or the call fails.        *)
LEMMA OpenDataFlow ==
    ASSUME Inv, SendEven, RecvOpen, RecvEven, ~failed, Sound',
           NEW f \in Frame, conn_recv_window >= f.length,
           NEW k \in Slots, streams[k].id # 0, ReceivesData(streams[k]),
           DataOnStream(f, k), UNCHANGED sendVars
    PROVE  FlowStep
<1> DEFINE w == conn_recv_window - f.length
           d == ReceiveData(streams[k], f.length, H2_FLAG_END_STREAM \in f.flags)
           s == d.stream
           r == Refresh(w, output_len)
           q == Refresh(s.recv_window, r.output_len)
<1> USE DEF H2_OK, H2_INTERNAL_ERROR, H2_STREAM_CLOSED, H2_FLOW_CONTROL_ERROR,
            H2_REFUSED_STREAM
<1>1. /\ f.length \in Nat /\ conn_recv_window \in 0 .. H2_DEFAULT_WINDOW_SIZE
      /\ allowance \in [{NoSlot} \cup Slots -> Int] /\ NoSlot \notin Slots
      /\ output_len \in 0 .. H2_CONN_OUTPUT_CAP
      /\ streams \in [Slots -> Stream]
  BY Constants DEF Inv, TypeOK, RecvType, OutputType, TableType, Frame
<1>2. \A c : Done(c) => ~Fatal(c)
  BY DEF Done, Sound
<1>3. d.ret = H2_OK
  <2>1. d.ret # H2_OK => Done(d.ret)
    BY DEF DataOnStream
  <2>2. d.ret \in {H2_OK, H2_INTERNAL_ERROR, H2_FLOW_CONTROL_ERROR}
    BY DEF ReceiveData
  <2> HIDE DEF d
  <2> QED
    BY <1>2, <2>1, <2>2 DEF Fatal
<1>4. w \in 0 .. H2_DEFAULT_WINDOW_SIZE /\ w \in Int
  BY <1>1, WindowAssumption
<1>5. r.window > Half /\ r.ret \in {H2_OK, H2_INTERNAL_ERROR}
      /\ r.window \in Int /\ r.output_len \in 0 .. H2_CONN_OUTPUT_CAP
  BY <1>1, <1>4, RefreshOpens, RefreshType, WindowAssumption
<1>6. s \in Stream /\ s.recv_window \in 0 .. H2_DEFAULT_WINDOW_SIZE
  <2>1. s \in Stream
    BY <1>1, ReceiveDataType
  <2> QED
    BY <2>1 DEF Stream
<1>7. q.window > Half /\ q.ret \in {H2_OK, H2_INTERNAL_ERROR}
      /\ q.window \in Int
  BY <1>5, <1>6, RefreshOpens, RefreshType, WindowAssumption
<1>8. /\ SendKept(streams[k], s) /\ streams[k].recv_window >= f.length
      /\ s.state # "CLOSED" => s.recv_window = streams[k].recv_window - f.length
      /\ ReceivesData(s) => s.state # "CLOSED"
  BY <1>1, <1>3, ReceiveDataKept
<1>9. streams[k].recv_window = allowance[k] /\ allowance[k] \in Int
      /\ conn_recv_window = allowance[NoSlot] /\ allowance[NoSlot] \in Int
  BY <1>1 DEF RecvEven
<1>10. \/ /\ r.ret = H2_OK => s.state = "CLOSED"
          /\ conn_recv_window' = r.window
          /\ streams' = [streams EXCEPT ![k] = s]
          /\ allowance' = [allowance EXCEPT
                              ![NoSlot] = Granted(@, f.length, w, r)]
          /\ Done(r.ret)
       \/ /\ r.ret = H2_OK /\ s.state # "CLOSED"
          /\ conn_recv_window' = r.window
          /\ streams' = [streams EXCEPT ![k].state = s.state,
                                        ![k].recv_window = q.window]
          /\ allowance' = [allowance EXCEPT
                              ![NoSlot] = Granted(@, f.length, w, r),
                              ![k] = Granted(@, f.length, s.recv_window, q)]
          /\ Done(q.ret)
  BY <1>3 DEF DataOnStream
<1> HIDE DEF d, r, q, s
<1>11. r.ret = H2_OK
  BY <1>2, <1>5, <1>10 DEF Fatal
<1>12. Granted(allowance[NoSlot], f.length, w, r) = r.window
  <2>1. Granted(allowance[NoSlot], f.length, w, r)
           = allowance[NoSlot] - f.length + (r.window - w)
    BY <1>11 DEF Granted
  <2> QED
    BY <1>1, <1>5, <1>9, <2>1
<1> HIDE DEF w
<1>13. CASE s.state = "CLOSED"
  <2>1. /\ conn_recv_window' = r.window
        /\ streams' = [streams EXCEPT ![k] = s]
        /\ allowance' = [allowance EXCEPT ![NoSlot] = r.window]
    BY <1>1, <1>10, <1>12, <1>13
  <2>2. ~ReceivesData(s) /\ ~Live(s)
    BY <1>13 DEF ReceivesData, Live
  <2>3. \A j \in Slots : SendKept(streams[j], streams'[j])
    BY <1>1, <2>1, <2>2 DEF SendKept
  <2>4. SendEven'
    BY <2>3, SendKeptStep DEF sendVars
  <2>5. RecvOpen'
    BY <1>1, <1>5, <2>1, <2>2 DEF RecvOpen, Half
  <2>6. RecvEven'
    BY <1>1, <2>1, <2>2 DEF RecvEven
  <2> QED
    BY <2>4, <2>5, <2>6 DEF FlowStep
<1>14. CASE s.state # "CLOSED"
  <2>0. /\ conn_recv_window' = r.window
        /\ streams' = [streams EXCEPT ![k].state = s.state,
                                      ![k].recv_window = q.window]
        /\ allowance' = [allowance EXCEPT
                            ![NoSlot] = Granted(@, f.length, w, r),
                            ![k] = Granted(@, f.length, s.recv_window, q)]
        /\ Done(q.ret)
    BY <1>10, <1>11, <1>14
  <2>1. q.ret = H2_OK
    BY <1>2, <1>7, <2>0 DEF Fatal
  <2>2. Granted(allowance[k], f.length, s.recv_window, q) = q.window
    <3>1. Granted(allowance[k], f.length, s.recv_window, q)
             = allowance[k] - f.length + (q.window - s.recv_window)
      BY <2>1 DEF Granted
    <3>2. s.recv_window = allowance[k] - f.length
      BY <1>8, <1>9, <1>14
    <3> QED
      BY <1>1, <1>7, <1>9, <3>1, <3>2
  <2> DEFINE t == [streams[k] EXCEPT !.state = s.state,
                                     !.recv_window = q.window]
  <2>3. /\ conn_recv_window' = r.window
        /\ streams' = [streams EXCEPT ![k] = t]
    BY <1>1, <2>0
  <2>4. allowance' = [allowance EXCEPT ![NoSlot] = r.window, ![k] = q.window]
    BY <1>1, <1>12, <2>0, <2>2
  <2>5. /\ t.state = s.state /\ t.recv_window = q.window
        /\ t.send_window = streams[k].send_window /\ t.id = streams[k].id
    BY <1>1 DEF Stream
  <2> HIDE DEF t
  <2>6. SendKept(streams[k], t)
    BY <2>5 DEF SendKept, Live, Tracked, ReceivesData
  <2>7. \A j \in Slots : SendKept(streams[j], streams'[j])
    BY <1>1, <2>3, <2>6 DEF SendKept
  <2>8. SendEven'
    BY <2>7, SendKeptStep DEF sendVars
  <2>9. RecvOpen'
    BY <1>1, <1>5, <1>7, <2>3, <2>5 DEF RecvOpen, Half
  <2>10. RecvEven'
    BY <1>1, <2>3, <2>4, <2>5 DEF RecvEven
  <2> QED
    BY <2>8, <2>9, <2>10 DEF FlowStep
<1> QED
  BY <1>13, <1>14

LEMMA DataFlow ==
    ASSUME Inv, SendEven, RecvOpen, RecvEven, ~failed, Sound', ProcessData
    PROVE  FlowStep
<1> DEFINE f == Current
           k == FindSlot(f.stream_id)
<1>1. CASE Quiet
  BY <1>1, QuietFlow
<1>2. CASE ~Quiet
  <2>1. /\ DataVerdict(f) = H2_OK
        /\ IF ReceivesData(streams[k]) THEN DataOnStream(f, k)
                                       ELSE DataOnClosedStream(f)
        /\ UNCHANGED sendVars
    BY <1>2 DEF ProcessData, Reject, ReturnOnly, Quiet
  <2>2. /\ ParseData(f) = H2_OK /\ k # NoSlot
        /\ ~(conn_recv_window < f.length)
    BY <2>1 DEF DataVerdict, H2_OK, H2_PROTOCOL_ERROR, H2_FLOW_CONTROL_ERROR
  <2>3. f \in Frame /\ f.type = H2_FRAME_DATA
    <3>1. input # << >>
      BY DEF ProcessData, Dispatch, HeadComplete
    <3> QED
      BY <3>1, CurrentType DEF Inv, TypeOK, ProcessData
  <2>4. k \in Slots /\ streams[k].id = f.stream_id
    BY <2>2, FindSlotProp
  <2>5. f.stream_id # 0
    BY <2>2, <2>3, OnStreamOnly DEF ParseData, H2_OK, H2_PROTOCOL_ERROR
  <2>6. conn_recv_window >= f.length
    BY <2>2, <2>3, WindowAssumption DEF Inv, TypeOK, RecvType, Frame
  <2> HIDE DEF k, f
  <2> QED
    BY <2>1, <2>3, <2>4, <2>5, <2>6, OpenDataFlow, ClosedDataFlow
<1> QED
  BY <1>1, <1>2

-----------------------------------------------------------------------------
(* Whatever interleaving of frames, writes, resets, refusals and slot      *)
(* reuse: flow control is kept as long as no call of feed has failed.      *)
THEOREM FlowInvariance == Spec => [](CallInv /\ FlowInv)
<1>1. Inv /\ CallInv /\ FlowInv /\ [Next]_vars => CallInv' /\ FlowInv'
  <2> SUFFICES ASSUME Inv, CallInv, FlowInv, [Next]_vars
               PROVE  CallInv' /\ FlowInv'
    OBVIOUS
  <2>1. CallInv'
    BY StepKinds
  <2>2. ASSUME Sound' PROVE FlowStep
    <3>1. /\ Sound
          /\ \/ UNCHANGED vars
             \/ ret = H2_OK /\ Quiet
             \/ ret = H2_OK /\ UNCHANGED feedVars /\ Handler
             \/ StreamError /\ Fits(output_len, RstStreamSize)
      BY <2>2, StepKinds
    <3>2. SendEven /\ RecvOpen /\ (RecvEven \/ Overdrawn)
      BY <3>1 DEF FlowInv
    <3>3. CASE UNCHANGED vars
      <4>1. UNCHANGED <<ret, conn_send_window, credit, conn_recv_window,
                        allowance, streams, output_len>>
        BY <3>3 DEF vars, control, sendVars, recvVars, tableVars
      <4> QED
        BY <3>2, <4>1 DEF FlowStep, SendEven, RecvOpen, RecvEven, Overdrawn,
                          Half, LiveSlots
    <3>4. CASE ret = H2_OK /\ Quiet
      BY <3>2, <3>4, QuietFlow DEF Overdrawn
    <3>5. CASE ret = H2_OK /\ UNCHANGED feedVars /\ Handler
      <4>1. ~failed /\ ~retried /\ RecvEven
        BY <3>1, <3>2, <3>5 DEF Sound, CallInv, Overdrawn
      <4> QED
        BY <2>2, <3>2, <3>5, <4>1, DataFlow, HeadersFlow, ContinuationFlow,
           RstStreamFlow, ApplySettingFlow, WindowUpdateFlow, FlushFlow
           DEF Handler
    <3>6. CASE StreamError /\ Fits(output_len, RstStreamSize)
      BY <3>2, <3>6, StreamErrorFlow DEF Overdrawn
    <3> QED
      BY <3>1, <3>3, <3>4, <3>5, <3>6
  <2> QED
    BY <2>1, <2>2 DEF FlowStep, FlowInv
<1> QED
  BY <1>1, InitCall, InitFlow, Invariance, PTL DEF Spec

(* conn_send_window and the send window of every live stream are exactly   *)
(* what the peer granted less the DATA queued, however WINDOW_UPDATE,      *)
(* SETTINGS_INITIAL_WINDOW_SIZE, deferred responses, resets and slot reuse *)
(* interleave.                                                             *)
THEOREM SendCorrect == Spec => []SendAccounting
<1>1. FlowInv => SendAccounting
  BY DEF FlowInv, SendAccounting, SendEven, Healthy, Sound, Fatal
<1> QED
  BY <1>1, FlowInvariance, PTL

(* No byte of a DATA frame is charged twice or forgotten, and no receive   *)
(* window is above what the peer was told: the refresh whose failure       *)
(* process_data ignores is always followed by a call that fails.           *)
THEOREM RecvCorrect == Spec => []RecvAccounting
<1>1. FlowInv => RecvAccounting
  BY DEF FlowInv, RecvAccounting, RecvEven, Overdrawn, Healthy, Sound, Fatal
<1> QED
  BY <1>1, FlowInvariance, PTL

(* Between calls of feed more than half of each receive window is open: a  *)
(* peer that uploads is never starved.                                     *)
THEOREM RecvOpenCorrect == Spec => []RecvWindowOpen
<1>1. CallInv /\ FlowInv => RecvWindowOpen
  BY DEF CallInv, FlowInv, RecvWindowOpen, RecvOpen, Sound, Fatal, Half
<1> QED
  BY <1>1, FlowInvariance, PTL
=============================================================================
