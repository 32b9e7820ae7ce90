------------------------------ MODULE H2Stream ------------------------------
(***************************************************************************)
(* One stream of a connection (stream.c, stream.h): its life cycle and its *)
(* two flow-control windows.  Each operation is a function of the stream   *)
(* that gives the code it returns and the stream it leaves.                *)
(* The path is kept as its length: the response body is the path and a     *)
(* newline, so the length is all that flow control can see of it.          *)
(***************************************************************************)
EXTENDS H2Hpack

CONSTANTS
    H2_DEFAULT_WINDOW_SIZE,  \* 65535 in frame.h
    INT32_MAX                \* largest value of a window, 2^31 - 1

ASSUME WindowAssumption ==
    /\ H2_DEFAULT_WINDOW_SIZE \in Nat \ {0}
    /\ INT32_MAX \in Nat
    /\ H2_DEFAULT_WINDOW_SIZE <= INT32_MAX

INT32_MIN == -INT32_MAX - 1

StreamState == {"IDLE", "OPEN", "HALF_CLOSED_REMOTE", "HALF_CLOSED_LOCAL",
                "CLOSED"}

Stream == [id                     : Nat,
           state                  : StreamState,
           send_window            : INT32_MIN .. INT32_MAX,
           recv_window            : 0 .. H2_DEFAULT_WINDOW_SIZE,
           response_headers_sent  : BOOLEAN,
           response_body_deferred : BOOLEAN,
           response_sent          : BOOLEAN,
           path                   : 0 .. PathCap - 1]

(* A slot of a connection that h2_connection_init has just zeroed. *)
FreeSlot == [id |-> 0, state |-> "IDLE", send_window |-> 0, recv_window |-> 0,
             response_headers_sent |-> FALSE, response_body_deferred |-> FALSE,
             response_sent |-> FALSE, path |-> 0]

StreamInit(stream_id, initial_window) ==
    [FreeSlot EXCEPT !.id = stream_id, !.send_window = initial_window,
                     !.recv_window = H2_DEFAULT_WINDOW_SIZE]

(* h2_stream_close: the slot keeps its id until it is used again. *)
StreamClose(s) == [FreeSlot EXCEPT !.id = s.id, !.state = "CLOSED"]

ReceivesData(s) == s.state \in {"OPEN", "HALF_CLOSED_LOCAL"}

ReceiveHeaders(s, end_stream) ==
    IF s.state # "IDLE" THEN [ret |-> H2_PROTOCOL_ERROR, stream |-> s]
    ELSE [ret    |-> H2_OK,
          stream |-> [s EXCEPT !.state = IF end_stream
                                         THEN "HALF_CLOSED_REMOTE"
                                         ELSE "OPEN"]]

ReceiveData(s, data_len, end_stream) ==
    LET t == [s EXCEPT !.recv_window = @ - data_len]
    IN  IF data_len > INT32_MAX THEN [ret |-> H2_INTERNAL_ERROR, stream |-> s]
        ELSE IF ~ReceivesData(s) THEN [ret |-> H2_STREAM_CLOSED, stream |-> s]
        ELSE IF s.recv_window < data_len
             THEN [ret |-> H2_FLOW_CONTROL_ERROR, stream |-> s]
        ELSE [ret    |-> H2_OK,
              stream |-> IF ~end_stream THEN t
                         ELSE IF s.state = "HALF_CLOSED_LOCAL"
                              THEN StreamClose(t)
                         ELSE [t EXCEPT !.state = "HALF_CLOSED_REMOTE"]]

(* Mutant: END_STREAM leaves an open stream open. *)
SendEndStreamStaysOpen(s) ==
    IF s.state = "HALF_CLOSED_REMOTE"
    THEN [ret |-> H2_OK, stream |-> StreamClose(s)]
    ELSE [ret |-> H2_OK, stream |-> s]

SendEndStream(s) ==
    IF s.state = "OPEN"
    THEN [ret |-> H2_OK, stream |-> [s EXCEPT !.state = "HALF_CLOSED_LOCAL"]]
    ELSE IF s.state = "HALF_CLOSED_REMOTE"
         THEN [ret |-> H2_OK, stream |-> StreamClose(s)]
    ELSE [ret |-> H2_STREAM_CLOSED, stream |-> s]

AddSendWindow(s, increment) ==
    IF increment = 0 THEN [ret |-> H2_PROTOCOL_ERROR, stream |-> s]
    ELSE IF s.send_window + increment > INT32_MAX
         THEN [ret |-> H2_FLOW_CONTROL_ERROR, stream |-> s]
    ELSE [ret    |-> H2_OK,
          stream |-> [s EXCEPT !.send_window = @ + increment]]
=============================================================================
