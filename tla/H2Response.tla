----------------------------- MODULE H2Response -----------------------------
(***************************************************************************)
(* The parts of connection.c that queue output, as functions of the stream *)
(* and of the connection's window and output length: the bounded output    *)
(* buffer, the response to a request, the refresh of a receive window.     *)
(***************************************************************************)
EXTENDS H2Stream

CONSTANT H2_CONN_OUTPUT_CAP  \* 131072 in connection.h

ASSUME OutputAssumption == H2_CONN_OUTPUT_CAP \in Nat

(* The output buffer: h2_connection_queue_bytes on a buffer holding out    *)
(* bytes.  Between calls output_sent is 0, since consume_output compacts.  *)
Fits(out, n)     == n <= H2_CONN_OUTPUT_CAP - out
QueueLen(out, n) == IF Fits(out, n) THEN out + n ELSE out
QueueRet(out, n) == IF Fits(out, n) THEN H2_OK ELSE H2_INTERNAL_ERROR

(* One of the two windows is too small for a body of n bytes. *)
BlockedOffByOne(s, n, send_window) == send_window <= n \/ s.send_window <= n  \* mutant
Blocked(s, n, send_window) == send_window < n \/ s.send_window < n

(* h2_connection_queue_deferred_data for a body of n bytes on stream s,    *)
(* with send_window the connection's window and out bytes already queued.  *)
QueueDeferredData(s, n, send_window, out, headers) ==
    LET sent == SendEndStream([s EXCEPT !.send_window = @ - n,
                                        !.response_body_deferred = FALSE,
                                        !.response_sent = TRUE])
    IN  IF Blocked(s, n, send_window)
        THEN [ret |-> H2_OK,
              stream |-> [s EXCEPT !.response_body_deferred = TRUE],
              send_window |-> send_window, output_len |-> out,
              headers |-> headers, data |-> FALSE]
        ELSE IF ~Fits(out, DataSize(n))
        THEN [ret |-> H2_INTERNAL_ERROR, stream |-> s,
              send_window |-> send_window, output_len |-> out,
              headers |-> headers, data |-> FALSE]
        ELSE [ret |-> sent.ret, stream |-> sent.stream,
              send_window |-> send_window - n,
              output_len |-> out + DataSize(n),
              headers |-> headers, data |-> TRUE]

HeadersAlways(s)  == TRUE  \* mutant: HEADERS again with deferred DATA
HeadersPending(s) == ~s.response_headers_sent

(* h2_connection_queue_response: HEADERS unless already queued, then DATA *)
QueueResponse(s, send_window, out) ==
    LET t == [s EXCEPT !.path = IF @ = 0 THEN 1 ELSE @]
        n == t.path + 1
        headersSize == ResponseHeadersSize(n)
    IN  IF s.response_sent
        THEN [ret |-> H2_OK, stream |-> s, send_window |-> send_window,
              output_len |-> out, headers |-> FALSE, data |-> FALSE]
        ELSE IF ~HeadersPending(t)
        THEN QueueDeferredData(t, n, send_window, out, FALSE)
        ELSE IF ~Fits(out, headersSize)
        THEN [ret |-> H2_INTERNAL_ERROR, stream |-> t,
              send_window |-> send_window, output_len |-> out,
              headers |-> FALSE, data |-> FALSE]
        ELSE QueueDeferredData([t EXCEPT !.response_headers_sent = TRUE], n,
                               send_window, out + headersSize, TRUE)

(* h2_connection_refresh_recv_windows, for one window: raises one that is *)
(* half used to the default before it queues the WINDOW_UPDATE.            *)
RefreshLate(window, out) ==  \* mutant: < for <= half the window
    IF window >= H2_DEFAULT_WINDOW_SIZE \div 2
    THEN [ret |-> H2_OK, window |-> window, output_len |-> out]
    ELSE [ret |-> QueueRet(out, WindowUpdateSize),
          window |-> H2_DEFAULT_WINDOW_SIZE,
          output_len |-> QueueLen(out, WindowUpdateSize)]

Refresh(window, out) ==
    IF window > H2_DEFAULT_WINDOW_SIZE \div 2
    THEN [ret |-> H2_OK, window |-> window, output_len |-> out]
    ELSE [ret |-> QueueRet(out, WindowUpdateSize),
          window |-> H2_DEFAULT_WINDOW_SIZE,
          output_len |-> QueueLen(out, WindowUpdateSize)]
=============================================================================
