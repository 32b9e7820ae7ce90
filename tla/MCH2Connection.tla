--------------------------- MODULE MCH2Connection ---------------------------
(***************************************************************************)
(* Frame sets for model checking H2Connection.  Each run gives the peer    *)
(* the frames that its question needs; sizes are real, except that windows *)
(* and buffers are scaled down so that their limits are within reach.      *)
(***************************************************************************)
EXTENDS H2Connection

F(type, length, flags, id) ==
    [type |-> type, length |-> length, flags |-> flags, stream_id |-> id,
     pad |-> 0, dependency |-> 0, settings |-> << >>, increment |-> 0,
     block |-> << >>]

ES   == H2_FLAG_END_STREAM
EH   == H2_FLAG_END_HEADERS

PathItem(n)  == [err |-> H2_OK, path |-> n]
OtherItem    == [err |-> H2_OK, path |-> NotPath]
BadItem      == [err |-> H2_COMPRESSION_ERROR, path |-> NotPath]
TooLongItem  == [err |-> H2_REFUSED_STREAM, path |-> NotPath]

Headers(id, flags, length, block) ==
    [F(H2_FRAME_HEADERS, length, flags, id) EXCEPT !.block = block]
Request(id, flags, n) == Headers(id, flags \cup {EH}, n + 3, <<PathItem(n)>>)
Continuation(id, flags, length, block) ==
    [F(H2_FRAME_CONTINUATION, length, flags, id) EXCEPT !.block = block]
Data(id, flags, length) == F(H2_FRAME_DATA, length, flags, id)
WindowUpdate(id, n) ==
    [F(H2_FRAME_WINDOW_UPDATE, 4, {}, id) EXCEPT !.increment = n]
Settings(list) ==
    [F(H2_FRAME_SETTINGS, 6 * Len(list), {}, 0) EXCEPT !.settings = list]
InitialWindow(n) == [id |-> H2_SETTINGS_INITIAL_WINDOW_SIZE, value |-> n]
RstStream(id) == F(H2_FRAME_RST_STREAM, 4, {}, id)
Padded(f, n)    == [f EXCEPT !.flags = @ \cup {H2_FLAG_PADDED}, !.pad = n]
Depends(f, id)  == [f EXCEPT !.dependency = id]
WithPriority(f) == [f EXCEPT !.flags = @ \cup {H2_FLAG_PRIORITY}]
Ping == F(H2_FRAME_PING, 8, {}, 0)

(* Sending: responses of different sizes compete for the connection window *)
(* and for windows that SETTINGS lowers and WINDOW_UPDATE raises; there    *)
(* are more streams than slots.                                            *)
SendFrames ==
    {Request(1, {ES}, 1), Request(3, {}, 2), Request(5, {ES}, 1),
     WindowUpdate(0, 2), WindowUpdate(3, 1),
     Settings(<<InitialWindow(1)>>), RstStream(3)}

(* Receiving: uploads on two streams, with an end of stream before and     *)
(* after the response, DATA on closed streams, resets, and PINGs whose     *)
(* answers leave no room for a WINDOW_UPDATE.                              *)
RecvFrames ==
    {Request(1, {}, 1), Request(3, {}, 2), Request(5, {ES}, 1),
     Padded(Data(1, {}, 2), 1), Data(1, {ES}, 1), Data(3, {}, 3),
     Data(3, {ES}, 0), RstStream(1), Ping}

(* SETTINGS: the initial window goes up and down, overflows a window that  *)
(* WINDOW_UPDATE has raised, and changes twice in one frame.               *)
MaxFrameSize(n) == [id |-> H2_SETTINGS_MAX_FRAME_SIZE, value |-> n]
EnablePush(n)   == [id |-> H2_SETTINGS_ENABLE_PUSH, value |-> n]
UnknownSetting  == [id |-> 9, value |-> 7]

SettingsFrames ==
    {Request(1, {ES}, 2), Request(3, {}, 1), WindowUpdate(1, 1),
     WindowUpdate(0, 2),
     Settings(<<InitialWindow(4), MaxFrameSize(13)>>),
     Settings(<<InitialWindow(5), InitialWindow(0)>>)}

(* Header blocks in one frame and in several, that decode and that do not, *)
(* whole and in pieces, with every other type of frame between and after   *)
(* them, well formed and malformed.                                        *)
HeaderFrames ==
    {Headers(1, {ES}, 4, <<PathItem(1)>>), Headers(1, {}, 10, <<OtherItem>>),
     Continuation(1, {}, 2, <<OtherItem>>),
     Continuation(1, {EH}, 3, <<PathItem(2)>>), Continuation(3, {EH}, 2, << >>),
     Headers(3, {EH}, 3, <<PathItem(1), TooLongItem, BadItem>>),
     Headers(3, {EH, ES}, 3, <<PathItem(1), BadItem>>),
     Headers(3, {EH}, 1, <<OtherItem>>), Request(3, {ES}, 1), Request(2, {}, 1),
     Padded(Request(3, {}, 2), 9), Depends(WithPriority(Request(3, {}, 2)), 3),
     F(10, 12, {}, 3), F(10, 13, {}, 3), Data(0, {}, 1),
     Depends(F(H2_FRAME_PRIORITY, 5, {}, 1), 1),
     F(H2_FRAME_PUSH_PROMISE, 4, {}, 1), F(H2_FRAME_GOAWAY, 8, {}, 0),
     F(H2_FRAME_PING, 7, {}, 0), F(H2_FRAME_PING, 8, {H2_FLAG_ACK}, 0),
     F(H2_FRAME_SETTINGS, 0, {H2_FLAG_ACK}, 0), F(H2_FRAME_SETTINGS, 5, {}, 0),
     Settings(<<UnknownSetting, EnablePush(2)>>),
     Settings(<<InitialWindow(6)>>), RstStream(2), WindowUpdate(3, 0)}

(* A full output buffer: requests that compete for the connection window,  *)
(* grants that release them, and PINGs whose answers take the room.        *)
PressureFrames ==
    {Request(1, {ES}, 9), Request(3, {ES}, 9), Request(5, {ES}, 9),
     WindowUpdate(0, 10), Ping}

(* Streams that the server resets, and frames for them still on their way. *)
ResetFrames ==
    {Headers(1, {EH}, 3, <<TooLongItem>>), Request(3, {}, 1),
     Request(5, {ES}, 1), Data(1, {ES}, 1), RstStream(3)}

NoCuts   == {0}
SomeCuts == {0, 5}
=============================================================================
