------------------------------ MODULE H2Server ------------------------------
(***************************************************************************)
(* The event loop of h2d (h2_server_run in server.c) over the epoll and    *)
(* the kqueue back end (io_epoll.c, io_kqueue.c): the client table, the    *)
(* process's descriptors, the interest registered for them, and batches of *)
(* events that grow stale while they are handled.                          *)
(*                                                                         *)
(* The server has one thread; every system call it makes is one step, and  *)
(* the peers and the network act between any two of them.  A connection is *)
(* the two numbers the loop looks at: input chunks that wait in the socket *)
(* and units of output that wait in the connection.  What                  *)
(* h2_connection_feed does with a chunk is H2Connection's subject; here it *)
(* may queue any amount of output that fits, and fail or not.              *)
(*                                                                         *)
(* accept, read and h2_io_wait repeat when a signal interrupts them, which *)
(* changes nothing.                                                        *)
(***************************************************************************)
EXTENDS Integers, FiniteSets, Sequences

CONSTANTS
    MaxClients,      \* H2_SERVER_MAX_CLIENTS, 128
    EventCap,        \* events in one batch, 64
    MaxConnections,  \* config->max_connections; 0 means no limit
    Backend,         \* "epoll" or "kqueue", chosen when h2d is built
    MaxFd,           \* descriptors the process may open for clients
    NumConns,        \* connections that peers make, in order
    MaxChunks,       \* chunks that each peer sends
    OutputCap,       \* units of output a connection can queue
    SocketBuffer,    \* units a socket takes before the peer reads
    CallErrors,      \* accept, h2_io_add_connection and h2_io_wait may fail
    Resets,          \* peers may reset their connections
    Interrupts       \* a signal may interrupt write

ASSUME ServerAssumption ==
    /\ MaxClients \in Nat \ {0}
    /\ EventCap \in Nat \ {0}
    /\ MaxConnections \in Nat
    /\ Backend \in {"epoll", "kqueue"}
    /\ MaxFd \in Nat \ {0}
    /\ NumConns \in Nat
    /\ MaxChunks \in Nat
    /\ OutputCap \in Nat
    /\ SocketBuffer \in Nat \ {0}
    /\ {CallErrors, Resets, Interrupts} \subseteq BOOLEAN

Fds      == 1 .. MaxFd
Listener == 0
Conns    == 1 .. NumConns
NoConn   == 0
Clients  == 1 .. MaxClients
NoClient == 0
FreeClient == [fd |-> -1, out |-> 0]

VARIABLES
    \* h2_server_run
    pc,              \* see PC below
    clients,         \* the table; a client is used iff its fd is not -1
    accepted_count, exit_code,
    events,          \* the events of the batch that are not yet handled
    client,          \* the client of the event being handled
    close_after,
    \* the kernel: descriptors, registrations, sockets
    files,           \* the connection behind each descriptor, or NoConn
    watch,           \* what each descriptor is watched for; {}: not at all
    backlog,         \* connections that wait for accept
    sock,            \* the sockets, by connection
    \* history, not in the code
    failed           \* connections for which h2_connection_feed failed

PC   == {"wait", "next", "accept", "read", "flush", "finish", "exit", "exited"}
Link == {"none", "up", "shut", "reset", "gone"}
Sock == [link : Link, inbox : 0 .. MaxChunks, sent : 0 .. MaxChunks,
         unread : 0 .. SocketBuffer]
Event == [fd : Fds \cup {Listener}, conn : Conns \cup {NoConn},
          readable : BOOLEAN, writable : BOOLEAN, closed : BOOLEAN]

loopVars   == <<pc, events, client, close_after>>
tableVars  == <<clients, accepted_count, exit_code>>
kernelVars == <<files, watch, backlog, sock>>
vars       == <<loopVars, tableVars, kernelVars, failed>>

(* The state h2_server_run has when it enters its loop: the listener is    *)
(* registered and no client is.                                            *)
Init ==
    /\ pc = "wait"
    /\ clients = [k \in Clients |-> FreeClient]
    /\ accepted_count = 0 /\ exit_code = 0
    /\ events = {} /\ client = NoClient /\ close_after = FALSE
    /\ files = [fd \in Fds |-> NoConn]
    /\ watch = [fd \in Fds |-> {}]
    /\ backlog = << >>
    /\ sock = [c \in Conns |-> [link |-> "none", inbox |-> 0, sent |-> 0,
                                unread |-> 0]]
    /\ failed = {}

-----------------------------------------------------------------------------
(* The client table.                                                       *)

Used(k)       == clients[k].fd # -1
UsedClients   == {k \in Clients : Used(k)}
Lowest(S)     == CHOOSE k \in S : \A j \in S : k <= j

(* h2_find_client *)
FindClient(fd) ==
    LET S == {k \in Clients : clients[k].fd = fd}
    IN  IF S = {} THEN NoClient ELSE Lowest(S)

(* h2_alloc_client; h2_connection_init leaves no output *)
AllocClient(fd) ==
    [clients EXCEPT ![Lowest(Clients \ UsedClients)] = [fd |-> fd, out |-> 0]]

Wants(k) == clients[k].out > 0  \* h2_connection_wants_write

(* close(2) frees the number; the peer learns that the connection is gone. *)
CloseFd(fd) ==
    /\ files' = [files EXCEPT ![fd] = NoConn]
    /\ sock' = [sock EXCEPT ![files[fd]] =
                   [link |-> "gone", inbox |-> 0, sent |-> 0, unread |-> 0]]

(* h2_close_client: unregister, close, clear the slot *)
CloseClient(k) ==
    /\ watch' = [watch EXCEPT ![clients[k].fd] = {}]
    /\ CloseFd(clients[k].fd)
    /\ clients' = [clients EXCEPT ![k] = FreeClient]

-----------------------------------------------------------------------------
(* h2_io_wait.  epoll reports a descriptor once, with everything that      *)
(* holds of it; kqueue reports each filter, and EV_EOF of the write filter *)
(* only when the socket can no longer send.                                *)

Readable(c) == sock[c].inbox > 0 \/ sock[c].link \in {"shut", "reset"}
Writable(c) == sock[c].unread < SocketBuffer \/ sock[c].link = "reset"
HungUpOnReset(c) == sock[c].link = "reset"  \* mutant: end of file is no end
HungUp(c)   == sock[c].link \in {"shut", "reset"}

ListenerEvents ==
    {[fd |-> Listener, conn |-> NoConn, readable |-> TRUE, writable |-> FALSE,
      closed |-> FALSE] : x \in {y \in {TRUE} : backlog # << >>}}

(* Mutant: one event for each condition, not one for each descriptor. *)
EpollEventsSplit(fd) ==
    LET c == files[fd]
        e == [fd |-> fd, conn |-> c, readable |-> FALSE, writable |-> FALSE,
              closed |-> FALSE]
    IN  {[e EXCEPT !.readable = TRUE] : x \in {y \in {c} : Readable(c)}}
        \cup {[e EXCEPT !.closed = TRUE] : x \in {y \in {c} : HungUp(c)}}

EpollEvents(fd) ==
    LET c == files[fd]
        e == [fd |-> fd, conn |-> c, readable |-> Readable(c),
              writable |-> "out" \in watch[fd] /\ Writable(c),
              closed |-> HungUp(c)]
    IN  {x \in {e} : x.readable \/ x.writable \/ x.closed}

KqueueEvents(fd) ==
    LET c == files[fd]
    IN  {[fd |-> fd, conn |-> c, readable |-> TRUE, writable |-> FALSE,
          closed |-> HungUp(c)] : x \in {y \in {c} : Readable(c)}}
        \cup
        {[fd |-> fd, conn |-> c, readable |-> FALSE, writable |-> TRUE,
          closed |-> sock[c].link = "reset"] :
            x \in {y \in {c} : "out" \in watch[fd] /\ Writable(c)}}

Ready ==
    ListenerEvents \cup
    UNION {IF Backend = "epoll" THEN EpollEvents(fd) ELSE KqueueEvents(fd) :
              fd \in {f \in Fds : watch[f] # {}}}

ServedOneMore == /\ MaxConnections > 0  \* mutant
                 /\ accepted_count > MaxConnections
                 /\ UsedClients = {}

(* The loop stops once it has served what it was asked to serve. *)
Served == /\ MaxConnections > 0
          /\ accepted_count >= MaxConnections
          /\ UsedClients = {}

Goto(label) == pc' = label /\ UNCHANGED <<events, client, close_after>>

Wait ==
    /\ pc = "wait" /\ ~Served
    /\ Ready # {}
    /\ \E B \in SUBSET Ready :
          /\ Cardinality(B) = IF Cardinality(Ready) <= EventCap
                              THEN Cardinality(Ready) ELSE EventCap
          /\ events' = B
    /\ pc' = "next"
    /\ UNCHANGED <<client, close_after, tableVars, kernelVars, failed>>

(* h2_io_wait returns -1: the server gives up. *)
WaitFailed ==
    /\ pc = "wait" /\ ~Served /\ CallErrors
    /\ exit_code' = -1
    /\ Goto("exit")
    /\ UNCHANGED <<clients, accepted_count, kernelVars, failed>>

Finished ==
    /\ pc = "wait" /\ Served
    /\ pc' = "exit"
    /\ UNCHANGED <<events, client, close_after, tableVars, kernelVars, failed>>

-----------------------------------------------------------------------------
(* The body of the event loop.                                             *)

(* The end of the batch. *)
BatchDone ==
    /\ pc = "next" /\ events = {}
    /\ Goto(IF exit_code # 0 THEN "exit" ELSE "wait")
    /\ UNCHANGED <<tableVars, kernelVars, failed>>

(* The next event: the listener, a descriptor that no client has any more, *)
(* or a client.  closed is or-ed into close_after before it is looked at.  *)
Dispatch(e) ==
    /\ pc = "next" /\ e \in events
    /\ events' = events \ {e}
    /\ IF e.fd = Listener
       THEN pc' = "accept" /\ UNCHANGED <<client, close_after>>
       ELSE IF FindClient(e.fd) = NoClient
       THEN UNCHANGED <<pc, client, close_after>>
       ELSE /\ client' = FindClient(e.fd)
            /\ close_after' = e.closed
            /\ pc' = IF e.readable THEN "read" ELSE "flush"
    /\ UNCHANGED <<tableVars, kernelVars, failed>>

-----------------------------------------------------------------------------
(* h2_accept_clients                                                       *)

FreeFds == {fd \in Fds : files[fd] = NoConn}
Full    == UsedClients = Clients

(* EAGAIN: no connection waits. *)
AcceptNone ==
    /\ pc = "accept" /\ backlog = << >>
    /\ Goto("next")
    /\ UNCHANGED <<tableVars, kernelVars, failed>>

(* Any other error ends the server after this batch: EMFILE when the       *)
(* process has no descriptor left, ECONNABORTED and the like.              *)
AcceptFailed ==
    /\ pc = "accept" /\ backlog # << >>
    /\ FreeFds = {} \/ CallErrors
    /\ exit_code' = -1
    /\ Goto("next")
    /\ UNCHANGED <<clients, accepted_count, kernelVars, failed>>

(* Mutant: a connection that finds the table full keeps its descriptor. *)
AcceptRefusedLeaks ==
    /\ pc = "accept" /\ backlog # << >> /\ FreeFds # {} /\ Full
    /\ backlog' = Tail(backlog)
    /\ files' = [files EXCEPT ![Lowest(FreeFds)] = Head(backlog)]
    /\ UNCHANGED <<loopVars, tableVars, watch, sock, failed>>

(* accept succeeds, and the new descriptor is closed again: the table is   *)
(* full, or it could not be made nonblocking or registered.                *)
AcceptRefused ==
    /\ pc = "accept" /\ backlog # << >> /\ FreeFds # {}
    /\ Full \/ CallErrors
    /\ backlog' = Tail(backlog)
    /\ sock' = [sock EXCEPT ![Head(backlog)] =
                   [link |-> "gone", inbox |-> 0, sent |-> 0, unread |-> 0]]
    /\ UNCHANGED <<loopVars, tableVars, files, watch, failed>>

AcceptClient ==
    /\ pc = "accept" /\ backlog # << >> /\ FreeFds # {} /\ ~Full
    /\ LET fd == Lowest(FreeFds)
       IN  /\ clients' = AllocClient(fd)
           /\ files' = [files EXCEPT ![fd] = Head(backlog)]
           /\ watch' = [watch EXCEPT ![fd] = {"in"}]
    /\ backlog' = Tail(backlog)
    /\ accepted_count' = accepted_count + 1
    /\ UNCHANGED <<loopVars, exit_code, sock, failed>>

-----------------------------------------------------------------------------
(* One event of a client: h2_read_client, h2_flush_client and what the     *)
(* loop makes of their results.                                            *)

Conn == files[clients[client].fd]  \* the socket the client's fd names

(* The read loop ends: EAGAIN, end of file, or an error. *)
ReadDone ==
    /\ pc = "read" /\ sock[Conn].inbox = 0
    /\ pc' = "flush"
    /\ close_after' = (close_after \/ HungUp(Conn))
    /\ UNCHANGED <<events, client, tableVars, kernelVars, failed>>

(* read returns a chunk and h2_connection_feed takes it; a failure that    *)
(* left nothing to send ends the loop, any other one is forgotten.         *)
ReadChunk(out, err) ==
    /\ pc = "read" /\ sock[Conn].inbox > 0
    /\ clients[client].out <= out
    /\ sock' = [sock EXCEPT ![Conn].inbox = @ - 1]
    /\ clients' = [clients EXCEPT ![client].out = out]
    /\ failed' = IF err THEN failed \cup {Conn} ELSE failed
    /\ IF err /\ out = 0
       THEN pc' = "flush" /\ close_after' = TRUE
       ELSE UNCHANGED <<pc, close_after>>
    /\ UNCHANGED <<events, client, accepted_count, exit_code, files, watch,
                   backlog>>

(* Mutant: more is taken out of the output than it holds. *)
WriteTooMuch(n) ==
    /\ pc = "flush" /\ Wants(client) /\ sock[Conn].link # "reset"
    /\ clients' = [clients EXCEPT ![client].out = @ - n - 1]
    /\ UNCHANGED <<loopVars, accepted_count, exit_code, kernelVars, failed>>

(* write takes n units. *)
Write(n) ==
    /\ pc = "flush" /\ Wants(client) /\ sock[Conn].link # "reset"
    /\ n <= clients[client].out
    /\ n <= SocketBuffer - sock[Conn].unread
    /\ clients' = [clients EXCEPT ![client].out = @ - n]
    /\ sock' = [sock EXCEPT ![Conn].unread = @ + n]
    /\ UNCHANGED <<loopVars, accepted_count, exit_code, files, watch, backlog,
                   failed>>

(* The write loop ends: nothing is left, EAGAIN or EINTR, or an error. *)
FlushDone ==
    /\ pc = "flush"
    /\ \/ ~Wants(client) /\ UNCHANGED close_after
       \/ /\ Wants(client) /\ sock[Conn].link # "reset"
          /\ sock[Conn].unread = SocketBuffer \/ Interrupts
          /\ UNCHANGED close_after
       \/ /\ Wants(client) /\ sock[Conn].link = "reset"
          /\ close_after' = TRUE
    /\ pc' = "finish"
    /\ UNCHANGED <<events, client, tableVars, kernelVars, failed>>

(* Mutant: write interest is never asked for. *)
ModConnectionRead(fd, want_write) == watch' = [watch EXCEPT ![fd] = {"in"}]

(* h2_io_mod_connection *)
ModConnection(fd, want_write) ==
    watch' = [watch EXCEPT ![fd] = {"in"} \cup {x \in {"out"} : want_write}]

(* Mutant: every client without output is closed. *)
FinishIdle ==
    /\ pc = "finish"
    /\ IF Wants(client)
       THEN /\ ModConnection(clients[client].fd, TRUE)
            /\ UNCHANGED <<clients, files, sock>>
       ELSE CloseClient(client)
    /\ pc' = "next" /\ client' = NoClient /\ close_after' = FALSE
    /\ UNCHANGED <<events, accepted_count, exit_code, backlog, failed>>

(* The client is closed once its output is gone; one that must be closed   *)
(* but still has output keeps the interest it had.                         *)
Finish ==
    /\ pc = "finish"
    /\ IF close_after
       THEN IF Wants(client) THEN UNCHANGED <<clients, files, watch, sock>>
            ELSE CloseClient(client)
       ELSE /\ ModConnection(clients[client].fd, Wants(client))
            /\ UNCHANGED <<clients, files, sock>>
    /\ pc' = "next" /\ client' = NoClient /\ close_after' = FALSE
    /\ UNCHANGED <<events, accepted_count, exit_code, backlog, failed>>

(* The way out: every client, the back end and the listener are closed. *)
Exit ==
    /\ pc = "exit"
    /\ clients' = [k \in Clients |-> FreeClient]
    /\ watch' = [fd \in Fds |-> {}]
    /\ files' = [fd \in Fds |-> NoConn]
    /\ sock' = [c \in Conns |->
                   [link |-> "gone", inbox |-> 0, sent |-> 0, unread |-> 0]]
    /\ backlog' = << >>
    /\ pc' = "exited"
    /\ UNCHANGED <<events, client, close_after, accepted_count, exit_code,
                   failed>>

-----------------------------------------------------------------------------
(* Peers and the network (external).                                       *)

Connect(c) ==
    /\ pc # "exited"
    /\ sock[c].link = "none" /\ \A d \in 1 .. c - 1 : sock[d].link # "none"
    /\ sock' = [sock EXCEPT ![c].link = "up"]
    /\ backlog' = Append(backlog, c)
    /\ UNCHANGED <<loopVars, tableVars, files, watch, failed>>

Send(c) ==
    /\ sock[c].link = "up" /\ sock[c].sent < MaxChunks
    /\ sock' = [sock EXCEPT ![c].inbox = @ + 1, ![c].sent = @ + 1]
    /\ UNCHANGED <<loopVars, tableVars, files, watch, backlog, failed>>

(* The peer ends its side and may go on reading. *)
Shut(c) ==
    /\ sock[c].link = "up"
    /\ sock' = [sock EXCEPT ![c].link = "shut"]
    /\ UNCHANGED <<loopVars, tableVars, files, watch, backlog, failed>>

(* The peer is gone; what it sent before can still be read. *)
Reset(c) ==
    /\ Resets /\ sock[c].link \in {"up", "shut"}
    /\ sock' = [sock EXCEPT ![c].link = "reset", ![c].unread = 0]
    /\ UNCHANGED <<loopVars, tableVars, files, watch, backlog, failed>>

(* The peer reads what the server wrote. *)
Drain(c) ==
    /\ sock[c].link \in {"up", "shut"} /\ sock[c].unread > 0
    /\ sock' = [sock EXCEPT ![c].unread = 0]
    /\ UNCHANGED <<loopVars, tableVars, files, watch, backlog, failed>>

-----------------------------------------------------------------------------
ServerStep ==
    \/ Wait \/ WaitFailed \/ Finished \/ BatchDone
    \/ \E e \in events : Dispatch(e)
    \/ AcceptNone \/ AcceptFailed \/ AcceptRefused \/ AcceptClient
    \/ ReadDone
    \/ \E out \in 0 .. OutputCap, err \in BOOLEAN : ReadChunk(out, err)
    \/ \E n \in 1 .. SocketBuffer : Write(n)
    \/ FlushDone \/ Finish \/ Exit

PeerStep == \E c \in Conns :
    Connect(c) \/ Send(c) \/ Shut(c) \/ Reset(c) \/ Drain(c)

Next == ServerStep \/ PeerStep

Spec == Init /\ [][Next]_vars

(* The server is a process that runs; peers that read, read on. *)
FairSpec == Spec /\ WF_vars(ServerStep) /\ \A c \in Conns : WF_vars(Drain(c))

-----------------------------------------------------------------------------
(* Properties.                                                             *)

TypeOK ==
    /\ pc \in PC
    /\ clients \in [Clients -> [fd : Fds \cup {-1}, out : 0 .. OutputCap]]
    /\ accepted_count \in Nat /\ exit_code \in {0, -1}
    /\ events \subseteq Event
    /\ client \in Clients \cup {NoClient} /\ close_after \in BOOLEAN
    /\ files \in [Fds -> Conns \cup {NoConn}]
    /\ watch \in [Fds -> SUBSET {"in", "out"}]
    /\ backlog \in Seq(Conns)
    /\ sock \in [Conns -> Sock]
    /\ failed \subseteq Conns

(* The client table, the process's descriptors and the registrations of    *)
(* the back end name each other one to one, at every moment of the loop:   *)
(* no descriptor leaks, none is watched or used after it was closed, and   *)
(* no two clients share one (h2_alloc_client, h2_close_client, and every   *)
(* path of h2_accept_clients that closes).                                 *)
FdTable ==
    /\ \A fd \in Fds :
          /\ files[fd] # NoConn <=> watch[fd] # {}
          /\ files[fd] # NoConn <=> \E k \in Clients : clients[k].fd = fd
    /\ \A j, k \in UsedClients : clients[j].fd = clients[k].fd => j = k
    /\ \A fd, gd \in Fds :
          files[fd] = files[gd] /\ files[fd] # NoConn => fd = gd
    /\ pc \in {"read", "flush", "finish"} => client \in UsedClients

Attached(c) == \E fd \in Fds : files[fd] = c
Output(c)   == LET S == {k \in UsedClients : files[clients[k].fd] = c}
               IN  IF S = {} THEN 0 ELSE clients[Lowest(S)].out

(* A client is closed only for its own sake: its peer ended or reset the   *)
(* connection, its input failed to parse, or the server stops.  An event   *)
(* that was reported for an earlier connection on the same descriptor      *)
(* never closes it.                                                        *)
CloseCause ==
    [][\A c \in Conns :
          Attached(c) /\ ~Attached(c)' /\ pc # "exit"
          => sock[c].link \in {"shut", "reset"} \/ c \in failed]_vars

(* When the loop goes to wait, write interest is registered only for a     *)
(* client with output (else an idle client would wake the server all the   *)
(* time), and output without write interest belongs to a peer whose hang-up*)
(* keeps waking the server (h2_io_mod_connection is skipped for it).       *)
InterestSound ==
    pc = "wait" => \A k \in UsedClients :
        LET fd == clients[k].fd
        IN  /\ "out" \in watch[fd] => Wants(k)
            /\ Wants(k) /\ "out" \notin watch[fd] => HungUp(files[fd])

(* A peer that left is let go of: its client is closed, or the server is   *)
(* in the state that no write can leave, output for a connection that was  *)
(* reset.                                                                  *)
AbandonedClosed ==
    \A c \in Conns :
        Attached(c) /\ sock[c].link \in {"shut", "reset"}
        ~> ~Attached(c) \/ (sock[c].link = "reset" /\ Output(c) > 0)

(* Queued output reaches a peer that reads, whatever else happens to the   *)
(* connection short of a reset.                                            *)
OutputFlows ==
    \A c \in Conns :
        Attached(c) /\ Output(c) > 0
        ~> ~Attached(c) \/ Output(c) = 0 \/ sock[c].link = "reset"

(* A server that was started for a number of connections ends after it has *)
(* accepted them and every peer has left (the loop's condition in          *)
(* h2_server_run).                                                         *)
Left(c) == Attached(c) => sock[c].link \in {"shut", "reset"}

AllServed(gone(_)) ==
    /\ MaxConnections > 0 /\ accepted_count >= MaxConnections
    /\ \A c \in Conns : gone(c)
    /\ backlog = << >>

Ends == <>[]AllServed(Left) => <>(pc = "exited")

(* The same, of peers that did not leave output behind on a connection     *)
(* they reset: no other order of ends, resets, late events and descriptors *)
(* used again keeps the server from its end.                               *)
LeftClean(c) ==
    Attached(c) => \/ sock[c].link = "shut"
                   \/ sock[c].link = "reset" /\ Output(c) = 0

EndsClean == <>[]AllServed(LeftClean) => <>(pc = "exited")

(* The server's use of its back end implements io.h's promise: no event is *)
(* handled for another registration than the one it was reported for.      *)
Io == INSTANCE H2Io WITH
    Fds <- Fds, Registrations <- Conns,
    registered <- files,
    batch <- {<<e.fd, e.conn>> : e \in {x \in events : x.fd # Listener}}

ImplementsIo == Io!IoSpec
=============================================================================
