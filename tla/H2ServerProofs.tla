--------------------------- MODULE H2ServerProofs ---------------------------
(***************************************************************************)
(* Theorems about the event loop of server.c, for any number of clients,   *)
(* descriptors and connections, any batch size and any behaviour of the    *)
(* peers.                                                                  *)
(***************************************************************************)
EXTENDS H2Server, NaturalsInduction, WellFoundedInduction, TLAPS

(* What waits for accept: each connection once, none of them accepted      *)
(* already; and no connection exists before its peer made it.  inbox can   *)
(* grow only with sent.                                                    *)
QueueInv ==
    /\ \A c \in Conns : sock[c].inbox <= sock[c].sent
    /\ \A i, j \in DOMAIN backlog : backlog[i] = backlog[j] => i = j
    /\ \A i \in DOMAIN backlog :
          sock[backlog[i]].link # "none" /\ ~Attached(backlog[i])
    /\ \A fd \in Fds : files[fd] # NoConn => sock[files[fd]].link # "none"

(* FdTable needs QueueInv because accept attaches the head of the backlog  *)
(* without looking at the connections that are attached already.           *)
Inv == TypeOK /\ QueueInv /\ FdTable

-----------------------------------------------------------------------------
LEMMA Constants ==
    /\ MaxClients \in Nat /\ MaxFd \in Nat /\ NumConns \in Nat
    /\ MaxChunks \in Nat /\ OutputCap \in Nat /\ SocketBuffer \in Nat
    /\ NoConn \notin Conns /\ NoClient \notin Clients /\ -1 \notin Fds
    /\ Listener \notin Fds
BY ServerAssumption DEF Conns, Clients, Fds, NoConn, NoClient, Listener

(* The free slot of h2_alloc_client and the descriptor that the kernel     *)
(* gives are the least of a nonempty set of numbers.                       *)
LEMMA LowestIn ==
    ASSUME NEW S, S \subseteq Nat, S # {}
    PROVE  Lowest(S) \in S
<1>1. PICK x \in S : \A y \in S : ~(<<y, x>> \in OpToRel(<, Nat))
  BY NatLessThanWellFounded, WFMin
<1>2. \A y \in S : y < x => <<y, x>> \in OpToRel(<, Nat)
  BY DEF OpToRel
<1>3. \A y \in S : ~(y < x)
  BY <1>1, <1>2, Zenon
<1>4. \A y \in S : x <= y
  BY <1>3
<1> QED
  BY <1>4 DEF Lowest

(* h2_find_client finds a client with the descriptor, if there is one. *)
LEMMA FindClientProp ==
    ASSUME NEW fd \in Fds, FindClient(fd) # NoClient
    PROVE  FindClient(fd) \in Clients /\ clients[FindClient(fd)].fd = fd
<1> DEFINE S == {k \in Clients : clients[k].fd = fd}
<1>1. S \subseteq Nat /\ S # {}
  BY DEF FindClient, Clients
<1>2. Lowest(S) \in S
  BY <1>1, LowestIn
<1> QED  BY <1>1, <1>2 DEF FindClient

LEMMA InitInv == Init => Inv
<1> SUFFICES ASSUME Init PROVE Inv
  OBVIOUS
<1> USE Constants DEF Init
<1>1. TypeOK
  <2>1. clients \in [Clients -> [fd : Fds \cup {-1}, out : 0 .. OutputCap]]
    BY DEF FreeClient
  <2>2. sock \in [Conns -> Sock]
    BY DEF Sock, Link
  <2>3. /\ files \in [Fds -> Conns \cup {NoConn}] /\ backlog \in Seq(Conns)
        /\ watch \in [Fds -> SUBSET {"in", "out"}]
    OBVIOUS
  <2> QED  BY <2>1, <2>2, <2>3 DEF TypeOK, PC
<1>2. QueueInv
  BY DEF QueueInv
<1>3. FdTable
  BY DEF FdTable, FreeClient, UsedClients, Used
<1> QED  BY <1>1, <1>2, <1>3 DEF Inv

(* The client whose event is handled has a descriptor and a connection. *)
LEMMA Handled ==
    ASSUME Inv, pc \in {"read", "flush", "finish"}
    PROVE  /\ client \in Clients /\ clients[client].fd \in Fds
           /\ Conn \in Conns
BY Constants DEF Inv, TypeOK, FdTable, UsedClients, Used, Conn

-----------------------------------------------------------------------------
(* Steps that leave the descriptors, the registrations and the table's     *)
(* descriptors alone.                                                      *)
LEMMA QuietTable ==
    ASSUME Inv, UNCHANGED <<files, watch>>,
           clients' \in [Clients -> [fd : Fds \cup {-1}, out : 0 .. OutputCap]],
           \A k \in Clients : clients'[k].fd = clients[k].fd,
           pc' \in {"read", "flush", "finish"} => client' \in UsedClients
    PROVE  FdTable'
BY DEF Inv, FdTable, UsedClients, Used

LEMMA QuietQueue ==
    ASSUME Inv, UNCHANGED <<files, backlog>>,
           \A c \in Conns : /\ sock'[c].inbox <= sock'[c].sent
                            /\ sock[c].link # "none" => sock'[c].link # "none"
    PROVE  QueueInv'
BY DEF Inv, QueueInv, TypeOK, Attached

LEMMA LoopKeeps ==
    ASSUME Inv,
           WaitFailed \/ Finished \/ BatchDone \/ AcceptNone \/ AcceptFailed
           \/ ReadDone \/ FlushDone
    PROVE  Inv'
<1> USE Constants DEF WaitFailed, Finished, BatchDone, AcceptNone,
                      AcceptFailed, ReadDone, FlushDone, Goto, tableVars, kernelVars
<1>1. TypeOK'
  BY DEF Inv, TypeOK, PC
<1>2. UNCHANGED <<files, watch, backlog, sock, clients>>
  OBVIOUS
<1>3. pc' \in {"read", "flush", "finish"} => client' \in UsedClients
  BY DEF Inv, FdTable
<1>4. FdTable'
  BY <1>2, <1>3, QuietTable DEF Inv, TypeOK
<1>5. QueueInv'
  BY <1>2, QuietQueue DEF Inv, QueueInv
<1> QED  BY <1>1, <1>4, <1>5 DEF Inv

LEMMA WaitKeeps == ASSUME Inv, Wait PROVE Inv'
<1>1. events' \subseteq Ready /\ pc' = "next"
      /\ UNCHANGED <<client, close_after, tableVars, kernelVars, failed>>
  BY DEF Wait
<1>2. Ready \subseteq Event
  <2>1. ListenerEvents \subseteq Event
    <3>1. [fd |-> Listener, conn |-> NoConn, readable |-> TRUE,
           writable |-> FALSE, closed |-> FALSE] \in Event
      BY DEF Event
    <3> QED  BY <3>1, Zenon DEF ListenerEvents
  <2>2. ASSUME NEW fd \in Fds
        PROVE  EpollEvents(fd) \subseteq Event /\ KqueueEvents(fd) \subseteq Event
    <3>1. files[fd] \in Conns \cup {NoConn}
      BY DEF Inv, TypeOK
    <3>2. \A r, w, h \in BOOLEAN :
             [fd |-> fd, conn |-> files[fd], readable |-> r, writable |-> w,
              closed |-> h] \in Event
      BY <3>1 DEF Event
    <3>3. /\ Readable(files[fd]) \in BOOLEAN /\ HungUp(files[fd]) \in BOOLEAN
          /\ ("out" \in watch[fd] /\ Writable(files[fd])) \in BOOLEAN
          /\ (sock[files[fd]].link = "reset") \in BOOLEAN
      BY DEF Readable, HungUp, Writable
    <3>4. EpollEvents(fd) \subseteq Event
      BY <3>2, <3>3, Zenon DEF EpollEvents
    <3>5. KqueueEvents(fd) \subseteq Event
      BY <3>2, <3>3, Zenon DEF KqueueEvents
    <3> QED  BY <3>4, <3>5
  <2> QED  BY <2>1, <2>2 DEF Ready
<1>3. TypeOK'
  BY <1>1, <1>2 DEF Inv, TypeOK, PC, tableVars, kernelVars
<1>4. UNCHANGED <<files, watch, backlog, sock, clients>>
  BY <1>1 DEF tableVars, kernelVars
<1>5. FdTable'
  BY <1>1, <1>4, QuietTable DEF Inv, TypeOK
<1>6. QueueInv'
  BY <1>4, QuietQueue DEF Inv, QueueInv
<1> QED  BY <1>3, <1>5, <1>6 DEF Inv

LEMMA DispatchKeeps == ASSUME Inv, NEW e \in events, Dispatch(e) PROVE Inv'
<1>1. /\ e \in Event /\ events' \subseteq Event
      /\ UNCHANGED <<clients, accepted_count, exit_code, files, watch, backlog,
                     sock, failed>>
  BY DEF Dispatch, Inv, TypeOK, tableVars, kernelVars
<1>2. \/ pc' \in {"accept", "next"} /\ UNCHANGED <<client, close_after>>
      \/ /\ client' \in UsedClients /\ close_after' \in BOOLEAN
         /\ pc' \in {"read", "flush"}
  <2>1. e.fd = Listener \/ e.fd \in Fds
    BY <1>1 DEF Event
  <2>2. ASSUME e.fd \in Fds, FindClient(e.fd) # NoClient
        PROVE  FindClient(e.fd) \in UsedClients
    BY <2>2, FindClientProp, Constants DEF UsedClients, Used
  <2>3. e.closed \in BOOLEAN
    BY <1>1 DEF Event
  <2> QED  BY <2>1, <2>2, <2>3 DEF Dispatch
<1>3. TypeOK'
  BY <1>1, <1>2 DEF Inv, TypeOK, PC, UsedClients
<1>4. FdTable'
  BY <1>1, <1>2, QuietTable DEF Inv, TypeOK
<1>5. QueueInv'
  BY <1>1, QuietQueue DEF Inv, QueueInv
<1> QED  BY <1>3, <1>4, <1>5 DEF Inv

(* accept takes the head of the backlog, which no descriptor names and     *)
(* which does not wait a second time.                                      *)
LEMMA HeadOfBacklog ==
    ASSUME Inv, backlog # << >>
    PROVE  /\ Head(backlog) \in Conns /\ Tail(backlog) \in Seq(Conns)
           /\ ~Attached(Head(backlog)) /\ sock[Head(backlog)].link # "none"
           /\ \A i \in DOMAIN Tail(backlog) :
                 /\ i + 1 \in DOMAIN backlog
                 /\ Tail(backlog)[i] = backlog[i + 1]
                 /\ Tail(backlog)[i] # Head(backlog)
<1>1. /\ backlog \in Seq(Conns) /\ Len(backlog) \in Nat \ {0}
      /\ DOMAIN backlog = 1 .. Len(backlog) /\ Head(backlog) = backlog[1]
      /\ Tail(backlog) \in Seq(Conns)
      /\ DOMAIN Tail(backlog) = 1 .. Len(backlog) - 1
      /\ \A i \in 1 .. Len(backlog) - 1 : Tail(backlog)[i] = backlog[i + 1]
  BY DEF Inv, TypeOK
<1> QED  BY <1>1 DEF Inv, QueueInv

LEMMA AcceptRefusedKeeps == ASSUME Inv, AcceptRefused PROVE Inv'
<1> DEFINE c == Head(backlog)
<1>1. /\ UNCHANGED <<pc, events, client, close_after, clients, accepted_count,
                     exit_code, files, watch, failed>>
      /\ backlog # << >> /\ backlog' = Tail(backlog)
      /\ sock' = [sock EXCEPT ![c] = [link |-> "gone", inbox |-> 0, sent |-> 0,
                                      unread |-> 0]]
  BY DEF AcceptRefused, loopVars, tableVars
<1>2. sock' \in [Conns -> Sock]
  BY <1>1, HeadOfBacklog, Constants DEF Inv, TypeOK, Sock, Link
<1>3. TypeOK'
  BY <1>1, <1>2, HeadOfBacklog DEF Inv, TypeOK
<1>4. FdTable'
  BY <1>1, QuietTable DEF Inv, TypeOK, FdTable
<1>5. /\ \A d \in Conns : sock'[d].inbox <= sock'[d].sent
      /\ \A d \in Conns : sock[d].link # "none" => sock'[d].link # "none"
  BY <1>1, HeadOfBacklog DEF Inv, TypeOK, QueueInv
<1>6. QueueInv'
  BY <1>1, <1>5, HeadOfBacklog DEF Inv, QueueInv, TypeOK, Attached
<1> QED  BY <1>3, <1>4, <1>6 DEF Inv

LEMMA AcceptClientKeeps == ASSUME Inv, AcceptClient PROVE Inv'
<1> DEFINE c == Head(backlog)
           fd == Lowest(FreeFds)
           k == Lowest(Clients \ UsedClients)
<1>1. fd \in Fds /\ files[fd] = NoConn /\ k \in Clients /\ clients[k].fd = -1
  <2>1. FreeFds \subseteq Nat /\ FreeFds # {}
    BY DEF AcceptClient, FreeFds, Fds
  <2>2. Clients \ UsedClients \subseteq Nat /\ Clients \ UsedClients # {}
    BY DEF AcceptClient, Full, UsedClients, Clients
  <2> QED  BY <2>1, <2>2, LowestIn DEF FreeFds, UsedClients, Used
<1>2. /\ UNCHANGED <<pc, events, client, close_after, exit_code, sock, failed>>
      /\ backlog # << >> /\ backlog' = Tail(backlog)
      /\ clients' = [clients EXCEPT ![k] = [fd |-> fd, out |-> 0]]
      /\ files' = [files EXCEPT ![fd] = c]
      /\ watch' = [watch EXCEPT ![fd] = {"in"}]
      /\ accepted_count' = accepted_count + 1
  BY DEF AcceptClient, AllocClient, loopVars
<1>3. /\ c \in Conns /\ ~Attached(c) /\ sock[c].link # "none"
      /\ backlog' \in Seq(Conns)
  BY <1>2, HeadOfBacklog
<1> HIDE DEF c, fd, k
<1>4. TypeOK'
  <2>1. clients' \in [Clients -> [fd : Fds \cup {-1}, out : 0 .. OutputCap]]
    BY <1>1, <1>2, Constants DEF Inv, TypeOK
  <2>2. watch' \in [Fds -> SUBSET {"in", "out"}]
    BY <1>1, <1>2 DEF Inv, TypeOK
  <2> QED  BY <1>1, <1>2, <1>3, <2>1, <2>2 DEF Inv, TypeOK
<1>5. \A j \in Clients : clients[j].fd # fd
  BY <1>1 DEF Inv, FdTable
<1>6. \A g \in Fds : files[g] # c
  BY <1>3 DEF Attached
<1>7. FdTable'
  <2>1. \A j \in Clients : clients'[j].fd = IF j = k THEN fd ELSE clients[j].fd
    BY <1>1, <1>2 DEF Inv, TypeOK
  <2>2. \A g \in Fds : /\ files'[g] = IF g = fd THEN c ELSE files[g]
                       /\ watch'[g] = IF g = fd THEN {"in"} ELSE watch[g]
    BY <1>1, <1>2 DEF Inv, TypeOK
  <2>3. \A g \in Fds : /\ files'[g] # NoConn <=> watch'[g] # {}
                       /\ files'[g] # NoConn
                          <=> \E j \in Clients : clients'[j].fd = g
    BY <1>1, <1>3, <1>5, <2>1, <2>2, Constants DEF Inv, FdTable
  <2>4. \A i, j \in Clients :
           clients'[i].fd # -1 /\ clients'[i].fd = clients'[j].fd => i = j
    BY <1>1, <1>5, <2>1 DEF Inv, FdTable, UsedClients, Used
  <2>5. \A g, h \in Fds :
           files'[g] = files'[h] /\ files'[g] # NoConn => g = h
    BY <1>1, <1>6, <2>2 DEF Inv, FdTable
  <2>6. pc' \in {"read", "flush", "finish"}
        => client' \in Clients /\ clients'[client'].fd # -1
    BY <1>1, <1>2, <2>1, Constants DEF Inv, FdTable, UsedClients, Used
  <2> QED  BY <2>3, <2>4, <2>5, <2>6 DEF FdTable, UsedClients, Used
<1>8. QueueInv'
  <2>1. \A i \in DOMAIN backlog' :
           /\ i + 1 \in DOMAIN backlog /\ backlog'[i] = backlog[i + 1]
           /\ backlog'[i] # c
    BY <1>2, HeadOfBacklog DEF c
  <2>2. \A g \in Fds : files'[g] = IF g = fd THEN c ELSE files[g]
    BY <1>1, <1>2 DEF Inv, TypeOK
  <2>3. \A i \in DOMAIN backlog' :
           /\ sock'[backlog'[i]].link # "none"
           /\ \A g \in Fds : files'[g] # backlog'[i]
    BY <1>2, <2>1, <2>2 DEF Inv, QueueInv, Attached
  <2>4. \A i, j \in DOMAIN backlog' : backlog'[i] = backlog'[j] => i = j
    <3>1. DOMAIN backlog' \subseteq Int
      BY <1>3
    <3> QED  BY <2>1, <3>1 DEF Inv, QueueInv
  <2>5. \A g \in Fds : files'[g] # NoConn => sock'[files'[g]].link # "none"
    BY <1>2, <1>3, <2>2 DEF Inv, QueueInv
  <2>6. \A d \in Conns : sock'[d].inbox <= sock'[d].sent
    BY <1>2 DEF Inv, QueueInv
  <2> QED  BY <2>3, <2>4, <2>5, <2>6 DEF QueueInv, Attached
<1> QED  BY <1>4, <1>7, <1>8 DEF Inv

(* A step that gives the socket of one connection the value r. *)
LEMMA OneSocket ==
    ASSUME Inv, NEW c \in Conns, NEW r \in Sock, r.inbox <= r.sent,
           sock[c].link # "none" => r.link # "none",
           sock' = [sock EXCEPT ![c] = r]
    PROVE  /\ sock' \in [Conns -> Sock]
           /\ \A d \in Conns :
                 /\ sock'[d].inbox <= sock'[d].sent
                 /\ sock[d].link # "none" => sock'[d].link # "none"
<1>1. /\ sock' \in [Conns -> Sock]
      /\ \A d \in Conns : sock'[d] = IF d = c THEN r ELSE sock[d]
  BY DEF Inv, TypeOK
<1> QED  BY <1>1 DEF Inv, QueueInv

LEMMA ReadChunkKeeps ==
    ASSUME Inv, NEW out \in 0 .. OutputCap, NEW err \in BOOLEAN,
           ReadChunk(out, err)
    PROVE  Inv'
<1>1. /\ client \in Clients /\ clients[client].fd \in Fds
      /\ Conn \in Conns /\ client \in UsedClients
  BY Handled DEF ReadChunk, Inv, FdTable
<1> DEFINE c == Conn
<1>2. /\ sock' = [sock EXCEPT ![c].inbox = @ - 1] /\ sock[c].inbox > 0
      /\ clients' = [clients EXCEPT ![client].out = out]
      /\ UNCHANGED <<events, client, accepted_count, exit_code, files, watch,
                     backlog>>
      /\ failed' = failed \/ failed' = failed \cup {c}
      /\ pc' \in {"read", "flush"} /\ close_after' \in BOOLEAN
  BY DEF ReadChunk, Inv, TypeOK
<1> HIDE DEF c
<1>3. c \in Conns
  BY <1>1 DEF c
<1>4. /\ clients' \in [Clients -> [fd : Fds \cup {-1}, out : 0 .. OutputCap]]
      /\ \A k \in Clients : clients'[k].fd = clients[k].fd
  BY <1>1, <1>2 DEF Inv, TypeOK
<1>5. /\ sock' \in [Conns -> Sock]
      /\ \A d \in Conns :
            /\ sock'[d].inbox <= sock'[d].sent
            /\ sock[d].link # "none" => sock'[d].link # "none"
  <2> DEFINE r == [sock[c] EXCEPT !.inbox = @ - 1]
  <2>1. sock[c] \in Sock /\ sock[c].inbox <= sock[c].sent
    BY <1>3 DEF Inv, TypeOK, QueueInv
  <2>2. r \in Sock /\ r.inbox <= r.sent /\ r.link = sock[c].link
    BY <1>2, <2>1, Constants DEF Sock
  <2>3. sock' = [sock EXCEPT ![c] = r]
    BY <1>2, <1>3 DEF Inv, TypeOK
  <2> QED  BY <1>3, <2>2, <2>3, OneSocket
<1>6. TypeOK'
  BY <1>2, <1>3, <1>4, <1>5 DEF Inv, TypeOK, PC
<1>7. FdTable'
  BY <1>1, <1>2, <1>4, QuietTable
<1>8. QueueInv'
  BY <1>2, <1>5, QuietQueue
<1> QED  BY <1>6, <1>7, <1>8 DEF Inv

LEMMA WriteKeeps ==
    ASSUME Inv, NEW n \in 1 .. SocketBuffer, Write(n) PROVE Inv'
<1>1. /\ client \in Clients /\ clients[client].fd \in Fds
      /\ Conn \in Conns /\ client \in UsedClients
  BY Handled DEF Write, Inv, FdTable
<1> DEFINE c == Conn
<1>2. /\ sock' = [sock EXCEPT ![c].unread = @ + n]
      /\ n <= SocketBuffer - sock[c].unread /\ n <= clients[client].out
      /\ clients' = [clients EXCEPT ![client].out = @ - n]
      /\ UNCHANGED <<pc, events, client, close_after, accepted_count, exit_code,
                     files, watch, backlog, failed>>
  BY DEF Write, loopVars
<1> HIDE DEF c
<1>3. c \in Conns
  BY <1>1 DEF c
<1>4. /\ clients' \in [Clients -> [fd : Fds \cup {-1}, out : 0 .. OutputCap]]
      /\ \A k \in Clients : clients'[k].fd = clients[k].fd
  <2> DEFINE r == [clients[client] EXCEPT !.out = @ - n]
  <2>1. clients[client] \in [fd : Fds \cup {-1}, out : 0 .. OutputCap]
    BY <1>1 DEF Inv, TypeOK
  <2>2. /\ r \in [fd : Fds \cup {-1}, out : 0 .. OutputCap]
        /\ r.fd = clients[client].fd
    BY <1>2, <2>1, Constants
  <2>3. clients' = [clients EXCEPT ![client] = r]
    BY <1>1, <1>2 DEF Inv, TypeOK
  <2> QED  BY <1>1, <2>2, <2>3 DEF Inv, TypeOK
<1>5. /\ sock' \in [Conns -> Sock]
      /\ \A d \in Conns :
            /\ sock'[d].inbox <= sock'[d].sent
            /\ sock[d].link # "none" => sock'[d].link # "none"
  <2> DEFINE r == [sock[c] EXCEPT !.unread = @ + n]
  <2>1. sock[c] \in Sock /\ sock[c].inbox <= sock[c].sent
    BY <1>3 DEF Inv, TypeOK, QueueInv
  <2>2. r \in Sock /\ r.inbox <= r.sent /\ r.link = sock[c].link
    BY <1>2, <2>1, Constants DEF Sock
  <2>3. sock' = [sock EXCEPT ![c] = r]
    BY <1>2, <1>3 DEF Inv, TypeOK
  <2> QED  BY <1>3, <2>2, <2>3, OneSocket
<1>6. TypeOK'
  BY <1>2, <1>4, <1>5 DEF Inv, TypeOK
<1>7. FdTable'
  BY <1>1, <1>2, <1>4, QuietTable
<1>8. QueueInv'
  BY <1>2, <1>5, QuietQueue
<1> QED  BY <1>6, <1>7, <1>8 DEF Inv

(* h2_close_client frees the slot, the registration and the descriptor     *)
(* together.                                                               *)
LEMMA CloseKeeps ==
    ASSUME Inv, pc = "finish", CloseClient(client), pc' = "next",
           client' = NoClient, close_after' = FALSE,
           UNCHANGED <<events, accepted_count, exit_code, backlog, failed>>
    PROVE  Inv'
<1> DEFINE f == clients[client].fd
           c == files[f]
           k == client
<1>1. k \in Clients /\ f \in Fds /\ c \in Conns
  BY Handled DEF Conn
<1>2. /\ clients' = [clients EXCEPT ![k] = FreeClient]
      /\ files' = [files EXCEPT ![f] = NoConn]
      /\ watch' = [watch EXCEPT ![f] = {}]
      /\ sock' = [sock EXCEPT ![c] = [link |-> "gone", inbox |-> 0, sent |-> 0,
                                      unread |-> 0]]
  BY DEF CloseClient, CloseFd
<1>3. clients[k].fd = f /\ files[f] = c
  OBVIOUS
<1> HIDE DEF f, c, k
<1>4. /\ \A j \in Clients : clients'[j] = IF j = k THEN FreeClient ELSE clients[j]
      /\ \A g \in Fds : files'[g] = IF g = f THEN NoConn ELSE files[g]
      /\ \A g \in Fds : watch'[g] = IF g = f THEN {} ELSE watch[g]
  BY <1>1, <1>2 DEF Inv, TypeOK
<1>5. TypeOK'
  <2>1. clients' \in [Clients -> [fd : Fds \cup {-1}, out : 0 .. OutputCap]]
    BY <1>1, <1>2, Constants DEF Inv, TypeOK, FreeClient
  <2>2. sock' \in [Conns -> Sock]
    BY <1>1, <1>2, Constants DEF Inv, TypeOK, Sock, Link
  <2>3. /\ files' \in [Fds -> Conns \cup {NoConn}]
        /\ watch' \in [Fds -> SUBSET {"in", "out"}]
    BY <1>1, <1>2 DEF Inv, TypeOK
  <2> QED  BY <2>1, <2>2, <2>3 DEF Inv, TypeOK, PC
<1>6. \A j \in Clients : j # k => clients[j].fd # f
  <2>1. k \in UsedClients
    BY DEF Inv, FdTable, k
  <2>2. \A j \in Clients : clients[j].fd = f => j \in UsedClients
    BY <1>1, Constants DEF UsedClients, Used
  <2> QED  BY <1>3, <2>1, <2>2 DEF Inv, FdTable
<1>7. FdTable'
  <2>1. \A g \in Fds : /\ files'[g] # NoConn <=> watch'[g] # {}
                       /\ files'[g] # NoConn
                          <=> \E j \in Clients : clients'[j].fd = g
    BY <1>1, <1>3, <1>4, <1>6, Constants DEF Inv, FdTable, FreeClient
  <2>2. \A i, j \in Clients :
           clients'[i].fd # -1 /\ clients'[i].fd = clients'[j].fd => i = j
    BY <1>4 DEF Inv, FdTable, FreeClient, UsedClients, Used
  <2>3. \A g, h \in Fds :
           files'[g] = files'[h] /\ files'[g] # NoConn => g = h
    BY <1>4 DEF Inv, FdTable
  <2> QED  BY <2>1, <2>2, <2>3 DEF FdTable, UsedClients, Used
<1>8. QueueInv'
  <2>1. \A d \in Conns :
           /\ sock'[d].inbox <= sock'[d].sent
           /\ sock[d].link # "none" => sock'[d].link # "none"
    BY <1>1, <1>2 DEF Inv, TypeOK, QueueInv
  <2>2. \A i \in DOMAIN backlog : backlog[i] \in Conns
    BY DEF Inv, TypeOK
  <2>3. \A i \in DOMAIN backlog : \A g \in Fds : files'[g] # backlog[i]
    BY <1>4, <2>2, Constants DEF Inv, QueueInv, Attached
  <2>4. \A i \in DOMAIN backlog : sock'[backlog[i]].link # "none"
    BY <2>1, <2>2 DEF Inv, QueueInv
  <2>5. \A g \in Fds : files'[g] # NoConn => sock'[files'[g]].link # "none"
    BY <1>4, <2>1 DEF Inv, TypeOK, QueueInv
  <2>6. \A i, j \in DOMAIN backlog : backlog[i] = backlog[j] => i = j
    BY DEF Inv, QueueInv
  <2> QED  BY <2>1, <2>3, <2>4, <2>5, <2>6 DEF QueueInv, Attached
<1> QED  BY <1>5, <1>7, <1>8 DEF Inv

LEMMA FinishKeeps == ASSUME Inv, Finish PROVE Inv'
<1>1. CASE close_after /\ ~Wants(client)
  <2>1. CloseClient(client)
    BY <1>1 DEF Finish
  <2> QED  BY <2>1, CloseKeeps DEF Finish
<1>2. CASE ~(close_after /\ ~Wants(client))
  <2>1. client \in Clients /\ clients[client].fd \in Fds /\ Conn \in Conns
    BY Handled DEF Finish
  <2> DEFINE f == clients[client].fd
  <2>2. \/ watch' = watch
        \/ \E w \in SUBSET {"in", "out"} : w # {} /\ watch' = [watch EXCEPT ![f] = w]
    BY <1>2 DEF Finish, ModConnection
  <2>3. files[f] # NoConn
    BY <2>1, Constants DEF Conn
  <2>4. UNCHANGED <<clients, files, sock, backlog, events, accepted_count,
                    exit_code, failed>>
        /\ pc' = "next" /\ client' = NoClient /\ close_after' = FALSE
    BY <1>2 DEF Finish
  <2> HIDE DEF f
  <2>5. f \in Fds
    BY <2>1 DEF f
  <2>6. /\ watch' \in [Fds -> SUBSET {"in", "out"}]
        /\ \A g \in Fds : watch'[g] = {} <=> watch[g] = {}
    <3>1. watch \in [Fds -> SUBSET {"in", "out"}] /\ watch[f] # {}
      BY <2>3, <2>5 DEF Inv, TypeOK, FdTable
    <3>2. ASSUME NEW w \in SUBSET {"in", "out"}, w # {},
                 watch' = [watch EXCEPT ![f] = w]
          PROVE  /\ watch' \in [Fds -> SUBSET {"in", "out"}]
                 /\ \A g \in Fds : watch'[g] = IF g = f THEN w ELSE watch[g]
      BY <2>5, <3>1, <3>2
    <3> QED  BY <2>2, <3>1, <3>2
  <2>7. TypeOK'
    BY <2>4, <2>6 DEF Inv, TypeOK, PC
  <2>8. FdTable'
    BY <2>4, <2>6 DEF Inv, FdTable, UsedClients, Used
  <2>9. QueueInv'
    BY <2>4, QuietQueue DEF Inv, QueueInv
  <2> QED  BY <2>7, <2>8, <2>9 DEF Inv
<1> QED  BY <1>1, <1>2

LEMMA ExitKeeps == ASSUME Inv, Exit PROVE Inv'
<1> USE Constants DEF Exit
<1>1. clients' \in [Clients -> [fd : Fds \cup {-1}, out : 0 .. OutputCap]]
  BY DEF FreeClient
<1>2. sock' \in [Conns -> Sock]
  BY DEF Sock, Link
<1>3. /\ files' \in [Fds -> Conns \cup {NoConn}] /\ backlog' \in Seq(Conns)
      /\ watch' \in [Fds -> SUBSET {"in", "out"}]
  OBVIOUS
<1>4. TypeOK'
  BY <1>1, <1>2, <1>3 DEF Inv, TypeOK, PC
<1>5. FdTable'
  BY DEF FdTable, FreeClient, UsedClients, Used
<1>6. QueueInv'
  BY DEF QueueInv
<1> QED  BY <1>4, <1>5, <1>6 DEF Inv

-----------------------------------------------------------------------------
(* Peers: a step changes one socket and, if the peer connects, the backlog *)
LEMMA PeerSocket ==
    ASSUME Inv, NEW c \in Conns, Send(c) \/ Shut(c) \/ Reset(c) \/ Drain(c)
    PROVE  /\ sock' \in [Conns -> Sock]
           /\ \A d \in Conns :
                 /\ sock'[d].inbox <= sock'[d].sent
                 /\ sock[d].link # "none" => sock'[d].link # "none"
<1>1. sock[c] \in Sock /\ sock[c].inbox <= sock[c].sent
  BY DEF Inv, TypeOK, QueueInv
<1>2. CASE Send(c)
  <2> DEFINE r == [sock[c] EXCEPT !.inbox = @ + 1, !.sent = @ + 1]
  <2>1. sock' = [sock EXCEPT ![c] = r]
    BY <1>2 DEF Send, Inv, TypeOK
  <2> DEFINE q == [sock[c] EXCEPT !.inbox = @ + 1]
  <2>2. r = [q EXCEPT !.sent = @ + 1]
    BY <1>1 DEF Sock
  <2>3. /\ sock[c].inbox + 1 \in 0 .. MaxChunks
        /\ sock[c].sent + 1 \in 0 .. MaxChunks
        /\ sock[c].inbox + 1 <= sock[c].sent + 1
    BY <1>1, <1>2, Constants DEF Send, Sock
  <2>4. r \in Sock /\ r.inbox <= r.sent /\ r.link = sock[c].link
    <3>1. q \in Sock /\ q.inbox = sock[c].inbox + 1 /\ q.sent = sock[c].sent
          /\ q.link = sock[c].link
      BY <1>1, <2>3 DEF Sock
    <3> HIDE DEF q
    <3> QED  BY <2>2, <2>3, <3>1 DEF Sock
  <2> QED  BY <2>1, <2>4, OneSocket
<1>3. CASE Shut(c)
  <2> DEFINE r == [sock[c] EXCEPT !.link = "shut"]
  <2>1. sock' = [sock EXCEPT ![c] = r]
    BY <1>3 DEF Shut, Inv, TypeOK
  <2>2. r \in Sock /\ r.inbox <= r.sent /\ r.link = "shut"
    BY <1>1, Constants DEF Sock, Link
  <2> QED  BY <2>1, <2>2, OneSocket
<1>4. CASE Reset(c)
  <2> DEFINE r == [sock[c] EXCEPT !.link = "reset", !.unread = 0]
  <2>1. sock' = [sock EXCEPT ![c] = r]
    BY <1>4 DEF Reset, Inv, TypeOK
  <2> DEFINE q == [sock[c] EXCEPT !.link = "reset"]
  <2>2. r = [q EXCEPT !.unread = 0]
    OBVIOUS
  <2>3. r \in Sock /\ r.inbox <= r.sent /\ r.link = "reset"
    <3>1. q \in Sock /\ q.inbox <= q.sent /\ q.link = "reset"
      BY <1>1 DEF Sock, Link
    <3> HIDE DEF q, r
    <3> QED  BY <2>2, <3>1, Constants DEF Sock
  <2> QED  BY <2>1, <2>3, OneSocket
<1>5. CASE Drain(c)
  <2> DEFINE r == [sock[c] EXCEPT !.unread = 0]
  <2>1. sock' = [sock EXCEPT ![c] = r]
    BY <1>5 DEF Drain, Inv, TypeOK
  <2>2. r \in Sock /\ r.inbox <= r.sent /\ r.link = sock[c].link
    BY <1>1, Constants DEF Sock
  <2> QED  BY <2>1, <2>2, OneSocket
<1> QED  BY <1>2, <1>3, <1>4, <1>5

LEMMA PeerKeeps ==
    ASSUME Inv, NEW c \in Conns, Send(c) \/ Shut(c) \/ Reset(c) \/ Drain(c)
    PROVE  Inv'
<1>1. UNCHANGED <<pc, events, client, close_after, clients, accepted_count,
                  exit_code, files, watch, backlog, failed>>
  BY DEF Send, Shut, Reset, Drain, loopVars, tableVars
<1>2. TypeOK'
  BY <1>1, PeerSocket DEF Inv, TypeOK
<1>3. FdTable'
  BY <1>1, QuietTable DEF Inv, TypeOK, FdTable
<1>4. QueueInv'
  BY <1>1, PeerSocket, QuietQueue
<1> QED  BY <1>2, <1>3, <1>4 DEF Inv

LEMMA ConnectKeeps == ASSUME Inv, NEW c \in Conns, Connect(c) PROVE Inv'
<1> DEFINE r == [sock[c] EXCEPT !.link = "up"]
<1>1. /\ UNCHANGED <<pc, events, client, close_after, clients, accepted_count,
                     exit_code, files, watch, failed>>
      /\ sock' = [sock EXCEPT ![c] = r] /\ sock[c].link = "none"
      /\ backlog' = Append(backlog, c)
  BY DEF Connect, loopVars, tableVars, Inv, TypeOK
<1>2. r \in Sock /\ r.inbox <= r.sent /\ r.link = "up"
  BY Constants DEF Inv, TypeOK, QueueInv, Sock, Link
<1> HIDE DEF r
<1>3. /\ sock' \in [Conns -> Sock]
      /\ \A d \in Conns :
            /\ sock'[d].inbox <= sock'[d].sent
            /\ sock[d].link # "none" => sock'[d].link # "none"
      /\ sock'[c].link = "up"
  <2>1. sock'[c] = r
    BY <1>1 DEF Inv, TypeOK
  <2> QED  BY <1>1, <1>2, <2>1, OneSocket
<1>4. /\ backlog' \in Seq(Conns)
      /\ DOMAIN backlog = 1 .. Len(backlog) /\ Len(backlog) \in Nat
      /\ DOMAIN backlog' = 1 .. Len(backlog) + 1
      /\ backlog'[Len(backlog) + 1] = c
      /\ \A i \in DOMAIN backlog : backlog'[i] = backlog[i]
      /\ \A i \in DOMAIN backlog : backlog[i] \in Conns /\ backlog[i] # c
  BY <1>1 DEF Inv, TypeOK, QueueInv
<1>5. \A fd \in Fds : files[fd] # c
  BY <1>1, Constants DEF Inv, QueueInv
<1>6. TypeOK'
  BY <1>1, <1>3, <1>4 DEF Inv, TypeOK
<1>7. FdTable'
  BY <1>1, QuietTable DEF Inv, TypeOK, FdTable
<1>8. QueueInv'
  <2>1. \A i, j \in DOMAIN backlog' : backlog'[i] = backlog'[j] => i = j
    BY <1>4 DEF Inv, QueueInv
  <2>2. \A i \in DOMAIN backlog' : sock'[backlog'[i]].link # "none"
    BY <1>3, <1>4 DEF Inv, QueueInv
  <2>3. \A i \in DOMAIN backlog' : \A fd \in Fds : files[fd] # backlog'[i]
    BY <1>4, <1>5 DEF Inv, QueueInv, Attached
  <2>4. \A fd \in Fds : files[fd] # NoConn => sock'[files[fd]].link # "none"
    BY <1>3 DEF Inv, TypeOK, QueueInv
  <2> QED  BY <1>1, <1>3, <2>1, <2>2, <2>3, <2>4 DEF QueueInv, Attached
<1> QED  BY <1>6, <1>7, <1>8 DEF Inv

-----------------------------------------------------------------------------
LEMMA NextInv == Inv /\ [Next]_vars => Inv'
<1> SUFFICES ASSUME Inv, [Next]_vars PROVE Inv'
  OBVIOUS
<1>1. CASE ServerStep
  <2>1. CASE Wait
    BY <2>1, WaitKeeps
  <2>2. CASE WaitFailed \/ Finished \/ BatchDone \/ AcceptNone \/ AcceptFailed
             \/ ReadDone \/ FlushDone
    BY <2>2, LoopKeeps
  <2>3. CASE \E e \in events : Dispatch(e)
    BY <2>3, DispatchKeeps
  <2>4. CASE AcceptRefused
    BY <2>4, AcceptRefusedKeeps
  <2>5. CASE AcceptClient
    BY <2>5, AcceptClientKeeps
  <2>6. CASE \E out \in 0 .. OutputCap, err \in BOOLEAN : ReadChunk(out, err)
    BY <2>6, ReadChunkKeeps
  <2>7. CASE \E n \in 1 .. SocketBuffer : Write(n)
    BY <2>7, WriteKeeps
  <2>8. CASE Finish
    BY <2>8, FinishKeeps
  <2>9. CASE Exit
    BY <2>9, ExitKeeps
  <2> QED  BY <1>1, <2>1, <2>2, <2>3, <2>4, <2>5, <2>6, <2>7, <2>8, <2>9
           DEF ServerStep
<1>2. CASE PeerStep
  BY <1>2, PeerKeeps, ConnectKeeps DEF PeerStep
<1>3. CASE UNCHANGED vars
  BY <1>3 DEF vars, loopVars, tableVars, kernelVars, Inv, TypeOK, QueueInv,
              FdTable, Attached, UsedClients, Used
<1> QED  BY <1>1, <1>2, <1>3 DEF Next

LEMMA InvHolds == Spec => []Inv
BY InitInv, NextInv, PTL DEF Spec

(* For any number of clients, descriptors and connections, on either back  *)
(* end: the loop's variables keep to their types, no connection queues     *)
(* more output than fits and no write takes more than there is.            *)
THEOREM TypeCorrect == Spec => []TypeOK
BY InvHolds, PTL DEF Inv

(* For any number of clients, descriptors and connections, on either back  *)
(* end, with failing accepts and interrupted writes: clients, descriptors  *)
(* and registrations correspond one to one at every step of h2_server_run. *)
THEOREM TableCorrect == Spec => []FdTable
BY InvHolds, PTL DEF Inv

-----------------------------------------------------------------------------
(* Batches, on either back end.                                            *)

Serving   == pc \in {"read", "flush", "finish"}
InHand(k) == Serving /\ k = client
Ended(c)  == sock[c].link \in {"shut", "reset"}
IsReset(c) == sock[c].link = "reset"

(* What is known of the events of a batch that are still to be handled.    *)
(* kqueue reports reading and writing apart, so a write event may outlive  *)
(* its connection; but not one that says closed.  That one stands for a    *)
(* connection which was reset with output pending, and such a client is    *)
(* never closed: no write takes its output.                                *)
ReportInv ==
    /\ pc \in {"wait", "exit", "exited"} => events = {}
    /\ \A e \in events : e.fd \in Fds =>
          /\ e.readable \/ e.closed => files[e.fd] = e.conn /\ e.conn \in Conns
          /\ e.closed => Ended(e.conn)
          /\ e.closed /\ ~e.readable =>
                /\ IsReset(e.conn)
                /\ \A k \in Clients : clients[k].fd = e.fd => Wants(k)
    /\ \A e, g \in events : e.fd = g.fd /\ e.readable = g.readable => e = g

(* Why the client in hand will be closed; and that it will not be closed   *)
(* now if its own read event is still to come.                             *)
HandInv ==
    Serving =>
        /\ close_after => Ended(Conn) \/ Conn \in failed
        /\ \A e \in events : e.fd = clients[client].fd /\ e.readable =>
              pc # "read" /\ (close_after => Wants(client) /\ IsReset(Conn))

(* The interest registered for a client fits its output at any moment but  *)
(* while its own event is handled; the interest is set at the end of that, *)
(* unless the client is to be closed.  A client that is to be closed and   *)
(* still has output has lost its peer: a failure of h2_connection_feed     *)
(* alone sets close_after only if there is no output, and output does not  *)
(* grow after the read loop.                                               *)
SoundFor(k) ==
    LET fd == clients[k].fd
    IN  /\ "out" \in watch[fd] => Wants(k)
        /\ Wants(k) /\ "out" \notin watch[fd] => Ended(files[fd])

CloseInv ==
    /\ pc = "read" /\ close_after => Ended(Conn)
    /\ pc \in {"flush", "finish"} /\ close_after /\ Wants(client) => Ended(Conn)

InterestInv ==
    /\ \A k \in UsedClients : ~InHand(k) => SoundFor(k)
    /\ CloseInv

(* The three need each other: a write event says closed only for a client  *)
(* with output because of the interest it was watched with, and the        *)
(* interest is left alone only for an event that was not stale.            *)
LoopInv == ReportInv /\ HandInv /\ InterestInv

LEMMA InitLoop == Init => LoopInv
BY DEF Init, LoopInv, ReportInv, HandInv, Serving, InterestInv, CloseInv,
       UsedClients, Used, FreeClient

(* A client's connection is attached. *)
LEMMA ClientConn ==
    ASSUME Inv, NEW k \in Clients, clients[k].fd # -1
    PROVE  /\ k \in UsedClients /\ clients[k].fd \in Fds
           /\ files[clients[k].fd] \in Conns /\ Attached(files[clients[k].fd])
<1>1. k \in UsedClients /\ clients[k].fd \in Fds
  BY DEF Inv, TypeOK, UsedClients, Used
<1> QED  BY <1>1 DEF Inv, TypeOK, FdTable, Attached

(* What h2_io_wait can report, with epoll and with kqueue. *)
LEMMA ReadyReports ==
    ASSUME Inv, InterestInv, pc = "wait"
    PROVE  /\ \A e \in Ready : e.fd \in Fds =>
                 /\ files[e.fd] = e.conn /\ e.conn \in Conns
                 /\ e.closed => Ended(e.conn)
                 /\ e.closed /\ ~e.readable =>
                       /\ IsReset(e.conn)
                       /\ \A k \in Clients : clients[k].fd = e.fd => Wants(k)
           /\ \A e, g \in Ready : e.fd = g.fd /\ e.readable = g.readable => e = g
<1> DEFINE W == {f \in Fds : watch[f] # {}}
           l == [fd |-> Listener, conn |-> NoConn, readable |-> TRUE,
                 writable |-> FALSE, closed |-> FALSE]
           ep(f) == [fd |-> f, conn |-> files[f], readable |-> Readable(files[f]),
                     writable |-> "out" \in watch[f] /\ Writable(files[f]),
                     closed |-> HungUp(files[f])]
           rd(f) == [fd |-> f, conn |-> files[f], readable |-> TRUE,
                     writable |-> FALSE, closed |-> HungUp(files[f])]
           wr(f) == [fd |-> f, conn |-> files[f], readable |-> FALSE,
                     writable |-> TRUE, closed |-> sock[files[f]].link = "reset"]
<1>1. \A f \in W : files[f] \in Conns /\ f # Listener
  BY Constants DEF Inv, TypeOK, FdTable
<1>2. \A f \in W : "out" \in watch[f] =>
         \A k \in Clients : clients[k].fd = f => Wants(k)
  BY Constants DEF InterestInv, InHand, Serving, SoundFor, UsedClients, Used
<1>3. l.fd = Listener /\ \A f \in W : /\ ep(f).fd = f /\ ep(f).conn = files[f]
                                      /\ ep(f).closed = HungUp(files[f])
                                      /\ ep(f).readable = Readable(files[f])
  OBVIOUS
<1>4. \A f \in W : /\ rd(f).fd = f /\ rd(f).conn = files[f] /\ rd(f).readable
                   /\ rd(f).readable = TRUE
                   /\ rd(f).closed = HungUp(files[f])
                   /\ wr(f).fd = f /\ wr(f).conn = files[f] /\ ~wr(f).readable
                   /\ wr(f).readable = FALSE
                   /\ wr(f).closed = IsReset(files[f])
  BY DEF IsReset
<1>5. \A c \in Conns : /\ HungUp(c) => Readable(c) /\ Ended(c)
                       /\ IsReset(c) => Ended(c)
  BY DEF HungUp, Readable, Ended, IsReset
<1>6. \A f \in Fds : f # Listener
  BY Constants
<1>7. CASE Backend = "epoll"
  <2>1. \A e \in Ready : e = l \/ \E f \in W : e = ep(f)
    BY <1>7, Zenon DEF Ready, ListenerEvents, EpollEvents
  <2> HIDE DEF l, ep, W
  <2> QED  BY <1>1, <1>3, <1>5, <1>6, <2>1
<1>8. CASE Backend = "kqueue"
  <2>0. Backend # "epoll"
    BY <1>8
  <2>1. \A e \in Ready : \/ e = l
                         \/ \E f \in W : e = rd(f)
                         \/ \E f \in W : e = wr(f) /\ "out" \in watch[f]
    BY <2>0, Zenon DEF Ready, ListenerEvents, KqueueEvents
  <2> HIDE DEF l, rd, wr
  <2>2. \A e \in Ready : e.fd \in Fds =>
           \/ \E f \in W : e = rd(f)
           \/ \E f \in W : e = wr(f) /\ "out" \in watch[f]
    BY <1>3, <1>6, <2>1
  <2>3. \A e \in Ready : e.fd \in Fds =>
           /\ files[e.fd] = e.conn /\ e.conn \in Conns
           /\ e.closed => Ended(e.conn)
           /\ e.closed /\ ~e.readable =>
                 /\ IsReset(e.conn)
                 /\ \A k \in Clients : clients[k].fd = e.fd => Wants(k)
    BY <1>1, <1>2, <1>4, <1>5, <2>2
  <2>4. \A e, g \in Ready : e.fd = g.fd /\ e.readable = g.readable => e = g
    BY <1>1, <1>3, <1>4, <2>1
  <2> QED  BY <2>3, <2>4
<1> QED  BY <1>7, <1>8, ServerAssumption

(* Steps that leave the events, the client in hand and the descriptors of  *)
(* the table alone, and forget no reason to close.                         *)
LEMMA QuietReports ==
    ASSUME Inv, ReportInv, HandInv, Inv', UNCHANGED <<events, files>>,
           Serving' => Serving /\ client' = client,
           pc' = "read" => pc = "read",
           pc' \in {"wait", "exit", "exited"} =>
              pc \in {"wait", "exit", "exited"} \/ events = {},
           \A k \in Clients :
              /\ clients'[k].fd = clients[k].fd
              /\ Wants(k) /\ IsReset(files[clients[k].fd]) => Wants(k)',
           \A c \in Conns : Attached(c) => /\ Ended(c) => Ended(c)'
                                           /\ IsReset(c) => IsReset(c)',
           failed \subseteq failed',
           Serving' /\ close_after' =>
              /\ close_after \/ Ended(Conn)' \/ Conn \in failed'
              /\ close_after \/ pc = "read" \/ (Wants(client) /\ IsReset(Conn))
    PROVE  ReportInv' /\ HandInv'
<1>1. ASSUME NEW e \in events, e.fd \in Fds, e.readable \/ e.closed
      PROVE  e.conn \in Conns /\ Attached(e.conn)
  BY <1>1 DEF ReportInv, Attached
<1>2. ASSUME NEW e \in events, e.fd \in Fds, e.closed
      PROVE  Ended(e.conn)'
  BY <1>1, <1>2 DEF ReportInv, Ended
<1>3. ASSUME NEW e \in events, e.fd \in Fds, e.closed, ~e.readable
      PROVE  IsReset(e.conn)' /\ \A k \in Clients : clients'[k].fd = e.fd => Wants(k)'
  <2>1. IsReset(e.conn) /\ files[e.fd] = e.conn
        /\ \A k \in Clients : clients[k].fd = e.fd => Wants(k)
    BY <1>3 DEF ReportInv
  <2> QED  BY <1>1, <1>3, <2>1 DEF IsReset
<1>4. ReportInv'
  BY <1>2, <1>3 DEF ReportInv
<1>5. HandInv'
  <2> SUFFICES ASSUME Serving'
               PROVE  /\ close_after' => Ended(Conn)' \/ (Conn \in failed)'
                      /\ \A e \in events :
                            (e.fd = clients[client].fd)' /\ e.readable =>
                               /\ pc' # "read"
                               /\ close_after' => Wants(client)' /\ IsReset(Conn)'
    BY DEF HandInv
  <2>1. /\ Serving /\ client' = client /\ client \in Clients
        /\ Conn \in Conns /\ Attached(Conn)
        /\ clients'[client'].fd = clients[client].fd /\ Conn' = Conn
    BY Handled DEF Serving, Conn, Attached, Inv, FdTable
  <2>2. (Ended(Conn) => Ended(Conn)') /\ (IsReset(Conn) => IsReset(Conn)')
    BY <2>1 DEF Ended, IsReset
  <2>3. close_after' => Ended(Conn)' \/ (Conn \in failed)'
    BY <2>1, <2>2 DEF HandInv
  <2>4. Wants(client) /\ IsReset(Conn) => Wants(client)'
    BY <2>1 DEF Conn, Wants
  <2>5. ASSUME NEW e \in events, e.fd = clients[client].fd, e.readable
        PROVE  pc' # "read" /\ (close_after' => Wants(client)' /\ IsReset(Conn)')
    BY <2>1, <2>2, <2>4, <2>5 DEF HandInv
  <2> QED  BY <2>1, <2>3, <2>5
<1> QED  BY <1>4, <1>5

(* Steps that leave the registrations alone, keep the client in hand and   *)
(* touch no other one.                                                     *)
LEMMA QuietInterest ==
    ASSUME Inv, InterestInv, Inv', UNCHANGED <<files, watch>>,
           \A k \in Clients : /\ clients'[k].fd = clients[k].fd
                              /\ InHand(k) \/ clients'[k] = clients[k]
                              /\ InHand(k) => InHand(k)',
           \A c \in Conns : Attached(c) /\ Ended(c) => Ended(c)',
           CloseInv'
    PROVE  InterestInv'
<1> SUFFICES ASSUME NEW k \in Clients, clients'[k].fd # -1, ~InHand(k)'
             PROVE  SoundFor(k)'
  BY DEF InterestInv, UsedClients, Used
<1> DEFINE c == files[clients[k].fd]
<1>1. ~InHand(k) /\ clients'[k] = clients[k]
  OBVIOUS
<1>2. k \in UsedClients /\ c \in Conns /\ Attached(c)
  BY <1>1, ClientConn
<1>3. SoundFor(k)
  BY <1>1, <1>2 DEF InterestInv
<1>4. Ended(c) => sock'[c].link \in {"shut", "reset"}
  BY <1>2 DEF Ended
<1> QED  BY <1>1, <1>3, <1>4 DEF SoundFor, Wants, Ended

LEMMA LoopLoop ==
    ASSUME Inv, LoopInv, Inv',
           WaitFailed \/ Finished \/ BatchDone \/ AcceptNone \/ AcceptFailed
           \/ ReadDone \/ FlushDone
    PROVE  LoopInv'
<1> USE DEF WaitFailed, Finished, BatchDone, AcceptNone, AcceptFailed,
            ReadDone, FlushDone, Goto, tableVars, kernelVars
<1>1. UNCHANGED <<events, client, files, clients, sock, watch, failed>>
  OBVIOUS
<1>2. \A c \in Conns : (Ended(c) => Ended(c)') /\ (IsReset(c) => IsReset(c)')
  BY <1>1 DEF Ended, IsReset
<1>3. /\ Conn' = Conn /\ (Ended(Conn) <=> Ended(Conn)')
      /\ (Wants(client)' <=> Wants(client)) /\ \A k \in Clients : Wants(k) => Wants(k)'
  BY <1>1 DEF Conn, Ended, Wants
<1>4. /\ Serving' => Serving
      /\ pc' = "read" => pc = "read"
      /\ pc' \in {"wait", "exit", "exited"} =>
            pc \in {"wait", "exit", "exited"} \/ events = {}
  BY DEF Serving
<1>5. Serving' /\ close_after' =>
         /\ close_after \/ Ended(Conn)
         /\ close_after \/ pc = "read" \/ (Wants(client) /\ IsReset(Conn))
  BY DEF Serving, HungUp, Ended, IsReset
<1>6. ReportInv' /\ HandInv'
  BY <1>1, <1>2, <1>3, <1>4, <1>5, QuietReports DEF LoopInv
<1>7. \A k \in Clients : InHand(k) => InHand(k)'
  BY DEF InHand, Serving
<1>8. CloseInv'
  <2>1. CASE ReadDone
    BY <1>3, <2>1 DEF LoopInv, InterestInv, CloseInv, Ended, HungUp
  <2>2. CASE FlushDone
    <3>1. pc' = "finish" /\ (close_after' /\ Wants(client) => Ended(Conn))
      BY <2>2 DEF LoopInv, InterestInv, CloseInv, Ended
    <3> QED  BY <1>3, <3>1 DEF CloseInv
  <2>3. CASE pc' \in {"next", "wait", "exit"}
    BY <2>3 DEF CloseInv
  <2> QED  BY <2>1, <2>2, <2>3
<1>9. InterestInv'
  BY <1>1, <1>2, <1>7, <1>8, QuietInterest DEF LoopInv
<1> QED  BY <1>6, <1>9 DEF LoopInv

LEMMA WaitLoop == ASSUME Inv, LoopInv, Inv', Wait PROVE LoopInv'
<1>1. /\ events' \subseteq Ready /\ pc = "wait" /\ pc' = "next"
      /\ UNCHANGED <<files, sock, clients, client, watch>>
  BY DEF Wait, kernelVars, tableVars
<1>2. ReportInv'
  BY <1>1, ReadyReports DEF LoopInv, ReportInv, Ended, IsReset, Wants
<1>3. HandInv' /\ CloseInv' /\ \A k \in Clients : ~InHand(k)
  BY <1>1 DEF HandInv, Serving, InHand, CloseInv
<1>4. \A c \in Conns : Ended(c) => Ended(c)'
  BY <1>1 DEF Ended
<1> QED  BY <1>1, <1>2, <1>3, <1>4, QuietInterest DEF LoopInv

(* An event that says closed was reported for the connection of the client *)
(* found.  If it is a write event and the read event is still to come, the *)
(* client has output for a connection that was reset.                      *)
LEMMA DispatchLoop ==
    ASSUME Inv, LoopInv, Inv', NEW e \in events, Dispatch(e)
    PROVE  LoopInv'
<1>1. /\ events' = events \ {e} /\ pc = "next"
      /\ UNCHANGED <<files, sock, clients, watch, failed>>
  BY DEF Dispatch, tableVars, kernelVars
<1>2. ReportInv'
  <2>1. pc' \notin {"wait", "exit", "exited"}
    BY <1>1 DEF Dispatch
  <2> QED  BY <1>1, <2>1 DEF LoopInv, ReportInv, Ended, IsReset, Wants
<1>3. HandInv' /\ CloseInv'
  <2>1. CASE pc' \in {"accept", "next"}
    BY <2>1 DEF HandInv, CloseInv, Serving
  <2>2. CASE pc' \notin {"accept", "next"}
    <3>1. /\ e.fd # Listener /\ FindClient(e.fd) # NoClient
          /\ client' = FindClient(e.fd) /\ close_after' = e.closed
          /\ pc' = IF e.readable THEN "read" ELSE "flush"
      BY <1>1, <2>2 DEF Dispatch
    <3>2. e.fd \in Fds /\ e.readable \in BOOLEAN /\ \A g \in events : g.readable \in BOOLEAN
      BY <3>1 DEF Inv, TypeOK, Event
    <3>3. client' \in Clients /\ clients'[client'].fd = e.fd
      BY <1>1, <3>1, <3>2, FindClientProp
    <3>4. e.closed => Conn' = e.conn /\ Ended(Conn)'
      BY <1>1, <3>2, <3>3 DEF Conn, LoopInv, ReportInv, Ended
    <3>5. e.closed /\ ~e.readable => IsReset(Conn)' /\ Wants(client)'
      BY <1>1, <3>2, <3>3, <3>4 DEF LoopInv, ReportInv, IsReset, Wants
    <3>6. \A g \in events' : g.fd = e.fd /\ g.readable => ~e.readable
      BY <1>1, <3>2 DEF LoopInv, ReportInv
    <3> QED  BY <3>1, <3>3, <3>4, <3>5, <3>6 DEF HandInv, CloseInv
  <2> QED  BY <2>1, <2>2
<1>4. \A c \in Conns : Ended(c) => Ended(c)'
  BY <1>1 DEF Ended
<1>5. \A k \in Clients : ~InHand(k)
  BY <1>1 DEF InHand, Serving
<1> QED  BY <1>1, <1>2, <1>3, <1>4, <1>5, QuietInterest DEF LoopInv

LEMMA RefusedLoop == ASSUME Inv, LoopInv, Inv', AcceptRefused PROVE LoopInv'
<1>1. /\ UNCHANGED <<events, client, files, clients, watch, pc, close_after,
                     failed>>
      /\ pc = "accept" /\ backlog # << >>
      /\ sock' = [sock EXCEPT ![Head(backlog)] =
                     [link |-> "gone", inbox |-> 0, sent |-> 0, unread |-> 0]]
  BY DEF AcceptRefused, loopVars, tableVars
<1>2. \A c \in Conns : Attached(c) => sock'[c] = sock[c]
  BY <1>1, HeadOfBacklog DEF Inv, TypeOK
<1>3. \A c \in Conns : Attached(c) => /\ Ended(c) => Ended(c)'
                                      /\ IsReset(c) => IsReset(c)'
  BY <1>2 DEF Ended, IsReset
<1>4. ~Serving /\ ~Serving' /\ CloseInv'
  BY <1>1 DEF Serving, CloseInv
<1>5. ReportInv' /\ HandInv'
  BY <1>1, <1>3, <1>4, QuietReports DEF LoopInv, Wants
<1>6. InterestInv'
  BY <1>1, <1>3, <1>4, QuietInterest DEF LoopInv, InHand
<1> QED  BY <1>5, <1>6 DEF LoopInv

(* accept takes a free descriptor: an event for it is one that outlived    *)
(* its connection, so it does not say closed.                              *)
LEMMA AcceptLoop == ASSUME Inv, LoopInv, Inv', AcceptClient PROVE LoopInv'
<1> DEFINE fd == Lowest(FreeFds)
           j == Lowest(Clients \ UsedClients)
<1>1. /\ UNCHANGED <<events, client, sock, pc, close_after>> /\ pc = "accept"
      /\ files' = [files EXCEPT ![fd] = Head(backlog)]
      /\ watch' = [watch EXCEPT ![fd] = {"in"}]
      /\ clients' = [clients EXCEPT ![j] = [fd |-> fd, out |-> 0]]
  BY DEF AcceptClient, AllocClient, loopVars
<1>2. fd \in Fds /\ files[fd] = NoConn /\ j \in Clients
  <2>1. FreeFds \subseteq Nat /\ FreeFds # {}
    BY DEF AcceptClient, FreeFds, Fds
  <2>2. Clients \ UsedClients \subseteq Nat /\ Clients \ UsedClients # {}
    BY DEF AcceptClient, Full, UsedClients, Clients
  <2> QED  BY <2>1, <2>2, LowestIn DEF FreeFds
<1> HIDE DEF fd, j
<1>3. \A k \in Clients :
         clients'[k] = IF k = j THEN [fd |-> fd, out |-> 0] ELSE clients[k]
  BY <1>1, <1>2 DEF Inv, TypeOK
<1>4. \A g \in Fds : /\ watch'[g] = IF g = fd THEN {"in"} ELSE watch[g]
                     /\ g # fd => files'[g] = files[g]
  BY <1>1, <1>2 DEF Inv, TypeOK
<1>5. HandInv' /\ CloseInv' /\ \A k \in Clients : ~InHand(k)
  BY <1>1 DEF HandInv, Serving, InHand, CloseInv
<1>6. ReportInv'
  <2>1. \A e \in events : e.fd \in Fds /\ (e.readable \/ e.closed) => e.fd # fd
    BY <1>2, Constants DEF LoopInv, ReportInv
  <2>2. \A k \in Clients, g \in Fds : g # fd /\ clients'[k].fd = g =>
           clients[k].fd = g /\ (Wants(k) => Wants(k)')
    BY <1>3 DEF Wants
  <2> QED  BY <1>1, <1>4, <2>1, <2>2 DEF LoopInv, ReportInv, Ended, IsReset
<1>7. \A k \in UsedClients : clients[k].fd \in Fds /\ clients[k].fd # fd
  BY <1>2, ClientConn, Constants DEF UsedClients, Used
<1>8. ASSUME NEW k \in Clients, clients'[k].fd # -1
      PROVE  SoundFor(k)'
  <2>1. CASE k = j
    BY <1>2, <1>3, <1>4, <2>1 DEF SoundFor, Wants
  <2>2. CASE k # j
    <3>1. k \in UsedClients /\ clients'[k] = clients[k]
      BY <1>3, <1>8, <2>2 DEF UsedClients, Used
    <3>2. SoundFor(k)
      BY <1>5, <3>1 DEF LoopInv, InterestInv
    <3> QED  BY <1>1, <1>4, <1>7, <3>1, <3>2 DEF SoundFor, Wants, Ended
  <2> QED  BY <2>1, <2>2
<1> QED  BY <1>5, <1>6, <1>8 DEF LoopInv, InterestInv, UsedClients, Used

LEMMA ReadLoop ==
    ASSUME Inv, LoopInv, Inv', NEW out \in 0 .. OutputCap, NEW err \in BOOLEAN,
           ReadChunk(out, err)
    PROVE  LoopInv'
<1>1. client \in Clients /\ Conn \in Conns
  BY Handled DEF ReadChunk
<1>2. /\ pc = "read" /\ pc' \in {"read", "flush"}
      /\ UNCHANGED <<events, client, files, watch>>
      /\ sock' = [sock EXCEPT ![Conn].inbox = @ - 1]
      /\ clients' = [clients EXCEPT ![client].out = out]
      /\ clients[client].out <= out /\ failed \subseteq failed'
      /\ \/ UNCHANGED <<pc, close_after>>
         \/ pc' = "flush" /\ out = 0 /\ Conn \in failed'
  BY DEF ReadChunk
<1>3. \A k \in Clients : /\ clients'[k].fd = clients[k].fd
                         /\ k # client => clients'[k] = clients[k]
                         /\ k = client => clients'[k].out = out
                         /\ clients[k].out \in Int
  BY <1>1, <1>2 DEF Inv, TypeOK
<1>4. \A c \in Conns : sock'[c].link = sock[c].link
  BY <1>1, <1>2 DEF Inv, TypeOK, Sock
<1>5. \A c \in Conns : (Ended(c) => Ended(c)') /\ (IsReset(c) => IsReset(c)')
  BY <1>4 DEF Ended, IsReset
<1>6. Conn' = Conn
  BY <1>1, <1>2, <1>3 DEF Conn
<1>7. \A k \in Clients : Wants(k) => Wants(k)'
  BY <1>2, <1>3 DEF Wants
<1>8. ReportInv' /\ HandInv'
  BY <1>2, <1>3, <1>5, <1>6, <1>7, QuietReports DEF LoopInv, Serving
<1>9. CloseInv'
  BY <1>1, <1>2, <1>3, <1>4, <1>6 DEF LoopInv, InterestInv, CloseInv, Wants, Ended
<1>10. InterestInv'
  BY <1>1, <1>2, <1>3, <1>5, <1>9, QuietInterest DEF LoopInv, InHand, Serving
<1> QED  BY <1>8, <1>10 DEF LoopInv

LEMMA WriteLoop ==
    ASSUME Inv, LoopInv, Inv', NEW n \in 1 .. SocketBuffer, Write(n)
    PROVE  LoopInv'
<1>1. client \in Clients /\ Conn \in Conns /\ ~IsReset(Conn)
  BY Handled DEF Write, IsReset
<1>2. /\ UNCHANGED <<events, client, files, watch, pc, close_after, failed>>
      /\ sock' = [sock EXCEPT ![Conn].unread = @ + n]
      /\ clients' = [clients EXCEPT ![client].out = @ - n]
      /\ pc = "flush" /\ Wants(client)
  BY DEF Write, loopVars
<1>3. \A k \in Clients : /\ clients'[k].fd = clients[k].fd
                         /\ k # client => clients'[k] = clients[k]
  BY <1>1, <1>2 DEF Inv, TypeOK
<1>4. \A c \in Conns : sock'[c].link = sock[c].link
  BY <1>1, <1>2 DEF Inv, TypeOK, Sock
<1>5. \A c \in Conns : (Ended(c) => Ended(c)') /\ (IsReset(c) => IsReset(c)')
  BY <1>4 DEF Ended, IsReset
<1>6. Conn' = Conn
  BY <1>1, <1>2, <1>3 DEF Conn
<1>7. \A k \in Clients : Wants(k) /\ IsReset(files[clients[k].fd]) => Wants(k)'
  BY <1>1, <1>3 DEF Wants, Conn
<1>8. ReportInv' /\ HandInv'
  BY <1>2, <1>3, <1>5, <1>7, QuietReports DEF LoopInv, Serving
<1>9. CloseInv'
  BY <1>1, <1>2, <1>4, <1>6 DEF LoopInv, InterestInv, CloseInv, Ended
<1>10. InterestInv'
  BY <1>1, <1>2, <1>3, <1>5, <1>9, QuietInterest DEF LoopInv, InHand, Serving
<1> QED  BY <1>8, <1>10 DEF LoopInv

(* Closing the client in hand leaves no event behind for its descriptor    *)
(* but a write event that does not say closed.                             *)
LEMMA CloseLoop ==
    ASSUME Inv, LoopInv, Inv', Finish, close_after, ~Wants(client)
    PROVE  LoopInv'
<1> DEFINE h == client
           f == clients[client].fd
           c == files[f]
<1>1. /\ h \in Clients /\ h \in UsedClients /\ f \in Fds /\ c \in Conns
      /\ clients[h].fd = f /\ files[f] = c /\ Serving /\ ~Wants(h)
  BY Handled DEF Finish, Inv, FdTable, Conn, Serving
<1>2. /\ pc = "finish" /\ pc' = "next" /\ UNCHANGED events
      /\ clients' = [clients EXCEPT ![h] = FreeClient]
      /\ files' = [files EXCEPT ![f] = NoConn]
      /\ watch' = [watch EXCEPT ![f] = {}]
      /\ sock' = [sock EXCEPT ![c] =
            [link |-> "gone", inbox |-> 0, sent |-> 0, unread |-> 0]]
  BY DEF Finish, CloseClient, CloseFd
<1>3. \A e \in events : e.fd = f => ~e.readable /\ ~e.closed
  <2>1. \A e \in events : e.fd = f => ~e.readable
    BY <1>1 DEF LoopInv, HandInv
  <2> QED  BY <1>1, <2>1 DEF LoopInv, ReportInv
<1>4. \A k \in UsedClients : k # h =>
         /\ SoundFor(k) /\ clients[k].fd \in Fds \ {f}
         /\ files[clients[k].fd] \in Conns
  BY <1>1, ClientConn DEF LoopInv, InterestInv, InHand, Inv, FdTable,
                          UsedClients, Used
<1>5. /\ HandInv' /\ CloseInv'
  BY <1>2 DEF HandInv, CloseInv, Serving
<1> HIDE DEF f, c, h
<1>6. \A g \in Fds : g # f => /\ watch'[g] = watch[g] /\ files'[g] = files[g]
                              /\ files[g] \in Conns =>
                                    sock'[files[g]] = sock[files[g]]
  <2>1. \A g \in Fds : g # f => watch'[g] = watch[g] /\ files'[g] = files[g]
    BY <1>1, <1>2 DEF Inv, TypeOK
  <2>2. \A g \in Fds : g # f /\ files[g] \in Conns => files[g] # c
    BY <1>1, Constants DEF Inv, FdTable
  <2> QED  BY <1>1, <1>2, <2>1, <2>2 DEF Inv, TypeOK
<1>7. \A k \in Clients : /\ clients'[k] = IF k = h THEN FreeClient ELSE clients[k]
                         /\ clients'[k].fd # -1 => k # h
  BY <1>1, <1>2 DEF Inv, TypeOK, FreeClient
<1>8. ReportInv'
  <2>1. \A e \in events : e.fd \in Fds /\ (e.readable \/ e.closed) => e.fd # f
    BY <1>3
  <2>2. \A k \in Clients, g \in Fds : clients'[k].fd = g =>
           clients[k].fd = g /\ (Wants(k) => Wants(k)')
    BY <1>7, Constants DEF Wants
  <2>3. \A e \in events : e.fd \in Fds /\ (e.readable \/ e.closed) =>
           /\ files'[e.fd] = e.conn /\ e.conn \in Conns
           /\ sock'[e.conn] = sock[e.conn]
    BY <1>6, <2>1 DEF LoopInv, ReportInv
  <2> QED  BY <1>2, <2>2, <2>3 DEF LoopInv, ReportInv, Ended, IsReset
<1>9. ASSUME NEW k \in Clients, clients'[k].fd # -1
      PROVE  SoundFor(k)'
  <2>1. k \in UsedClients /\ k # h /\ clients'[k] = clients[k]
    BY <1>7, <1>9 DEF UsedClients, Used
  <2> QED  BY <1>4, <1>6, <2>1 DEF SoundFor, Wants, Ended
<1> QED  BY <1>5, <1>8, <1>9 DEF LoopInv, InterestInv, UsedClients, Used

(* The end of an event: the interest is set to what the output asks for,   *)
(* or the client is closed, or it keeps its interest for want of a peer.   *)
LEMMA FinishLoop == ASSUME Inv, LoopInv, Inv', Finish PROVE LoopInv'
<1>1. CASE close_after /\ ~Wants(client)
  BY <1>1, CloseLoop
<1>2. CASE ~(close_after /\ ~Wants(client))
  <2>1. /\ UNCHANGED <<events, clients, files, sock, failed>>
        /\ pc = "finish" /\ pc' = "next"
    BY <1>2 DEF Finish
  <2>2. ReportInv' /\ HandInv' /\ CloseInv'
    BY <2>1 DEF LoopInv, ReportInv, HandInv, CloseInv, Serving, Ended, IsReset,
                Wants
  <2> DEFINE h == client
             f == clients[client].fd
  <2>3. h \in UsedClients /\ f \in Fds /\ clients[h].fd = f
    BY <2>1, Handled DEF Inv, FdTable
  <2>4. \A k \in UsedClients : k # h => SoundFor(k) /\ clients[k].fd \in Fds \ {f}
    BY <2>3, ClientConn DEF LoopInv, InterestInv, InHand, Inv, FdTable,
                            UsedClients, Used
  <2>5. CASE close_after
    <3>1. UNCHANGED watch
      BY <1>2, <2>5 DEF Finish
    <3>2. SoundFor(h)
      BY <1>2, <2>1, <2>5 DEF LoopInv, InterestInv, CloseInv, SoundFor, Conn
    <3>3. \A k \in UsedClients : SoundFor(k)'
      BY <2>1, <2>4, <3>1, <3>2 DEF SoundFor, Wants, Ended
    <3> QED  BY <2>1, <2>2, <3>3 DEF LoopInv, InterestInv, UsedClients, Used
  <2>6. CASE ~close_after
    <3> DEFINE w == {"in"} \cup {x \in {"out"} : Wants(h)}
    <3>1. watch' = [watch EXCEPT ![f] = w]
      BY <2>6 DEF Finish, ModConnection
    <3>2. "out" \in w <=> Wants(h)
      OBVIOUS
    <3> HIDE DEF f, h, w
    <3>3. \A g \in Fds : watch'[g] = IF g = f THEN w ELSE watch[g]
      BY <2>3, <3>1 DEF Inv, TypeOK
    <3>4. \A k \in UsedClients : SoundFor(k)'
      BY <2>1, <2>3, <2>4, <3>2, <3>3 DEF SoundFor, Wants, Ended
    <3> QED  BY <2>1, <2>2, <3>4 DEF LoopInv, InterestInv, UsedClients, Used
  <2> QED  BY <2>5, <2>6
<1> QED  BY <1>1, <1>2

LEMMA ExitLoop == ASSUME LoopInv, Exit PROVE LoopInv'
BY DEF Exit, LoopInv, ReportInv, HandInv, Serving, InterestInv, CloseInv,
       UsedClients, Used, FreeClient

(* No step of a peer takes the end of a connection back. *)
LEMMA PeerEnded ==
    ASSUME Inv, NEW c \in Conns,
           Connect(c) \/ Send(c) \/ Shut(c) \/ Reset(c) \/ Drain(c)
    PROVE  \A d \in Conns : /\ Ended(d) => Ended(d)'
                            /\ IsReset(d) => IsReset(d)'
<1> USE DEF Ended, IsReset
<1>1. sock \in [Conns -> Sock]
  BY DEF Inv, TypeOK
<1>2. CASE Connect(c) \/ Shut(c)
  BY <1>1, <1>2 DEF Connect, Shut, Sock
<1>3. CASE Send(c)
  <2>1. \A d \in Conns : d # c => sock'[d] = sock[d]
    BY <1>1, <1>3 DEF Send
  <2>2. sock[c].link = "up"
    BY <1>3 DEF Send
  <2> QED  BY <2>1, <2>2
<1>4. CASE Reset(c)
  <2> DEFINE q == [sock[c] EXCEPT !.link = "reset"]
  <2>1. sock' = [sock EXCEPT ![c] = [q EXCEPT !.unread = 0]]
    BY <1>1, <1>4 DEF Reset
  <2>2. q \in Sock /\ q.link = "reset"
    BY <1>1 DEF Sock, Link
  <2> HIDE DEF q
  <2>3. [q EXCEPT !.unread = 0].link = "reset"
    BY <2>2 DEF Sock
  <2> QED  BY <1>1, <2>1, <2>3
<1>5. CASE Drain(c)
  <2>1. sock' = [sock EXCEPT ![c].unread = 0]
    BY <1>5 DEF Drain
  <2>2. \A d \in Conns : sock'[d].link = sock[d].link
    BY <1>1, <2>1 DEF Sock
  <2> QED  BY <2>2
<1> QED  BY <1>2, <1>3, <1>4, <1>5

LEMMA PeerLoop == ASSUME Inv, LoopInv, Inv', PeerStep PROVE LoopInv'
<1>1. PICK c \in Conns :
         Connect(c) \/ Send(c) \/ Shut(c) \/ Reset(c) \/ Drain(c)
  BY DEF PeerStep
<1>2. UNCHANGED <<events, client, files, clients, watch, pc, close_after, failed>>
  BY <1>1 DEF Connect, Send, Shut, Reset, Drain, loopVars, tableVars
<1>3. \A d \in Conns : (Ended(d) => Ended(d)') /\ (IsReset(d) => IsReset(d)')
  BY <1>1, PeerEnded
<1>4. CloseInv'
  <2>1. pc \in {"read", "flush", "finish"} => Conn \in Conns
    BY Handled
  <2>2. \A d \in Conns : Ended(d) => sock'[d].link \in {"shut", "reset"}
    BY <1>3 DEF Ended
  <2> QED  BY <1>2, <2>1, <2>2 DEF LoopInv, InterestInv, CloseInv, Ended, Wants,
                                   Conn
<1>5. ReportInv' /\ HandInv'
  BY <1>2, <1>3, QuietReports DEF LoopInv, Serving, Wants
<1>6. InterestInv'
  BY <1>2, <1>3, <1>4, QuietInterest DEF LoopInv, InHand, Serving
<1> QED  BY <1>5, <1>6 DEF LoopInv

LEMMA NextLoop == ASSUME Inv, LoopInv, [Next]_vars PROVE LoopInv'
<1>0. Inv'
  BY NextInv
<1>1. CASE ServerStep
  <2>1. CASE Wait
    BY <1>0, <2>1, WaitLoop
  <2>2. CASE WaitFailed \/ Finished \/ BatchDone \/ AcceptNone \/ AcceptFailed
             \/ ReadDone \/ FlushDone
    BY <1>0, <2>2, LoopLoop
  <2>3. CASE \E e \in events : Dispatch(e)
    BY <1>0, <2>3, DispatchLoop
  <2>4. CASE AcceptRefused \/ AcceptClient
    BY <1>0, <2>4, RefusedLoop, AcceptLoop
  <2>5. CASE \E out \in 0 .. OutputCap, err \in BOOLEAN : ReadChunk(out, err)
    BY <1>0, <2>5, ReadLoop
  <2>6. CASE \E n \in 1 .. SocketBuffer : Write(n)
    BY <1>0, <2>6, WriteLoop
  <2>7. CASE Finish
    BY <1>0, <2>7, FinishLoop
  <2>8. CASE Exit
    BY <2>8, ExitLoop
  <2> QED  BY <1>1, <2>1, <2>2, <2>3, <2>4, <2>5, <2>6, <2>7, <2>8
           DEF ServerStep
<1>2. CASE PeerStep
  BY <1>0, <1>2, PeerLoop
<1>3. CASE UNCHANGED vars
  BY <1>3 DEF vars, loopVars, tableVars, kernelVars, LoopInv, ReportInv,
              HandInv, InterestInv, CloseInv, InHand, Serving, SoundFor, Ended,
              IsReset, Conn, Wants, UsedClients, Used
<1> QED  BY <1>1, <1>2, <1>3 DEF Next

LEMMA LoopHolds == Spec => [](Inv /\ LoopInv)
<1>1. Init => Inv /\ LoopInv
  BY InitInv, InitLoop
<1>2. Inv /\ LoopInv /\ [Next]_vars => (Inv /\ LoopInv)'
  BY NextInv, NextLoop
<1> QED  BY <1>1, <1>2, PTL DEF Spec

(* On either back end, for any number of clients and any batch size: when  *)
(* the loop goes to wait, write interest is registered only for clients    *)
(* with output, and output without it belongs to a peer that has hung up,  *)
(* so no output is forgotten and no idle client keeps the server awake.    *)
THEOREM InterestCorrect == Spec => []InterestSound
<1>1. LoopInv => InterestSound
  BY DEF LoopInv, InterestInv, InterestSound, InHand, Serving, SoundFor, HungUp,
         Ended
<1> QED  BY <1>1, LoopHolds, PTL

(* On either back end, for any number of clients, descriptors and          *)
(* connections and any batch size: a client is closed only for the end or  *)
(* the failure of its own connection, or because the server stops.  With   *)
(* kqueue this is so although an event may reach a client that it was not  *)
(* reported for.                                                           *)
THEOREM CloseCorrect == Spec => CloseCause
<1>1. ASSUME Inv, LoopInv, [Next]_vars, NEW c \in Conns,
             Attached(c), ~Attached(c)', pc # "exit"
      PROVE  Ended(c) \/ c \in failed
  <2>1. PICK fd \in Fds : files[fd] = c /\ files'[fd] # c
    BY <1>1 DEF Attached
  <2>2. CASE Finish
    <3>1. /\ pc = "finish" /\ close_after /\ ~Wants(client)
          /\ CloseClient(client)
      BY <2>1, <2>2 DEF Finish
    <3>2. clients[client].fd = fd
      BY <2>1, <3>1, <1>1 DEF CloseClient, CloseFd, Inv, TypeOK
    <3>3. Conn = c
      BY <2>1, <3>2 DEF Conn
    <3> QED  BY <1>1, <3>1, <3>3 DEF LoopInv, HandInv, Serving
  <2>3. CASE AcceptClient
    <3>1. FreeFds \subseteq Nat /\ FreeFds # {}
      BY <2>3 DEF AcceptClient, FreeFds, Fds
    <3>2. Lowest(FreeFds) \in Fds /\ files[Lowest(FreeFds)] = NoConn
      BY <3>1, LowestIn DEF FreeFds
    <3>3. files' = [files EXCEPT ![Lowest(FreeFds)] = Head(backlog)]
      BY <2>3 DEF AcceptClient
    <3>4. c # NoConn
      BY Constants
    <3> QED  BY <2>1, <3>2, <3>3, <3>4, <1>1 DEF Inv, TypeOK
  <2>4. CASE ~Finish /\ ~AcceptClient
    <3>1. UNCHANGED files
      BY <1>1, <2>4 DEF Next, ServerStep, Wait, WaitFailed, Finished,
         BatchDone, Dispatch,
         AcceptNone, AcceptFailed, AcceptRefused, ReadDone, ReadChunk, Write,
         FlushDone, Exit, PeerStep, Connect, Send, Shut, Reset, Drain, Goto,
         kernelVars, loopVars, vars
    <3> QED  BY <2>1, <3>1
  <2> QED  BY <2>2, <2>3, <2>4
<1>2. Inv /\ LoopInv /\ [Next]_vars =>
        [\A c \in Conns :
            Attached(c) /\ ~Attached(c)' /\ pc # "exit"
            => sock[c].link \in {"shut", "reset"} \/ c \in failed]_vars
  BY <1>1 DEF Ended
<1> QED  BY <1>2, LoopHolds, PTL DEF Spec, CloseCause

-----------------------------------------------------------------------------
(* epoll: each event that is still to be handled names a connection that   *)
(* is still attached, no two name the same descriptor, and the client      *)
(* being handled has no second event: this is why closing it cannot make   *)
(* an event stale.  With kqueue, which reports each filter apart, the last *)
(* two do not hold.                                                        *)
BatchInv ==
    /\ pc \in {"wait", "exit", "exited"} => events = {}
    /\ \A e \in events : e.fd \in Fds => files[e.fd] = e.conn /\ e.conn # NoConn
    /\ \A e, g \in events : e.fd = g.fd => e = g
    /\ Serving => \A e \in events : e.fd # clients[client].fd

(* What one call of epoll_wait can report. *)
LEMMA ReadyEpoll ==
    ASSUME Inv, Backend = "epoll"
    PROVE  /\ \A e \in Ready : e.fd \in Fds =>
                 files[e.fd] = e.conn /\ e.conn # NoConn
           /\ \A e, g \in Ready : e.fd = g.fd => e = g
<1> DEFINE W == {f \in Fds : watch[f] # {}}
           l == [fd |-> Listener, conn |-> NoConn, readable |-> TRUE,
                 writable |-> FALSE, closed |-> FALSE]
           ev(f) == [fd |-> f, conn |-> files[f], readable |-> Readable(files[f]),
                     writable |-> "out" \in watch[f] /\ Writable(files[f]),
                     closed |-> HungUp(files[f])]
<1>1. \A e \in Ready : e = l \/ \E f \in W : e = ev(f)
  BY Zenon DEF Ready, ListenerEvents, EpollEvents
<1>2. l.fd = Listener /\ \A f \in W : ev(f).fd = f /\ ev(f).conn = files[f]
  OBVIOUS
<1>3. \A f \in W : files[f] # NoConn /\ f # Listener
  BY Constants DEF Inv, FdTable
<1> HIDE DEF l, ev, W
<1>4. \A f \in Fds : f # Listener
  BY Constants
<1> QED  BY <1>1, <1>2, <1>3, <1>4

(* Steps that leave the events, the client in hand and the descriptors of  *)
(* the table alone.                                                        *)
LEMMA QuietBatch ==
    ASSUME Inv, BatchInv, UNCHANGED <<events, client, files>>,
           Serving' => Serving,
           pc' \in {"wait", "exit", "exited"} =>
              pc \in {"wait", "exit", "exited"} \/ events = {},
           \A k \in Clients : clients'[k].fd = clients[k].fd
    PROVE  BatchInv'
<1>1. Serving => client \in Clients
  BY DEF Inv, FdTable, UsedClients, Serving
<1> QED  BY <1>1 DEF BatchInv

LEMMA NextBatch ==
    ASSUME Backend = "epoll", Inv, BatchInv, [Next]_vars
    PROVE  BatchInv'
<1>1. CASE Wait
  <2>1. /\ events' \subseteq Ready /\ pc' = "next"
        /\ UNCHANGED <<files, clients, client>>
    BY <1>1 DEF Wait, kernelVars, tableVars
  <2> QED  BY <2>1, ReadyEpoll DEF BatchInv, Serving
<1>2. CASE WaitFailed \/ Finished \/ BatchDone \/ AcceptNone \/ AcceptFailed
           \/ AcceptRefused \/ ReadDone \/ FlushDone
  <2>1. /\ UNCHANGED <<events, client, files, clients>> /\ (Serving' => Serving)
        /\ pc' \in {"wait", "exit", "exited"} =>
              pc \in {"wait", "exit", "exited"} \/ events = {}
    BY <1>2 DEF WaitFailed, Finished, BatchDone, AcceptNone, AcceptFailed,
                AcceptRefused, ReadDone, FlushDone, Goto, tableVars, kernelVars,
                loopVars, Serving
  <2> QED  BY <2>1, QuietBatch
<1>3. ASSUME NEW e \in events, Dispatch(e) PROVE BatchInv'
  <2>1. /\ events' = events \ {e} /\ pc = "next" /\ UNCHANGED <<files, clients>>
        /\ pc' \notin {"wait", "exit", "exited"}
    BY <1>3 DEF Dispatch, tableVars, kernelVars
  <2>2. Serving' => clients'[client'].fd = e.fd
    <3> SUFFICES ASSUME Serving' PROVE clients'[client'].fd = e.fd
      OBVIOUS
    <3>1. e.fd # Listener /\ FindClient(e.fd) # NoClient /\ client' = FindClient(e.fd)
      BY <1>3, <2>1 DEF Dispatch, Serving
    <3>2. e.fd \in Fds
      BY <3>1 DEF Inv, TypeOK, Event
    <3> QED  BY <2>1, <3>1, <3>2, FindClientProp
  <2> QED  BY <2>1, <2>2 DEF BatchInv
<1>4. CASE AcceptClient
  <2> DEFINE fd == Lowest(FreeFds)
  <2>1. /\ UNCHANGED <<events, client, pc>> /\ pc = "accept"
        /\ files' = [files EXCEPT ![fd] = Head(backlog)]
    BY <1>4 DEF AcceptClient, loopVars
  <2>2. fd \in Fds /\ files[fd] = NoConn
    <3>1. FreeFds \subseteq Nat /\ FreeFds # {}
      BY <1>4 DEF AcceptClient, FreeFds, Fds
    <3> QED  BY <3>1, LowestIn DEF FreeFds
  <2> HIDE DEF fd
  <2>3. \A e \in events : e.fd \in Fds => files'[e.fd] = files[e.fd]
    BY <2>1, <2>2 DEF Inv, TypeOK, BatchInv
  <2> QED  BY <2>1, <2>3 DEF BatchInv, Serving
<1>5. CASE \/ \E out \in 0 .. OutputCap, err \in BOOLEAN : ReadChunk(out, err)
           \/ \E n \in 1 .. SocketBuffer : Write(n)
  <2>1. /\ UNCHANGED <<events, client, files>> /\ Serving /\ Serving'
        /\ \/ \E out \in 0 .. OutputCap :
                 clients' = [clients EXCEPT ![client].out = out]
           \/ \E n \in 1 .. SocketBuffer :
                 clients' = [clients EXCEPT ![client].out = @ - n]
    BY <1>5 DEF ReadChunk, Write, loopVars, Serving
  <2>2. \A k \in Clients : clients'[k].fd = clients[k].fd
    BY <2>1 DEF Inv, TypeOK
  <2> QED  BY <2>1, <2>2, QuietBatch DEF Serving
<1>6. CASE Finish
  <2> DEFINE f == clients[client].fd
  <2>1. /\ UNCHANGED events /\ pc = "finish" /\ pc' = "next"
        /\ files' = files \/ files' = [files EXCEPT ![f] = NoConn]
    BY <1>6 DEF Finish, CloseClient, CloseFd
  <2>2. \A e \in events : e.fd # f
    BY <2>1 DEF BatchInv, Serving
  <2> HIDE DEF f
  <2>3. \A e \in events : e.fd \in Fds => files'[e.fd] = files[e.fd]
    BY <2>1, <2>2 DEF Inv, TypeOK
  <2> QED  BY <2>1, <2>3 DEF BatchInv, Serving
<1>7. CASE Exit
  BY <1>7 DEF Exit, BatchInv, Serving
<1>8. CASE PeerStep \/ UNCHANGED vars
  <2>1. UNCHANGED <<events, client, files, clients, pc>>
    BY <1>8 DEF PeerStep, Connect, Send, Shut, Reset, Drain, loopVars, tableVars,
                kernelVars, vars
  <2> QED  BY <2>1, QuietBatch DEF Serving
<1> QED  BY <1>1, <1>2, <1>3, <1>4, <1>5, <1>6, <1>7, <1>8 DEF Next, ServerStep

LEMMA BatchHolds == ASSUME Backend = "epoll" PROVE Spec => [](Inv /\ BatchInv)
<1>1. Init => Inv /\ BatchInv
  BY InitInv DEF Init, BatchInv, Serving
<1>2. Inv /\ BatchInv /\ [Next]_vars => (Inv /\ BatchInv)'
  BY NextInv, NextBatch
<1> QED  BY <1>1, <1>2, PTL DEF Spec

(* The events of the batch as io.h's promise sees them. *)
Pending == {<<e.fd, e.conn>> : e \in {x \in events : x.fd # Listener}}

(* Every step is a step of io.h's promise or leaves its variables alone.   *)
LEMMA IoStep ==
    ASSUME Backend = "epoll", Inv, BatchInv, [Next]_vars
    PROVE  [Io!IoNext]_(Io!ioVars)
<1> USE DEF Io!ioVars
<1>0. \A e \in events : e.fd # Listener =>
         e.fd \in Fds /\ e.conn \in Conns /\ files[e.fd] = e.conn
  BY DEF Inv, TypeOK, Event, BatchInv
<1>1. ASSUME UNCHANGED <<files, events>> PROVE UNCHANGED Io!ioVars
  BY <1>1
<1>2. CASE Wait
  <2>1. /\ events' \subseteq Ready /\ UNCHANGED files /\ events = {}
    BY <1>2 DEF Wait, kernelVars, BatchInv
  <2>2. Pending = {}
    BY <2>1 DEF Pending
  <2>3. \A e \in events' : e.fd # Listener =>
           e.fd \in Fds /\ files[e.fd] = e.conn /\ files[e.fd] # NoConn
    <3>1. events' \subseteq Event
      BY WaitKeeps, <1>2 DEF Inv, TypeOK
    <3> QED  BY <2>1, <3>1, ReadyEpoll DEF Event
  <2> DEFINE B == {e.fd : e \in {x \in events' : x.fd # Listener}}
  <2>4. B \in SUBSET {fd \in Fds : files[fd] # NoConn}
    BY <2>3
  <2>5. Pending' = {<<fd, files[fd]>> : fd \in B}
    BY <2>3, Zenon DEF Pending
  <2>6. Io!Wait
    BY <2>1, <2>2, <2>4, <2>5 DEF Io!Wait, Io!NotRegistered, NoConn, Pending
  <2> QED  BY <2>6 DEF Io!IoNext
<1>3. ASSUME NEW e \in events, Dispatch(e) PROVE [Io!IoNext]_(Io!ioVars)
  <2>1. events' = events \ {e} /\ UNCHANGED files
    BY <1>3 DEF Dispatch, kernelVars
  <2>2. CASE e.fd = Listener
    <3>1. Pending' = Pending
      BY <2>1, <2>2, Zenon DEF Pending
    <3> QED  BY <2>1, <3>1 DEF Pending
  <2>3. CASE e.fd # Listener
    <3> DEFINE p == <<e.fd, e.conn>>
    <3>1. p \in Pending
      BY <2>3 DEF Pending
    <3>2. files[p[1]] = p[2]
      BY <1>0, <2>3
    <3>3. \A g \in events : g # e => <<g.fd, g.conn>> # p
      BY DEF BatchInv
    <3>4. Pending' = Pending \ {p}
      BY <2>1, <2>3, <3>3, Zenon DEF Pending
    <3>5. Io!Handle(p)
      BY <2>1, <3>1, <3>2, <3>4 DEF Io!Handle, Pending
    <3> QED  BY <3>1, <3>5 DEF Io!IoNext, Pending
  <2> QED  BY <2>2, <2>3
<1>4. CASE AcceptClient
  <2> DEFINE fd == Lowest(FreeFds)
  <2>1. /\ files' = [files EXCEPT ![fd] = Head(backlog)] /\ UNCHANGED events
        /\ backlog # << >>
    BY <1>4 DEF AcceptClient, loopVars
  <2>2. fd \in Fds /\ files[fd] = NoConn /\ Head(backlog) \in Conns
    <3>1. FreeFds \subseteq Nat /\ FreeFds # {}
      BY <1>4 DEF AcceptClient, FreeFds, Fds
    <3> QED  BY <2>1, <3>1, LowestIn, HeadOfBacklog DEF FreeFds
  <2> HIDE DEF fd
  <2>3. Io!Add(fd, Head(backlog))
    BY <2>1, <2>2 DEF Io!Add, Io!NotRegistered, NoConn
  <2> QED  BY <2>2, <2>3 DEF Io!IoNext
<1>5. CASE Finish
  <2>1. clients[client].fd \in Fds
    BY <1>5, Handled DEF Finish
  <2>2. /\ UNCHANGED events
        /\ \/ UNCHANGED files
           \/ files' = [files EXCEPT ![clients[client].fd] = NoConn]
    BY <1>5 DEF Finish, CloseClient, CloseFd
  <2>3. CASE files' = [files EXCEPT ![clients[client].fd] = NoConn]
    <3>1. Io!Remove(clients[client].fd)
      BY <2>2, <2>3 DEF Io!Remove, Io!NotRegistered, NoConn
    <3> QED  BY <2>1, <3>1 DEF Io!IoNext
  <2> QED  BY <1>1, <2>2, <2>3
<1>6. CASE Exit
  <2>1. Io!Close
    BY <1>6 DEF Exit, Io!Close, Io!NotRegistered, NoConn
  <2> QED  BY <2>1 DEF Io!IoNext
<1>7. CASE \/ WaitFailed \/ Finished \/ BatchDone \/ AcceptNone \/ AcceptFailed
           \/ AcceptRefused \/ ReadDone \/ FlushDone
  <2>1. UNCHANGED <<files, events>>
    BY <1>7 DEF WaitFailed, Finished, BatchDone, AcceptNone, AcceptFailed,
                AcceptRefused, ReadDone, FlushDone, Goto, kernelVars, loopVars
  <2> QED  BY <1>1, <2>1
<1>8. CASE \/ \E out \in 0 .. OutputCap, err \in BOOLEAN : ReadChunk(out, err)
           \/ \E n \in 1 .. SocketBuffer : Write(n)
           \/ PeerStep
           \/ UNCHANGED vars
  <2>1. UNCHANGED <<files, events>>
    BY <1>8 DEF ReadChunk, Write, PeerStep, Connect, Send, Shut, Reset, Drain,
                loopVars, kernelVars, vars
  <2> QED  BY <1>1, <2>1
<1> QED  BY <1>2, <1>3, <1>4, <1>5, <1>6, <1>7, <1>8 DEF Next, ServerStep

(* With epoll, for any number of clients, descriptors and connections and  *)
(* any batch size: the server's use of its back end implements io.h's      *)
(* promise, so h2_find_client never takes an event for another connection  *)
(* than the one it was reported for.                                       *)
THEOREM EpollImplementsIo ==
    ASSUME Backend = "epoll" PROVE Spec => ImplementsIo
<1>1. Init => Io!IoInit
  BY DEF Init, Io!IoInit, Io!NotRegistered, NoConn
<1>2. Inv /\ BatchInv /\ [Next]_vars => [Io!IoNext]_(Io!ioVars)
  BY IoStep
<1> QED  BY <1>1, <1>2, BatchHolds, PTL DEF Spec, ImplementsIo, Io!IoSpec
=============================================================================
