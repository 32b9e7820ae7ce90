------------------------------- MODULE H2Uring -------------------------------
(***************************************************************************)
(* The io_uring back end (io_uring.c): readiness from one-shot polls that  *)
(* h2_io_wait arms again, completions matched to registrations by a        *)
(* generation number, and h2_io_remove, which cancels an armed poll and    *)
(* puts the completions that it meets on the way aside.                    *)
(*                                                                         *)
(* The ring is shared with the kernel (external), which completes polls at *)
(* any time.  A call of the back end is split where it can block and at    *)
(* every completion it takes.  While h2_io_wait collects completions it    *)
(* does not look at newer ones (it has read the tail), so the kernel's     *)
(* steps can be taken as before or after that loop.                        *)
(*                                                                         *)
(* The back end is driven by the event loop: between two waits it handles  *)
(* each event of the batch by changing the interest in that event's        *)
(* descriptor or by removing it, registers new descriptors, and at the end *)
(* removes them all.  With CloseAny it may also remove a descriptor that   *)
(* the batch does not name, which io.h allows and server.c does not do     *)
(* before it stops.                                                        *)
(***************************************************************************)
EXTENDS Integers, FiniteSets, Sequences

CONSTANTS
    MaxFd,        \* descriptors; below H2_URING_MAX_FDS, 4096
    SqEntries,    \* H2_URING_ENTRIES, 256
    CqEntries,    \* the kernel gives twice as many, 512
    SavedCap,     \* H2_URING_SAVED_CQES, 256
    GenMod,       \* H2_URING_GENERATION_MASK + 1, 2^30
    EventCap,     \* events in one batch, 64
    NumRegs,      \* registrations made in a behaviour
    CloseAny

ASSUME UringAssumption ==
    /\ {MaxFd, SqEntries, CqEntries, SavedCap, GenMod, EventCap}
          \subseteq Nat \ {0}
    /\ NumRegs \in Nat
    /\ CloseAny \in BOOLEAN

Fds  == 1 .. MaxFd
NoFd == 0
Regs == 1 .. NumRegs
NotRegistered == 0

VARIABLES
    pc,          \* see PC below
    fd,          \* the descriptor of the event or the removal in progress
    closing,     \* h2_server_run has left its loop
    \* h2_uring_state
    fds,         \* used, active, generation and events of each descriptor
    saved,       \* pending_cqes
    head,        \* entries of cq put aside but not yet given back (draining)
    out_count,
    \* the kernel
    polls,       \* submitted polls that have not completed
    removal,     \* the descriptor of a POLL_REMOVE that was submitted
    cq,          \* the completion queue
    ready,       \* what each open descriptor is ready for
    \* history
    open,        \* the registration the server has for each descriptor
    regs,        \* registrations made so far
    batch        \* <<fd, registration>> of reported, unhandled events

PC == {"run", "handle", "enter", "collect", "drain"}
Interest == {{"in"}, {"in", "out"}}
FdState  == [used : BOOLEAN, active : BOOLEAN, generation : 0 .. GenMod - 1,
             events : SUBSET {"in", "out"}]
Poll     == [fd : Fds, generation : 0 .. GenMod - 1, events : Interest,
             cancelled : BOOLEAN, reg : Regs]
(* user_data of a completion is its kind, descriptor and generation. *)
Cqe      == [kind : {"poll", "cancel"}, fd : Fds,
             generation : 0 .. GenMod - 1,
             res : {"ready", "cancelled", "ok", "enoent"}, reg : Regs]

loopVars   == <<pc, fd, closing>>
stateVars  == <<fds, saved, head, out_count>>
kernelVars == <<polls, removal, cq, ready>>
history    == <<open, regs, batch>>
vars       == <<loopVars, stateVars, kernelVars, history>>

(* h2_io_init *)
Init ==
    /\ pc = "run" /\ fd = NoFd /\ closing = FALSE
    /\ fds = [f \in Fds |-> [used |-> FALSE, active |-> FALSE,
                             generation |-> 0, events |-> {}]]
    /\ saved = << >> /\ head = 0 /\ out_count = 0
    /\ polls = {} /\ removal = NoFd /\ cq = << >>
    /\ ready = [f \in Fds |-> {}]
    /\ open = [f \in Fds |-> NotRegistered] /\ regs = 0 /\ batch = {}

-----------------------------------------------------------------------------
(* Mutant: a descriptor keeps its generation. *)
SetFdSameGeneration(f, events) ==
    fds' = [fds EXCEPT ![f].used = TRUE, ![f].events = events]

(* h2_uring_set_fd with used: a descriptor that was not in use gets the    *)
(* next generation.                                                        *)
SetFd(f, events) ==
    fds' = [fds EXCEPT
        ![f].generation = IF fds[f].used THEN @ ELSE (@ + 1) % GenMod,
        ![f].used = TRUE,
        ![f].events = events]

(* accept and h2_io_add_connection, while the batch is handled *)
Add(f) ==
    /\ pc = "run" /\ ~closing
    /\ open[f] = NotRegistered /\ regs < NumRegs
    /\ SetFd(f, {"in"})
    /\ open' = [open EXCEPT ![f] = regs + 1]
    /\ regs' = regs + 1
    /\ ready' = [ready EXCEPT ![f] = {}]
    /\ UNCHANGED <<loopVars, saved, head, out_count, polls, removal, cq, batch>>

(* The server takes an event of the batch; it finds its client by the      *)
(* descriptor, or none.                                                    *)
Handle(e) ==
    /\ pc = "run" /\ ~closing
    /\ e \in batch /\ batch' = batch \ {e}
    /\ IF open[e[1]] = NotRegistered
       THEN UNCHANGED <<pc, fd>>
       ELSE pc' = "handle" /\ fd' = e[1]
    /\ UNCHANGED <<closing, stateVars, kernelVars, open, regs>>

(* The client is read and written, and h2_io_mod_connection follows. *)
HandleMod(events) ==
    /\ pc = "handle"
    /\ SetFd(fd, events)
    /\ \E r \in SUBSET ready[fd] : ready' = [ready EXCEPT ![fd] = r \ {"in"}]
    /\ pc' = "run" /\ fd' = NoFd
    /\ UNCHANGED <<closing, saved, head, out_count, polls, removal, cq, history>>

-----------------------------------------------------------------------------
(* h2_io_remove, followed by close.                                        *)

Matches(p, f) == p.fd = f /\ p.generation = fds[f].generation

Removable(f) ==
    \/ pc = "handle" /\ f = fd
    \/ /\ pc = "run" /\ (closing \/ CloseAny)
       /\ open[f] # NotRegistered /\ \A e \in batch : e[1] # f

Forget(f) ==
    /\ fds' = [fds EXCEPT ![f].used = FALSE, ![f].active = FALSE,
                          ![f].events = {}]
    /\ open' = [open EXCEPT ![f] = NotRegistered]
    /\ ready' = [ready EXCEPT ![f] = {}]
    /\ pc' = "run" /\ fd' = NoFd

(* No poll is outstanding: nothing to cancel. *)
RemoveInactive(f) ==
    /\ Removable(f) /\ ~fds[f].active
    /\ Forget(f)
    /\ UNCHANGED <<closing, saved, head, out_count, polls, removal, cq, regs,
                   batch>>

(* h2_uring_cancel_active_poll submits POLL_REMOVE *)
RemoveActive(f) ==
    /\ Removable(f) /\ fds[f].active
    /\ removal' = f
    /\ pc' = "drain" /\ fd' = f /\ head' = 0
    /\ UNCHANGED <<closing, fds, saved, out_count, polls, cq, ready, history>>

(* Mutant: a poll that had completed already is not an answer. *)
IsAnswerOk(c) ==
    /\ c.kind = "cancel" /\ c.fd = fd /\ c.res = "ok"
    /\ c.generation = fds[fd].generation

(* h2_uring_drain_until_cancel: an entry that is not the answer is put     *)
(* aside; a round that ends gives its entries back to the kernel.  The     *)
(* code ends a round at the tail it read when the round began.  Here the   *)
(* round goes on over what the kernel adds meanwhile, so that entries are  *)
(* held no shorter than in the code and the ring is no less full.          *)
IsAnswer(c) ==
    /\ c.kind = "cancel" /\ c.fd = fd
    /\ c.generation = fds[fd].generation

(* Mutant: the entries of a round are not given back. *)
DrainSaveAgain ==
    /\ pc = "drain" /\ head < Len(cq) /\ ~IsAnswer(cq[head + 1])
    /\ Len(saved) < SavedCap
    /\ saved' = Append(saved, cq[head + 1])
    /\ head' = (head + 1) % Len(cq)
    /\ UNCHANGED <<loopVars, fds, out_count, kernelVars, history>>

DrainSave ==
    /\ pc = "drain" /\ head < Len(cq) /\ ~IsAnswer(cq[head + 1])
    /\ Len(saved) < SavedCap
    /\ saved' = Append(saved, cq[head + 1])
    /\ IF head + 1 = Len(cq)
       THEN cq' = << >> /\ head' = 0
       ELSE head' = head + 1 /\ UNCHANGED cq
    /\ UNCHANGED <<loopVars, fds, out_count, polls, removal, ready, history>>

DrainAnswer ==
    /\ pc = "drain" /\ head < Len(cq) /\ IsAnswer(cq[head + 1])
    /\ cq' = SubSeq(cq, head + 2, Len(cq)) /\ head' = 0
    /\ Forget(fd)
    /\ UNCHANGED <<closing, saved, out_count, polls, removal, regs, batch>>

-----------------------------------------------------------------------------
(* h2_io_wait                                                              *)

MissingAll == {f \in Fds : fds[f].used}  \* mutant: armed polls are armed again
Missing == {f \in Fds : fds[f].used /\ ~fds[f].active}

(* h2_uring_submit_missing arms what is not armed, lowest descriptors      *)
(* first, as far as the submission queue reaches; then the call blocks     *)
(* unless the ring holds a completion.  Cancelled polls have completed by  *)
(* then: their task work runs at the latest when the close(2) that follows *)
(* a removal returns to the server.                                        *)
Submitted == {f \in Missing :
                 Cardinality({g \in Missing : g < f}) < SqEntries}

Wait ==
    /\ pc = "run" /\ ~closing /\ batch = {}
    /\ \A p \in polls : ~p.cancelled
    /\ polls' = polls \cup
          {[fd |-> f, generation |-> fds[f].generation,
            events |-> fds[f].events, cancelled |-> FALSE,
            reg |-> open[f]] : f \in Submitted}
    /\ fds' = [f \in Fds |-> IF f \in Submitted
                             THEN [fds[f] EXCEPT !.active = TRUE] ELSE fds[f]]
    /\ out_count' = 0
    /\ pc' = IF cq = << >> THEN "enter" ELSE "collect"
    /\ UNCHANGED <<fd, closing, saved, head, removal, cq, ready, history>>

(* h2_uring_wait_for_event: io_uring_enter returns. *)
Enter ==
    /\ pc = "enter" /\ cq # << >>
    /\ pc' = "collect"
    /\ UNCHANGED <<fd, closing, stateVars, kernelVars, history>>

(* Mutant: an old completion ends the current poll. *)
FinishCqeAnyGeneration(c) ==
    /\ fds' = [fds EXCEPT ![c.fd].active = FALSE]
    /\ IF /\ c.kind = "poll" /\ fds[c.fd].used
          /\ c.generation = fds[c.fd].generation
       THEN /\ batch' = batch \cup {<<c.fd, c.reg>>}
            /\ out_count' = out_count + 1
       ELSE UNCHANGED <<out_count, batch>>

(* Mutant: a poll that completed is still taken for active. *)
FinishCqeStaysActive(c) ==
    /\ IF /\ c.kind = "poll" /\ fds[c.fd].used
          /\ c.generation = fds[c.fd].generation
       THEN /\ batch' = batch \cup {<<c.fd, c.reg>>}
            /\ out_count' = out_count + 1
       ELSE UNCHANGED <<out_count, batch>>
    /\ UNCHANGED fds

(* h2_uring_finish_cqe: a completion of an older generation is dropped; a  *)
(* current one ends its poll and is an event if the descriptor is in use.  *)
FinishCqe(c) ==
    IF c.generation # fds[c.fd].generation
    THEN UNCHANGED <<fds, out_count, batch>>
    ELSE /\ fds' = [fds EXCEPT ![c.fd].active = FALSE]
         /\ IF c.kind = "poll" /\ fds[c.fd].used
            THEN /\ batch' = batch \cup {<<c.fd, c.reg>>}
                 /\ out_count' = out_count + 1
            ELSE UNCHANGED <<out_count, batch>>

(* h2_uring_finish_saved_cqes, then the ring itself, up to EventCap events *)
CollectSaved ==
    /\ pc = "collect" /\ out_count < EventCap /\ saved # << >>
    /\ FinishCqe(Head(saved))
    /\ saved' = Tail(saved)
    /\ UNCHANGED <<loopVars, head, kernelVars, open, regs>>

(* Mutant: the ring is emptied whatever the size of the batch. *)
CollectCqUncapped ==
    /\ pc = "collect" /\ saved = << >> /\ cq # << >>
    /\ FinishCqe(Head(cq))
    /\ cq' = Tail(cq)
    /\ UNCHANGED <<loopVars, saved, head, polls, removal, ready, open, regs>>

CollectCq ==
    /\ pc = "collect" /\ out_count < EventCap /\ saved = << >> /\ cq # << >>
    /\ FinishCqe(Head(cq))
    /\ cq' = Tail(cq)
    /\ UNCHANGED <<loopVars, saved, head, polls, removal, ready, open, regs>>

CollectDone ==
    /\ pc = "collect"
    /\ out_count = EventCap \/ (saved = << >> /\ cq = << >>)
    /\ pc' = "run"
    /\ UNCHANGED <<fd, closing, stateVars, kernelVars, history>>

-----------------------------------------------------------------------------
(* h2_server_run stops: it removes its clients and waits no more. *)
Stop ==
    /\ pc = "run" /\ ~closing /\ batch = {}
    /\ closing' = TRUE
    /\ UNCHANGED <<pc, fd, stateVars, kernelVars, history>>

(* The kernel (external). *)
BecomeReady(f, what) ==
    /\ pc # "collect"
    /\ open[f] # NotRegistered /\ what \notin ready[f]
    /\ ready' = [ready EXCEPT ![f] = @ \cup {what}]
    /\ UNCHANGED <<loopVars, stateVars, polls, removal, cq, history>>

(* POLL_REMOVE finds the poll armed, or completed already; a poll that it  *)
(* cancels completes by itself.                                            *)
AnswerRemoval ==
    /\ removal # NoFd
    /\ LET f     == removal
           found == {p \in polls : Matches(p, f) /\ ~p.cancelled}
       IN  /\ polls' = {IF p \in found THEN [p EXCEPT !.cancelled = TRUE]
                        ELSE p : p \in polls}
           /\ cq' = Append(cq,
                 [kind |-> "cancel", fd |-> f,
                  generation |-> fds[f].generation, reg |-> open[f],
                  res |-> IF found = {} THEN "enoent" ELSE "ok"])
    /\ removal' = NoFd
    /\ UNCHANGED <<loopVars, stateVars, ready, history>>

Complete(p) ==
    /\ pc # "collect" /\ p \in polls
    /\ p.cancelled \/ p.events \cap ready[p.fd] # {}
    /\ polls' = polls \ {p}
    /\ cq' = Append(cq, [kind |-> "poll", fd |-> p.fd,
                         generation |-> p.generation, reg |-> p.reg,
                         res |-> IF p.cancelled THEN "cancelled" ELSE "ready"])
    /\ UNCHANGED <<loopVars, stateVars, removal, ready, history>>

-----------------------------------------------------------------------------
ServerStep ==
    \/ \E e \in batch : Handle(e)
    \/ \E events \in Interest : HandleMod(events)
    \/ \E f \in Fds : pc = "handle" /\ RemoveInactive(f)
    \/ DrainSave \/ DrainAnswer
    \/ Wait \/ Enter \/ CollectSaved \/ CollectCq \/ CollectDone

Next ==
    \/ ServerStep
    \/ \E f \in Fds : Add(f) \/ RemoveInactive(f) \/ RemoveActive(f)
    \/ Stop
    \/ \E f \in Fds, what \in {"in", "out"} : BecomeReady(f, what)
    \/ AnswerRemoval
    \/ \E p \in polls : Complete(p)

Spec == Init /\ [][Next]_vars

(* The server runs on, and the kernel completes a poll that can complete.  *)
(* That fairness is strong only because the kernel's steps are taken       *)
(* outside of the collecting loop, which comes to an end.                  *)
CompleteFd(f) == \E p \in polls : p.fd = f /\ Complete(p)

FairSpec == /\ Spec
            /\ WF_vars(ServerStep)
            /\ WF_vars(AnswerRemoval)
            /\ \A f \in Fds : SF_vars(CompleteFd(f))

-----------------------------------------------------------------------------
(* Properties.                                                             *)

TypeOK ==
    /\ pc \in PC /\ fd \in Fds \cup {NoFd} /\ closing \in BOOLEAN
    /\ fds \in [Fds -> FdState]
    /\ saved \in Seq(Cqe) /\ head \in Nat /\ out_count \in 0 .. EventCap
    /\ polls \subseteq Poll /\ removal \in Fds \cup {NoFd} /\ cq \in Seq(Cqe)
    /\ ready \in [Fds -> SUBSET {"in", "out"}]
    /\ open \in [Fds -> Regs \cup {NotRegistered}] /\ regs \in 0 .. NumRegs
    /\ batch \subseteq Fds \X Regs

(* Completions of descriptor f's current generation that the server has    *)
(* not seen, and polls that will become one.                               *)
IsPollOf(c, f) == c.kind = "poll" /\ Matches(c, f)
Outstanding(f) ==
    Cardinality({p \in polls : Matches(p, f)})
    + Cardinality({i \in head + 1 .. Len(cq) : IsPollOf(cq[i], f)})
    + Cardinality({i \in DOMAIN saved : IsPollOf(saved[i], f)})

(* active means what it says: a registered descriptor is marked active iff *)
(* exactly one poll of its generation is on its way, armed, completed or   *)
(* put aside.  Otherwise h2_uring_submit_missing would arm a second poll,  *)
(* or never arm one again.                                                 *)
PollTracked ==
    \A f \in Fds :
        fds[f].used => Outstanding(f) = IF fds[f].active THEN 1 ELSE 0

(* "every unrelated CQE fits in the deferred buffer": h2_uring_save_cqe    *)
(* never finds pending_cqes full.                                          *)
SavedFits ==
    pc = "drain" /\ head < Len(cq) /\ ~IsAnswer(cq[head + 1])
    => Len(saved) < SavedCap

(* The completion queue never fills, so the kernel cannot write the entry  *)
(* whose res h2_uring_drain_until_cancel reads after giving it back.       *)
CqRoom == Len(cq) + Cardinality(polls) <= CqEntries

(* The back end implements io.h's promise: every event is for a descriptor *)
(* as it is registered now, although completions of earlier registrations  *)
(* of the same number are still on their way.                              *)
Io == INSTANCE H2Io WITH
    Fds <- Fds, Registrations <- Regs, registered <- open,
    batch <- IF pc = "collect" THEN {} ELSE batch

ImplementsIo == Io!IoSpec

(* A registered descriptor that is ready for what the server wants of it   *)
(* is reported, unless the server serves it before, removes it or stops:   *)
(* no completion is lost, whatever removals and numbers used again come    *)
(* between.  The one exception is a completion that a removal has put      *)
(* aside: h2_io_wait looks at the ring alone before it blocks, and may     *)
(* sleep on it.  server.c removes armed descriptors only when it stops, so *)
(* nothing is put aside while it waits.                                    *)
Due(f) == open[f] # NotRegistered /\ ready[f] \cap fds[f].events # {}

Delivered ==
    \A f \in Fds :
        Due(f) ~> \/ <<f, open[f]>> \in batch \/ saved # << >>
                  \/ ~Due(f) \/ closing

(* h2_io_remove returns, so that the server can stop. *)
RemoveReturns == pc = "drain" ~> pc = "run"
=============================================================================
