-------------------------------- MODULE H2Io --------------------------------
(***************************************************************************)
(* What the epoll and io_uring back ends of io.h promise the server: a     *)
(* batch of h2_io_wait names only descriptors that are registered, each at *)
(* most once, and by the time the server comes to an event its descriptor  *)
(* is either still the registration that the event was reported for or not *)
(* registered at all.  The server looks its client up by the descriptor    *)
(* number alone (h2_find_client), so an event that survives its            *)
(* registration would be taken for one of the next owner of the number.    *)
(* kqueue reports a descriptor's read and write events apart and does not  *)
(* keep this promise; the loop gets by without it (CloseCause of H2Server). *)
(***************************************************************************)
EXTENDS Naturals

CONSTANTS
    Fds,            \* descriptor numbers
    Registrations   \* names of registrations, one per h2_io_add_connection

VARIABLES
    registered,     \* the registration of each descriptor, or NotRegistered
    batch           \* <<fd, registration>> of reported, unhandled events

ioVars == <<registered, batch>>

NotRegistered == 0

IoTypeOK ==
    /\ registered \in [Fds -> Registrations \cup {NotRegistered}]
    /\ batch \subseteq Fds \X Registrations

IoInit ==
    /\ registered = [fd \in Fds |-> NotRegistered]
    /\ batch = {}

(* h2_io_add_listener, h2_io_add_connection *)
Add(fd, r) ==
    /\ registered[fd] = NotRegistered
    /\ registered' = [registered EXCEPT ![fd] = r]
    /\ UNCHANGED batch

(* h2_io_remove *)
Remove(fd) ==
    /\ registered' = [registered EXCEPT ![fd] = NotRegistered]
    /\ UNCHANGED batch

(* h2_io_wait *)
Wait ==
    /\ batch = {}
    /\ \E B \in SUBSET {fd \in Fds : registered[fd] # NotRegistered} :
          batch' = {<<fd, registered[fd]>> : fd \in B}
    /\ UNCHANGED registered

(* The server takes the next event of the batch. *)
Handle(e) ==
    /\ e \in batch
    /\ registered[e[1]] \in {e[2], NotRegistered}
    /\ batch' = batch \ {e}
    /\ UNCHANGED registered

(* h2_io_close *)
Close ==
    /\ registered' = [fd \in Fds |-> NotRegistered]
    /\ UNCHANGED batch

IoNext ==
    \/ \E fd \in Fds, r \in Registrations : Add(fd, r)
    \/ \E fd \in Fds : Remove(fd)
    \/ Wait
    \/ \E e \in batch : Handle(e)
    \/ Close

IoSpec == IoInit /\ [][IoNext]_ioVars
=============================================================================
