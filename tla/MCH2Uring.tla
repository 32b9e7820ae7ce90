------------------------------ MODULE MCH2Uring ------------------------------
(* Model checking of the io_uring back end; the bounds are its constants. *)
EXTENDS H2Uring
=============================================================================
