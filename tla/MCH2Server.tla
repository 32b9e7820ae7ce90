----------------------------- MODULE MCH2Server -----------------------------
(* Model checking of the event loop; every bound is a constant of H2Server. *)
EXTENDS H2Server
=============================================================================
