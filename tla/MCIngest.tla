------------------------------- MODULE MCIngest -------------------------------
(* A small instance of EventIngest for TLC. *)
EXTENDS EventIngest

=============================================================================
