------------------------------- MODULE MCShared -------------------------------
(* Instances of Shared for TLC: the timer may expire anywhere in a shalloc. *)
EXTENDS Shared

MCAnywhere == Steps
=============================================================================
