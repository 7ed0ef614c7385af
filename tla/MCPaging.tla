------------------------------- MODULE MCPaging -------------------------------
EXTENDS Paging

MCLib == -3

(* Thread 4 and the library fill their pages, main does not. *)
MCDense == {4, MCLib}
=============================================================================
