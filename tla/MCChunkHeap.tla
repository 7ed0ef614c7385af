----------------------------- MODULE MCChunkHeap -----------------------------
(* Small instances of ChunkHeap for TLC. *)
EXTENDS ChunkHeap

MCSizes == {1, 2, 4, 9}
=============================================================================
