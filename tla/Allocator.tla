------------------------------ MODULE Allocator ------------------------------
(***************************************************************************)
(* What mymalloc and myfree (umalloc.c) promise of one heap: a malloc      *)
(* hands out a block of the heap that shares no byte with a block still in *)
(* use, a block keeps its place and its length until it is freed, and a    *)
(* free gives back exactly one block.  A call that fails changes nothing.  *)
(***************************************************************************)
EXTENDS Naturals

CONSTANT Space      \* the bytes of the heap are 0 .. Space-1

VARIABLE live       \* the blocks in use: [at |-> first byte, len |-> bytes]

Blocks == {b \in [at : 0 .. Space, len : 0 .. Space] : b.at + b.len <= Space}

Disjoint(b, c) == b.at + b.len <= c.at \/ c.at + c.len <= b.at

Init == live = {}

Alloc(b) == /\ b \notin live
            /\ \A c \in live : Disjoint(b, c)
            /\ live' = live \cup {b}

Release(b) == /\ b \in live
              /\ live' = live \ {b}

Next == \E b \in Blocks : Alloc(b) \/ Release(b)

Spec == Init /\ [][Next]_live
=============================================================================
