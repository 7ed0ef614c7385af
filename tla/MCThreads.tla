----------------------------- MODULE MCThreads -----------------------------
(* Instances of Threads for TLC.                                            *)
EXTENDS Threads

\* Who takes mutexes and who joins: the workers lock and main joins every
\* worker, as in the tests; or the workers ask to join themselves, too.
MCWorkersLock == Workers
MCMainJoins == {Main} \X Workers
MCSelfJoins == MCMainJoins \cup {<<u, u>> : u \in Workers}

\* The workers are interchangeable.
MCSymmetry == Permutations(Workers)
=============================================================================
