---------------------------- MODULE ThreadsProofs ----------------------------
(***************************************************************************)
(* Theorems about Threads for any number of threads, mutexes, calls and    *)
(* preemptions, wherever the timer expires, and whoever locks and joins.   *)
(* The state is typed always.  What the library promises holds until       *)
(* something gets past its protection: each layer of the inductive         *)
(* invariant, Inv, is guarded by the cuts that end it.                     *)
(***************************************************************************)
EXTENDS ThreadsListProofs, FiniteSetTheorems

(* The queue has main in it once it exists. *)
QueueInv ==
  /\ queue # <<>> => Main \in Alive
  /\ queue = <<>> => mode = "run" /\ running = Main /\ at[Main] = User /\ exited = {}

(* The head of the queue runs, or a thread that has left the queue and is   *)
(* about to return; a context holds the execution of its thread, or of one  *)
(* that is about to return.                                                 *)
ProcInv ==
  /\ mode = "run" /\ queue # <<>> => running = me \/ at[running].op = "exiting"
  /\ mode # "lost" => \A t \in Threads : /\ context[t] \in Threads
                                         /\ context[t] = t \/ at[context[t]].op = "exiting"

(* What the places of the calls say of their arguments and of who has ended. *)
UnlockOps == {"undoing", "unlock", "unlocking", "unlocked"}
MutexOps == Protected \cup UnlockOps \cup {"lined", "waiting"}
CallInv ==
  \A t \in Threads :
    /\ at[t].op \in MutexOps => at[t].arg \in inited /\ t \in Lockers
    /\ at[t].op \in {"join", "joining"} => at[t].arg \in Workers \cap Created
    /\ t \in exited <=> at[t].op \in {"exit", "exiting"}
    /\ at[t].op = "exiting" => t \notin Alive
    /\ tcb[t].waitingToEnd # None => tcb[t].waitingToEnd \in Created
    /\ at[t].op = "joining" => tcb[t].waitingToEnd = at[t].arg \/ at[t].arg \in exited

Base == TypeOK /\ QueueInv /\ ProcInv /\ CallInv

(* What the library's protection is worth: while it is on, the head of the  *)
(* queue is in a call of lock, and the scheduler goes back to it.           *)
LibInv ==
  lib /\ mode # "lost" => /\ mode \in {"run", "sched"} /\ queue # <<>>
                          /\ running = me /\ at[running].op \in Protected
                          /\ mode = "sched" => context[me] = me

(* Who runs, or is about to go on in a call of lock, waits for no thread. *)
Unwaiting ==
  mode = "run" \/ (mode = "sched" /\ lib) => tcb[running].waitingToEnd = None

(* Only who is in join waits for a thread; a join that returned did so       *)
(* after the end.                                                            *)
ReturnInv ==
  /\ Unwaiting
  /\ \A t \in Threads : tcb[t].waitingToEnd # None => at[t].op = "joining"
  /\ JoinedEnded

(* Who waits for whom. *)
JoinInv ==
  /\ Unwaiting
  /\ \A t \in Threads : at[t].op \in {"join", "exit"} => t = running /\ mode = "run"
  /\ \A t \in Threads :
       LET u == tcb[t].waitingToEnd IN
       u # None => /\ at[t].op = "joining" /\ at[t].arg = u /\ t # u /\ t \in Alive /\ u \in Alive
                   /\ \A v \in Threads : tcb[v].waitingToEnd = u => v = t
  /\ \A t \in Threads :
       /\ at[t].op = "join" => /\ at[t].arg \in Alive /\ at[t].arg # t
                               /\ \A v \in Threads : tcb[v].waitingToEnd # at[t].arg
       /\ at[t].op = "exit" => \A v \in Threads : tcb[v].waitingToEnd # t

(* Where a call of lock or unlock may be interrupted. *)
PlaceInv ==
  /\ \A t \in Threads :
       /\ at[t].op \in Protected => t = running /\ (mode = "run" \/ lib)
       /\ at[t].op \in UnlockOps => t = running /\ mode = "run"
  /\ mode = "run" /\ at[running].op \in Protected => lib \/ struck
  /\ mode = "sched" /\ lib => struck
  /\ mode = "run" /\ at[running].op = "waiting" => mutex[at[running].arg].owner = running

(* The flag, the owner, the control blocks and the calls agree. *)
AtOp(t, op, m) == at[t].op = op /\ at[t].arg = m
AtOps(t, ops, m) == at[t].op \in ops /\ at[t].arg = m
LineOps == {"lined", "waiting"}
OwnOps == {"owned", "locked", "unlocking", "unlocked"}
Agree(t, m) ==
  /\ AtOps(t, {"locking", "owning"}, m) => mutex[m].flag /\ mutex[m].owner = None
  /\ ~ AtOp(t, "overriding", m)
  /\ AtOps(t, OwnOps, m) => mutex[m].owner = t
  /\ AtOps(t, {"owned", "locked", "unlock", "unlocking"}, m) => mutex[m].flag
  /\ AtOp(t, "asking", m) => tcb[t].mutex = m /\ mutex[m].owner # t
  /\ AtOps(t, LineOps, m) => tcb[t].mutex = m
  /\ AtOp(t, "undoing", m) => mutex[m].owner = None
  /\ mutex[m].owner = t => /\ m \in inited
                           /\ mutex[m].flag \/ AtOp(t, "unlocked", m)
                           /\ t \in holders[m] \/ AtOps(t, OwnOps \cup LineOps \cup {"unlock"}, m)
  /\ t \in holders[m] => /\ mutex[m].flag /\ mutex[m].owner = t
                         /\ ~ AtOps(t, UnlockOps, m)
  /\ tcb[t].mutex = m => mutex[m].owner = t \/ AtOps(t, LineOps \cup {"asking"}, m)

MutexInv == \A t \in Threads, m \in Mutexes : Agree(t, m)

(* The waiting list: the blank node, or the threads that wait. *)
Nodes == [threadId : Threads \cup {None}, mutex : Mutexes \cup {None}]
Copies == [threadId : Threads, mutex : Mutexes]
Waits(t, m) == AtOps(t, LineOps, m) /\ mutex[m].owner # t
InLine(t, m) == [threadId |-> t, mutex |-> m] \in Range(waitList)
OncePerThread(w) == \A i, j \in DOMAIN w : w[i].threadId = w[j].threadId => i = j

ListInv ==
  /\ listed = None => inited = {} /\ waitList = <<>>
  /\ waitList = <<Blank>> \/ Range(waitList) \subseteq Copies
  /\ OncePerThread(waitList)
  /\ \A t \in Threads, m \in Mutexes : InLine(t, m) <=> Waits(t, m)

(* A thread whose join waited, and waits no more, finds the value of the    *)
(* thread that ended where it wants it.                                     *)
HasValue(t) ==
  LET loc == tcb[t].joinReturnLocation
  IN  at[t].op = "joining" /\ tcb[t].waitingToEnd = None /\ loc # None
        => results[t][loc] = at[t].arg

ValueInv == /\ results \in [Threads -> [Workers -> Workers \cup {None}]]
            /\ \A t \in Threads : HasValue(t)

(* What holds until something gets past the protection of the library. *)
Inv ==
  /\ Base
  /\ "null" \notin cuts => LibInv
  /\ cuts \cap {"null", "alone"} = {} => ReturnInv
  /\ cuts \cap JoinCuts = {} => JoinInv /\ ValueInv
  /\ cuts \cap MutexCuts = {} => PlaceInv /\ MutexInv /\ ListInv
  /\ cuts \cap ContextCuts = {} => \A t \in Threads : context[t] = t

-----------------------------------------------------------------------------
(* What the lists of a state are, and what the operators on them return.   *)
LEMMA QueueFacts ==
  ASSUME TypeOK
  PROVE  /\ Alive \subseteq Threads /\ NoTwice(queue)
         /\ queue # <<>> => /\ me \in Alive
                            /\ Tail(queue) \in Seq(Threads) /\ NoTwice(Tail(queue))
                            /\ Range(Tail(queue)) = Alive \ {me}
                            /\ Len(queue) = 1 => Alive = {me}
  <1>1. queue \in Seq(Threads) /\ NoTwice(queue)
    BY DEF TypeOK, NoTwice
  <1>2. Alive \subseteq Threads
    <2>1. DOMAIN queue = 1 .. Len(queue) /\ \A i \in 1 .. Len(queue) : queue[i] \in Threads
      BY <1>1, LenProperties
    <2> QED
      BY <2>1 DEF Alive, Range
  <1>3. ASSUME queue # <<>>
        PROVE  /\ me \in Alive
               /\ Tail(queue) \in Seq(Threads) /\ NoTwice(Tail(queue))
               /\ Range(Tail(queue)) = Alive \ {me}
               /\ Len(queue) = 1 => Alive = {me}
    <2>1. /\ Tail(queue) \in Seq(Threads) /\ IsRemoved(Tail(queue), queue, 1)
          /\ 1 \in DOMAIN queue /\ queue[1] = me /\ me \in Alive
      BY <1>1, <1>3, TailIs DEF Alive, me
    <2>2. DOMAIN queue = 1 .. Len(queue) /\ Len(queue) \in Nat
      BY <1>1, LenProperties
    <2>3. NoTwice(Tail(queue)) /\ Range(Tail(queue)) = Alive \ {me}
      BY <1>1, <2>1, <2>2, Removed DEF Alive
    <2>4. ASSUME Len(queue) = 1 PROVE Alive = {me}
      <3>1. DOMAIN queue = {1}
        BY <2>2, <2>4
      <3> QED
        BY <3>1, <2>1 DEF Alive, Range
    <2> QED
      BY <2>1, <2>3, <2>4
  <1> QED
    BY <1>1, <1>2, <1>3

(* A longer quantum changes nothing else in the control blocks.            *)
LEMMA LongerIs ==
  ASSUME TypeOK, NEW t \in Threads
  PROVE  /\ Longer(tcb, t) \in [Threads -> [mutex : Mutexes \cup {None},
                       waitingToEnd : Threads \cup {None},
                       joinReturnLocation : Workers \cup {None}, numQuantum : Nat]]
         /\ \A u \in Threads : /\ Longer(tcb, t)[u].mutex = tcb[u].mutex
                               /\ Longer(tcb, t)[u].waitingToEnd = tcb[u].waitingToEnd
  <1> DEFINE Block == [mutex : Mutexes \cup {None}, waitingToEnd : Threads \cup {None},
                       joinReturnLocation : Workers \cup {None}, numQuantum : Nat]
             l == Longer(tcb, t)
  <1>1. tcb \in [Threads -> Block]
    BY DEF TypeOK
  <1>2. l = [tcb EXCEPT ![t] = [tcb[t] EXCEPT !.numQuantum = @ + 1]]
    BY <1>1 DEF Longer
  <1>3. [tcb[t] EXCEPT !.numQuantum = @ + 1] \in Block
    BY <1>1
  <1>4. l \in [Threads -> Block]
    BY <1>1, <1>2, <1>3
  <1>5. \A u \in Threads : l[u].mutex = tcb[u].mutex /\ l[u].waitingToEnd = tcb[u].waitingToEnd
    BY <1>1, <1>2
  <1> QED
    BY <1>4, <1>5

(* The head sorted back into the queue: the same threads, none twice.      *)
LEMMA RotatedIs ==
  ASSUME TypeOK, queue # <<>>
  PROVE  /\ Rotated \in Seq(Threads) /\ NoTwice(Rotated) /\ Range(Rotated) = Alive
         /\ Rotated # <<>> /\ Head(Rotated) \in Alive
  <1>1. /\ me \in Alive /\ me \in Threads
        /\ Tail(queue) \in Seq(Threads) /\ NoTwice(Tail(queue))
        /\ Range(Tail(queue)) = Alive \ {me}
    BY QueueFacts
  <1>2. Quantum(Longer(tcb, me)) \in [Threads -> Nat]
    <2>1. Longer(tcb, me) \in [Threads -> [mutex : Mutexes \cup {None},
                       waitingToEnd : Threads \cup {None},
                       joinReturnLocation : Workers \cup {None}, numQuantum : Nat]]
      BY <1>1, LongerIs
    <2> QED
      BY <2>1 DEF Quantum
  <1>3. me \notin Range(Tail(queue))
    BY <1>1
  <1>4. /\ Rotated \in Seq(Threads) /\ Len(Rotated) = Len(Tail(queue)) + 1
        /\ NoTwice(Rotated) /\ Range(Rotated) = Range(Tail(queue)) \cup {me}
    BY <1>1, <1>2, <1>3, SortedIn DEF Rotated
  <1>5. Rotated # <<>>
    BY <1>1, <1>4, LenProperties, EmptySeq
  <1>6. Head(Rotated) \in Range(Rotated)
    BY <1>4, <1>5, TailIs
  <1> QED
    BY <1>1, <1>4, <1>5, <1>6

(* llNodeFindWaitingForJoin finds a thread that waits, if one does.        *)
LEMMA WaiterIs ==
  ASSUME TypeOK, NEW u
  PROVE  /\ Waiter(u) = None => \A t \in Alive : tcb[t].waitingToEnd # u
         /\ Waiter(u) # None => Waiter(u) \in Alive /\ tcb[Waiter(u)].waitingToEnd = u
  <1> DEFINE places == {i \in DOMAIN queue : tcb[queue[i]].waitingToEnd = u}
  <1>1. DOMAIN queue = 1 .. Len(queue) /\ Len(queue) \in Nat
        /\ \A i \in DOMAIN queue : queue[i] \in Threads /\ queue[i] \in Alive
    BY LenProperties DEF TypeOK, Alive, Range
  <1>2. CASE places = {}
    <2>1. Waiter(u) = None
      BY <1>2 DEF Waiter
    <2> QED
      BY <1>2, <2>1 DEF Alive, Range
  <1>3. CASE places # {}
    <2>1. Waiter(u) = queue[Min(places)]
      BY <1>3 DEF Waiter
    <2>2. places \subseteq Nat
      BY <1>1
    <2>3. Min(places) \in places
      BY <1>3, <2>2, MinExists
    <2>4. Waiter(u) \in Alive /\ Waiter(u) \in Threads /\ tcb[Waiter(u)].waitingToEnd = u
      BY <1>1, <2>1, <2>3
    <2> QED
      BY <2>4, ThreadsAssumption DEF ThreadsAssumption
  <1> QED
    BY <1>2, <1>3

(* Printing the queue may set a flag, and changes no owner.                *)
LEMMA PrintedIs ==
  ASSUME TypeOK
  PROVE  /\ Printed(mutex) \in [Mutexes -> [flag : BOOLEAN, owner : Threads \cup {None}]]
         /\ \A m \in Mutexes : /\ Printed(mutex)[m].owner = mutex[m].owner
                               /\ mutex[m].flag => Printed(mutex)[m].flag
  <1> DEFINE set == [mutex EXCEPT ![listed].flag = TRUE]
             Record == [flag : BOOLEAN, owner : Threads \cup {None}]
  <1>1. mutex \in [Mutexes -> Record]
    BY DEF TypeOK
  <1>2. set \in [Mutexes -> Record]
    <2>1. [mutex[listed] EXCEPT !.flag = TRUE] \in Record \/ listed \notin Mutexes
      BY <1>1
    <2> QED
      BY <1>1, <2>1
  <1>3. \A m \in Mutexes : set[m].owner = mutex[m].owner /\ (mutex[m].flag => set[m].flag)
    BY <1>1
  <1>4. Printed(mutex) = set \/ Printed(mutex) = mutex
    BY DEF Printed
  <1> HIDE DEF set
  <1> QED
    BY <1>1, <1>2, <1>3, <1>4

(* A list without the copy of a thread. *)
LEMMA DequeuedIs ==
  ASSUME TypeOK, ListInv, NEW t \in Threads
  PROVE  /\ Dequeued(t) \in Seq(Nodes) /\ OncePerThread(Dequeued(t))
         /\ waitList = <<>> => Dequeued(t) = <<>>
         /\ Dequeued(t) = <<Blank>> \/ Range(Dequeued(t)) \subseteq Copies
         /\ \A u \in Threads, m \in Mutexes :
              [threadId |-> u, mutex |-> m] \in Range(Dequeued(t)) <=> InLine(u, m) /\ u # t
  <1> DEFINE places == {i \in DOMAIN waitList : waitList[i].threadId = t}
             w == Dequeued(t)
  <1>1. /\ waitList \in Seq(Nodes) /\ OncePerThread(waitList)
        /\ DOMAIN waitList = 1 .. Len(waitList) /\ Len(waitList) \in Nat
    BY LenProperties DEF TypeOK, ListInv, Nodes
  <1>2. CASE places = {}
    <2>1. w = waitList
      BY <1>2 DEF Dequeued
    <2>2. \A u \in Threads, m \in Mutexes : InLine(u, m) => u # t
      BY <1>2 DEF InLine, Range
    <2> QED
      BY <1>1, <2>1, <2>2 DEF ListInv, InLine
  <1>3. CASE places # {}
    <2> DEFINE p == Min(places)
    <2>1. w = RemoveAt(waitList, p)
      BY <1>3 DEF Dequeued
    <2>2. places \subseteq Nat
      BY <1>1
    <2>3. p \in places
      BY <1>3, <2>2, MinExists
    <2> HIDE DEF p
    <2>4. p \in 1 .. Len(waitList) /\ waitList[p].threadId = t
      BY <1>1, <2>3
    <2>5. w \in Seq(Nodes) /\ IsRemoved(w, waitList, p)
      BY <1>1, <2>1, <2>4, RemoveAtIs
    <2>6. DOMAIN w = 1 .. Len(waitList) - 1
      BY <1>1, <2>5, LenProperties DEF IsRemoved
    <2> DEFINE to(i) == IF i < p THEN i ELSE i + 1
    <2>7. \A i \in DOMAIN w : to(i) \in DOMAIN waitList /\ to(i) # p /\ w[i] = waitList[to(i)]
      BY <1>1, <2>4, <2>5, <2>6 DEF IsRemoved
    <2> HIDE DEF w
    <2>8. OncePerThread(w)
      <3> SUFFICES ASSUME NEW i \in DOMAIN w, NEW j \in DOMAIN w, w[i].threadId = w[j].threadId
                   PROVE  i = j
        BY DEF OncePerThread
      <3>1. to(i) = to(j)
        BY <1>1, <2>7 DEF OncePerThread
      <3> QED
        BY <3>1, <2>4, <2>6
    <2> HIDE DEF to
    <2>9. /\ Range(w) \subseteq Range(waitList)
          /\ \A i \in DOMAIN waitList : i # p => waitList[i] \in Range(w)
      BY <1>1, <2>4, <2>5, Removed
    <2>10. \A c \in Range(w) : c.threadId # t
      <3>1. \A i \in DOMAIN w : waitList[to(i)].threadId # t
        BY <1>1, <2>4, <2>7 DEF OncePerThread
      <3> QED
        BY <2>7, <3>1 DEF Range
    <2>11. \A u \in Threads, m \in Mutexes :
             [threadId |-> u, mutex |-> m] \in Range(w) <=> InLine(u, m) /\ u # t
      <3> SUFFICES ASSUME NEW u \in Threads, NEW m \in Mutexes
                   PROVE  [threadId |-> u, mutex |-> m] \in Range(w) <=> InLine(u, m) /\ u # t
        OBVIOUS
      <3>1. ASSUME [threadId |-> u, mutex |-> m] \in Range(w) PROVE InLine(u, m) /\ u # t
        BY <3>1, <2>9, <2>10 DEF InLine
      <3>2. ASSUME InLine(u, m), u # t PROVE [threadId |-> u, mutex |-> m] \in Range(w)
        <4>1. PICK i \in DOMAIN waitList : waitList[i] = [threadId |-> u, mutex |-> m]
          BY <3>2 DEF InLine, Range
        <4>2. i # p
          BY <4>1, <2>4, <3>2
        <4> QED
          BY <4>1, <4>2, <2>9
      <3> QED
        BY <3>1, <3>2
    <2>12. waitList # <<Blank>>
      <3>1. None \notin Threads
        BY ThreadsAssumption DEF ThreadsAssumption
      <3>2. SUFFICES ASSUME waitList = <<Blank>> PROVE FALSE
        OBVIOUS
      <3>3. p = 1
        BY <2>4, <3>2
      <3>4. waitList[1].threadId = None
        BY <3>2 DEF Blank
      <3> QED
        BY <2>4, <3>1, <3>3, <3>4
    <2>13. waitList # <<>>
      BY <2>4, <1>1
    <2> QED
      BY <2>5, <2>8, <2>9, <2>11, <2>12, <2>13 DEF w, ListInv
  <1> QED
    BY <1>2, <1>3

(* A list with the copy of a thread that is not in it. *)
LEMMA EnqueuedIs ==
  ASSUME TypeOK, ListInv, NEW m \in Mutexes, me \in Threads,
         \A n \in Mutexes : ~ InLine(me, n)
  PROVE  /\ Enqueued(m) \in Seq(Nodes) /\ OncePerThread(Enqueued(m))
         /\ Range(Enqueued(m)) \subseteq Copies
         /\ \A u \in Threads, n \in Mutexes :
              [threadId |-> u, mutex |-> n] \in Range(Enqueued(m))
                <=> InLine(u, n) \/ (u = me /\ n = m)
  <1> DEFINE copy == [threadId |-> me, mutex |-> m]
  <1>1. /\ waitList \in Seq(Nodes) /\ OncePerThread(waitList) /\ copy \in Nodes /\ copy \in Copies
        /\ DOMAIN waitList = 1 .. Len(waitList) /\ Len(waitList) \in Nat
    BY LenProperties DEF TypeOK, ListInv, Nodes, Copies
  <1>2. CASE waitList = <<Blank>>
    <2>1. Enqueued(m) = <<copy>>
      BY <1>2 DEF Enqueued
    <2>2. Range(<<copy>>) = {copy} /\ OncePerThread(<<copy>>) /\ Range(waitList) = {Blank}
      BY <1>2 DEF Range, OncePerThread
    <2>3. <<copy>> \in Seq(Nodes)
      BY <1>1
    <2>4. \A u \in Threads, n \in Mutexes : ~ InLine(u, n)
      BY <2>2, ThreadsAssumption DEF InLine, Blank, ThreadsAssumption
    <2> QED
      BY <1>1, <2>1, <2>2, <2>3, <2>4
  <1>3. CASE waitList # <<Blank>>
    <2>1. Enqueued(m) = Append(waitList, copy)
      BY <1>3 DEF Enqueued
    <2>2. /\ Enqueued(m) \in Seq(Nodes) /\ Range(Enqueued(m)) = Range(waitList) \cup {copy}
          /\ DOMAIN Enqueued(m) = 1 .. Len(waitList) + 1
          /\ \A i \in 1 .. Len(waitList) : Enqueued(m)[i] = waitList[i]
          /\ Enqueued(m)[Len(waitList) + 1] = copy
      BY <1>1, <2>1, AppendIs
    <2>3. Range(waitList) \subseteq Copies
      BY <1>3 DEF ListInv
    <2>4. \A i \in DOMAIN waitList : waitList[i].threadId # me
      <3> SUFFICES ASSUME NEW i \in DOMAIN waitList, waitList[i].threadId = me PROVE FALSE
        OBVIOUS
      <3>1. waitList[i] \in Range(waitList)
        BY DEF Range
      <3>2. waitList[i] = [threadId |-> me, mutex |-> waitList[i].mutex]
            /\ waitList[i].mutex \in Mutexes
        BY <2>3, <3>1 DEF Copies
      <3> QED
        BY <3>1, <3>2 DEF InLine
    <2>5. OncePerThread(Enqueued(m))
      <3> SUFFICES ASSUME NEW i \in 1 .. Len(waitList) + 1, NEW j \in 1 .. Len(waitList) + 1,
                          Enqueued(m)[i].threadId = Enqueued(m)[j].threadId
                   PROVE  i = j
        BY <2>2 DEF OncePerThread
      <3>1. copy.threadId = me
        OBVIOUS
      <3>2. i \in DOMAIN waitList \/ i = Len(waitList) + 1
        BY <1>1
      <3>3. j \in DOMAIN waitList \/ j = Len(waitList) + 1
        BY <1>1
      <3> HIDE DEF copy
      <3> QED
        BY <1>1, <2>2, <2>4, <3>1, <3>2, <3>3 DEF OncePerThread
    <2>6. \A u \in Threads, n \in Mutexes :
            [threadId |-> u, mutex |-> n] = copy <=> u = me /\ n = m
      OBVIOUS
    <2> HIDE DEF copy
    <2> QED
      BY <1>1, <2>2, <2>3, <2>5, <2>6 DEF InLine
  <1> QED
    BY <1>2, <1>3

-----------------------------------------------------------------------------
-----------------------------------------------------------------------------
(* The steps of the threads: the types of what they change, and how a flag,  *)
(* an owner, a control block or a place changes.                           *)
Places == [op : Ops, arg : Threads \cup Mutexes \cup {None}]

Marks == [Mutexes -> [flag : BOOLEAN, owner : Threads \cup {None}]]
Blocks == [Threads -> [mutex : Mutexes \cup {None}, waitingToEnd : Threads \cup {None},
                       joinReturnLocation : Workers \cup {None}, numQuantum : Nat]]

(* A flag changes and no owner.                                            *)
LEMMA FlagIs ==
  ASSUME TypeOK, NEW m \in Mutexes, NEW b \in BOOLEAN, mutex' = [mutex EXCEPT ![m].flag = b]
  PROVE  /\ mutex' \in Marks /\ mutex'[m].flag = b
         /\ \A n \in Mutexes : mutex'[n].owner = mutex[n].owner /\ (n # m => mutex'[n] = mutex[n])
  <1> DEFINE Record == [flag : BOOLEAN, owner : Threads \cup {None}]
             new == [mutex EXCEPT ![m] = [mutex[m] EXCEPT !.flag = b]]
  <1>1. mutex \in [Mutexes -> Record] /\ [mutex[m] EXCEPT !.flag = b] \in Record
    BY DEF TypeOK
  <1>2. new \in [Mutexes -> Record]
    BY <1>1
  <1> QED
    BY <1>1, <1>2 DEF Marks

(* An owner changes and no flag.                                           *)
LEMMA OwnerIs ==
  ASSUME TypeOK, NEW m \in Mutexes, NEW o \in Threads \cup {None},
         mutex' = [mutex EXCEPT ![m].owner = o]
  PROVE  /\ mutex' \in Marks /\ mutex'[m].owner = o
         /\ \A n \in Mutexes : mutex'[n].flag = mutex[n].flag /\ (n # m => mutex'[n] = mutex[n])
  <1> DEFINE Record == [flag : BOOLEAN, owner : Threads \cup {None}]
             new == [mutex EXCEPT ![m] = [mutex[m] EXCEPT !.owner = o]]
  <1>1. mutex \in [Mutexes -> Record] /\ [mutex[m] EXCEPT !.owner = o] \in Record
    BY DEF TypeOK
  <1>2. new \in [Mutexes -> Record]
    BY <1>1
  <1> QED
    BY <1>1, <1>2 DEF Marks

(* The mutex in a control block changes.                                   *)
LEMMA BlockMutexIs ==
  ASSUME TypeOK, NEW t \in Threads, NEW m \in Mutexes \cup {None},
         tcb' = [tcb EXCEPT ![t].mutex = m]
  PROVE  /\ tcb' \in Blocks /\ tcb'[t].mutex = m
         /\ \A u \in Threads : /\ tcb'[u].waitingToEnd = tcb[u].waitingToEnd
                               /\ u # t => tcb'[u] = tcb[u]
  <1> DEFINE Block == [mutex : Mutexes \cup {None}, waitingToEnd : Threads \cup {None},
                       joinReturnLocation : Workers \cup {None}, numQuantum : Nat]
             new == [tcb EXCEPT ![t] = [tcb[t] EXCEPT !.mutex = m]]
  <1>1. tcb \in [Threads -> Block]
    BY DEF TypeOK
  <1>2. [tcb[t] EXCEPT !.mutex = m] \in Block
    BY <1>1
  <1>3. new \in [Threads -> Block]
    BY <1>1, <1>2
  <1> QED
    BY <1>1, <1>3 DEF Blocks

(* The running thread goes to a step of a call.                            *)
LEMMA GotoIs ==
  ASSUME TypeOK, NEW op \in Ops, NEW arg \in Threads \cup Mutexes \cup {None}, Goto(op, arg)
  PROVE  /\ at' \in [Threads -> Places] /\ at'[running].op = op /\ at'[running].arg = arg
         /\ \A t \in Threads : t # running => at'[t] = at[t]
  <1>1. at \in [Threads -> Places] /\ running \in Threads
    BY DEF TypeOK, Places
  <1>2. [op |-> op, arg |-> arg] \in Places
    BY DEF Places
  <1> QED
    BY <1>1, <1>2 DEF Goto

-----------------------------------------------------------------------------
(* Base holds in every state: who runs, and the types.                     *)

(* A thread in a call, or whose queue exists, runs at the head of it.      *)
LEMMA RunsHead ==
  ASSUME Base, mode = "run", at[running].op # "exiting", queue # <<>> \/ at[running].op # "user"
  PROVE  queue # <<>> /\ running = me /\ me \in Alive /\ me \in Threads
  <1>1. queue # <<>>
    BY DEF Base, QueueInv, User
  <1>2. running = me
    BY <1>1 DEF Base, ProcInv
  <1>3. me \in Alive /\ me \in Threads
    BY <1>1, QueueFacts DEF Base
  <1> QED
    BY <1>1, <1>2, <1>3

(* The scheduler has a queue.                                              *)
LEMMA SchedulerHead ==
  ASSUME Base, mode # "run"
  PROVE  queue # <<>> /\ me \in Alive /\ me \in Threads
  <1>1. queue # <<>>
    BY DEF Base, QueueInv
  <1> QED
    BY <1>1, QueueFacts DEF Base

(* The context of a thread gives the processor to it, or to one that is    *)
(* about to return.                                                        *)
LEMMA DispatchIs ==
  ASSUME Base, mode # "lost", NEW h \in Threads, Dispatch(h)
  PROVE  /\ running' \in Threads /\ mode' = "run" /\ timer' = TRUE
         /\ UNCHANGED <<context, masked>>
         /\ running' = h \/ at[running'].op = "exiting"
  BY DEF Base, ProcInv, Dispatch

(* The types, and the facts of Base, that the steps of the threads and of  *)
(* the scheduler keep in the same way.                                     *)
Typed == /\ tcb' \in Blocks /\ mutex' \in Marks /\ waitList' \in Seq(Nodes)
         /\ listed' \in inited' \cup {None} /\ inited' \subseteq Mutexes
         /\ lib' \in BOOLEAN /\ timer' \in BOOLEAN /\ masked' \in BOOLEAN
         /\ holders' \in [Mutexes -> SUBSET Threads]
         /\ struck' \in BOOLEAN /\ cuts' \subseteq Cuts

(* A thread stops waiting for another only when that one has ended.        *)
Unwaits(t) == \/ tcb'[t].waitingToEnd = tcb[t].waitingToEnd
              \/ /\ tcb'[t].waitingToEnd = None
                 /\ at[t].op = "joining" => at[t].arg \in exited'

(* A step of the scheduler keeps Base.                                     *)
LEMMA SchedulerFrame ==
  ASSUME Base, mode \in {"sched", "loop"}, Typed,
         UNCHANGED <<inited, at, exited, context>>,
         queue' \in Seq(Threads), NoTwice(queue'), queue' # <<>>, Alive' = Alive,
         \A t \in Threads : Unwaits(t),
         \/ /\ mode' = "run" /\ running' \in Threads
            /\ running' = me' \/ at[running'].op = "exiting"
         \/ mode' \in {"sched", "loop", "crashed"} /\ running' = running
  PROVE  Base'
  <1>1. TypeOK'
    BY DEF Base, TypeOK, Typed, NoTwice, Nodes, Blocks, Marks
  <1>2. QueueInv'
    BY DEF Base, QueueInv
  <1>3. ProcInv'
    BY DEF Base, ProcInv
  <1>4. CallInv'
    BY DEF Base, CallInv, Unwaits, Created
  <1> QED
    BY <1>1, <1>2, <1>3, <1>4 DEF Base

(* A step of a call that keeps the processor and the run queue.            *)
LEMMA StayFrame ==
  ASSUME Base, mode = "run", Stay, Typed, UNCHANGED queue, inited \subseteq inited',
         exited' \subseteq Workers, exited \subseteq exited',
         at[running].op # "exiting", queue # <<>> \/ (at' = at /\ exited' = exited),
         at' \in [Threads -> Places], \A t \in Threads : t # running => at'[t] = at[t],
         at'[running].op # "exiting",
         at'[running].op \in MutexOps => at'[running].arg \in inited' /\ running \in Lockers,
         at'[running].op = "join" => at'[running].arg \in Workers \cap Created',
         at'[running].op # "joining",
         at'[running].op = "exit" <=> running \in exited',
         \A t \in Threads : t # running => (t \in exited' <=> t \in exited),
         \A t \in Threads : Unwaits(t)
  PROVE  Base'
  <1>1. /\ me' = me /\ Alive' = Alive /\ running' = running /\ mode' = mode /\ context' = context
        /\ running \in Threads
    BY DEF me, Alive, Stay, processor, Base, TypeOK
  <1>2. TypeOK'
    BY <1>1 DEF Base, TypeOK, Typed, NoTwice, Nodes, Blocks, Marks, Places, Stay, processor
  <1>3. QueueInv'
    BY <1>1 DEF Base, QueueInv
  <1>4. ProcInv'
    BY <1>1 DEF Base, ProcInv
  <1>5. Created \subseteq Created'
    BY <1>1 DEF Created
  <1>6. CallInv'
    <2> SUFFICES ASSUME NEW t \in Threads
                 PROVE  /\ at'[t].op \in MutexOps => at'[t].arg \in inited' /\ t \in Lockers
                        /\ at'[t].op \in {"join", "joining"} => at'[t].arg \in Workers \cap Created'
                        /\ t \in exited' <=> at'[t].op \in {"exit", "exiting"}
                        /\ at'[t].op = "exiting" => t \notin Alive'
                        /\ tcb'[t].waitingToEnd # None => tcb'[t].waitingToEnd \in Created'
                        /\ at'[t].op = "joining" => tcb'[t].waitingToEnd = at'[t].arg
                                                    \/ at'[t].arg \in exited'
      BY DEF CallInv
    <2>1. tcb'[t].waitingToEnd # None => tcb'[t].waitingToEnd \in Created'
      BY <1>5 DEF Base, CallInv, Unwaits
    <2>2. CASE t = running
      BY <2>1, <2>2
    <2>3. CASE t # running
      BY <1>1, <1>5, <2>1, <2>3 DEF Base, CallInv, Unwaits
    <2> QED
      BY <2>2, <2>3
  <1> QED
    BY <1>2, <1>3, <1>4, <1>6 DEF Base

(* What a control block says of mutexes and joins is not in its quantum.   *)
Same(block) == /\ block \in Blocks
               /\ \A t \in Threads : /\ block[t].mutex = tcb[t].mutex
                                     /\ block[t].waitingToEnd = tcb[t].waitingToEnd

LEMMA LongerSame ==
  ASSUME TypeOK, NEW t \in Threads, NEW u \in Threads
  PROVE  Same(tcb) /\ Same(Longer(tcb, t)) /\ Same(Longer(Longer(tcb, t), u))
  <1> DEFINE Block == [mutex : Mutexes \cup {None}, waitingToEnd : Threads \cup {None},
                       joinReturnLocation : Workers \cup {None}, numQuantum : Nat]
             l == Longer(tcb, t)
  <1>1. l \in [Threads -> Block] /\ Same(l)
    BY LongerIs DEF Same, Blocks
  <1>2. Same(tcb)
    BY DEF TypeOK, Same, Blocks
  <1> HIDE DEF l
  <1>3. Longer(l, u) = [l EXCEPT ![u] = [l[u] EXCEPT !.numQuantum = @ + 1]]
    BY <1>1 DEF Longer
  <1>4. [l[u] EXCEPT !.numQuantum = @ + 1] \in Block
    BY <1>1
  <1>5. Longer(l, u) \in [Threads -> Block]
    BY <1>1, <1>3, <1>4
  <1>6. \A v \in Threads : /\ Longer(l, u)[v].mutex = l[v].mutex
                           /\ Longer(l, u)[v].waitingToEnd = l[v].waitingToEnd
    BY <1>1, <1>3
  <1>7. Same(Longer(l, u))
    BY <1>1, <1>5, <1>6 DEF Same, Blocks
  <1> QED
    BY <1>1, <1>2, <1>7 DEF l

(* What a step of the scheduler does to the control blocks and to the      *)
(* processor.                                                              *)
Dispatched == mode' = "run" /\ running' \in Threads
              /\ (running' = me' \/ at[running'].op = "exiting")

LEMMA ScheduleOnlyIs ==
  ASSUME Base, ScheduleOnly
  PROVE  /\ mode = "sched" /\ lib = FALSE /\ me \in Threads /\ Alive = {me} /\ Dispatched
         /\ Same(tcb') /\ timer' = TRUE /\ me' = me /\ cuts' \subseteq Cuts
         /\ cuts' = IF Waiting(me) THEN cuts \cup {"alone"} ELSE cuts
         /\ UNCHANGED <<queue, mutex, inited, listed, waitList, lib, at, exited, context,
                        masked, holders, returned, struck>>
  <1>1. /\ mode = "sched" /\ lib = FALSE /\ queue # <<>> /\ me \in Threads /\ Alive = {me}
    BY SchedulerHead, QueueFacts DEF Base, TypeOK, ScheduleOnly
  <1>2. Same(tcb')
    BY <1>1, LongerSame DEF Base, ScheduleOnly
  <1>3. me' = me
    BY DEF ScheduleOnly, me
  <1>4. Dispatched /\ timer' = TRUE /\ UNCHANGED <<context, masked>>
    BY <1>1, <1>3, DispatchIs DEF ScheduleOnly, Dispatched
  <1>5. cuts' \subseteq Cuts /\ cuts' = IF Waiting(me) THEN cuts \cup {"alone"} ELSE cuts
    BY DEF ScheduleOnly, Base, TypeOK, Cuts
  <1> QED
    BY <1>1, <1>2, <1>3, <1>4, <1>5 DEF ScheduleOnly

LEMMA ScheduleRotateIs ==
  ASSUME Base, ScheduleRotate
  PROVE  /\ mode = "sched" /\ lib = FALSE /\ Same(tcb') /\ timer' = TRUE
         /\ mutex' \in Marks
         /\ \A m \in Mutexes : mutex'[m].owner = mutex[m].owner /\ (mutex[m].flag => mutex'[m].flag)
         /\ queue' \in Seq(Threads) /\ NoTwice(queue') /\ queue' # <<>> /\ Alive' = Alive
         /\ me' \in Threads
         /\ \/ Dispatched /\ Free(me')
            \/ mode' = "loop" /\ running' = running
         /\ UNCHANGED <<inited, listed, waitList, lib, at, exited, history, context, masked>>
  <1> DEFINE head == Head(Rotated)
  <1>1. mode = "sched" /\ lib = FALSE /\ queue # <<>> /\ me \in Threads
    BY SchedulerHead DEF Base, TypeOK, ScheduleRotate
  <1>2. /\ Rotated \in Seq(Threads) /\ NoTwice(Rotated) /\ Range(Rotated) = Alive
        /\ Rotated # <<>> /\ head \in Threads
    BY <1>1, RotatedIs, QueueFacts DEF Base
  <1>3. queue' = Rotated /\ mutex' = Printed(mutex)
        /\ UNCHANGED <<inited, listed, waitList, lib, at, exited, history>>
    BY DEF ScheduleRotate
  <1>4. me' = head /\ Alive' = Alive
    BY <1>2, <1>3 DEF me, Alive
  <1>5. /\ mutex' \in Marks
        /\ \A m \in Mutexes : mutex'[m].owner = mutex[m].owner /\ (mutex[m].flag => mutex'[m].flag)
    BY <1>3, PrintedIs DEF Base, Marks
  <1>6. Same(tcb')
    <2>1. Same(Longer(tcb, me)) /\ Same(Longer(Longer(tcb, me), head))
      BY <1>1, <1>2, LongerSame DEF Base
    <2> QED
      BY <2>1 DEF ScheduleRotate
  <1>7. /\ \/ Dispatched /\ Free(me')
           \/ mode' = "loop" /\ running' = running
        /\ timer' = TRUE /\ UNCHANGED <<context, masked>>
    <2>1. CASE Free(head) /\ Dispatch(head)
      BY <1>1, <1>2, <1>4, <2>1, DispatchIs DEF Dispatched
    <2>2. CASE mode' = "loop" /\ timer' = TRUE /\ UNCHANGED <<running, context, masked>>
      BY <2>2
    <2> QED
      BY <2>1, <2>2 DEF ScheduleRotate
  <1> HIDE DEF head
  <1> QED
    BY <1>1, <1>2, <1>3, <1>4, <1>5, <1>6, <1>7

LEMMA SkipIs ==
  ASSUME Base, mode = "loop", Skip
  PROVE  /\ me \in Threads /\ Same(tcb')
         /\ queue' \in Seq(Threads) /\ NoTwice(queue') /\ queue' # <<>> /\ Alive' = Alive
         /\ UNCHANGED <<mutex, inited, listed, waitList, lib, timer, mode, running, context,
                        masked, at, exited, history>>
  <1>1. queue # <<>> /\ me \in Threads
    BY SchedulerHead DEF Base
  <1>2. Rotated \in Seq(Threads) /\ NoTwice(Rotated) /\ Range(Rotated) = Alive /\ Rotated # <<>>
    BY <1>1, RotatedIs DEF Base
  <1>3. Same(tcb')
    BY <1>1, LongerSame DEF Base, Skip
  <1>4. queue' = Rotated
        /\ UNCHANGED <<mutex, inited, listed, waitList, lib, timer, mode, running, context,
                       masked, at, exited, history>>
    BY DEF Skip, processor
  <1> QED
    BY <1>1, <1>2, <1>3, <1>4 DEF Alive

(* The steps that give the processor to the head of the queue as it is.    *)
HeadGoesOn == ScheduleLibrary \/ LoopFree \/ LoopOwner \/ LoopGrant \/ LoopJoined

LEMMA HeadGoesOnIs ==
  ASSUME Base, HeadGoesOn
  PROVE  /\ mode \in {"sched", "loop"} /\ me \in Threads /\ me' = me /\ Dispatched /\ timer' = TRUE
         /\ LoopJoined \/ Same(tcb')
         /\ LoopGrant \/ mutex' = mutex
         /\ LoopGrant \/ LoopOwner \/ waitList' = waitList
         /\ lib' = FALSE \/ lib' = lib
         /\ UNCHANGED <<queue, inited, listed, at, exited, context, masked, history>>
  <1>1. mode \in {"sched", "loop"} /\ me \in Threads
    BY SchedulerHead
       DEF HeadGoesOn, ScheduleLibrary, LoopFree, LoopOwner, LoopGrant, LoopJoined, Wanting
  <1>2. Dispatch(me) /\ UNCHANGED <<queue, inited, listed, at, exited, history>>
    BY DEF HeadGoesOn, ScheduleLibrary, LoopFree, LoopOwner, LoopGrant, LoopJoined
  <1>3. me' = me
    BY <1>2 DEF me
  <1>4. Dispatched /\ timer' = TRUE /\ UNCHANGED <<context, masked>>
    BY <1>1, <1>2, <1>3, DispatchIs DEF Dispatched
  <1>5. LoopJoined \/ Same(tcb')
    BY <1>1, LongerSame DEF Base, HeadGoesOn, ScheduleLibrary, LoopFree, LoopOwner, LoopGrant
  <1>6. /\ LoopGrant \/ mutex' = mutex
        /\ LoopGrant \/ LoopOwner \/ waitList' = waitList
        /\ lib' = FALSE \/ lib' = lib
    BY DEF HeadGoesOn, ScheduleLibrary, LoopFree, LoopOwner, LoopGrant, LoopJoined
  <1> QED
    BY <1>1, <1>2, <1>3, <1>4, <1>5, <1>6

(* The head stops waiting for a thread that has left the queue.            *)
LEMMA LoopJoinedIs ==
  ASSUME Base, LoopJoined
  PROVE  /\ tcb' \in Blocks /\ me \in Threads /\ tcb'[me].waitingToEnd = None
         /\ \A t \in Threads : /\ tcb'[t].mutex = tcb[t].mutex
                               /\ t # me => tcb'[t].waitingToEnd = tcb[t].waitingToEnd
         /\ tcb[me].waitingToEnd # None /\ tcb[me].waitingToEnd \in exited
  <1> DEFINE Block == [mutex : Mutexes \cup {None}, waitingToEnd : Threads \cup {None},
                       joinReturnLocation : Workers \cup {None}, numQuantum : Nat]
             l == Longer(tcb, me)
  <1>1. me \in Threads
    BY SchedulerHead DEF LoopJoined
  <1>2. Same(l)
    BY <1>1, LongerSame DEF Base
  <1>3. tcb' = [l EXCEPT ![me].waitingToEnd = None]
    BY DEF LoopJoined
  <1> HIDE DEF l
  <1>4. l \in [Threads -> Block]
    BY <1>2 DEF Same, Blocks
  <1>5. tcb' = [l EXCEPT ![me] = [l[me] EXCEPT !.waitingToEnd = None]]
    BY <1>3
  <1>6. [l[me] EXCEPT !.waitingToEnd = None] \in Block
    BY <1>1, <1>4
  <1>7. tcb' \in [Threads -> Block]
    BY <1>4, <1>5, <1>6
  <1>8. tcb'[me].waitingToEnd = None
        /\ \A t \in Threads : /\ tcb'[t].mutex = l[t].mutex
                              /\ t # me => tcb'[t].waitingToEnd = l[t].waitingToEnd
    BY <1>1, <1>4, <1>5
  <1>9. tcb[me].waitingToEnd # None /\ tcb[me].waitingToEnd \in exited
    BY <1>1 DEF LoopJoined, Base, CallInv, Created
  <1> QED
    BY <1>1, <1>2, <1>7, <1>8, <1>9 DEF Same, Blocks

(* The head becomes the owner of the mutex it asked for.                   *)
LEMMA LoopGrantIs ==
  ASSUME Base, LoopGrant
  PROVE  /\ Wanted \in Mutexes /\ tcb[me].waitingToEnd = None /\ mutex' \in Marks
         /\ mutex'[Wanted].flag /\ mutex'[Wanted].owner = me
         /\ \A m \in Mutexes : m # Wanted => mutex'[m] = mutex[m]
         /\ waitList' = Dequeued(me) /\ lib' = FALSE
  <1> DEFINE w == Wanted
             Mark == [flag : BOOLEAN, owner : Threads \cup {None}]
  <1>1. me \in Threads /\ tcb[me].mutex # None /\ tcb[me].waitingToEnd = None
    BY SchedulerHead DEF LoopGrant, Wanting
  <1>2. w \in Mutexes /\ mutex \in [Mutexes -> Mark]
    BY <1>1 DEF Wanted, Base, TypeOK
  <1>3. mutex' = [mutex EXCEPT ![w] = [flag |-> TRUE, owner |-> me]]
        /\ waitList' = Dequeued(me) /\ lib' = FALSE
    BY DEF LoopGrant
  <1> HIDE DEF w
  <1>4. mutex' \in Marks
    BY <1>1, <1>2, <1>3 DEF Marks
  <1>5. mutex'[w] = [flag |-> TRUE, owner |-> me] /\ \A m \in Mutexes : m # w => mutex'[m] = mutex[m]
    BY <1>2, <1>3
  <1> QED
    BY <1>1, <1>2, <1>3, <1>4, <1>5 DEF w

(* A list without the copy of a thread is a list.                          *)
LEMMA DequeuedTyped ==
  ASSUME TypeOK, NEW t \in Threads
  PROVE  Dequeued(t) \in Seq(Nodes)
  <1> DEFINE places == {i \in DOMAIN waitList : waitList[i].threadId = t}
  <1>1. /\ waitList \in Seq(Nodes)
        /\ DOMAIN waitList = 1 .. Len(waitList) /\ Len(waitList) \in Nat
    BY LenProperties DEF TypeOK, Nodes
  <1>2. CASE places = {}
    BY <1>1, <1>2 DEF Dequeued
  <1>3. CASE places # {}
    <2> DEFINE p == Min(places)
    <2>1. Dequeued(t) = RemoveAt(waitList, p)
      BY <1>3 DEF Dequeued
    <2>2. places \subseteq Nat
      BY <1>1
    <2>3. p \in places
      BY <1>3, <2>2, MinExists
    <2> HIDE DEF p
    <2>4. p \in 1 .. Len(waitList)
      BY <1>1, <2>3
    <2> QED
      BY <1>1, <2>1, <2>4, RemoveAtIs
  <1> QED
    BY <1>2, <1>3

(* The scheduler keeps Base.                                               *)
LEMMA SchedulerBase ==
  ASSUME Base, Scheduler
  PROVE  Base'
  <1>1. /\ tcb \in Blocks /\ mutex \in Marks /\ waitList \in Seq(Nodes)
        /\ listed \in inited \cup {None} /\ inited \subseteq Mutexes
        /\ lib \in BOOLEAN /\ timer \in BOOLEAN /\ masked \in BOOLEAN
        /\ holders \in [Mutexes -> SUBSET Threads] /\ struck \in BOOLEAN /\ cuts \subseteq Cuts
        /\ queue \in Seq(Threads) /\ NoTwice(queue)
    BY DEF Base, TypeOK, Blocks, Marks, Nodes, NoTwice
  <1>2. CASE ScheduleOnly
    <2>1. Typed /\ \A t \in Threads : Unwaits(t)
      BY <1>1, <1>2, ScheduleOnlyIs DEF Typed, Same, Unwaits
    <2>2. queue # <<>> /\ Alive' = Alive
      BY <1>2, ScheduleOnlyIs, SchedulerHead DEF Alive
    <2> QED
      BY <1>1, <1>2, <2>1, <2>2, ScheduleOnlyIs, SchedulerFrame DEF Dispatched
  <1>3. CASE ScheduleRotate
    <2>1. Typed /\ \A t \in Threads : Unwaits(t)
      BY <1>1, <1>3, ScheduleRotateIs DEF Typed, Same, Unwaits, history, interruptions
    <2> QED
      BY <1>1, <1>3, <2>1, ScheduleRotateIs, SchedulerFrame DEF Dispatched
  <1>4. CASE LoopWait \/ LoopJoining
    <2>1. mode = "loop" /\ Skip
      BY <1>4 DEF LoopWait, LoopJoining, Wanting
    <2>2. Typed /\ \A t \in Threads : Unwaits(t)
      BY <1>1, <2>1, SkipIs DEF Typed, Same, Unwaits, history, interruptions
    <2> QED
      BY <2>1, <2>2, SkipIs, SchedulerFrame
  <1>5. CASE HeadGoesOn
    <2>1. waitList' \in Seq(Nodes)
      <3>1. LoopGrant \/ LoopOwner => waitList' \in {waitList, Dequeued(me)}
        BY DEF LoopGrant, LoopOwner
      <3> QED
        BY <1>1, <1>5, <3>1, HeadGoesOnIs, DequeuedTyped DEF Base
    <2>2. mutex' \in Marks
      BY <1>1, <1>5, HeadGoesOnIs, LoopGrantIs
    <2>3. tcb' \in Blocks /\ \A t \in Threads : Unwaits(t)
      <3>1. CASE LoopJoined
        <4>1. at[me].op = "joining" => at[me].arg \in exited
          BY <3>1, LoopJoinedIs DEF Base, CallInv
        <4>2. exited' = exited
          BY <1>5, HeadGoesOnIs
        <4> QED
          BY <3>1, <4>1, <4>2, LoopJoinedIs DEF Unwaits
      <3>2. CASE Same(tcb')
        BY <3>2 DEF Same, Unwaits
      <3> QED
        BY <1>5, <3>1, <3>2, HeadGoesOnIs
    <2>4. Typed
      BY <1>1, <1>5, <2>1, <2>2, <2>3, HeadGoesOnIs DEF Typed, history, interruptions
    <2>5. queue # <<>> /\ Alive' = Alive /\ queue' = queue
      BY <1>5, HeadGoesOnIs, SchedulerHead DEF Alive
    <2> QED
      BY <1>1, <1>5, <2>3, <2>4, <2>5, HeadGoesOnIs, SchedulerFrame DEF Dispatched
  <1>6. CASE LoopCrash
    <2>1. mode = "loop" /\ mode' = "crashed"
          /\ UNCHANGED <<queue, tcb, mutex, inited, listed, waitList, lib, timer, running,
                         context, masked, at, exited, history>>
      BY <1>6 DEF LoopCrash, Wanting
    <2>2. Typed /\ \A t \in Threads : Unwaits(t)
      BY <1>1, <2>1 DEF Typed, Unwaits, history, interruptions
    <2>3. queue # <<>> /\ Alive' = Alive
      BY <2>1, SchedulerHead DEF Alive
    <2> QED
      BY <1>1, <2>1, <2>2, <2>3, SchedulerFrame
  <1> QED
    BY <1>2, <1>3, <1>4, <1>5, <1>6 DEF Scheduler, HeadGoesOn

LEMMA EnqueuedTyped ==
  ASSUME waitList \in Seq(Nodes), me \in Threads, NEW m \in Mutexes
  PROVE  Enqueued(m) \in Seq(Nodes)
  <1> DEFINE copy == [threadId |-> me, mutex |-> m]
  <1>1. copy \in Nodes
    BY DEF Nodes
  <1>2. Enqueued(m) = <<copy>> \/ Enqueued(m) = Append(waitList, copy)
    BY DEF Enqueued
  <1> HIDE DEF copy
  <1>3. <<copy>> \in Seq(Nodes)
    BY <1>1
  <1>4. Append(waitList, copy) \in Seq(Nodes)
    BY <1>1, AppendIs
  <1> QED
    BY <1>2, <1>3, <1>4

(* The steps inside lock and unlock of the thread that keeps the processor. *)
MutexStep ==
  \/ LockTaken \/ LockAgain \/ LockBusy \/ LockLined \/ LockChecked \/ LockOwned \/ LockNamed
  \/ LockOverrides \/ LockReturns
  \/ UnlockUndone \/ UnlockRefused \/ UnlockOwned \/ UnlockFlag \/ UnlockOwner

(* Where the caller is, and what it names.                                 *)
LEMMA AtMutex ==
  ASSUME Base, mode = "run", at[running].op \in MutexOps
  PROVE  /\ queue # <<>> /\ running = me /\ me \in Alive /\ me \in Threads /\ me \in Lockers
         /\ Arg \in inited /\ Arg \in Mutexes
  <1>1. at[running].op # "exiting" /\ at[running].op # "user"
    BY DEF MutexOps, Protected, UnlockOps
  <1>2. queue # <<>> /\ running = me /\ me \in Alive /\ me \in Threads
    BY <1>1, RunsHead
  <1> QED
    BY <1>2 DEF Arg, Base, CallInv, TypeOK

(* Where the caller goes, and what the step leaves alone.                  *)
Goes(op, arg) == /\ at' \in [Threads -> Places] /\ at'[running].op = op /\ at'[running].arg = arg
                 /\ \A t \in Threads : t # running => at'[t] = at[t]

LEMMA MutexStepGoes ==
  ASSUME Base, MutexStep
  PROVE  /\ mode = "run" /\ at[running].op \in MutexOps /\ Stay
         /\ UNCHANGED <<queue, inited, listed, exited, results, returned, asked, calls, ticks,
                        struck, cuts>>
         /\ \/ Goes("user", None)
            \/ \E op \in MutexOps : Goes(op, Arg)
  <1>1. mode = "run" /\ at[running].op \in MutexOps
    BY DEF MutexStep, LockTaken, LockAgain, LockBusy, LockLined, LockChecked, LockOwned, LockNamed,
           LockOverrides, LockReturns, UnlockUndone, UnlockRefused, UnlockOwned, UnlockFlag,
           UnlockOwner, In, MutexOps, Protected, UnlockOps
  <1>2. /\ Stay
        /\ UNCHANGED <<queue, inited, listed, exited, results, returned, asked, calls, ticks,
                       struck, cuts>>
    BY DEF MutexStep, LockTaken, LockAgain, LockBusy, LockLined, LockChecked, LockOwned, LockNamed,
           LockOverrides, LockReturns, UnlockUndone, UnlockRefused, UnlockOwned, UnlockFlag,
           UnlockOwner, history, interruptions
  <1>3. Goto("user", None) \/ \E op \in MutexOps : Goto(op, Arg)
    BY DEF MutexStep, LockTaken, LockAgain, LockBusy, LockLined, LockChecked, LockOwned, LockNamed,
           LockOverrides, LockReturns, UnlockUndone, UnlockRefused, UnlockOwned, UnlockFlag,
           UnlockOwner, MutexOps, Protected, UnlockOps
  <1>4. Arg \in Mutexes
    BY <1>1, AtMutex
  <1>5. MutexOps \subseteq Ops /\ "user" \in Ops
    BY DEF MutexOps, UnlockOps, Ops
  <1> QED
    BY <1>1, <1>2, <1>3, <1>4, <1>5, GotoIs DEF Base, Goes

LEMMA MutexStepTyped ==
  ASSUME Base, MutexStep
  PROVE  /\ tcb' \in Blocks /\ mutex' \in Marks /\ waitList' \in Seq(Nodes)
         /\ lib' \in BOOLEAN /\ timer' \in BOOLEAN
         /\ holders' \in [Mutexes -> SUBSET Threads]
         /\ \A t \in Threads : tcb'[t].waitingToEnd = tcb[t].waitingToEnd
  <1>1. /\ mode = "run" /\ at[running].op \in MutexOps
    BY MutexStepGoes
  <1>2. /\ Arg \in Mutexes /\ me \in Threads /\ running = me
    BY <1>1, AtMutex
  <1>3. /\ tcb \in Blocks /\ mutex \in Marks /\ waitList \in Seq(Nodes)
        /\ lib \in BOOLEAN /\ timer \in BOOLEAN
        /\ holders \in [Mutexes -> SUBSET Threads]
    BY DEF Base, TypeOK, Blocks, Marks, Nodes
  <1> DEFINE a == Arg
  <1> HIDE DEF a
  <1>4. /\ tcb' \in Blocks
        /\ \A t \in Threads : tcb'[t].waitingToEnd = tcb[t].waitingToEnd
    <2>1. \/ tcb' = tcb \/ tcb' = [tcb EXCEPT ![me].mutex = a]
          \/ tcb' = [tcb EXCEPT ![me].mutex = None]
      BY DEF MutexStep, LockTaken, LockAgain, LockBusy, LockLined, LockChecked, LockOwned,
           LockNamed, LockOverrides, LockReturns, UnlockUndone, UnlockRefused, UnlockOwned,
           UnlockFlag, UnlockOwner, a
    <2> QED
      BY <1>2, <1>3, <2>1, BlockMutexIs DEF Base, a
  <1>5. mutex' \in Marks
    <2>1. \/ mutex' = mutex \/ mutex' = [mutex EXCEPT ![a].flag = TRUE]
          \/ mutex' = [mutex EXCEPT ![a].flag = FALSE]
          \/ mutex' = [mutex EXCEPT ![a].owner = me]
          \/ mutex' = [mutex EXCEPT ![a].owner = None]
      BY DEF MutexStep, LockTaken, LockAgain, LockBusy, LockLined, LockChecked, LockOwned,
           LockNamed, LockOverrides, LockReturns, UnlockUndone, UnlockRefused, UnlockOwned,
           UnlockFlag, UnlockOwner, a
    <2> QED
      BY <1>2, <1>3, <2>1, FlagIs, OwnerIs DEF Base, a
  <1>6. waitList' \in Seq(Nodes)
    <2>1. waitList' = waitList \/ waitList' = Enqueued(Arg)
      BY DEF MutexStep, LockTaken, LockAgain, LockBusy, LockLined, LockChecked, LockOwned,
           LockNamed, LockOverrides, LockReturns, UnlockUndone, UnlockRefused, UnlockOwned,
           UnlockFlag, UnlockOwner
    <2> QED
      BY <1>2, <1>3, <2>1, EnqueuedTyped
  <1>7. lib' \in BOOLEAN /\ timer' \in BOOLEAN
    BY <1>3 DEF MutexStep, LockTaken, LockAgain, LockBusy, LockLined, LockChecked, LockOwned,
           LockNamed, LockOverrides, LockReturns, UnlockUndone, UnlockRefused, UnlockOwned,
           UnlockFlag, UnlockOwner
  <1>8. holders' \in [Mutexes -> SUBSET Threads]
    <2>1. holders' = holders \/ holders' = [holders EXCEPT ![a] = @ \cup {running}]
      BY DEF MutexStep, LockTaken, LockAgain, LockBusy, LockLined, LockChecked, LockOwned,
           LockNamed, LockOverrides, LockReturns, UnlockUndone, UnlockRefused, UnlockOwned,
           UnlockFlag, UnlockOwner, history, a
    <2> QED
      BY <1>2, <1>3, <2>1
  <1> QED
    BY <1>4, <1>5, <1>6, <1>7, <1>8

(* mypthread_create puts a thread in the queue that was not in it.         *)
LEMMA CreateIs ==
  ASSUME Base, NEW u \in Workers, Create(u)
  PROVE  /\ mode = "run" /\ at[running].op = "user" /\ u \notin Created /\ Stay
         /\ queue' \in Seq(Threads) /\ NoTwice(queue') /\ queue' # <<>>
         /\ Alive \subseteq Alive' /\ Alive' \subseteq Alive \cup {Main, u} /\ Main \in Alive'
         /\ me' = IF queue = <<>> THEN Main ELSE me
         /\ timer' = TRUE
         /\ UNCHANGED <<tcb, mutex, inited, listed, waitList, lib, at, exited, history, running,
                        mode, context, masked>>
  <1>1. /\ mode = "run" /\ at[running].op = "user" /\ u \notin Created
        /\ queue' = (IF queue = <<>> THEN <<Main, u>> ELSE InsertSorted(queue, u, Quantum(tcb)))
        /\ timer' = TRUE /\ Stay
        /\ UNCHANGED <<tcb, mutex, inited, listed, waitList, lib, at, exited, history>>
    BY DEF Create, In
  <1>2. u \in Threads /\ Main \in Threads /\ u # Main /\ u \notin Alive /\ u \notin exited
    BY <1>1, ThreadsAssumption DEF Threads, Created, ThreadsAssumption
  <1>3. /\ queue' \in Seq(Threads) /\ NoTwice(queue') /\ queue' # <<>>
        /\ Alive \subseteq Alive' /\ Alive' \subseteq Alive \cup {Main, u} /\ Main \in Alive'
        /\ me' = IF queue = <<>> THEN Main ELSE me
    <2>1. CASE queue = <<>>
      <3>1. queue' = <<Main, u>>
        BY <1>1, <2>1
      <3>2. Range(queue') = {Main, u} /\ NoTwice(queue') /\ queue' # <<>> /\ Head(queue') = Main
            /\ queue' \in Seq(Threads) /\ Alive = {}
        BY <1>2, <2>1, <3>1 DEF Range, NoTwice, Alive
      <3> QED
        BY <2>1, <3>2 DEF Alive, me
    <2>2. CASE queue # <<>>
      <3>1. queue \in Seq(Threads) /\ NoTwice(queue) /\ Main \in Alive
        BY <2>2, QueueFacts DEF Base, TypeOK, QueueInv, NoTwice
      <3>2. Quantum(tcb) \in [Threads -> Nat]
        BY DEF Base, TypeOK, Quantum
      <3>3. u \notin Range(queue)
        BY <1>2 DEF Alive
      <3>4. /\ queue' \in Seq(Threads) /\ Len(queue') = Len(queue) + 1 /\ NoTwice(queue')
            /\ Range(queue') = Range(queue) \cup {u} /\ Head(queue') = Head(queue)
        BY <1>1, <1>2, <2>2, <3>1, <3>2, <3>3, SortedIn
      <3>5. queue' # <<>>
        BY <3>1, <3>4, LenProperties, EmptySeq
      <3> QED
        BY <2>2, <3>1, <3>4, <3>5 DEF Alive, me
    <2> QED
      BY <2>1, <2>2
  <1> QED
    BY <1>1, <1>3 DEF Stay, processor

LEMMA CreateBase ==
  ASSUME Base, NEW u \in Workers, Create(u)
  PROVE  Base'
  <1>1. TypeOK'
    BY CreateIs DEF Base, TypeOK, NoTwice, history, interruptions
  <1>2. QueueInv'
    BY CreateIs DEF QueueInv
  <1>3. ProcInv'
    BY CreateIs DEF Base, ProcInv, QueueInv
  <1>4. CallInv'
    <2>1. Main \notin exited /\ u \notin exited /\ Alive' \subseteq Alive \cup {Main, u}
      BY CreateIs, ThreadsAssumption DEF Base, TypeOK, Created, ThreadsAssumption
    <2>2. UNCHANGED <<tcb, inited, at, exited>> /\ Created \subseteq Created'
      BY CreateIs DEF Created
    <2> QED
      BY <2>1, <2>2 DEF Base, CallInv
  <1> QED
    BY <1>1, <1>2, <1>3, <1>4 DEF Base

(* A mutex is initialised; the first one makes the list.                   *)
LEMMA MutexInitIs ==
  ASSUME Base, NEW m \in Mutexes, MutexInit(m)
  PROVE  /\ mode = "run" /\ at[running].op = "user" /\ m \notin inited /\ Stay
         /\ inited' = inited \cup {m} /\ lib' = FALSE /\ timer' \in BOOLEAN
         /\ mutex' \in Marks /\ mutex'[m].owner = None
         /\ \A n \in Mutexes : n # m => mutex'[n] = mutex[n]
         /\ listed' = (IF listed = None THEN m ELSE listed)
         /\ waitList' = (IF listed = None THEN <<Blank>> ELSE waitList)
         /\ waitList' \in Seq(Nodes)
         /\ UNCHANGED <<queue, tcb, at, exited, history>>
  <1>1. /\ mode = "run" /\ at[running].op = "user" /\ m \notin inited /\ inited' = inited \cup {m}
        /\ mutex' = [mutex EXCEPT ![m] = [flag |-> FALSE, owner |-> None]]
        /\ listed' = (IF listed = None THEN m ELSE listed)
        /\ waitList' = (IF listed = None THEN <<Blank>> ELSE waitList)
        /\ lib' = FALSE /\ timer' \in BOOLEAN /\ Stay
        /\ UNCHANGED <<queue, tcb, at, exited, history>>
    BY DEF MutexInit, In
  <1>2. /\ mutex' \in Marks /\ mutex'[m].owner = None
        /\ \A n \in Mutexes : n # m => mutex'[n] = mutex[n]
    BY <1>1 DEF Base, TypeOK, Marks
  <1>3. waitList' \in Seq(Nodes)
    <2>1. Blank \in Nodes
      BY DEF Blank, Nodes
    <2>2. <<Blank>> \in Seq(Nodes) /\ waitList \in Seq(Nodes)
      BY <2>1 DEF Base, TypeOK, Nodes
    <2> QED
      BY <1>1, <2>2
  <1> QED
    BY <1>1, <1>2, <1>3

(* Calls that return at once and leave the places alone.                   *)
AtOnce == LockNull \/ \E m \in Mutexes : MutexInit(m) \/ MutexDestroy(m)

LEMMA AtOnceBase ==
  ASSUME Base, AtOnce
  PROVE  Base'
  <1>1. /\ tcb \in Blocks /\ mutex \in Marks /\ waitList \in Seq(Nodes)
        /\ listed \in inited \cup {None} /\ inited \subseteq Mutexes
        /\ lib \in BOOLEAN /\ timer \in BOOLEAN /\ masked \in BOOLEAN
        /\ holders \in [Mutexes -> SUBSET Threads] /\ struck \in BOOLEAN /\ cuts \subseteq Cuts
        /\ at \in [Threads -> Places] /\ exited \subseteq Workers
    BY DEF Base, TypeOK, Blocks, Marks, Nodes, Places
  <1>2. /\ mode = "run" /\ at[running].op = "user" /\ Stay
        /\ UNCHANGED <<queue, at, exited, tcb>>
    BY DEF AtOnce, MutexInit, MutexDestroy, LockNull, Calling, In
  <1>3. Typed
    <2>1. ASSUME NEW m \in Mutexes, MutexInit(m) PROVE Typed
      BY <1>1, <2>1, MutexInitIs DEF Typed, history, interruptions, Stay, processor
    <2>2. ASSUME NEW m \in Mutexes, MutexDestroy(m) PROVE Typed
      <3>1. mutex' \in Marks
        BY <2>2, FlagIs DEF Base, MutexDestroy
      <3> QED
        BY <1>1, <2>2, <3>1 DEF MutexDestroy, Typed, history, interruptions, Stay, processor
    <2>3. CASE LockNull
      BY <1>1, <2>3 DEF LockNull, Typed, Stay, processor, Cuts
    <2> QED
      BY <2>1, <2>2, <2>3 DEF AtOnce
  <1>4. inited \subseteq inited'
    BY DEF AtOnce, MutexInit, MutexDestroy, LockNull
  <1>5. running \notin exited
    BY <1>2 DEF Base, CallInv, TypeOK
  <1> QED
    BY <1>1, <1>2, <1>3, <1>4, <1>5, StayFrame DEF Unwaits, MutexOps, Protected, UnlockOps

(* The steps of lock and unlock.                                           *)
LEMMA MutexStepBase ==
  ASSUME Base, MutexStep
  PROVE  Base'
  <1>1. /\ mode = "run" /\ at[running].op \in MutexOps /\ Stay
        /\ UNCHANGED <<queue, inited, listed, exited, struck, cuts>>
    BY MutexStepGoes
  <1>2. /\ queue # <<>> /\ running = me /\ me \in Lockers /\ Arg \in inited /\ me \in Threads
    BY <1>1, AtMutex
  <1>3. PICK op \in MutexOps \cup {"user"}, arg \in {Arg, None} :
          Goes(op, arg) /\ (op \in MutexOps => arg = Arg)
    BY MutexStepGoes DEF MutexOps, Protected, UnlockOps
  <1>4. Typed
    BY <1>1, MutexStepTyped DEF Base, TypeOK, Typed, Stay, processor
  <1>5. running \notin exited
    BY <1>1, <1>2 DEF Base, CallInv, MutexOps, Protected, UnlockOps
  <1>6. \A t \in Threads : Unwaits(t)
    BY MutexStepTyped DEF Unwaits
  <1>7. op \notin {"exiting", "exit", "join", "joining"} /\ at[running].op # "exiting"
    BY <1>1 DEF MutexOps, Protected, UnlockOps
  <1>8. exited \subseteq Workers /\ inited' = inited /\ exited' = exited
    BY <1>1 DEF Base, TypeOK
  <1>9. /\ at' \in [Threads -> Places] /\ \A t \in Threads : t # running => at'[t] = at[t]
        /\ at'[running].op \notin {"exiting", "exit", "join", "joining"}
        /\ at'[running].op \in MutexOps => at'[running].arg \in inited' /\ running \in Lockers
    BY <1>2, <1>3, <1>7, <1>8 DEF Goes
  <1> HIDE DEF MutexOps
  <1> QED
    BY <1>1, <1>2, <1>4, <1>5, <1>6, <1>7, <1>8, <1>9, StayFrame

(* A call of lock or unlock begins.                                        *)
LEMMA BeginsIs ==
  ASSUME Base, NEW m \in Mutexes, Lock(m) \/ Unlock(m)
  PROVE  /\ mode = "run" /\ at[running].op = "user" /\ Stay /\ queue # <<>>
         /\ running = me /\ me \in Threads /\ running \in Lockers /\ m \in inited
         /\ Lock(m) => Goes("lock", m)
         /\ Unlock(m) => Goes(IF mutex[m].flag THEN "unlock" ELSE "undoing", m)
         /\ Typed
         /\ mutex' \in Marks
         /\ \A n \in Mutexes : mutex'[n].owner = mutex[n].owner /\ (mutex[n].flag => mutex'[n].flag)
         /\ UNCHANGED <<queue, tcb, inited, listed, waitList, exited, returned, cuts>>
  <1>1. /\ mode = "run" /\ at[running].op = "user" /\ Stay /\ queue # <<>>
        /\ running \in Lockers /\ m \in inited
        /\ UNCHANGED <<queue, tcb, inited, listed, waitList, exited, returned, cuts>>
    BY DEF Lock, Unlock, Calling, In, interruptions
  <1>2. running = me /\ me \in Threads
    BY <1>1, RunsHead
  <1>3. Lock(m) => Goes("lock", m)
    BY GotoIs DEF Lock, Goes, Base, Ops, Protected
  <1>4. Unlock(m) => Goes(IF mutex[m].flag THEN "unlock" ELSE "undoing", m)
    <2>1. (IF mutex[m].flag THEN "unlock" ELSE "undoing") \in Ops
      BY DEF Ops
    <2> QED
      BY <2>1, GotoIs DEF Unlock, Goes, Base
  <1>5. /\ mutex' \in Marks
        /\ \A n \in Mutexes : mutex'[n].owner = mutex[n].owner /\ (mutex[n].flag => mutex'[n].flag)
    <2>1. CASE Lock(m)
      BY <2>1 DEF Lock, Base, TypeOK, Marks
    <2>2. CASE Unlock(m)
      <3>1. mutex' = [mutex EXCEPT ![m].flag = TRUE]
        BY <2>2 DEF Unlock
      <3>2. /\ mutex' \in Marks /\ mutex'[m].flag = TRUE
            /\ \A n \in Mutexes : mutex'[n].owner = mutex[n].owner /\ (n # m => mutex'[n] = mutex[n])
        BY <3>1, FlagIs DEF Base
      <3> QED
        BY <3>2
    <2> QED
      BY <2>1, <2>2
  <1>6. holders' \in [Mutexes -> SUBSET Threads]
    <2>1. holders' = holders \/ holders' = [holders EXCEPT ![m] = @ \ {running}]
      BY DEF Lock, Unlock
    <2> QED
      BY <2>1 DEF Base, TypeOK
  <1>7. lib' \in BOOLEAN /\ timer' \in BOOLEAN /\ struck' \in BOOLEAN
    BY DEF Lock, Unlock, Base, TypeOK, interruptions, Marks
  <1>8. Typed
    BY <1>1, <1>5, <1>6, <1>7 DEF Base, TypeOK, Typed, Stay, processor, Blocks, Nodes
  <1> QED
    BY <1>1, <1>2, <1>3, <1>4, <1>5, <1>8

LEMMA BeginsBase ==
  ASSUME Base, NEW m \in Mutexes, Lock(m) \/ Unlock(m)
  PROVE  Base'
  <1>1. PICK op \in {"lock", "unlock", "undoing"} : Goes(op, m)
    BY BeginsIs
  <1>2. running \notin exited /\ exited \subseteq Workers
    BY BeginsIs DEF Base, CallInv, TypeOK
  <1>3. \A t \in Threads : Unwaits(t)
    BY BeginsIs DEF Unwaits
  <1> QED
    BY <1>1, <1>2, <1>3, BeginsIs, StayFrame DEF Goes

(* mypthread_join, when it does not wait.                                  *)
LEMMA JoinIs ==
  ASSUME Base, NEW u \in Workers, Join(u)
  PROVE  /\ mode = "run" /\ at[running].op = "user" /\ Stay /\ queue # <<>>
         /\ running = me /\ me \in Threads /\ me \in Alive /\ u \in Created /\ u # me
         /\ mutex' \in Marks
         /\ \A m \in Mutexes : mutex'[m].owner = mutex[m].owner /\ (mutex[m].flag => mutex'[m].flag)
         /\ \/ Goes("join", u) /\ u \in Alive /\ Waiter(u) = None /\ returned' = returned
            \/ at' = at /\ \A r \in returned' : r \in returned \/ r.of \in exited
         /\ timer' = TRUE
         /\ UNCHANGED <<queue, tcb, inited, listed, waitList, lib, exited, holders, struck, cuts>>
  <1>1. /\ mode = "run" /\ at[running].op = "user" /\ queue # <<>> /\ u \in Created /\ u # me
        /\ mutex' = Printed(mutex) /\ timer' = TRUE /\ Stay
        /\ UNCHANGED <<queue, tcb, inited, listed, waitList, lib, exited, holders, struck, cuts>>
    BY DEF Join, Calling, In, interruptions
  <1>2. running = me /\ me \in Threads /\ me \in Alive
    BY <1>1, RunsHead
  <1>3. /\ mutex' \in Marks
        /\ \A m \in Mutexes : mutex'[m].owner = mutex[m].owner /\ (mutex[m].flag => mutex'[m].flag)
    BY <1>1, PrintedIs DEF Base, Marks
  <1>4. \/ Goes("join", u) /\ u \in Alive /\ Waiter(u) = None /\ returned' = returned
        \/ at' = at /\ \A r \in returned' : r \in returned \/ r.of \in exited
    <2>1. CASE JoinChecked(u)
      <3>1. u \in Threads
        BY DEF Threads
      <3> QED
        BY <2>1, <3>1, GotoIs DEF JoinChecked, Base, Ops, Goes
    <2>2. CASE JoinTaken(u)
      BY <2>2 DEF JoinTaken
    <2>3. CASE JoinEnded(u)
      BY <1>1, <2>3 DEF JoinEnded, Created
    <2> QED
      BY <2>1, <2>2, <2>3 DEF Join
  <1> QED
    BY <1>1, <1>2, <1>3, <1>4

LEMMA JoinBase ==
  ASSUME Base, NEW u \in Workers, Join(u)
  PROVE  Base'
  <1>1. /\ at' \in [Threads -> Places] /\ \A t \in Threads : t # running => at'[t] = at[t]
        /\ at'[running].op \in {"user", "join"}
        /\ at'[running].op = "join" => at'[running].arg = u
    BY JoinIs DEF Base, TypeOK, Places, Goes
  <1>2. Typed
    BY JoinIs DEF Base, TypeOK, Typed, Stay, processor, Blocks, Nodes
  <1>3. running \notin exited /\ exited \subseteq Workers /\ Created' = Created
    BY JoinIs DEF Base, CallInv, TypeOK, Created, Alive
  <1>4. \A t \in Threads : Unwaits(t)
    BY JoinIs DEF Unwaits
  <1>5. at'[running].op \notin {"exit", "exiting", "joining"} /\ at'[running].op \notin MutexOps
    BY <1>1 DEF MutexOps, Protected, UnlockOps
  <1> QED
    BY <1>1, <1>2, <1>3, <1>4, <1>5, JoinIs, StayFrame

(* mypthread_join refused, or after the wait.                              *)
LEMMA JoinRefusedIs ==
  ASSUME Base, NEW u \in Workers, JoinRefused(u)
  PROVE  /\ mode = "run" /\ at[running].op = "user" /\ Stay /\ queue # <<>> /\ running = me
         /\ \/ tcb[me].waitingToEnd # None
            \/ \A r \in returned' : r \in returned \/ r.of = r.by
         /\ timer' = TRUE
         /\ UNCHANGED <<queue, tcb, mutex, inited, listed, waitList, lib, at, exited, holders,
                        struck, cuts>>
  <1>1. /\ mode = "run" /\ at[running].op = "user" /\ Stay /\ queue # <<>> /\ timer' = TRUE
        /\ UNCHANGED <<queue, tcb, mutex, inited, listed, waitList, lib, at, exited, holders,
                       struck, cuts>>
    BY DEF JoinRefused, Calling, In, interruptions
  <1>2. running = me
    BY <1>1, RunsHead
  <1>3. \/ tcb[me].waitingToEnd # None
        \/ \A r \in returned' : r \in returned \/ r.of = r.by
    <2>1. CASE tcb[me].waitingToEnd = None /\ u # me
      BY <2>1 DEF JoinRefused
    <2>2. CASE u = me
      BY <1>2, <2>2 DEF JoinRefused
    <2> QED
      BY <2>1, <2>2
  <1> QED
    BY <1>1, <1>2, <1>3

LEMMA JoinReturnsIs ==
  ASSUME Base, JoinReturns
  PROVE  /\ mode = "run" /\ at[running].op = "joining" /\ Stay /\ running \in Threads
         /\ Goes("user", None)
         /\ returned' = returned \cup {[by |-> running, of |-> at[running].arg]}
         /\ UNCHANGED <<queue, tcb, mutex, inited, listed, waitList, lib, timer, exited,
                        holders, struck, cuts>>
  <1>1. Goes("user", None)
    BY GotoIs DEF JoinReturns, Base, Ops, Goes
  <1> QED
    BY <1>1 DEF JoinReturns, In, Arg, Base, TypeOK, interruptions

LEMMA JoinReturnBase ==
  ASSUME Base, JoinReturns \/ \E u \in Workers : JoinRefused(u)
  PROVE  Base'
  <1>1. /\ mode = "run" /\ at[running].op \in {"user", "joining"} /\ Stay
        /\ \/ Goes("user", None) /\ at[running].op = "joining"
           \/ at' = at /\ at[running].op = "user"
        /\ timer' \in BOOLEAN
        /\ UNCHANGED <<queue, tcb, mutex, inited, listed, waitList, lib, exited, holders, struck, cuts>>
    BY JoinReturnsIs, JoinRefusedIs DEF Base, TypeOK
  <1>2. Typed
    BY <1>1 DEF Base, TypeOK, Typed, Stay, processor, Blocks, Marks, Nodes
  <1>3. running \notin exited /\ exited \subseteq Workers
    BY <1>1 DEF Base, CallInv, TypeOK
  <1>4. \A t \in Threads : Unwaits(t)
    BY <1>1 DEF Unwaits
  <1>5. /\ at' \in [Threads -> Places] /\ \A t \in Threads : t # running => at'[t] = at[t]
        /\ at'[running].op = "user"
    BY <1>1 DEF Goes, Base, TypeOK, Places
  <1>6. queue # <<>> \/ at' = at
    BY <1>1, RunsHead
  <1> QED
    BY <1>1, <1>2, <1>3, <1>4, <1>5, <1>6, StayFrame DEF MutexOps, Protected, UnlockOps

(* mypthread_exit records the value, and stops the wait of one thread.     *)
LEMMA ExitIs ==
  ASSUME Base, Exit
  PROVE  /\ mode = "run" /\ at[running].op = "user" /\ Stay /\ queue # <<>>
         /\ running = me /\ me \in Workers /\ me \in Threads /\ me \in Alive /\ Holds(me) = {}
         /\ exited' = exited \cup {me} /\ tcb' \in Blocks /\ timer' = TRUE /\ Goes("exit", None)
         /\ \A t \in Threads :
              /\ tcb'[t].mutex = tcb[t].mutex
              /\ tcb'[t].waitingToEnd = IF t = Waiter(me) THEN None ELSE tcb[t].waitingToEnd
         /\ Waiter(me) = None => \A t \in Alive : tcb[t].waitingToEnd # me
         /\ Waiter(me) # None => Waiter(me) \in Threads /\ tcb[Waiter(me)].waitingToEnd = me
         /\ UNCHANGED <<queue, mutex, inited, listed, waitList, lib, holders, returned, struck, cuts>>
  <1> DEFINE w == Waiter(me)
  <1>1. /\ mode = "run" /\ at[running].op = "user" /\ queue # <<>> /\ running # Main
        /\ exited' = exited \cup {me} /\ Holds(running) = {}
        /\ tcb' = (IF w = None THEN tcb ELSE [tcb EXCEPT ![w].waitingToEnd = None])
        /\ timer' = TRUE /\ Goto("exit", None) /\ Stay
        /\ UNCHANGED <<queue, mutex, inited, listed, waitList, lib, holders, returned, struck, cuts>>
    BY DEF Exit, Calling, In, interruptions
  <1>2. running = me /\ me \in Threads /\ me \in Alive /\ me \in Workers
    BY <1>1, RunsHead DEF Threads
  <1>3. /\ w = None => \A t \in Alive : tcb[t].waitingToEnd # me
        /\ w # None => w \in Alive /\ w \in Threads /\ tcb[w].waitingToEnd = me
    BY WaiterIs, QueueFacts DEF Base
  <1> HIDE DEF w
  <1>4. /\ tcb' \in Blocks
        /\ \A t \in Threads : tcb'[t].mutex = tcb[t].mutex
        /\ \A t \in Threads : tcb'[t].waitingToEnd = IF t = w THEN None ELSE tcb[t].waitingToEnd
    <2> DEFINE Block == [mutex : Mutexes \cup {None}, waitingToEnd : Threads \cup {None},
                         joinReturnLocation : Workers \cup {None}, numQuantum : Nat]
               new == [tcb[w] EXCEPT !.waitingToEnd = None]
    <2>1. tcb \in [Threads -> Block]
      BY DEF Base, TypeOK
    <2>2. CASE w = None
      BY <1>1, <2>1, <2>2, ThreadsAssumption DEF Blocks, ThreadsAssumption
    <2>3. CASE w # None
      <3>1. new \in Block /\ new.waitingToEnd = None /\ new.mutex = tcb[w].mutex
        BY <1>3, <2>1, <2>3
      <3>2. tcb' = [tcb EXCEPT ![w] = new]
        BY <1>1, <2>3
      <3> HIDE DEF new
      <3>3. tcb' \in [Threads -> Block]
        BY <2>1, <3>1, <3>2
      <3> QED
        BY <1>3, <2>1, <2>3, <3>1, <3>2, <3>3 DEF Blocks
    <2> QED
      BY <2>2, <2>3
  <1>5. Goes("exit", None)
    BY <1>1, GotoIs DEF Base, Ops, Goes
  <1> QED
    BY <1>1, <1>2, <1>3, <1>4, <1>5 DEF w

LEMMA ExitBase ==
  ASSUME Base, Exit
  PROVE  Base'
  <1>1. Typed
    BY ExitIs DEF Base, TypeOK, Typed, Stay, processor, Marks, Nodes
  <1>2. exited' = exited \cup {me} /\ exited' \subseteq Workers /\ me \notin exited
    BY ExitIs DEF Base, TypeOK, CallInv
  <1>3. \A t \in Threads : Unwaits(t)
    <2> SUFFICES ASSUME NEW t \in Threads, tcb'[t].waitingToEnd # tcb[t].waitingToEnd
                 PROVE  /\ tcb'[t].waitingToEnd = None
                        /\ at[t].op = "joining" => at[t].arg \in exited'
      BY DEF Unwaits
    <2>1. t = Waiter(me) /\ tcb'[t].waitingToEnd = None
      BY ExitIs
    <2>2. t # None
      BY ThreadsAssumption DEF ThreadsAssumption
    <2>3. tcb[t].waitingToEnd = me
      BY <2>1, <2>2, ExitIs
    <2> QED
      BY <1>2, <2>1, <2>3 DEF Base, CallInv
  <1> QED
    BY <1>1, <1>2, <1>3, ExitIs, StayFrame DEF Goes, MutexOps, Protected, UnlockOps

(* The thread leaves the queue.                                            *)
LEMMA ExitDeleteIs ==
  ASSUME Base, ExitDelete
  PROVE  /\ mode = "run" /\ at[running].op = "exit" /\ Stay /\ queue # <<>> /\ queue' # <<>>
         /\ running = me /\ me \in Workers /\ me \in exited /\ me \in Threads
         /\ queue' \in Seq(Threads) /\ NoTwice(queue') /\ Alive' = Alive \ {me} /\ Main \in Alive'
         /\ Goes("exiting", None)
         /\ UNCHANGED <<tcb, mutex, inited, listed, waitList, lib, timer, exited, history>>
  <1>1. /\ mode = "run" /\ at[running].op = "exit" /\ queue' = Tail(queue)
        /\ Goto("exiting", None) /\ Stay
        /\ UNCHANGED <<tcb, mutex, inited, listed, waitList, lib, timer, exited, history>>
    BY DEF ExitDelete, In
  <1>2. queue # <<>> /\ running = me /\ me \in Threads /\ me \in Alive
    BY <1>1, RunsHead
  <1>3. queue' \in Seq(Threads) /\ NoTwice(queue') /\ Alive' = Alive \ {me}
    BY <1>1, <1>2, QueueFacts DEF Base, Alive
  <1>4. me \in exited /\ me \in Workers /\ me # Main
    BY <1>1, <1>2, ThreadsAssumption DEF Base, CallInv, TypeOK, ThreadsAssumption
  <1>5. Goes("exiting", None)
    BY <1>1, GotoIs DEF Base, Ops, Goes
  <1>6. Main \in Alive' /\ queue' # <<>>
    <2>1. Main \in Alive'
      BY <1>2, <1>3, <1>4 DEF Base, QueueInv
    <2> QED
      BY <2>1 DEF Alive, Range
  <1> QED
    BY <1>1, <1>2, <1>3, <1>4, <1>5, <1>6

LEMMA ExitDeleteBase ==
  ASSUME Base, ExitDelete
  PROVE  Base'
  <1>1. mode' = mode /\ running' = running /\ UNCHANGED <<context, masked>>
    BY ExitDeleteIs DEF Stay, processor
  <1>2. TypeOK'
    BY <1>1, ExitDeleteIs DEF Base, TypeOK, NoTwice, Goes, Places, history, interruptions
  <1>3. QueueInv'
    BY ExitDeleteIs DEF QueueInv
  <1>4. ProcInv'
    <2>1. \A t \in Threads : at[t].op = "exiting" => at'[t].op = "exiting"
      BY ExitDeleteIs DEF Goes
    <2> QED
      BY <1>1, <2>1, ExitDeleteIs DEF Base, ProcInv, Goes
  <1>5. CallInv'
    <2>1. Created' = Created
      BY ExitDeleteIs DEF Created
    <2> QED
      BY <2>1, ExitDeleteIs DEF Base, CallInv, Goes, MutexOps, Protected, UnlockOps
  <1> QED
    BY <1>2, <1>3, <1>4, <1>5 DEF Base

(* The steps that enter the scheduler from a thread.                       *)
Enters == LockWaits \/ JoinWaits \/ Switch

LEMMA EntersIs ==
  ASSUME Base, Enters
  PROVE  /\ mode = "run" /\ mode' = "sched" /\ queue # <<>> /\ me \in Threads /\ running \in Threads
         /\ running = me \/ (Switch /\ at[running].op = "exiting")
         /\ context' \in [Threads -> Threads \cup {None}]
         /\ context' = [context EXCEPT ![me] = running] /\ context'[me] = running
         /\ \A t \in Threads : t # me => context'[t] = context[t]
         /\ running' = running /\ masked' \in BOOLEAN
         /\ UNCHANGED <<queue, mutex, inited, listed, waitList, lib, timer, exited, holders,
                        returned>>
  <1>1. /\ mode = "run" /\ mode' = "sched" /\ masked' \in BOOLEAN
        /\ context' = [context EXCEPT ![me] = running] /\ running' = running
        /\ UNCHANGED <<queue, mutex, inited, listed, waitList, lib, timer, exited, holders,
                       returned>>
    BY DEF Enters, LockWaits, JoinWaits, Switch, EnterScheduler, In, history
  <1>2. queue # <<>>
    <2>1. CASE at[running].op \in {"lined", "join"}
      BY <1>1, <2>1, RunsHead
    <2> QED
      BY <2>1 DEF Enters, LockWaits, JoinWaits, Switch, In
  <1>3. me \in Threads /\ running \in Threads
    BY <1>2, QueueFacts DEF Base, TypeOK
  <1>4. running = me \/ (Switch /\ at[running].op = "exiting")
    BY <1>1, <1>2 DEF Base, ProcInv, Enters, LockWaits, JoinWaits, In
  <1>5. context' \in [Threads -> Threads \cup {None}] /\ context'[me] = running
        /\ \A t \in Threads : t # me => context'[t] = context[t]
    BY <1>1, <1>3 DEF Base, TypeOK
  <1> QED
    BY <1>1, <1>2, <1>3, <1>4, <1>5

LEMMA LockWaitsIs ==
  ASSUME Base, LockWaits
  PROVE  /\ at[running].op = "lined" /\ Arg \in Mutexes /\ Arg \in inited /\ me \in Lockers
         /\ Goes("waiting", Arg) /\ UNCHANGED <<tcb, struck, cuts>>
  <1>1. mode = "run" /\ at[running].op = "lined"
    BY DEF LockWaits, In
  <1>2. Arg \in Mutexes /\ Arg \in inited /\ me \in Lockers
    BY <1>1, AtMutex DEF MutexOps
  <1>3. Goes("waiting", Arg)
    BY <1>2, GotoIs DEF LockWaits, Base, Ops, Goes
  <1> QED
    BY <1>1, <1>2, <1>3 DEF LockWaits, history, interruptions

LEMMA JoinWaitsIs ==
  ASSUME Base, JoinWaits
  PROVE  /\ at[running].op = "join" /\ Arg \in Workers /\ Arg \in Created
         /\ Goes("joining", Arg) /\ UNCHANGED <<struck, cuts>>
         /\ tcb' \in Blocks /\ tcb'[me].waitingToEnd = Arg
         /\ \A t \in Threads : /\ tcb'[t].mutex = tcb[t].mutex
                               /\ t # me => tcb'[t] = tcb[t]
  <1> DEFINE u == Arg
             Block == [mutex : Mutexes \cup {None}, waitingToEnd : Threads \cup {None},
                       joinReturnLocation : Workers \cup {None}, numQuantum : Nat]
  <1>1. PICK loc \in {u, None} :
          tcb' = [tcb EXCEPT ![me].waitingToEnd = u, ![me].joinReturnLocation = loc]
    BY DEF JoinWaits
  <1>2. /\ mode = "run" /\ at[running].op = "join" /\ at[running].arg = u
        /\ Goto("joining", u) /\ UNCHANGED <<struck, cuts>>
    BY DEF JoinWaits, In, Arg, history, interruptions
  <1>3. running = me /\ me \in Threads
    BY <1>2, RunsHead
  <1>4. u \in Workers /\ u \in Created
    BY <1>2, <1>3 DEF Base, CallInv
  <1> HIDE DEF u
  <1> DEFINE new == [tcb[me] EXCEPT !.waitingToEnd = u, !.joinReturnLocation = loc]
  <1>5. tcb \in [Threads -> Block] /\ loc \in Workers \cup {None} /\ u \in Threads
    BY <1>1, <1>4 DEF Base, TypeOK, Threads
  <1>6. new \in Block /\ new.waitingToEnd = u /\ new.mutex = tcb[me].mutex
    BY <1>3, <1>5
  <1>7. tcb' = [tcb EXCEPT ![me] = new]
    BY <1>1
  <1> HIDE DEF new
  <1>8. tcb' \in [Threads -> Block]
    BY <1>5, <1>6, <1>7
  <1>9. /\ tcb'[me].waitingToEnd = u
        /\ \A t \in Threads : /\ tcb'[t].mutex = tcb[t].mutex
                              /\ t # me => tcb'[t] = tcb[t]
    BY <1>3, <1>5, <1>6, <1>7
  <1>10. Goes("joining", u)
    BY <1>2, <1>5, GotoIs DEF Base, Ops, Goes
  <1> QED
    BY <1>2, <1>4, <1>8, <1>9, <1>10 DEF u, Blocks

LEMMA SwitchIs ==
  ASSUME Base, Switch
  PROVE  /\ UNCHANGED <<tcb, at>>
         /\ struck' = (struck \/ at[running].op \in Protected)
         /\ cuts' = cuts \cup CutAt(at[running].op) /\ cuts' \subseteq Cuts
  <1>1. CutAt(at[running].op) \subseteq Cuts
    BY DEF CutAt, Cuts
  <1> QED
    BY <1>1 DEF Switch, Base, TypeOK

LEMMA EntersBase ==
  ASSUME Base, Enters
  PROVE  Base'
  <1>1. /\ at' \in [Threads -> Places] /\ tcb' \in Blocks /\ struck' \in BOOLEAN /\ cuts' \subseteq Cuts
    <2>1. tcb \in Blocks /\ at \in [Threads -> Places] /\ struck \in BOOLEAN /\ cuts \subseteq Cuts
      BY DEF Base, TypeOK, Blocks, Places
    <2>2. struck' \in BOOLEAN
      BY <2>1, LockWaitsIs, JoinWaitsIs, SwitchIs DEF Enters
    <2> QED
      BY <2>1, <2>2, LockWaitsIs, JoinWaitsIs, SwitchIs DEF Enters, Goes
  <1>2. TypeOK'
    BY <1>1, EntersIs DEF Base, TypeOK, NoTwice, Blocks, Places
  <1>3. me' = me /\ Alive' = Alive /\ Created' = Created
    BY EntersIs DEF me, Alive, Created
  <1>4. QueueInv'
    BY <1>3, EntersIs DEF Base, QueueInv
  <1>5. \A t \in Threads : at[t].op = "exiting" => at'[t].op = "exiting"
    BY EntersIs, LockWaitsIs, JoinWaitsIs, SwitchIs DEF Enters, Goes
  <1>6. ProcInv'
    BY <1>5, EntersIs DEF Base, ProcInv
  <1>7. CallInv'
    <2>1. CASE Switch
      BY <1>3, <2>1, EntersIs, SwitchIs DEF Base, CallInv
    <2>2. CASE LockWaits
      <3>1. running = me /\ UNCHANGED <<inited, exited, tcb>>
        BY <2>2, EntersIs, LockWaitsIs DEF LockWaits, Switch, In
      <3> QED
        BY <1>3, <2>2, <3>1, LockWaitsIs DEF Base, CallInv, Goes
    <2>3. CASE JoinWaits
      <3>1. running = me /\ UNCHANGED <<inited, exited>> /\ me \in Threads
        BY <2>3, EntersIs, JoinWaitsIs
      <3> QED
        BY <1>3, <2>3, <3>1, JoinWaitsIs DEF Base, CallInv, Goes, MutexOps, Protected, UnlockOps
    <2> QED
      BY <2>1, <2>2, <2>3 DEF Enters
  <1> QED
    BY <1>2, <1>4, <1>6, <1>7 DEF Base

(* The steps that end the program's run, or a thread's, or lose the         *)
(* scheduler.                                                              *)
Leaves == ExitReturns \/ MainReturns \/ SwitchScheduler

LEMMA LeavesIs ==
  ASSUME Base, Leaves
  PROVE  /\ queue # <<>> /\ UNCHANGED <<queue, tcb, mutex, inited, listed, waitList, lib, timer,
                                        running, masked, at, exited, holders, returned, struck>>
         /\ cuts' \subseteq Cuts /\ cuts \subseteq cuts'
         /\ \/ /\ mode = "run" /\ mode' \in {"sched", "ended"}
               /\ at[running].op \in {"exiting", "user"} /\ context' = context
               /\ mode' = "sched" => at[running].op = "exiting"
            \/ /\ mode \in {"sched", "loop"} /\ mode' = "lost" /\ "scheduler" \in cuts'
               /\ context' \in [Threads -> Threads \cup {None}]
  <1>1. queue # <<>>
    BY DEF Leaves, ExitReturns, MainReturns, SwitchScheduler, Calling, In, Base, QueueInv, User
  <1>2. cuts' \subseteq Cuts /\ cuts \subseteq cuts'
    BY DEF Leaves, ExitReturns, MainReturns, SwitchScheduler, history, interruptions, Base, TypeOK,
           Cuts
  <1>3. me \in Threads
    BY <1>1, QueueFacts DEF Base
  <1>4. SwitchScheduler => context' \in [Threads -> Threads \cup {None}]
    BY <1>3 DEF SwitchScheduler, Base, TypeOK
  <1> QED
    BY <1>1, <1>2, <1>4 DEF Leaves, ExitReturns, MainReturns, SwitchScheduler, Calling, In, history,
           interruptions

LEMMA LeavesBase ==
  ASSUME Base, Leaves
  PROVE  Base'
  <1>1. me' = me /\ Alive' = Alive /\ Created' = Created
    BY LeavesIs DEF me, Alive, Created
  <1>2. TypeOK'
    BY LeavesIs DEF Base, TypeOK, NoTwice
  <1>3. QueueInv'
    BY <1>1, LeavesIs DEF Base, QueueInv
  <1>4. ProcInv'
    BY <1>1, LeavesIs DEF Base, ProcInv
  <1>5. CallInv'
    BY <1>1, LeavesIs DEF Base, CallInv
  <1> QED
    BY <1>2, <1>3, <1>4, <1>5 DEF Base

(* Every step is one of these.                                             *)
LEMMA StepIs ==
  ASSUME Next
  PROVE  \/ Scheduler \/ MutexStep \/ Enters \/ Leaves \/ Exit \/ ExitDelete \/ JoinReturns
         \/ \E u \in Workers : Create(u) \/ Join(u) \/ JoinRefused(u)
         \/ \E m \in Mutexes : Lock(m) \/ Unlock(m) \/ MutexInit(m) \/ MutexDestroy(m)
         \/ LockNull
  BY DEF Next, Calls, MutexStep, Enters, Leaves

LEMMA NextBase ==
  ASSUME Base, Next
  PROVE  Base'
  BY StepIs, SchedulerBase, MutexStepBase, EntersBase, LeavesBase, ExitBase, ExitDeleteBase,
     JoinReturnBase, CreateBase, JoinBase, BeginsBase, AtOnceBase DEF AtOnce

-----------------------------------------------------------------------------
(* What the protection of the library is worth: LibInv holds until          *)
(* mypthread_mutex_lock(NULL), and contexts hold their own threads until    *)
(* the timer expires in mypthread_exit or in the scheduler.                 *)

(* A cut is never undone.                                                  *)
LEMMA CutsGrow ==
  ASSUME Next
  PROVE  cuts \subseteq cuts'
  BY StepIs DEF Scheduler, ScheduleLibrary, ScheduleOnly, ScheduleRotate, LoopFree, LoopOwner,
     LoopGrant, LoopCrash, LoopWait, LoopJoined, LoopJoining, Skip, MutexStep, LockTaken, LockAgain,
     LockBusy, LockLined, LockChecked, LockOwned, LockNamed, LockOverrides, LockReturns,
     UnlockUndone, UnlockRefused, UnlockOwned, UnlockFlag, UnlockOwner, Enters, LockWaits,
     JoinWaits, Switch, Leaves, ExitReturns, MainReturns, SwitchScheduler, Exit, ExitDelete,
     JoinReturns, Create, Join, JoinRefused, Lock, Unlock, MutexInit, MutexDestroy, LockNull,
     history, interruptions

(* The protection ends, or the call of lock goes on under it.              *)
LEMMA MutexStepLib ==
  ASSUME Base, MutexStep
  PROVE  \/ lib' = FALSE /\ at'[running].op \notin Protected
         \/ lib' = lib /\ (at[running].op \in Protected <=> at'[running].op \in Protected)
  <1> USE AtMutex, GotoIs
  <1>1. CASE LockTaken
    <2>1. (IF mutex[Arg].flag THEN "busy" ELSE "locking") \in Ops \cap Protected
      BY DEF Ops, Protected
    <2> QED
      BY <1>1, <2>1, MutexStepGoes DEF MutexStep, LockTaken, Base, In, Protected
  <1>2. CASE LockBusy
    BY <1>2, MutexStepGoes DEF MutexStep, LockBusy, Base, Ops, Protected, In
  <1>3. CASE LockChecked
    <2>1. (IF mutex[Arg].owner = None THEN "owning" ELSE "overriding") \in Ops \cap Protected
      BY DEF Ops, Protected
    <2> QED
      BY <1>3, <2>1, MutexStepGoes DEF MutexStep, LockChecked, Base, In, Protected
  <1>4. CASE LockOwned
    BY <1>4, MutexStepGoes DEF MutexStep, LockOwned, Base, Ops, Protected, In
  <1>5. CASE LockNamed
    BY <1>5, MutexStepGoes DEF MutexStep, LockNamed, Base, Ops, Protected, In
  <1>6. CASE LockOverrides
    BY <1>6, MutexStepGoes DEF MutexStep, LockOverrides, Base, Ops, Protected, In
  <1>7. CASE LockAgain \/ LockReturns
    BY <1>7, MutexStepGoes DEF MutexStep, LockAgain, LockReturns, Base, Ops, Protected
  <1>8. CASE LockLined
    <2>1. lib' = FALSE /\ Goto("lined", Arg)
      BY <1>8 DEF LockLined
    <2>2. Arg \in Mutexes /\ "lined" \in Ops \ Protected
      BY MutexStepGoes DEF Ops, Protected
    <2> QED
      BY <2>1, <2>2 DEF Base
  <1>9. CASE UnlockUndone \/ UnlockRefused \/ UnlockOwner
    BY <1>9, MutexStepGoes
       DEF MutexStep, UnlockUndone, UnlockRefused, UnlockOwner, Base, Ops, Protected, In
  <1>10. CASE UnlockOwned \/ UnlockFlag
    BY <1>10, MutexStepGoes DEF MutexStep, UnlockOwned, UnlockFlag, Base, Ops, Protected, In
  <1> QED
    BY <1>1, <1>2, <1>3, <1>4, <1>5, <1>6, <1>7, <1>8, <1>9, <1>10 DEF MutexStep

LEMMA LibKeeps ==
  ASSUME Base, Next, LibInv, "null" \notin cuts'
  PROVE  LibInv'
  <1>1. lib \in BOOLEAN
    BY DEF Base, TypeOK
  <1>2. mode = "run" /\ at[running].op \notin Protected => lib = FALSE
    BY <1>1 DEF LibInv
  <1>3. mode = "loop" => lib = FALSE
    BY <1>1 DEF LibInv
  <1>4. CASE Scheduler
    <2>1. lib' = FALSE
      BY <1>3, <1>4 DEF Scheduler, ScheduleLibrary, ScheduleOnly, ScheduleRotate, LoopFree,
         LoopOwner, LoopGrant, LoopCrash, LoopWait, LoopJoined, LoopJoining, Skip, Wanting
    <2> QED
      BY <2>1 DEF LibInv
  <1>5. CASE MutexStep
    <2>1. /\ mode = "run" /\ at[running].op \in MutexOps /\ queue' = queue /\ mode' = mode
          /\ running' = running
      BY <1>5, MutexStepGoes DEF Stay, processor
    <2>2. me' = me
      BY <2>1 DEF me
    <2> QED
      BY <1>5, <2>1, <2>2, MutexStepLib DEF LibInv
  <1>6. CASE Enters
    <2>1. CASE Switch
      <3>1. me' = me
        BY <1>6, EntersIs DEF me
      <3> QED
        BY <1>6, <2>1, <3>1, EntersIs, SwitchIs DEF LibInv
    <2>2. CASE LockWaits \/ JoinWaits
      <3>1. lib' = FALSE
        BY <1>2, <1>6, <2>2, EntersIs, LockWaitsIs, JoinWaitsIs DEF Protected
      <3> QED
        BY <3>1 DEF LibInv
    <2> QED
      BY <1>6, <2>1, <2>2 DEF Enters
  <1>7. CASE Leaves
    <2>1. lib' = FALSE \/ mode' = "lost"
      BY <1>2, <1>7, LeavesIs DEF Protected
    <2> QED
      BY <2>1 DEF LibInv
  <1>8. ASSUME NEW m \in Mutexes, Lock(m) PROVE LibInv'
    <2>1. /\ Goes("lock", m) /\ running = me /\ running' = running /\ mode' = "run"
          /\ queue' = queue /\ queue # <<>>
      BY <1>8, BeginsIs DEF Stay, processor
    <2>2. me' = me
      BY <2>1 DEF me
    <2> QED
      BY <2>1, <2>2 DEF LibInv, Goes, Protected
  <1>9. CASE ~ (Scheduler \/ MutexStep \/ Enters \/ Leaves \/ \E m \in Mutexes : Lock(m))
    <2>1. lib' = FALSE
      BY <1>2, <1>9, StepIs DEF Exit, ExitDelete, JoinReturns, Create, Join, JoinRefused, Unlock,
         MutexInit, MutexDestroy, LockNull, Calling, In, Protected
    <2> QED
      BY <2>1 DEF LibInv
  <1> QED
    BY <1>4, <1>5, <1>6, <1>7, <1>8, <1>9

LEMMA ContextsKeep ==
  ASSUME Base, Next, \A t \in Threads : context[t] = t, cuts' \cap ContextCuts = {}
  PROVE  \A t \in Threads : context'[t] = t
  <1>1. CASE Enters
    <2>1. CASE at[running].op = "exiting" /\ Switch
      <3>1. "exit" \in cuts'
        BY <2>1, SwitchIs DEF CutAt, Protected
      <3> QED
        BY <3>1 DEF ContextCuts
    <2> QED
      BY <1>1, <2>1, EntersIs
  <1>2. CASE Leaves
    <2>1. context' = context
      BY <1>2, LeavesIs DEF ContextCuts
    <2> QED
      BY <2>1
  <1>3. CASE ~ (Enters \/ Leaves)
    <2>1. context' = context
      BY <1>3, StepIs DEF Scheduler, ScheduleLibrary, ScheduleOnly, ScheduleRotate, LoopFree,
         LoopOwner, LoopGrant, LoopCrash, LoopWait, LoopJoined, LoopJoining, Skip, Dispatch,
         MutexStep, LockTaken, LockAgain, LockBusy, LockLined, LockChecked, LockOwned, LockNamed,
         LockOverrides, LockReturns, UnlockUndone, UnlockRefused, UnlockOwned, UnlockFlag,
         UnlockOwner, Exit, ExitDelete, JoinReturns, Create, Join, JoinRefused, Lock, Unlock,
         MutexInit, MutexDestroy, LockNull, Stay, processor
    <2> QED
      BY <2>1
  <1> QED
    BY <1>1, <1>2, <1>3

-----------------------------------------------------------------------------
(* The joins.  A thread that runs waits for no thread, unless one alone in  *)
(* the queue was run while it waited.                                       *)

(* A step of a thread that keeps the processor.                            *)
LEMMA RunIs ==
  ASSUME Base, Next, ~ Scheduler, ~ Enters, ~ Leaves
  PROVE  /\ mode = "run" /\ mode' = "run" /\ running' = running /\ running \in Threads
         /\ at[running].op # "exiting" /\ \A t \in Threads : t # running => at'[t] = at[t]
         /\ exited \subseteq exited'
         /\ ExitDelete \/ Alive \subseteq Alive'
         /\ Exit \/ \A t \in Threads : tcb'[t].waitingToEnd = tcb[t].waitingToEnd
  <1>1. CASE MutexStep
    <2>1. at[running].op # "exiting"
      BY <1>1, MutexStepGoes DEF MutexOps, Protected, UnlockOps
    <2> QED
      BY <1>1, <2>1, MutexStepGoes, MutexStepTyped
         DEF Goes, Stay, processor, Base, TypeOK, Alive
  <1>2. CASE Exit
    BY <1>2, ExitIs DEF Goes, Stay, processor, Alive
  <1>3. CASE ExitDelete
    BY <1>3, ExitDeleteIs DEF Goes, Stay, processor
  <1>4. CASE JoinReturns
    BY <1>4, JoinReturnsIs DEF Goes, Stay, processor, Alive
  <1>5. ASSUME NEW u \in Workers, Create(u) \/ Join(u) \/ JoinRefused(u)
        PROVE  /\ mode = "run" /\ mode' = "run" /\ running' = running /\ running \in Threads
               /\ at[running].op # "exiting" /\ \A t \in Threads : t # running => at'[t] = at[t]
               /\ exited \subseteq exited' /\ Alive \subseteq Alive'
               /\ \A t \in Threads : tcb'[t].waitingToEnd = tcb[t].waitingToEnd
    <2>1. running \in Threads
      BY DEF Base, TypeOK
    <2> QED
      BY <1>5, <2>1, CreateIs, JoinIs, JoinRefusedIs DEF Goes, Stay, processor, Alive
  <1>6. ASSUME NEW m \in Mutexes, Lock(m) \/ Unlock(m)
        PROVE  /\ mode = "run" /\ mode' = "run" /\ running' = running /\ running \in Threads
               /\ at[running].op # "exiting" /\ \A t \in Threads : t # running => at'[t] = at[t]
               /\ exited \subseteq exited' /\ Alive \subseteq Alive'
               /\ \A t \in Threads : tcb'[t].waitingToEnd = tcb[t].waitingToEnd
    <2>1. PICK op \in Ops : Goes(op, m)
      BY <1>6, BeginsIs DEF Ops, Protected
    <2> QED
      BY <1>6, <2>1, BeginsIs DEF Goes, Stay, processor, Alive
  <1>7. CASE AtOnce
    <2>1. /\ mode = "run" /\ at[running].op = "user" /\ Stay
          /\ UNCHANGED <<queue, at, exited, tcb>>
      BY <1>7 DEF AtOnce, MutexInit, MutexDestroy, LockNull, Calling, In
    <2> QED
      BY <2>1 DEF Stay, processor, Alive, Base, TypeOK
  <1> QED
    BY <1>1, <1>2, <1>3, <1>4, <1>5, <1>6, <1>7, StepIs DEF AtOnce

(* A step of the scheduler lets a thread wait no more, or as before.       *)
LEMMA SchedulerIs ==
  ASSUME Base, Scheduler
  PROVE  /\ mode \in {"sched", "loop"} /\ Alive' = Alive
         /\ UNCHANGED <<at, exited, inited, listed, holders, returned, struck>>
         /\ LoopJoined \/ \A t \in Threads : tcb'[t].waitingToEnd = tcb[t].waitingToEnd
         /\ \A t \in Threads : tcb'[t].mutex = tcb[t].mutex
         /\ \/ Dispatched
            \/ mode' \in {"loop", "crashed"}
  <1>1. CASE ScheduleOnly
    BY <1>1, ScheduleOnlyIs DEF Same, Alive
  <1>2. CASE ScheduleRotate
    BY <1>2, ScheduleRotateIs DEF Same, history, interruptions
  <1>3. CASE LoopWait \/ LoopJoining
    <2>1. mode = "loop" /\ Skip
      BY <1>3 DEF LoopWait, LoopJoining, Wanting
    <2> QED
      BY <2>1, SkipIs DEF Same, history, interruptions
  <1>4. CASE HeadGoesOn
    <2>1. CASE LoopJoined
      BY <1>4, <2>1, HeadGoesOnIs, LoopJoinedIs DEF Alive, history, interruptions
    <2>2. CASE Same(tcb')
      BY <1>4, <2>2, HeadGoesOnIs DEF Same, Alive, history, interruptions
    <2> QED
      BY <1>4, <2>1, <2>2, HeadGoesOnIs
  <1>5. CASE LoopCrash
    BY <1>5 DEF LoopCrash, Wanting, Alive, history, interruptions
  <1> QED
    BY <1>1, <1>2, <1>3, <1>4, <1>5 DEF Scheduler, HeadGoesOn

(* Who may be given the processor waits for no thread.                     *)
LEMMA UnwaitingKeeps ==
  ASSUME Base, LibInv, Next, Unwaiting,
         \A t \in Threads : tcb[t].waitingToEnd # None => at[t].op = "joining",
         ScheduleOnly => tcb[me].waitingToEnd = None
  PROVE  Unwaiting'
  <1>1. CASE Scheduler
    <2>1. CASE Dispatched /\ at[running'].op = "exiting"
      <3>1. tcb[running'].waitingToEnd = None /\ running' \in Threads
        BY <2>1 DEF Dispatched
      <3>2. tcb'[running'].waitingToEnd = None
        <4>1. CASE LoopJoined
          BY <3>1, <4>1, LoopJoinedIs
        <4>2. CASE ~ LoopJoined
          BY <1>1, <3>1, <4>2, SchedulerIs
        <4> QED
          BY <4>1, <4>2
      <3> QED
        BY <3>2 DEF Unwaiting
    <2>2. CASE Dispatched /\ running' = me'
      <3>1. tcb'[me'].waitingToEnd = None
        <4>1. CASE ScheduleOnly
          BY <4>1, ScheduleOnlyIs DEF Same
        <4>2. CASE ScheduleRotate
          BY <2>2, <4>2, ScheduleRotateIs DEF Same, Free, Dispatched
        <4>3. CASE LoopJoined
          BY <4>3, LoopJoinedIs, HeadGoesOnIs DEF HeadGoesOn
        <4>4. CASE HeadGoesOn /\ ~ LoopJoined
          <5>1. tcb[me].waitingToEnd = None
            BY <4>4 DEF HeadGoesOn, ScheduleLibrary, LoopFree, LoopOwner, LoopGrant, Wanting, Free,
                        LibInv, Unwaiting
          <5> QED
            BY <4>4, <5>1, HeadGoesOnIs DEF Same
        <4>5. CASE LoopWait \/ LoopJoining \/ LoopCrash
          BY <2>2, <4>5 DEF LoopWait, LoopJoining, LoopCrash, Skip, processor, Wanting, Dispatched
        <4> QED
          BY <1>1, <4>1, <4>2, <4>3, <4>4, <4>5 DEF Scheduler, HeadGoesOn
      <3> QED
        BY <2>2, <3>1 DEF Unwaiting
    <2>3. CASE mode' \in {"loop", "crashed"}
      BY <2>3 DEF Unwaiting
    <2> QED
      BY <1>1, <2>1, <2>2, <2>3, SchedulerIs DEF Dispatched
  <1>2. CASE Enters
    <2>1. CASE Switch
      BY <1>2, <2>1, EntersIs, SwitchIs DEF Unwaiting
    <2>2. CASE LockWaits \/ JoinWaits
      <3>1. ~ lib'
        BY <1>2, <2>2, EntersIs, LockWaitsIs, JoinWaitsIs DEF LibInv, Protected
      <3> QED
        BY <1>2, <3>1, EntersIs DEF Unwaiting
    <2> QED
      BY <1>2, <2>1, <2>2 DEF Enters
  <1>3. CASE Leaves
    BY <1>3, LeavesIs DEF Unwaiting
  <1>4. CASE ~ Scheduler /\ ~ Enters /\ ~ Leaves
    <2>1. tcb'[running].waitingToEnd = None
      <3>1. tcb[running].waitingToEnd = None /\ running \in Threads
        BY <1>4, RunIs DEF Unwaiting
      <3>2. CASE Exit
        BY <3>1, <3>2, ExitIs
      <3> QED
        BY <1>4, <3>1, <3>2, RunIs
    <2> QED
      BY <1>4, <2>1, RunIs DEF Unwaiting
  <1> QED
    BY <1>1, <1>2, <1>3, <1>4

(* Only who is in join waits for a thread.                                 *)
LEMMA JoiningKeeps ==
  ASSUME Base, Next, Unwaiting,
         \A t \in Threads : tcb[t].waitingToEnd # None => at[t].op = "joining"
  PROVE  \A t \in Threads : tcb'[t].waitingToEnd # None => at'[t].op = "joining"
  <1> SUFFICES ASSUME NEW t \in Threads, tcb'[t].waitingToEnd # None PROVE at'[t].op = "joining"
    OBVIOUS
  <1>1. CASE Scheduler
    <2>1. tcb[t].waitingToEnd # None
      <3>1. CASE LoopJoined
        BY <3>1, LoopJoinedIs
      <3> QED
        BY <1>1, <3>1, SchedulerIs
    <2> QED
      BY <1>1, <2>1, SchedulerIs
  <1>2. CASE Switch
    BY <1>2, SwitchIs
  <1>3. CASE LockWaits
    <2>1. t # running
      BY <1>3, EntersIs, LockWaitsIs DEF Unwaiting, Enters
    <2> QED
      BY <1>3, <2>1, LockWaitsIs DEF Goes
  <1>4. CASE JoinWaits
    <2>1. running = me
      BY <1>4, EntersIs DEF Enters, JoinWaits, Switch, In
    <2> QED
      BY <1>4, <2>1, JoinWaitsIs DEF Goes
  <1>5. CASE Leaves
    BY <1>5, LeavesIs
  <1>6. CASE ~ Scheduler /\ ~ Enters /\ ~ Leaves
    <2>1. tcb[t].waitingToEnd # None
      <3>1. CASE Exit
        BY <3>1, ExitIs
      <3> QED
        BY <1>6, <3>1, RunIs
    <2>2. t # running
      BY <1>6, <2>1, RunIs DEF Unwaiting
    <2> QED
      BY <1>6, <2>1, <2>2, RunIs
  <1> QED
    BY <1>1, <1>2, <1>3, <1>4, <1>5, <1>6 DEF Enters

(* A join that returns 0 does so after the end, or was the caller's own.   *)
LEMMA ReturnKeeps ==
  ASSUME Base, LibInv, Next, ReturnInv, "alone" \notin cuts'
  PROVE  ReturnInv'
  <1>1. ScheduleOnly => tcb[me].waitingToEnd = None
    BY ScheduleOnlyIs DEF Waiting
  <1>2. Unwaiting' /\ \A t \in Threads : tcb'[t].waitingToEnd # None => at'[t].op = "joining"
    BY <1>1, UnwaitingKeeps, JoiningKeeps DEF ReturnInv
  <1>3. JoinedEnded'
    <2>1. exited \subseteq exited'
      BY RunIs, SchedulerIs, EntersIs, LeavesIs
    <2>2. CASE JoinReturns
      <3>1. tcb[running].waitingToEnd = None
        BY <2>2, JoinReturnsIs DEF ReturnInv, Unwaiting
      <3>2. at[running].arg \in exited
        BY <2>2, <3>1, JoinReturnsIs, ThreadsAssumption
           DEF Base, CallInv, ThreadsAssumption, Threads
      <3> QED
        BY <2>1, <2>2, <3>2, JoinReturnsIs DEF ReturnInv, JoinedEnded
    <2>3. ASSUME NEW u \in Workers, Join(u) PROVE JoinedEnded'
      BY <2>1, <2>3, JoinIs DEF ReturnInv, JoinedEnded
    <2>4. ASSUME NEW u \in Workers, JoinRefused(u) PROVE JoinedEnded'
      <3>1. tcb[me].waitingToEnd = None
        BY <2>4, JoinRefusedIs DEF ReturnInv, Unwaiting
      <3> QED
        BY <2>1, <2>4, <3>1, JoinRefusedIs DEF ReturnInv, JoinedEnded
    <2>5. CASE ~ (JoinReturns \/ \E u \in Workers : Join(u) \/ JoinRefused(u))
      <3>1. returned' = returned
        <4>1. CASE Scheduler \/ Enters \/ Leaves \/ MutexStep
          BY <4>1, SchedulerIs, EntersIs, LeavesIs, MutexStepGoes
        <4>2. CASE ~ (Scheduler \/ Enters \/ Leaves \/ MutexStep)
          BY <2>5, <4>2, StepIs DEF Exit, ExitDelete, Create, Lock, Unlock, MutexInit, MutexDestroy,
             LockNull, history
        <4> QED
          BY <4>1, <4>2
      <3> QED
        BY <2>1, <3>1 DEF ReturnInv, JoinedEnded
    <2> QED
      BY <2>2, <2>3, <2>4, <2>5
  <1> QED
    BY <1>2, <1>3 DEF ReturnInv

(* Who waits for whom stays as it is.                                      *)
LEMMA JoinFrame ==
  ASSUME Base, JoinInv, Alive \subseteq Alive', Unwaiting',
         \A t \in Threads : \/ at'[t] = at[t] /\ (t # running \/ at[t].op \notin {"join", "exit"})
                            \/ /\ mode = "run" /\ t = running
                               /\ at'[t].op \notin {"join", "exit"},
         \A t \in Threads : tcb'[t].waitingToEnd = tcb[t].waitingToEnd
  PROVE  JoinInv'
  <1>1. \A t \in Threads : at'[t].op \notin {"join", "exit"}
    BY DEF JoinInv
  <1>2. ASSUME NEW t \in Threads, tcb[t].waitingToEnd # None
        PROVE  /\ at'[t].op = "joining" /\ at'[t].arg = tcb[t].waitingToEnd
               /\ t # tcb[t].waitingToEnd /\ t \in Alive' /\ tcb[t].waitingToEnd \in Alive'
               /\ \A v \in Threads : tcb[v].waitingToEnd = tcb[t].waitingToEnd => v = t
    <2>1. at'[t] = at[t]
      BY <1>2 DEF JoinInv, Unwaiting
    <2> QED
      BY <1>2, <2>1 DEF JoinInv
  <1> QED
    BY <1>1, <1>2 DEF JoinInv

(* Nobody in the queue waits for a thread that mypthread_join finds nobody *)
(* to wait for; and nobody out of it waits.                                *)
LEMMA JoinKeeps ==
  ASSUME Base, LibInv, Next, JoinInv, cuts' \cap JoinCuts = {}
  PROVE  JoinInv'
  <1>1. \A t \in Threads : tcb[t].waitingToEnd # None => at[t].op = "joining"
    BY DEF JoinInv
  <1>2. ScheduleOnly => tcb[me].waitingToEnd = None
    BY ScheduleOnlyIs DEF JoinInv
  <1>3. Unwaiting'
    BY <1>1, <1>2, UnwaitingKeeps DEF JoinInv
  <1>4. mode = "run" => tcb[running].waitingToEnd = None
    BY DEF JoinInv, Unwaiting
  <1>5. CASE Scheduler
    <2>1. ~ LoopJoined
      BY SchedulerHead DEF LoopJoined, JoinInv
    <2>2. \A t \in Threads : at[t].op \notin {"join", "exit"}
      BY <1>5, SchedulerIs DEF JoinInv
    <2> QED
      BY <1>3, <1>5, <2>1, <2>2, SchedulerIs, JoinFrame
  <1>6. CASE Switch
    <2>1. at[running].op \notin {"join", "exit"}
      <3>1. CutAt("join") = {"join"} /\ CutAt("exit") = {"exit"}
        BY DEF CutAt, Protected
      <3> QED
        BY <1>6, <3>1, SwitchIs DEF JoinCuts
    <2>2. Alive' = Alive
      BY <1>6, EntersIs DEF Enters, Alive
    <2> QED
      BY <1>3, <1>6, <2>1, <2>2, SwitchIs, JoinFrame
  <1>7. CASE LockWaits
    <2>1. Alive' = Alive /\ mode = "run"
      BY <1>7, EntersIs DEF Enters, Alive
    <2>2. \A t \in Threads : \/ at'[t] = at[t] /\ t # running
                             \/ t = running /\ at'[t].op \notin {"join", "exit"}
      BY <1>7, LockWaitsIs DEF Goes
    <2> QED
      BY <1>3, <1>7, <2>1, <2>2, LockWaitsIs, JoinFrame
  <1>8. CASE JoinWaits
    <2> DEFINE u == Arg
               old(t) == tcb[t].waitingToEnd
               new(t) == tcb'[t].waitingToEnd
    <2>1. /\ mode = "run" /\ running = me /\ me \in Threads /\ at[me].op = "join" /\ at[me].arg = u
          /\ me \in Alive /\ Alive' = Alive
      BY <1>8, RunsHead DEF JoinWaits, In, Arg, EnterScheduler, Alive
    <2>2. u \in Alive /\ u # me /\ \A v \in Threads : old(v) # u
      BY <2>1 DEF JoinInv
    <2>3. /\ at'[me].op = "joining" /\ at'[me].arg = u /\ \A t \in Threads : t # me => at'[t] = at[t]
          /\ new(me) = u /\ \A t \in Threads : t # me => new(t) = old(t)
      BY <1>8, <2>1, JoinWaitsIs DEF Goes
    <2> HIDE DEF u
    <2>4. \A t \in Threads : at'[t].op \notin {"join", "exit"}
      BY <2>1, <2>3 DEF JoinInv
    <2>5. ASSUME NEW t \in Threads, new(t) # None
          PROVE  /\ at'[t].op = "joining" /\ at'[t].arg = new(t) /\ t # new(t)
                 /\ t \in Alive' /\ new(t) \in Alive'
                 /\ \A v \in Threads : new(v) = new(t) => v = t
      <3>1. CASE t = me
        BY <2>1, <2>2, <2>3, <3>1
      <3>2. CASE t # me
        <4>1. /\ at[t].op = "joining" /\ at[t].arg = old(t) /\ t # old(t) /\ t \in Alive
              /\ old(t) \in Alive /\ \A v \in Threads : old(v) = old(t) => v = t
          BY <2>3, <2>5, <3>2 DEF JoinInv
        <4> HIDE DEF old, new
        <4> QED
          BY <2>1, <2>2, <2>3, <3>2, <4>1
      <3> QED
        BY <3>1, <3>2
    <2> QED
      BY <1>3, <2>4, <2>5 DEF JoinInv
  <1>9. CASE Leaves
    <2>1. Alive' = Alive
      BY <1>9, LeavesIs DEF Alive
    <2>2. at[running].op \notin {"join", "exit"} \/ mode # "run"
      BY <1>9, LeavesIs
    <2>3. \A t \in Threads : at[t].op \notin {"join", "exit"}
      BY <2>2 DEF JoinInv
    <2> QED
      BY <1>3, <1>9, <2>1, <2>3, LeavesIs, JoinFrame
  <1>10. ASSUME NEW u \in Workers, Join(u), Goes("join", u), u \in Alive, Waiter(u) = None
         PROVE  JoinInv'
    <2>1. /\ running = me /\ me \in Threads /\ u # me /\ tcb' = tcb /\ Alive' = Alive
          /\ mode = "run" /\ mode' = "run" /\ running' = running
      BY <1>10, JoinIs DEF Alive, Stay, processor
    <2>2. \A v \in Threads : tcb[v].waitingToEnd # u
      <3>1. \A v \in Alive : tcb[v].waitingToEnd # u
        BY <1>10, WaiterIs DEF Base
      <3>2. u # None
        BY ThreadsAssumption DEF ThreadsAssumption, Threads
      <3> QED
        BY <3>1, <3>2 DEF JoinInv
    <2>3. \A t \in Threads : t # me => at'[t].op \notin {"join", "exit"}
      BY <1>10, <2>1 DEF Goes, JoinInv
    <2>4. \A t \in Threads : t # me => at'[t] = at[t]
      BY <1>10, <2>1 DEF Goes
    <2>5. at'[me].op = "join" /\ at'[me].arg = u
      BY <1>10, <2>1 DEF Goes
    <2> QED
      BY <1>3, <1>4, <1>10, <2>1, <2>2, <2>3, <2>4, <2>5 DEF JoinInv
  <1>11. CASE Exit
    <2> DEFINE w == Waiter(me)
               old(t) == tcb[t].waitingToEnd
               new(t) == tcb'[t].waitingToEnd
    <2>1. /\ running = me /\ me \in Threads /\ me # None /\ me \in Alive /\ Alive' = Alive
          /\ mode = "run" /\ mode' = "run" /\ running' = running
          /\ at'[me].op = "exit" /\ \A t \in Threads : t # me => at'[t] = at[t]
      BY <1>11, ExitIs, ThreadsAssumption DEF Goes, Stay, processor, Alive, ThreadsAssumption
    <2>2. /\ \A t \in Threads : new(t) = IF t = w THEN None ELSE old(t)
          /\ w = None => \A t \in Alive : old(t) # me
          /\ w # None => w \in Threads /\ old(w) = me
      BY <1>11, ExitIs
    <2> HIDE DEF w
    <2>3. \A t \in Threads : old(t) = me => t = w
      <3> SUFFICES ASSUME NEW t \in Threads, old(t) = me PROVE t = w
        OBVIOUS
      <3>1. t \in Alive /\ \A v \in Threads : old(v) = me => v = t
        BY <2>1 DEF JoinInv
      <3> QED
        BY <2>2, <3>1
    <2>4. \A t \in Threads : new(t) # me
      BY <2>1, <2>2, <2>3
    <2>5. ASSUME NEW t \in Threads, new(t) # None
          PROVE  /\ at'[t].op = "joining" /\ at'[t].arg = new(t) /\ t # new(t)
                 /\ t \in Alive' /\ new(t) \in Alive'
                 /\ \A v \in Threads : new(v) = new(t) => v = t
      <3>1. t # w /\ new(t) = old(t) /\ old(t) # None
        BY <2>2, <2>5
      <3>2. /\ at[t].op = "joining" /\ at[t].arg = old(t) /\ t # old(t) /\ t \in Alive
            /\ old(t) \in Alive /\ \A v \in Threads : old(v) = old(t) => v = t
        BY <3>1 DEF JoinInv
      <3>3. at'[t] = at[t]
        BY <1>4, <2>1, <3>1
      <3> HIDE DEF old, new
      <3> QED
        BY <2>1, <2>2, <2>5, <3>1, <3>2, <3>3
    <2>6. \A t \in Threads : t # me => at'[t].op \notin {"join", "exit"}
      BY <2>1 DEF JoinInv
    <2> QED
      BY <1>3, <2>1, <2>4, <2>5, <2>6 DEF JoinInv
  <1>12. CASE ExitDelete
    <2>1. /\ running = me /\ me \in Threads /\ at[me].op = "exit" /\ mode = "run"
          /\ Alive' = Alive \ {me} /\ tcb' = tcb
          /\ at'[me].op = "exiting" /\ \A t \in Threads : t # me => at'[t] = at[t]
      BY <1>12, ExitDeleteIs DEF Goes
    <2>2. \A v \in Threads : tcb[v].waitingToEnd # me
      BY <2>1 DEF JoinInv
    <2>3. \A t \in Threads : at'[t].op \notin {"join", "exit"}
      BY <2>1 DEF JoinInv
    <2>4. ASSUME NEW t \in Threads, tcb[t].waitingToEnd # None
          PROVE  /\ at'[t].op = "joining" /\ at'[t].arg = tcb[t].waitingToEnd
                 /\ t # tcb[t].waitingToEnd /\ t \in Alive' /\ tcb[t].waitingToEnd \in Alive'
                 /\ \A v \in Threads : tcb[v].waitingToEnd = tcb[t].waitingToEnd => v = t
      BY <1>4, <2>1, <2>2, <2>4 DEF JoinInv
    <2> QED
      BY <1>3, <2>1, <2>3, <2>4 DEF JoinInv
  <1>13. ASSUME mode = "run", ~ Scheduler, ~ Enters, ~ Leaves, ~ Exit, ~ ExitDelete,
                at'[running].op \notin {"join", "exit"}
         PROVE  JoinInv'
    BY <1>3, <1>13, RunIs, JoinFrame
  <1>14. CASE ~ Scheduler /\ ~ Enters /\ ~ Leaves /\ ~ Exit /\ ~ ExitDelete
    <2>1. CASE \E u \in Workers : Join(u)
      <3>1. PICK u \in Workers : Join(u)
        BY <2>1
      <3>2. CASE Goes("join", u) /\ u \in Alive /\ Waiter(u) = None
        BY <1>10, <3>1, <3>2
      <3>3. CASE at' = at
        BY <1>13, <1>14, <3>1, <3>3, JoinIs
      <3> QED
        BY <3>1, <3>2, <3>3, JoinIs
    <2>2. CASE ~ \E u \in Workers : Join(u)
      <3>1. CASE MutexStep
        BY <1>13, <1>14, <3>1, MutexStepGoes DEF Goes, MutexOps, Protected, UnlockOps
      <3>2. CASE JoinReturns
        BY <1>13, <1>14, <3>2, JoinReturnsIs DEF Goes
      <3>3. ASSUME NEW m \in Mutexes, Lock(m) \/ Unlock(m) PROVE JoinInv'
        <4>1. at'[running].op \in {"lock", "unlock", "undoing"}
          BY <3>3, BeginsIs DEF Goes
        <4> QED
          BY <1>13, <1>14, <3>3, <4>1, BeginsIs
      <3>4. CASE ~ (MutexStep \/ JoinReturns \/ \E m \in Mutexes : Lock(m) \/ Unlock(m))
        <4>1. mode = "run" /\ at' = at /\ at[running].op = "user"
          BY <1>14, <2>2, <3>4, StepIs
             DEF Create, JoinRefused, MutexInit, MutexDestroy, LockNull, Calling, In
        <4> QED
          BY <1>13, <1>14, <4>1
      <3> QED
        BY <3>1, <3>2, <3>3, <3>4
    <2> QED
      BY <2>1, <2>2
  <1> QED
    BY <1>5, <1>6, <1>7, <1>8, <1>9, <1>11, <1>12, <1>14 DEF Enters

-----------------------------------------------------------------------------
(* The mutexes.  Until a cut that matters to them, only the thread that     *)
(* runs is inside lock or unlock, or the one the scheduler goes back to.    *)

(* A thread in line names the mutex it is in line for.                     *)
LEMMA InLineNames ==
  ASSUME Base, MutexInv, NEW t \in Threads, at[t].op \in LineOps
  PROVE  at[t].arg \in Mutexes /\ tcb[t].mutex = at[t].arg
  BY DEF Base, TypeOK, CallInv, MutexOps, LineOps, MutexInv, Agree, AtOps

(* Who is given the processor after a call of lock that waited is the      *)
(* owner of the mutex.                                                     *)
LEMMA GivenToOwner ==
  ASSUME Base, LibInv, ReturnInv, MutexInv, Scheduler, "alone" \notin cuts',
         Dispatched, at[running'].op = "waiting"
  PROVE  mutex'[at[running'].arg].owner = running'
  <1> DEFINE h == running'
             m == at[running'].arg
  <1>1. h \in Threads /\ h = me'
    BY DEF Dispatched
  <1>2. m \in Mutexes /\ tcb[h].mutex = m /\ m # None
    BY <1>1, InLineNames, ThreadsAssumption DEF LineOps, ThreadsAssumption
  <1> HIDE DEF h, m
  <1>3. CASE ScheduleOnly
    BY <1>1, <1>2, <1>3, ScheduleOnlyIs DEF Waiting, h, m
  <1>4. CASE ScheduleRotate
    BY <1>1, <1>2, <1>4, ScheduleRotateIs DEF Dispatched, Free, Same, h
  <1>5. CASE HeadGoesOn
    <2>1. h = me
      BY <1>1, <1>5, HeadGoesOnIs
    <2>2. CASE ScheduleLibrary
      BY <2>1, <2>2 DEF ScheduleLibrary, LibInv, Protected, h
    <2>3. CASE LoopFree
      BY <1>2, <2>1, <2>3 DEF LoopFree, Free
    <2>4. CASE LoopOwner
      BY <1>2, <2>1, <2>4 DEF LoopOwner, Wanted, h, m
    <2>5. CASE LoopGrant
      BY <1>2, <2>1, <2>5, LoopGrantIs DEF Wanted, h, m
    <2>6. CASE LoopJoined
      BY <1>1, <2>1, <2>6, LoopJoinedIs DEF ReturnInv, h
    <2> QED
      BY <1>5, <2>2, <2>3, <2>4, <2>5, <2>6 DEF HeadGoesOn
  <1>6. CASE LoopWait \/ LoopJoining \/ LoopCrash
    BY <1>6 DEF LoopWait, LoopJoining, LoopCrash, Skip, processor, Wanting, Dispatched
  <1> QED
    BY <1>3, <1>4, <1>5, <1>6 DEF Scheduler, HeadGoesOn, h, m

LEMMA PlaceKeeps ==
  ASSUME Base, LibInv, ReturnInv, PlaceInv, MutexInv, Next, cuts' \cap MutexCuts = {}
  PROVE  PlaceInv'
  <1>1. CASE Scheduler
    <2>1. /\ mode \in {"sched", "loop"} /\ at' = at /\ struck' = struck
          /\ Dispatched \/ mode' \in {"loop", "crashed"}
      BY <1>1, SchedulerIs
    <2>2. mode' # "sched"
      BY <2>1 DEF Dispatched
    <2>3. \A t \in Threads : at[t].op \notin UnlockOps
      BY <2>1 DEF PlaceInv
    <2>4. CASE lib
      <3>1. ScheduleLibrary
        BY <1>1, <2>4 DEF Scheduler, ScheduleOnly, ScheduleRotate, LoopFree, LoopOwner, LoopGrant,
           LoopCrash, LoopWait, LoopJoined, LoopJoining, Wanting, LibInv
      <3>2. running = me /\ context[me] = me /\ struck /\ at[running].op \in Protected
        BY <2>4, <3>1 DEF LibInv, PlaceInv, ScheduleLibrary
      <3>3. running' = running /\ mode' = "run"
        BY <3>1, <3>2 DEF ScheduleLibrary, Dispatch
      <3> QED
        BY <2>1, <2>3, <3>2, <3>3 DEF PlaceInv, Protected
    <2>5. CASE ~ lib
      <3>1. \A t \in Threads : at[t].op \notin Protected
        BY <2>1, <2>5 DEF PlaceInv
      <3>2. CASE Dispatched
        BY <1>1, <2>1, <2>2, <2>3, <3>1, <3>2, GivenToOwner DEF PlaceInv, MutexCuts, Dispatched
      <3>3. CASE mode' \in {"loop", "crashed"}
        BY <2>1, <2>3, <3>1, <3>3 DEF PlaceInv
      <3> QED
        BY <2>1, <3>2, <3>3
    <2> QED
      BY <2>4, <2>5
  <1>2. CASE Switch
    <2>1. mode = "run" /\ mode' = "sched" /\ running' = running /\ lib' = lib /\ at' = at
          /\ struck' = (struck \/ at[running].op \in Protected)
      BY <1>2, EntersIs, SwitchIs DEF Enters
    <2>2. at[running].op \notin UnlockOps /\ (at[running].op \in Protected => ~ struck)
      <3>1. CutAt(at[running].op) \cap MutexCuts = {}
        BY <1>2, SwitchIs
      <3>2. ASSUME at[running].op \in UnlockOps PROVE FALSE
        <4>1. CutAt(at[running].op) = {"unlock"}
          BY <3>2 DEF CutAt, UnlockOps, Protected
        <4> QED
          BY <3>1, <4>1 DEF MutexCuts
      <3>3. ASSUME at[running].op \in Protected, struck PROVE FALSE
        <4>1. CutAt(at[running].op) = {"lock"}
          BY <3>3 DEF CutAt, Protected
        <4> QED
          BY <3>1, <4>1 DEF MutexCuts
      <3> QED
        BY <3>2, <3>3
    <2>3. at[running].op \in Protected => lib
      BY <2>1, <2>2 DEF PlaceInv
    <2>4. lib => at[running].op \in Protected
      BY <2>1 DEF LibInv
    <2> QED
      BY <2>1, <2>2, <2>3, <2>4 DEF PlaceInv
  <1>3. CASE LockWaits \/ JoinWaits
    <2>1. /\ mode = "run" /\ mode' = "sched" /\ running' = running /\ lib' = lib
          /\ at[running].op \notin Protected \cup UnlockOps
          /\ at'[running].op \notin Protected \cup UnlockOps
          /\ \A t \in Threads : t # running => at'[t] = at[t]
      BY <1>3, EntersIs, LockWaitsIs, JoinWaitsIs DEF Enters, Goes, Protected, UnlockOps
    <2>2. ~ lib'
      BY <2>1 DEF LibInv
    <2> QED
      BY <2>1, <2>2 DEF PlaceInv
  <1>4. CASE Leaves
    <2>1. /\ mode' \in {"sched", "ended", "lost"} /\ UNCHANGED <<running, at, lib>>
          /\ mode = "run" => at[running].op \notin Protected \cup UnlockOps
      BY <1>4, LeavesIs DEF Protected, UnlockOps
    <2>2. lib /\ mode' = "sched" => FALSE
      BY <1>4, LeavesIs DEF LibInv, Protected
    <2> QED
      BY <2>1, <2>2 DEF PlaceInv
  <1>5. CASE ~ Scheduler /\ ~ Enters /\ ~ Leaves
    <2>1. /\ mode = "run" /\ mode' = "run" /\ running' = running /\ running \in Threads
          /\ \A t \in Threads : t # running => at'[t] = at[t]
      BY <1>5, RunIs
    <2>2. \A t \in Threads : t # running => at'[t].op \notin Protected \cup UnlockOps
      BY <2>1 DEF PlaceInv
    <2>3. /\ at'[running].op # "waiting"
          /\ at'[running].op \in Protected => lib' \/ struck'
      <3>1. CASE MutexStep
        <4>1. at'[running].op # "waiting"
          <5>1. /\ Arg \in Mutexes /\ TypeOK
                /\ \A op \in {"busy", "locking", "asking", "lined", "owning", "overriding", "owned",
                           "locked", "unlocking", "unlocked", "user"} : op \in Ops /\ op # "waiting"
            BY <3>1, MutexStepGoes, AtMutex DEF Base, Ops, Protected
          <5>2. ASSUME NEW op \in Ops, NEW arg \in {Arg, None}, Goto(op, arg), op # "waiting"
                PROVE  at'[running].op # "waiting"
            BY <5>1, <5>2, GotoIs
          <5>3. PICK op \in Ops, arg \in {Arg, None} : Goto(op, arg) /\ op # "waiting"
            BY <3>1, <5>1 DEF MutexStep, LockTaken, LockAgain, LockBusy, LockLined, LockChecked,
               LockOwned, LockNamed, LockOverrides, LockReturns, UnlockUndone, UnlockRefused,
               UnlockOwned, UnlockFlag, UnlockOwner
          <5> QED
            BY <5>2, <5>3
        <4> QED
          BY <2>1, <3>1, <4>1, MutexStepLib, MutexStepGoes DEF PlaceInv
      <3>2. ASSUME NEW m \in Mutexes, Lock(m)
            PROVE  at'[running].op = "lock" /\ lib' = TRUE
        BY <3>2, BeginsIs DEF Lock, Goes
      <3>3. ASSUME NEW m \in Mutexes, Unlock(m)
            PROVE  at'[running].op \in {"unlock", "undoing"}
        BY <3>3, BeginsIs DEF Goes
      <3>4. CASE ~ (MutexStep \/ \E m \in Mutexes : Lock(m) \/ Unlock(m))
        <4>1. at'[running].op \in {"user", "join", "exit", "exiting"}
          <5>1. CASE Exit \/ ExitDelete \/ JoinReturns
            BY <5>1, ExitIs, ExitDeleteIs, JoinReturnsIs DEF Goes
          <5>2. ASSUME NEW u \in Workers, Join(u)
                PROVE  at'[running].op \in {"user", "join"}
            BY <5>2, JoinIs DEF Goes
          <5>3. CASE ~ (Exit \/ ExitDelete \/ JoinReturns \/ \E u \in Workers : Join(u))
            <6>1. at' = at /\ at[running].op = "user"
              BY <1>5, <3>4, <5>3, StepIs
                 DEF Create, JoinRefused, MutexInit, MutexDestroy, LockNull, Calling, In
            <6> QED
              BY <6>1
          <5> QED
            BY <5>1, <5>2, <5>3
        <4> QED
          BY <4>1 DEF Protected
      <3> QED
        BY <3>1, <3>2, <3>3, <3>4 DEF Protected
    <2> QED
      BY <2>1, <2>2, <2>3 DEF PlaceInv
  <1> QED
    BY <1>1, <1>2, <1>3, <1>4, <1>5 DEF Enters

-----------------------------------------------------------------------------
(* The steps that say nothing of a mutex keep what the mutexes, their       *)
(* callers and the waiting list agree on.                                   *)

Quiet ==
  /\ UNCHANGED <<inited, listed, waitList, holders>>
  /\ \A m \in Mutexes : mutex'[m].owner = mutex[m].owner /\ (mutex[m].flag => mutex'[m].flag)
  /\ \A t \in Threads :
       /\ tcb'[t].mutex = tcb[t].mutex
       /\ \/ at'[t] = at[t]
          \/ at[t].op \notin MutexOps /\ at'[t].op \notin MutexOps
          \/ at[t].op \in LineOps /\ at'[t].op \in LineOps /\ at'[t].arg = at[t].arg

LEMMA QuietKeeps ==
  ASSUME Quiet, MutexInv, ListInv
  PROVE  MutexInv' /\ ListInv'
  <1>1. ASSUME NEW t \in Threads, NEW m \in Mutexes
        PROVE  Agree(t, m)' /\ (Waits(t, m)' <=> Waits(t, m))
    <2>1. /\ mutex'[m].owner = mutex[m].owner /\ (mutex[m].flag => mutex'[m].flag)
          /\ inited' = inited /\ holders' = holders /\ tcb'[t].mutex = tcb[t].mutex
          /\ Agree(t, m)
      BY DEF Quiet, MutexInv
    <2>2. CASE at'[t] = at[t]
      BY <2>1, <2>2 DEF Agree, AtOp, AtOps, Waits
    <2>3. CASE at[t].op \notin MutexOps /\ at'[t].op \notin MutexOps
      BY <2>1, <2>3 DEF Agree, AtOp, AtOps, Waits, MutexOps, Protected, UnlockOps, OwnOps, LineOps
    <2>4. CASE at[t].op \in LineOps /\ at'[t].op \in LineOps /\ at'[t].arg = at[t].arg
      BY <2>1, <2>4 DEF Agree, AtOp, AtOps, Waits, UnlockOps, OwnOps, LineOps
    <2> QED
      BY <2>2, <2>3, <2>4 DEF Quiet
  <1>2. MutexInv'
    BY <1>1 DEF MutexInv
  <1>3. ListInv'
    BY <1>1 DEF ListInv, Quiet, InLine
  <1> QED
    BY <1>2, <1>3

LEMMA QuietSteps ==
  ASSUME Base, Next, ~ MutexStep, ~ LoopOwner, ~ LoopGrant,
         \A m \in Mutexes : ~ (Lock(m) \/ Unlock(m) \/ MutexInit(m))
  PROVE  Quiet
  <1>1. CASE Scheduler
    <2>1. UNCHANGED <<inited, listed, holders, at>> /\ \A t \in Threads : tcb'[t].mutex = tcb[t].mutex
      BY <1>1, SchedulerIs
    <2>2. /\ waitList' = waitList
          /\ \A m \in Mutexes : mutex'[m].owner = mutex[m].owner /\ (mutex[m].flag => mutex'[m].flag)
      <3>1. CASE ScheduleOnly
        BY <3>1, ScheduleOnlyIs
      <3>2. CASE ScheduleRotate
        BY <3>2, ScheduleRotateIs
      <3>3. CASE HeadGoesOn
        BY <3>3, HeadGoesOnIs
      <3>4. CASE LoopWait \/ LoopJoining \/ LoopCrash
        BY <3>4 DEF LoopWait, LoopJoining, LoopCrash, Skip
      <3> QED
        BY <1>1, <3>1, <3>2, <3>3, <3>4 DEF Scheduler, HeadGoesOn
    <2> QED
      BY <2>1, <2>2 DEF Quiet
  <1>2. CASE Enters
    <2>1. CASE LockWaits
      BY <1>2, <2>1, EntersIs, LockWaitsIs DEF Quiet, Goes, Arg, LineOps
    <2>2. CASE JoinWaits
      BY <1>2, <2>2, EntersIs, JoinWaitsIs DEF Quiet, Goes, MutexOps, Protected, UnlockOps
    <2>3. CASE Switch
      BY <1>2, <2>3, EntersIs, SwitchIs DEF Quiet
    <2> QED
      BY <1>2, <2>1, <2>2, <2>3 DEF Enters
  <1>3. CASE Leaves
    BY <1>3, LeavesIs DEF Quiet
  <1>4. CASE Exit
    BY <1>4, ExitIs DEF Quiet, Goes, MutexOps, Protected, UnlockOps
  <1>5. CASE ExitDelete \/ JoinReturns
    BY <1>5, ExitDeleteIs, JoinReturnsIs
       DEF Quiet, Goes, MutexOps, Protected, UnlockOps, history, interruptions
  <1>6. ASSUME NEW u \in Workers, Create(u) \/ Join(u) \/ JoinRefused(u)
        PROVE  Quiet
    BY <1>6, CreateIs, JoinIs, JoinRefusedIs
       DEF Quiet, Goes, MutexOps, Protected, UnlockOps, history, interruptions
  <1>7. ASSUME NEW m \in Mutexes, MutexDestroy(m)
        PROVE  Quiet
    <2>1. UNCHANGED <<inited, listed, waitList, holders, tcb, at>>
          /\ mutex' = [mutex EXCEPT ![m].flag = TRUE]
      BY <1>7 DEF MutexDestroy, history, interruptions
    <2>2. \A n \in Mutexes : mutex'[n].owner = mutex[n].owner /\ (mutex[n].flag => mutex'[n].flag)
      BY <2>1, FlagIs DEF Base
    <2> QED
      BY <2>1, <2>2 DEF Quiet
  <1>8. CASE LockNull
    BY <1>8 DEF LockNull, Quiet
  <1> QED
    BY <1>1, <1>2, <1>3, <1>4, <1>5, <1>6, <1>7, <1>8, StepIs

-----------------------------------------------------------------------------
(* The steps of one thread, c, about one mutex, m, while no other thread is *)
(* inside lock or unlock.                                                   *)

Acts(c, m) ==
  /\ \A t \in Threads : t # c => /\ at'[t] = at[t] /\ tcb'[t].mutex = tcb[t].mutex
                                 /\ at[t].op \notin Protected \cup UnlockOps
  /\ at[c].op \in MutexOps => at[c].arg = m
  /\ at'[c].op \in MutexOps => at'[c].arg = m
  /\ tcb'[c].mutex \in {tcb[c].mutex, m, None}
  /\ \A n \in Mutexes : n # m => mutex'[n] = mutex[n]
  /\ \A n \in Mutexes, t \in Threads :
       n # m \/ t # c => (t \in holders'[n] <=> t \in holders[n])
  /\ UNCHANGED <<inited, listed>>

\* Of other threads, and of their claims to the mutex, the step is respectful.
Respects(c, m) ==
  \A t \in Threads \ {c} : /\ mutex'[m].owner = t <=> mutex[m].owner = t
                           /\ mutex[m].owner = t => mutex'[m].flag

LEMMA ActKeeps ==
  ASSUME MutexInv, NEW c \in Threads, NEW m \in Mutexes, Acts(c, m), Respects(c, m), Agree(c, m)'
  PROVE  MutexInv'
  <1> SUFFICES ASSUME NEW t \in Threads, NEW n \in Mutexes
               PROVE  Agree(t, n)'
    BY DEF MutexInv
  <1>0. Agree(t, n)
    BY DEF MutexInv
  <1>1. CASE t = c /\ n = m
    BY <1>1
  <1>2. CASE t = c /\ n # m
    <2>1. /\ mutex'[n] = mutex[n] /\ (c \in holders'[n] <=> c \in holders[n])
          /\ tcb'[c].mutex = n => tcb[c].mutex = n \/ n = None
          /\ at[c].op \in MutexOps => at[c].arg # n
          /\ at'[c].op \in MutexOps => at'[c].arg # n
          /\ inited' = inited
      BY <1>2 DEF Acts
    <2>2. n # None
      BY ThreadsAssumption DEF ThreadsAssumption
    <2> QED
      BY <1>0, <1>2, <2>1, <2>2
         DEF Agree, AtOp, AtOps, MutexOps, Protected, UnlockOps, OwnOps, LineOps
  <1>3. CASE t # c /\ n # m
    BY <1>0, <1>3 DEF Acts, Agree, AtOp, AtOps
  <1>4. CASE t # c /\ n = m
    <2>1. /\ at'[t] = at[t] /\ tcb'[t].mutex = tcb[t].mutex
          /\ at[t].op \notin Protected \cup UnlockOps
          /\ t \in holders'[m] <=> t \in holders[m]
          /\ mutex'[m].owner = t <=> mutex[m].owner = t
          /\ mutex[m].owner = t => mutex'[m].flag
          /\ inited' = inited
      BY <1>4 DEF Acts, Respects
    <2> QED
      BY <1>0, <1>4, <2>1 DEF Agree, AtOp, AtOps, Protected, UnlockOps, OwnOps, LineOps
  <1> QED
    BY <1>1, <1>2, <1>3, <1>4

(* Nobody else's place in the list changes.                                *)
LEMMA ActWaits ==
  ASSUME NEW c \in Threads, NEW m \in Mutexes, Acts(c, m), Respects(c, m)
  PROVE  \A t \in Threads, n \in Mutexes : t # c \/ n # m => (Waits(t, n)' <=> Waits(t, n))
  BY DEF Acts, Respects, Waits, AtOps, MutexOps, LineOps

LEMMA ActListed ==
  ASSUME ListInv, NEW c \in Threads, NEW m \in Mutexes, Acts(c, m), Respects(c, m),
         waitList' = waitList, Waits(c, m)' <=> Waits(c, m)
  PROVE  ListInv'
  <1>1. \A t \in Threads, n \in Mutexes : Waits(t, n)' <=> Waits(t, n)
    BY ActWaits
  <1> QED
    BY <1>1 DEF ListInv, Acts, InLine

(* The steps inside lock and unlock are such steps.                        *)
LEMMA MutexStepActs ==
  ASSUME Base, PlaceInv, MutexStep
  PROVE  /\ running = me /\ me \in Threads /\ Arg \in Mutexes /\ Arg \in inited
         /\ Acts(me, Arg)
  <1>1. mode = "run" /\ at[running].op \in MutexOps
    BY MutexStepGoes
  <1>2. running = me /\ me \in Threads /\ Arg \in Mutexes /\ Arg \in inited
    BY <1>1, AtMutex
  <1> DEFINE c == me
             a == Arg
  <1> HIDE DEF c, a
  <1>3. c = me /\ a = Arg /\ c \in Threads /\ a \in Mutexes /\ running = c /\ at[c].arg = a
    BY <1>2 DEF a, c, Arg
  <1>4. \A t \in Threads : t # c => at'[t] = at[t] /\ at[t].op \notin Protected \cup UnlockOps
    BY <1>3, MutexStepGoes DEF Goes, PlaceInv
  <1>5. at'[c].op \in MutexOps => at'[c].arg = a
    BY <1>3, MutexStepGoes DEF Goes, MutexOps, Protected, UnlockOps
  <1>6. \A t \in Threads : IF t = c THEN tcb'[t].mutex \in {tcb[t].mutex, a, None}
                                    ELSE tcb'[t].mutex = tcb[t].mutex
    <2>1. \/ tcb' = tcb \/ tcb' = [tcb EXCEPT ![me].mutex = a]
          \/ tcb' = [tcb EXCEPT ![me].mutex = None]
      BY DEF MutexStep, LockTaken, LockAgain, LockBusy, LockLined, LockChecked, LockOwned,
           LockNamed, LockOverrides, LockReturns, UnlockUndone, UnlockRefused, UnlockOwned,
           UnlockFlag, UnlockOwner, a
    <2> QED
      BY <1>3, <2>1, BlockMutexIs DEF Base
  <1>7. \A n \in Mutexes : n # a => mutex'[n] = mutex[n]
    <2>1. \/ mutex' = mutex \/ mutex' = [mutex EXCEPT ![a].flag = TRUE]
          \/ mutex' = [mutex EXCEPT ![a].flag = FALSE]
          \/ mutex' = [mutex EXCEPT ![a].owner = me]
          \/ mutex' = [mutex EXCEPT ![a].owner = None]
      BY DEF MutexStep, LockTaken, LockAgain, LockBusy, LockLined, LockChecked, LockOwned,
           LockNamed, LockOverrides, LockReturns, UnlockUndone, UnlockRefused, UnlockOwned,
           UnlockFlag, UnlockOwner, a
    <2> QED
      BY <1>3, <2>1, FlagIs, OwnerIs DEF Base
  <1>8. \A n \in Mutexes, t \in Threads :
          n # a \/ t # c => (t \in holders'[n] <=> t \in holders[n])
    <2>1. holders' = holders \/ holders' = [holders EXCEPT ![a] = @ \cup {running}]
      BY DEF MutexStep, LockTaken, LockAgain, LockBusy, LockLined, LockChecked, LockOwned,
           LockNamed, LockOverrides, LockReturns, UnlockUndone, UnlockRefused, UnlockOwned,
           UnlockFlag, UnlockOwner, history, a
    <2>2. holders \in [Mutexes -> SUBSET Threads]
      BY DEF Base, TypeOK
    <2> QED
      BY <1>3, <2>1, <2>2
  <1>9. UNCHANGED <<inited, listed>>
    BY MutexStepGoes
  <1>10. Acts(c, a)
    BY <1>3, <1>4, <1>5, <1>6, <1>7, <1>8, <1>9 DEF Acts
  <1> QED
    BY <1>2, <1>10 DEF a, c

(* A thread that is not inside unlock leaves a mutex whose flag is clear    *)
(* without an owner.                                                       *)
LEMMA ClearIsFree ==
  ASSUME Base, PlaceInv, MutexInv, NEW m \in Mutexes, ~ mutex[m].flag,
         mode # "run" \/ ~ AtOp(running, "unlocked", m)
  PROVE  mutex[m].owner = None
  <1> SUFFICES ASSUME mutex[m].owner # None
               PROVE  FALSE
    OBVIOUS
  <1>1. mutex[m].owner \in Threads
    BY DEF Base, TypeOK
  <1>2. AtOp(mutex[m].owner, "unlocked", m)
    BY <1>1 DEF MutexInv, Agree
  <1> QED
    BY <1>1, <1>2 DEF PlaceInv, AtOp, UnlockOps

(* What such a step does to the mutex, its caller and its place in line.   *)
Agrees(c, m) == Respects(c, m) /\ Agree(c, m)'
Unlisted(c, m) == waitList' = waitList /\ (Waits(c, m)' <=> Waits(c, m))

(* Thread c is at a step of a call on mutex m.                             *)
Steps(c, m) == /\ MutexStep /\ c = running /\ c = me /\ m = Arg /\ m \in inited /\ at[c].arg = m
               /\ inited' = inited /\ TypeOK /\ Agree(c, m)

LEMMA StepsIs ==
  ASSUME Base, PlaceInv, MutexInv, MutexStep, NEW c \in Threads, c = me, NEW m \in Mutexes, m = Arg
  PROVE  Steps(c, m)
  BY MutexStepActs DEF Steps, Acts, MutexInv, Base, Arg

(* The mutex of another thread is taken.                                   *)
LEMMA OthersFlag ==
  ASSUME Base, PlaceInv, MutexInv, NEW c \in Threads, NEW m \in Mutexes, Steps(c, m)
  PROVE  \A t \in Threads \ {c} : mutex[m].owner = t => mutex[m].flag
  <1>1. \A t \in Threads \ {c} : at[t].op \notin UnlockOps
    BY MutexStepActs DEF Steps, Acts
  <1> QED
    BY <1>1 DEF MutexInv, Agree, AtOp, UnlockOps

LEMMA TakenAgrees ==
  ASSUME Base, PlaceInv, MutexInv, LockTaken, NEW c \in Threads, NEW m \in Mutexes, Steps(c, m)
  PROVE  Agrees(c, m) /\ Unlisted(c, m)
  <1>1. /\ at[c].op = "lock" /\ (~ mutex[m].flag => mutex[m].owner = None)
    BY ClearIsFree DEF Steps, LockTaken, In, AtOp
  <1>2. /\ mutex'[m].flag /\ mutex'[m].owner = mutex[m].owner
        /\ UNCHANGED <<tcb, waitList, holders>>
    BY FlagIs DEF Steps, LockTaken, history
  <1>3. /\ at'[c].op = IF mutex[m].flag THEN "busy" ELSE "locking"
        /\ at'[c].arg = m
    <2>1. (IF mutex[m].flag THEN "busy" ELSE "locking") \in Ops
      BY DEF Ops, Protected
    <2> QED
      BY <2>1, GotoIs DEF LockTaken, Steps
  <1>4. Respects(c, m)
    BY <1>2 DEF Respects
  <1>5. Agree(c, m)'
    BY <1>1, <1>2, <1>3 DEF Steps, Agree, AtOp, AtOps, LineOps, OwnOps, UnlockOps
  <1>6. Waits(c, m)' <=> Waits(c, m)
    BY <1>1, <1>3 DEF Waits, AtOps, LineOps
  <1> QED
    BY <1>2, <1>4, <1>5, <1>6 DEF Agrees, Unlisted

LEMMA BusyAgrees ==
  ASSUME Base, PlaceInv, MutexInv, LockAgain \/ LockBusy, NEW c \in Threads, NEW m \in Mutexes, Steps(c, m)
  PROVE  Agrees(c, m) /\ Unlisted(c, m)
  <1>1. at[c].op = "busy" /\ UNCHANGED <<mutex, waitList, holders>>
    BY DEF Steps, LockAgain, LockBusy, In, history
  <1>2. Respects(c, m)
    BY <1>1, OthersFlag DEF Respects
  <1>3. CASE LockAgain
    <2>1. at'[c].op = "user" /\ tcb' = tcb /\ mutex[m].owner = c
      BY <1>3, GotoIs DEF LockAgain, Steps, Ops
    <2>2. Agree(c, m)'
      BY <1>1, <2>1 DEF Steps, Agree, AtOp, AtOps, LineOps, OwnOps, UnlockOps
    <2>3. Waits(c, m)' <=> Waits(c, m)
      BY <1>1, <2>1 DEF Waits, AtOps, LineOps
    <2> QED
      BY <1>1, <1>2, <2>2, <2>3 DEF Agrees, Unlisted
  <1>4. CASE LockBusy
    <2>1. at'[c].op = "asking" /\ at'[c].arg = m /\ mutex[m].owner # c
      BY <1>4, GotoIs DEF LockBusy, Steps, Ops, Protected
    <2>2. tcb'[c].mutex = m
      BY <1>4, BlockMutexIs DEF LockBusy, Steps
    <2>3. Agree(c, m)'
      BY <1>1, <2>1, <2>2 DEF Steps, Agree, AtOp, AtOps, LineOps, OwnOps, UnlockOps
    <2>4. Waits(c, m)' <=> Waits(c, m)
      BY <1>1, <2>1 DEF Waits, AtOps, LineOps
    <2> QED
      BY <1>1, <1>2, <2>3, <2>4 DEF Agrees, Unlisted
  <1> QED
    BY <1>3, <1>4

LEMMA LinedAgrees ==
  ASSUME Base, PlaceInv, MutexInv, LockLined, NEW c \in Threads, NEW m \in Mutexes, Steps(c, m)
  PROVE  /\ Agrees(c, m) /\ ~ Waits(c, m) /\ Waits(c, m)'
         /\ waitList' = Enqueued(m)
  <1>1. at[c].op = "asking" /\ waitList' = Enqueued(m) /\ UNCHANGED <<mutex, holders, tcb>>
    BY DEF Steps, LockLined, In, history
  <1>2. at'[c].op = "lined" /\ at'[c].arg = m
    BY GotoIs DEF LockLined, Steps, Ops
  <1>3. Respects(c, m)
    BY <1>1, OthersFlag DEF Respects
  <1>4. Agree(c, m)'
    BY <1>1, <1>2 DEF Steps, Agree, AtOp, AtOps, LineOps, OwnOps, UnlockOps
  <1>5. ~ Waits(c, m) /\ Waits(c, m)'
    BY <1>1, <1>2 DEF Waits, AtOps, LineOps, Steps, Agree, AtOp
  <1> QED
    BY <1>1, <1>3, <1>4, <1>5 DEF Agrees

LEMMA CheckedAgrees ==
  ASSUME Base, PlaceInv, MutexInv, LockChecked, NEW c \in Threads, NEW m \in Mutexes, Steps(c, m)
  PROVE  Agrees(c, m) /\ Unlisted(c, m)
  <1>1. at[c].op = "locking" /\ UNCHANGED <<mutex, waitList, holders, tcb>>
    BY DEF Steps, LockChecked, In, history
  <1>2. mutex[m].flag /\ mutex[m].owner = None
    BY <1>1 DEF Steps, Agree, AtOps
  <1>3. at'[c].op = "owning" /\ at'[c].arg = m
    BY <1>2, GotoIs DEF LockChecked, Steps, Ops, Protected
  <1>4. Respects(c, m)
    BY <1>1, <1>2 DEF Respects
  <1>5. Agree(c, m)'
    BY <1>1, <1>2, <1>3 DEF Steps, Agree, AtOp, AtOps, LineOps, OwnOps, UnlockOps
  <1>6. Waits(c, m)' <=> Waits(c, m)
    BY <1>1, <1>3 DEF Waits, AtOps, LineOps
  <1> QED
    BY <1>1, <1>4, <1>5, <1>6 DEF Agrees, Unlisted

LEMMA OwnedAgrees ==
  ASSUME Base, PlaceInv, MutexInv, LockOwned, NEW c \in Threads, NEW m \in Mutexes, Steps(c, m)
  PROVE  Agrees(c, m) /\ Unlisted(c, m)
  <1>1. at[c].op = "owning" /\ UNCHANGED <<waitList, holders, tcb>>
    BY DEF Steps, LockOwned, In, history
  <1>2. mutex[m].flag /\ mutex[m].owner = None
    BY <1>1 DEF Steps, Agree, AtOps
  <1>3. mutex'[m].flag /\ mutex'[m].owner = c
    BY <1>2, OwnerIs DEF LockOwned, Steps
  <1>4. at'[c].op = "owned" /\ at'[c].arg = m
    BY GotoIs DEF LockOwned, Steps, Ops, Protected
  <1>5. Respects(c, m)
    BY <1>2, <1>3, ThreadsAssumption DEF Respects, ThreadsAssumption
  <1>6. Agree(c, m)'
    BY <1>1, <1>3, <1>4 DEF Steps, Agree, AtOp, AtOps, LineOps, OwnOps, UnlockOps
  <1>7. Waits(c, m)' <=> Waits(c, m)
    BY <1>1, <1>4 DEF Waits, AtOps, LineOps
  <1> QED
    BY <1>1, <1>5, <1>6, <1>7 DEF Agrees, Unlisted

LEMMA NamedAgrees ==
  ASSUME Base, PlaceInv, MutexInv, LockNamed, NEW c \in Threads, NEW m \in Mutexes, Steps(c, m)
  PROVE  Agrees(c, m) /\ Unlisted(c, m)
  <1>1. at[c].op = "owned" /\ UNCHANGED <<waitList, holders>>
    BY DEF Steps, LockNamed, In, history
  <1>2. mutex'[m].flag /\ mutex'[m].owner = mutex[m].owner /\ mutex[m].owner = c
    BY <1>1, FlagIs DEF LockNamed, Steps, Agree, AtOps, OwnOps
  <1>3. at'[c].op = "locked" /\ at'[c].arg = m
    BY GotoIs DEF LockNamed, Steps, Ops, Protected
  <1>4. Respects(c, m)
    BY <1>2 DEF Respects
  <1>5. Agree(c, m)'
    BY <1>1, <1>2, <1>3 DEF Steps, Agree, AtOp, AtOps, LineOps, OwnOps, UnlockOps
  <1>6. Waits(c, m)' <=> Waits(c, m)
    BY <1>1, <1>3 DEF Waits, AtOps, LineOps
  <1> QED
    BY <1>1, <1>4, <1>5, <1>6 DEF Agrees, Unlisted

(* The flag was clear: the mutex had no owner, and is not taken from one.  *)
LEMMA NeverOverrides ==
  ASSUME LockOverrides, NEW c \in Threads, NEW m \in Mutexes, Steps(c, m)
  PROVE  FALSE
  BY DEF LockOverrides, In, Steps, Agree, AtOp

LEMMA ReturnsAgrees ==
  ASSUME Base, PlaceInv, MutexInv, LockReturns, NEW c \in Threads, NEW m \in Mutexes, Steps(c, m)
  PROVE  Agrees(c, m) /\ Unlisted(c, m)
  <1>1. /\ mode = "run" /\ at[c].op \in {"locked", "waiting"} /\ UNCHANGED <<mutex, waitList, tcb>>
    BY DEF Steps, LockReturns
  <1>2. mutex[m].owner = c
    BY <1>1 DEF Steps, Agree, AtOps, OwnOps, PlaceInv
  <1>3. mutex[m].flag
    BY <1>1, <1>2 DEF Steps, Agree, AtOp
  <1>4. at'[c].op = "user"
    BY GotoIs DEF LockReturns, Steps, Ops
  <1>5. Respects(c, m)
    BY <1>1, <1>3 DEF Respects
  <1>6. c \in holders'[m]
    BY DEF LockReturns, Steps, TypeOK
  <1>7. Agree(c, m)'
    BY <1>1, <1>2, <1>3, <1>4, <1>6 DEF Steps, Agree, AtOp, AtOps, LineOps, OwnOps, UnlockOps
  <1>8. Waits(c, m)' <=> Waits(c, m)
    BY <1>1, <1>2, <1>4 DEF Waits, AtOps, LineOps
  <1> QED
    BY <1>1, <1>5, <1>7, <1>8 DEF Agrees, Unlisted

LEMMA UndoneAgrees ==
  ASSUME Base, PlaceInv, MutexInv, UnlockUndone, NEW c \in Threads, NEW m \in Mutexes, Steps(c, m)
  PROVE  Agrees(c, m) /\ Unlisted(c, m)
  <1>1. at[c].op = "undoing" /\ UNCHANGED <<waitList, tcb, holders>>
    BY DEF Steps, UnlockUndone, In, history
  <1>2. mutex[m].owner = None /\ mutex'[m].owner = None
    BY <1>1, FlagIs DEF UnlockUndone, Steps, Agree, AtOp
  <1>3. at'[c].op = "user"
    BY GotoIs DEF UnlockUndone, Steps, Ops
  <1>4. \A t \in Threads : None # t
    BY ThreadsAssumption DEF ThreadsAssumption
  <1>5. Respects(c, m)
    BY <1>2, <1>4 DEF Respects
  <1>6. Agree(c, m)'
    BY <1>1, <1>2, <1>3, <1>4 DEF Steps, Agree, AtOp, AtOps, LineOps, OwnOps, UnlockOps
  <1>7. Waits(c, m)' <=> Waits(c, m)
    BY <1>1, <1>3 DEF Waits, AtOps, LineOps
  <1> QED
    BY <1>1, <1>5, <1>6, <1>7 DEF Agrees, Unlisted

LEMMA UnlockAgrees ==
  ASSUME Base, PlaceInv, MutexInv, UnlockRefused \/ UnlockOwned,
         NEW c \in Threads, NEW m \in Mutexes, Steps(c, m)
  PROVE  Agrees(c, m) /\ Unlisted(c, m)
  <1>1. at[c].op = "unlock" /\ UNCHANGED <<mutex, waitList, tcb, holders>>
    BY DEF Steps, UnlockRefused, UnlockOwned, In, history
  <1>2. \/ at'[c].op = "user" /\ mutex[m].owner # c
        \/ at'[c].op = "unlocking" /\ at'[c].arg = m /\ mutex[m].owner = c
    BY GotoIs DEF UnlockRefused, UnlockOwned, Steps, Ops
  <1>3. Respects(c, m)
    BY <1>1, OthersFlag DEF Respects
  <1>4. Agree(c, m)'
    BY <1>1, <1>2 DEF Steps, Agree, AtOp, AtOps, LineOps, OwnOps, UnlockOps
  <1>5. Waits(c, m)' <=> Waits(c, m)
    BY <1>1, <1>2 DEF Waits, AtOps, LineOps
  <1> QED
    BY <1>1, <1>3, <1>4, <1>5 DEF Agrees, Unlisted

LEMMA FlagAgrees ==
  ASSUME Base, PlaceInv, MutexInv, UnlockFlag, NEW c \in Threads, NEW m \in Mutexes, Steps(c, m)
  PROVE  Agrees(c, m) /\ Unlisted(c, m)
  <1>1. at[c].op = "unlocking" /\ UNCHANGED <<waitList, tcb, holders>>
    BY DEF Steps, UnlockFlag, In, history
  <1>2. mutex[m].owner = c /\ mutex'[m].owner = c
    BY <1>1, FlagIs DEF UnlockFlag, Steps, Agree, AtOps, OwnOps
  <1>3. at'[c].op = "unlocked" /\ at'[c].arg = m
    BY GotoIs DEF UnlockFlag, Steps, Ops
  <1>4. Respects(c, m)
    BY <1>2 DEF Respects
  <1>5. Agree(c, m)'
    BY <1>1, <1>2, <1>3 DEF Steps, Agree, AtOp, AtOps, LineOps, OwnOps, UnlockOps
  <1>6. Waits(c, m)' <=> Waits(c, m)
    BY <1>1, <1>3 DEF Waits, AtOps, LineOps
  <1> QED
    BY <1>1, <1>4, <1>5, <1>6 DEF Agrees, Unlisted

LEMMA OwnerAgrees ==
  ASSUME Base, PlaceInv, MutexInv, UnlockOwner, NEW c \in Threads, NEW m \in Mutexes, Steps(c, m)
  PROVE  Agrees(c, m) /\ Unlisted(c, m)
  <1>1. at[c].op = "unlocked" /\ UNCHANGED <<waitList, holders>>
    BY DEF Steps, UnlockOwner, In, history
  <1>2. mutex[m].owner = c /\ mutex'[m].owner = None
    BY <1>1, OwnerIs DEF UnlockOwner, Steps, Agree, AtOps, OwnOps
  <1>3. tcb'[c].mutex = None
    BY BlockMutexIs DEF UnlockOwner, Steps
  <1>4. at'[c].op = "user"
    BY GotoIs DEF UnlockOwner, Steps, Ops
  <1>5. None # m /\ \A t \in Threads : None # t
    BY ThreadsAssumption DEF ThreadsAssumption
  <1>6. Respects(c, m)
    BY <1>2, <1>5 DEF Respects
  <1>7. Agree(c, m)'
    BY <1>1, <1>2, <1>3, <1>4, <1>5 DEF Steps, Agree, AtOp, AtOps, LineOps, OwnOps, UnlockOps
  <1>8. Waits(c, m)' <=> Waits(c, m)
    BY <1>1, <1>4 DEF Waits, AtOps, LineOps
  <1> QED
    BY <1>1, <1>6, <1>7, <1>8 DEF Agrees, Unlisted

(* A step inside lock or unlock keeps the mutexes and the list.            *)
LEMMA MutexStepKeeps ==
  ASSUME Base, PlaceInv, MutexInv, ListInv, MutexStep
  PROVE  MutexInv' /\ ListInv'
  <1>1. me \in Threads /\ Arg \in Mutexes /\ Acts(me, Arg)
    BY MutexStepActs
  <1>2. PICK c \in Threads, m \in Mutexes : c = me /\ m = Arg
    BY <1>1
  <1>3. Steps(c, m) /\ Acts(c, m)
    BY <1>1, <1>2, StepsIs
  <1>4. CASE LockLined
    <2>1. Agrees(c, m) /\ ~ Waits(c, m) /\ Waits(c, m)' /\ waitList' = Enqueued(m)
      BY <1>3, <1>4, LinedAgrees
    <2>2. \A n \in Mutexes : ~ Waits(c, n)
      BY <1>3, <2>1 DEF Waits, AtOps, Acts, MutexOps, LineOps
    <2>3. /\ Enqueued(m) \in Seq(Nodes) /\ OncePerThread(Enqueued(m))
          /\ Range(Enqueued(m)) \subseteq Copies
          /\ \A u \in Threads, n \in Mutexes :
               [threadId |-> u, mutex |-> n] \in Range(Enqueued(m))
                 <=> InLine(u, n) \/ (u = c /\ n = m)
      BY <1>2, <2>2, EnqueuedIs DEF ListInv, Base
    <2>4. \A t \in Threads, n \in Mutexes : t # c \/ n # m => (Waits(t, n)' <=> Waits(t, n))
      BY <1>3, <2>1, ActWaits DEF Agrees
    <2>5. \A t \in Threads, n \in Mutexes : InLine(t, n)' <=> Waits(t, n)'
      BY <2>1, <2>3, <2>4 DEF ListInv, InLine
    <2>6. ListInv'
      BY <1>3, <2>1, <2>3, <2>5 DEF ListInv, Acts, Steps
    <2> QED
      BY <1>3, <2>1, <2>6, ActKeeps DEF Agrees
  <1>5. CASE ~ LockLined
    <2>1. Agrees(c, m) /\ Unlisted(c, m)
      BY <1>3, <1>5, TakenAgrees, BusyAgrees, CheckedAgrees, OwnedAgrees, NamedAgrees,
         NeverOverrides, ReturnsAgrees, UndoneAgrees, UnlockAgrees, FlagAgrees, OwnerAgrees
         DEF MutexStep
    <2> QED
      BY <1>3, <2>1, ActKeeps, ActListed DEF Agrees, Unlisted
  <1> QED
    BY <1>4, <1>5

(* lock and unlock begin.                                                  *)
LEMMA BeginsKeeps ==
  ASSUME Base, PlaceInv, MutexInv, ListInv, NEW m \in Mutexes, Lock(m) \/ Unlock(m)
  PROVE  MutexInv' /\ ListInv'
  <1>1. /\ mode = "run" /\ at[running].op = "user" /\ running = me /\ me \in Threads
        /\ m \in inited /\ UNCHANGED <<tcb, inited, listed, waitList>>
        /\ \A n \in Mutexes : mutex'[n].owner = mutex[n].owner /\ (mutex[n].flag => mutex'[n].flag)
    BY BeginsIs
  <1>2. PICK c \in Threads : c = running
    BY <1>1
  <1>3. /\ Lock(m) => Goes("lock", m) /\ mutex' = mutex /\ holders' = holders
        /\ Unlock(m) => /\ Goes(IF mutex[m].flag THEN "unlock" ELSE "undoing", m)
                        /\ holders' = [holders EXCEPT ![m] = @ \ {c}]
                        /\ mutex' = [mutex EXCEPT ![m].flag = TRUE]
    BY <1>2, BeginsIs DEF Lock, Unlock
  <1>4. at'[c].arg = m /\ \A t \in Threads : t # c => at'[t] = at[t]
    BY <1>2, <1>3 DEF Goes
  <1>5. /\ \A n \in Mutexes : n # m => mutex'[n] = mutex[n]
        /\ Unlock(m) => mutex'[m].flag
    BY <1>3, FlagIs DEF Base
  <1>6. \A n \in Mutexes, t \in Threads :
          IF n = m /\ t = c /\ Unlock(m) THEN t \notin holders'[n]
                                         ELSE t \in holders'[n] <=> t \in holders[n]
    BY <1>3 DEF Base, TypeOK
  <1>7. \A t \in Threads : t # c => at[t].op \notin Protected \cup UnlockOps
    BY <1>2 DEF PlaceInv
  <1>8. Acts(c, m)
    BY <1>1, <1>2, <1>4, <1>5, <1>6, <1>7 DEF Acts, MutexOps, Protected, UnlockOps
  <1>9. Respects(c, m)
    BY <1>1, <1>7 DEF Respects, MutexInv, Agree, AtOp, UnlockOps
  <1>10. Agree(c, m)'
    <2>1. Agree(c, m) /\ at[c].op = "user"
      BY <1>1, <1>2 DEF MutexInv
    <2>2. CASE Lock(m)
      BY <1>1, <1>2, <1>3, <2>1, <2>2 DEF Agree, AtOp, AtOps, LineOps, OwnOps, UnlockOps, Goes
    <2>3. CASE Unlock(m)
      <3>1. CASE mutex[m].flag
        <4>1. at'[c].op = "unlock"
          BY <1>2, <1>3, <2>3, <3>1 DEF Goes
        <4> QED
          BY <1>1, <1>4, <1>5, <1>6, <2>1, <2>3, <4>1
             DEF Agree, AtOp, AtOps, LineOps, OwnOps, UnlockOps
      <3>2. CASE ~ mutex[m].flag
        <4>1. at'[c].op = "undoing"
          BY <1>2, <1>3, <2>3, <3>2 DEF Goes
        <4>2. mutex[m].owner = None
          BY <1>1, <3>2, ClearIsFree DEF AtOp
        <4> QED
          BY <1>1, <1>4, <1>5, <1>6, <2>1, <2>3, <4>1, <4>2, ThreadsAssumption
             DEF Agree, AtOp, AtOps, LineOps, OwnOps, UnlockOps, ThreadsAssumption
      <3> QED
        BY <3>1, <3>2
    <2> QED
      BY <2>2, <2>3
  <1>11. ~ Waits(c, m) /\ ~ Waits(c, m)'
    <2>1. at[c].op = "user" /\ at'[c].op \in {"lock", "unlock", "undoing"}
      BY <1>1, <1>2, <1>3 DEF Goes
    <2> QED
      BY <2>1 DEF Waits, AtOps, LineOps
  <1> QED
    BY <1>1, <1>8, <1>9, <1>10, <1>11, ActKeeps, ActListed

(* A mutex that is initialised has no owner, no holder and no caller.      *)
LEMMA MutexInitKeeps ==
  ASSUME Base, MutexInv, ListInv, NEW m \in Mutexes, MutexInit(m)
  PROVE  MutexInv' /\ ListInv'
  <1>1. /\ m \notin inited /\ inited' = inited \cup {m} /\ mutex'[m].owner = None
        /\ \A n \in Mutexes : n # m => mutex'[n] = mutex[n]
        /\ listed' = (IF listed = None THEN m ELSE listed)
        /\ waitList' = (IF listed = None THEN <<Blank>> ELSE waitList)
        /\ UNCHANGED <<tcb, at, holders>>
    BY MutexInitIs DEF history
  <1>2. None # m /\ \A t \in Threads : None # t
    BY ThreadsAssumption DEF ThreadsAssumption
  <1>3. ASSUME NEW t \in Threads
        PROVE  /\ at[t].op \in MutexOps => at[t].arg # m
               /\ mutex[m].owner # t /\ t \notin holders[m] /\ tcb[t].mutex # m
    <2>1. at[t].op \in MutexOps => at[t].arg # m
      BY <1>1 DEF Base, CallInv
    <2>2. mutex[m].owner # t
      BY <1>1 DEF MutexInv, Agree
    <2>3. t \notin holders[m] /\ tcb[t].mutex # m
      BY <2>1, <2>2 DEF MutexInv, Agree, AtOps, LineOps, MutexOps, Protected
    <2> QED
      BY <2>1, <2>2, <2>3
  <1>4. ASSUME NEW t \in Threads, NEW n \in Mutexes
        PROVE  Agree(t, n)' /\ (Waits(t, n)' <=> Waits(t, n))
    <2>1. CASE n = m
      BY <1>1, <1>2, <1>3, <2>1 DEF Agree, Waits, AtOp, AtOps, LineOps, OwnOps, UnlockOps, MutexOps,
         Protected
    <2>2. CASE n # m
      BY <1>1, <2>2 DEF MutexInv, Agree, Waits, AtOp, AtOps
    <2> QED
      BY <2>1, <2>2
  <1>5. MutexInv'
    BY <1>4 DEF MutexInv
  <1>6. CASE listed = None
    <2>1. waitList' = <<Blank>> /\ listed' # None /\ inited = {}
      BY <1>1, <1>2, <1>6 DEF ListInv
    <2>2. \A t \in Threads, n \in Mutexes : ~ Waits(t, n)
      BY <2>1 DEF Waits, AtOps, LineOps, Base, CallInv, MutexOps
    <2>3. Range(<<Blank>>) = {Blank} /\ OncePerThread(<<Blank>>)
      BY DEF Range, OncePerThread
    <2>4. \A t \in Threads, n \in Mutexes : [threadId |-> t, mutex |-> n] # Blank
      BY <1>2 DEF Blank
    <2>5. \A t \in Threads, n \in Mutexes : InLine(t, n)' <=> Waits(t, n)'
      BY <1>4, <2>1, <2>2, <2>3, <2>4 DEF InLine
    <2> QED
      BY <1>5, <2>1, <2>3, <2>5 DEF ListInv
  <1>7. CASE listed # None
    <2>1. waitList' = waitList /\ listed' # None
      BY <1>1, <1>7
    <2>2. \A t \in Threads, n \in Mutexes : InLine(t, n)' <=> Waits(t, n)'
      BY <1>4, <2>1 DEF ListInv, InLine
    <2> QED
      BY <1>5, <2>1, <2>2 DEF ListInv
  <1> QED
    BY <1>5, <1>6, <1>7

(* A thread in line whose turn has come becomes the owner, and leaves the   *)
(* list.                                                                   *)
LEMMA LoopGrantKeeps ==
  ASSUME Base, LibInv, PlaceInv, MutexInv, ListInv, LoopGrant
  PROVE  /\ MutexInv' /\ ListInv'
         /\ mutex[Wanted].owner = None /\ InLine(me, Wanted) /\ NextFor(Wanted) = me
  <1>1. me \in Threads /\ Wanted \in Mutexes
    BY LoopGrantIs, SchedulerHead DEF LoopGrant, Wanting
  <1>2. PICK c \in Threads, m \in Mutexes : c = me /\ m = Wanted
    BY <1>1
  <1>3. /\ mode = "loop" /\ tcb[c].mutex = m /\ mutex[m].owner # c
        /\ waitList = <<>> \/ (mutex[m].owner = None /\ NextFor(m) = c)
    BY <1>2 DEF LoopGrant, Wanting, Wanted
  <1>4. /\ UNCHANGED <<at, inited, listed, holders>> /\ waitList' = Dequeued(c)
        /\ \A t \in Threads : tcb'[t].mutex = tcb[t].mutex
        /\ mutex'[m].flag /\ mutex'[m].owner = c
        /\ \A n \in Mutexes : n # m => mutex'[n] = mutex[n]
    <2>1. Scheduler /\ HeadGoesOn
      BY DEF Scheduler, HeadGoesOn
    <2> QED
      BY <1>2, <2>1, SchedulerIs, LoopGrantIs
  <1>5. \A t \in Threads : at[t].op \notin Protected \cup UnlockOps
    <2>1. ~ lib
      BY <1>3 DEF LibInv
    <2> QED
      BY <1>3, <2>1 DEF PlaceInv
  <1>6. Waits(c, m) /\ InLine(c, m)
    <2>1. Agree(c, m)
      BY DEF MutexInv
    <2>2. AtOps(c, LineOps, m)
      BY <1>3, <1>5, <2>1 DEF Agree, AtOps, Protected
    <2> QED
      BY <1>3, <2>2 DEF Waits, ListInv
  <1>7. mutex[m].owner = None /\ NextFor(m) = c
    <2>1. waitList # <<>>
      BY <1>6 DEF InLine, Range
    <2> QED
      BY <1>3, <2>1
  <1>8. Acts(c, m)
    BY <1>4, <1>5, <1>6 DEF Acts, Waits, AtOps
  <1>9. Respects(c, m)
    BY <1>4, <1>7, ThreadsAssumption DEF Respects, ThreadsAssumption
  <1>10. Agree(c, m)'
    <2>1. Agree(c, m) /\ AtOps(c, LineOps, m) /\ m \in inited
      BY <1>6 DEF MutexInv, Waits, AtOps, Base, CallInv, MutexOps, LineOps
    <2> QED
      BY <1>3, <1>4, <2>1 DEF Agree, AtOp, AtOps, LineOps, OwnOps, UnlockOps
  <1>11. \A t \in Threads, n \in Mutexes : Waits(t, n)' <=> Waits(t, n) /\ t # c
    <2>1. \A n \in Mutexes : Waits(c, n) => n = m
      BY <1>6 DEF Waits, AtOps
    <2>2. ~ Waits(c, m)'
      BY <1>4 DEF Waits
    <2> QED
      BY <1>8, <1>9, <2>1, <2>2, ActWaits
  <1>12. ListInv'
    <2>1. /\ OncePerThread(Dequeued(c))
          /\ Dequeued(c) = <<Blank>> \/ Range(Dequeued(c)) \subseteq Copies
          /\ \A u \in Threads, n \in Mutexes :
               [threadId |-> u, mutex |-> n] \in Range(Dequeued(c)) <=> InLine(u, n) /\ u # c
          /\ waitList = <<>> => Dequeued(c) = <<>>
      BY DequeuedIs DEF Base
    <2> QED
      BY <1>4, <1>11, <2>1 DEF ListInv, InLine
  <1> QED
    BY <1>2, <1>6, <1>7, <1>8, <1>9, <1>10, <1>12, ActKeeps

(* An owner is not in line.                                                *)
LEMMA LoopOwnerKeeps ==
  ASSUME Base, MutexInv, ListInv, LoopOwner
  PROVE  MutexInv' /\ ListInv'
  <1>1. me \in Threads /\ mode = "loop" /\ Wanting
    BY SchedulerHead DEF LoopOwner, Wanting
  <1>2. PICK c \in Threads : c = me
    BY <1>1
  <1>3. /\ UNCHANGED <<at, mutex, inited, listed, holders>>
        /\ \A t \in Threads : tcb'[t].mutex = tcb[t].mutex
        /\ waitList' \in {waitList, Dequeued(c)}
    BY <1>2 DEF LoopOwner, history
  <1>4. \A n \in Mutexes : ~ Waits(c, n)
    BY <1>1, <1>2 DEF LoopOwner, Wanted, MutexInv, Agree, AtOps, LineOps, Waits
  <1>5. \A t \in Threads, n \in Mutexes : Agree(t, n)' /\ (Waits(t, n)' <=> Waits(t, n))
    BY <1>3 DEF MutexInv, Agree, Waits, AtOp, AtOps
  <1>6. /\ OncePerThread(Dequeued(c))
        /\ Dequeued(c) = <<Blank>> \/ Range(Dequeued(c)) \subseteq Copies
        /\ waitList = <<>> => Dequeued(c) = <<>>
        /\ \A u \in Threads, n \in Mutexes :
             [threadId |-> u, mutex |-> n] \in Range(Dequeued(c)) <=> InLine(u, n) /\ u # c
    BY DequeuedIs DEF Base
  <1>7. ListInv'
    <2>1. CASE waitList' = waitList
      BY <1>3, <1>5, <2>1 DEF ListInv, InLine
    <2>2. CASE waitList' = Dequeued(c)
      BY <1>3, <1>4, <1>5, <1>6, <2>2 DEF ListInv, InLine
    <2> QED
      BY <1>3, <2>1, <2>2
  <1> QED
    BY <1>5, <1>7 DEF MutexInv

LEMMA MutexKeeps ==
  ASSUME Base, LibInv, PlaceInv, MutexInv, ListInv, Next
  PROVE  MutexInv' /\ ListInv'
  BY MutexStepKeeps, LoopOwnerKeeps, LoopGrantKeeps, BeginsKeeps, MutexInitKeeps, QuietSteps,
     QuietKeeps
-----------------------------------------------------------------------------
(* The values that joins hand over.                                         *)

(* The values stay right if results stay and so do those who wait.         *)
LEMMA ValueFrame ==
  ASSUME ValueInv, results' = results,
         \A t \in Threads : at'[t].op = "joining" =>
            /\ at'[t] = at[t] /\ tcb'[t].waitingToEnd = tcb[t].waitingToEnd
            /\ tcb'[t].joinReturnLocation = tcb[t].joinReturnLocation
  PROVE  ValueInv'
  BY DEF ValueInv, HasValue

(* A longer quantum leaves the joins in the control blocks alone.          *)
LEMMA LongerJoins ==
  ASSUME NEW b \in Blocks, NEW t \in Threads
  PROVE  /\ Longer(b, t) \in Blocks
         /\ \A u \in Threads : /\ Longer(b, t)[u].waitingToEnd = b[u].waitingToEnd
                               /\ Longer(b, t)[u].joinReturnLocation = b[u].joinReturnLocation
  <1> DEFINE Block == [mutex : Mutexes \cup {None}, waitingToEnd : Threads \cup {None},
                       joinReturnLocation : Workers \cup {None}, numQuantum : Nat]
             new == [b[t] EXCEPT !.numQuantum = @ + 1]
  <1>1. b \in [Threads -> Block]
    BY DEF Blocks
  <1>2. /\ new \in Block /\ new.waitingToEnd = b[t].waitingToEnd
        /\ new.joinReturnLocation = b[t].joinReturnLocation
    BY <1>1
  <1>3. Longer(b, t) = [b EXCEPT ![t] = new]
    BY <1>1 DEF Longer
  <1> HIDE DEF new
  <1>4. Longer(b, t) \in [Threads -> Block]
    BY <1>1, <1>2, <1>3
  <1> QED
    BY <1>1, <1>2, <1>3, <1>4 DEF Blocks

(* The scheduler writes no value.                                          *)
LEMMA SchedulerValue ==
  ASSUME Base, JoinInv, ValueInv, Scheduler
  PROVE  ValueInv'
  <1>1. at' = at /\ results' = results /\ mode # "run"
    BY DEF Scheduler, ScheduleLibrary, ScheduleOnly, ScheduleRotate, LoopFree, LoopOwner, LoopGrant,
       LoopCrash, LoopWait, LoopJoined, LoopJoining, Skip, Wanting, history
  <1>2. tcb \in Blocks /\ me \in Threads /\ ~ LoopJoined
    BY <1>1, SchedulerHead DEF Base, TypeOK, Blocks, JoinInv, LoopJoined
  <1>3. \A t \in Threads : /\ Longer(tcb, me)[t].waitingToEnd = tcb[t].waitingToEnd
                           /\ Longer(tcb, me)[t].joinReturnLocation = tcb[t].joinReturnLocation
    BY <1>2, LongerJoins
  <1>4. CASE tcb' = tcb
    BY <1>1, <1>4, ValueFrame
  <1>5. CASE tcb' = Longer(tcb, me)
    BY <1>1, <1>3, <1>5, ValueFrame
  <1>6. CASE ScheduleRotate /\ tcb' = Longer(Longer(tcb, me), Head(Rotated))
    <2> DEFINE l == Longer(tcb, me)
    <2>1. l \in Blocks /\ Head(Rotated) \in Threads
      <3>1. queue # <<>>
        BY <1>1, SchedulerHead
      <3> QED
        BY <1>2, <3>1, LongerJoins, RotatedIs, QueueFacts DEF Base
    <2>2. \A t \in Threads : /\ l[t].waitingToEnd = tcb[t].waitingToEnd
                            /\ l[t].joinReturnLocation = tcb[t].joinReturnLocation
      BY <1>3
    <2> HIDE DEF l
    <2>3. \A t \in Threads : /\ Longer(l, Head(Rotated))[t].waitingToEnd = l[t].waitingToEnd
                            /\ Longer(l, Head(Rotated))[t].joinReturnLocation = l[t].joinReturnLocation
      BY <2>1, LongerJoins
    <2>4. tcb' = Longer(l, Head(Rotated))
      BY <1>6 DEF l
    <2> QED
      BY <1>1, <2>2, <2>3, <2>4, ValueFrame
  <1> QED
    BY <1>2, <1>4, <1>5, <1>6 DEF Scheduler, ScheduleLibrary, ScheduleOnly, ScheduleRotate,
       LoopFree, LoopOwner, LoopGrant, LoopCrash, LoopWait, LoopJoining, Skip

(* Calls that neither wait for a thread nor end one.                       *)
LEMMA CallValue ==
  ASSUME Base, ValueInv, results' = results, running \in Threads,
         at' = at \/ (at'[running].op # "joining" /\ \A t \in Threads : t # running => at'[t] = at[t]),
         \/ tcb' = tcb
         \/ \E t \in Threads, m \in Mutexes \cup {None} : tcb' = [tcb EXCEPT ![t].mutex = m]
  PROVE  ValueInv'
  <1>1. \A t \in Threads : at'[t].op = "joining" => at'[t] = at[t]
    OBVIOUS
  <1>2. \A t \in Threads : /\ tcb'[t].waitingToEnd = tcb[t].waitingToEnd
                           /\ tcb'[t].joinReturnLocation = tcb[t].joinReturnLocation
    <2>1. CASE tcb' = tcb
      BY <2>1
    <2>2. ASSUME NEW u \in Threads, NEW m \in Mutexes \cup {None}, tcb' = [tcb EXCEPT ![u].mutex = m]
          PROVE  \A t \in Threads : /\ tcb'[t].waitingToEnd = tcb[t].waitingToEnd
                                    /\ tcb'[t].joinReturnLocation = tcb[t].joinReturnLocation
      BY <2>2 DEF Base, TypeOK
    <2> QED
      BY <2>1, <2>2
  <1> QED
    BY <1>1, <1>2, ValueFrame

(* A step inside lock or unlock writes no value.                           *)
LEMMA MutexStepValue ==
  ASSUME Base, ValueInv, MutexStep
  PROVE  ValueInv'
  <1>1. /\ mode = "run" /\ at[running].op \in MutexOps /\ results' = results
        /\ at'[running].op # "joining" /\ \A t \in Threads : t # running => at'[t] = at[t]
    BY MutexStepGoes DEF Goes, MutexOps, Protected, UnlockOps
  <1>2. me \in Threads /\ running \in Threads /\ Arg \in Mutexes
    BY <1>1, AtMutex
  <1>3. \/ tcb' = tcb \/ tcb' = [tcb EXCEPT ![me].mutex = Arg]
        \/ tcb' = [tcb EXCEPT ![me].mutex = None]
    BY DEF MutexStep, LockTaken, LockAgain, LockBusy, LockLined, LockChecked, LockOwned, LockNamed,
       LockOverrides, LockReturns, UnlockUndone, UnlockRefused, UnlockOwned, UnlockFlag, UnlockOwner
  <1> QED
    BY <1>1, <1>2, <1>3, CallValue

(* A join on a thread that has ended may overwrite a value of the caller,  *)
(* who does not wait.                                                      *)
LEMMA JoinValue ==
  ASSUME Base, ValueInv, NEW u \in Workers, Join(u)
  PROVE  ValueInv'
  <1>1. /\ mode = "run" /\ at[running].op = "user" /\ tcb' = tcb /\ running = me /\ me \in Threads
        /\ Goes("join", u) \/ at' = at
    BY JoinIs
  <1>2. /\ results' \in [Threads -> [Workers -> Workers \cup {None}]]
        /\ \A t \in Threads : t # running => results'[t] = results[t]
    <2>1. CASE JoinEnded(u)
      <3>1. tcb[me].joinReturnLocation \in Workers \cup {None}
        BY <1>1 DEF Base, TypeOK
      <3> QED
        BY <1>1, <2>1, <3>1 DEF JoinEnded, ValueInv
    <2>2. CASE JoinChecked(u) \/ JoinTaken(u)
      BY <2>2 DEF JoinChecked, JoinTaken, ValueInv
    <2> QED
      BY <2>1, <2>2 DEF Join
  <1>3. \A t \in Threads : at'[t].op = "joining" => t # running /\ at'[t] = at[t]
    BY <1>1 DEF Goes
  <1> QED
    BY <1>1, <1>2, <1>3 DEF ValueInv, HasValue

(* A thread that begins to wait has no value to find yet.                  *)
LEMMA EntersValue ==
  ASSUME Base, ValueInv, Enters
  PROVE  ValueInv'
  <1>1. results' = results
    BY DEF Enters, LockWaits, JoinWaits, Switch, history
  <1>2. CASE Switch
    BY <1>1, <1>2, SwitchIs, ValueFrame
  <1>3. CASE LockWaits
    BY <1>1, <1>3, LockWaitsIs, ValueFrame DEF Goes
  <1>4. CASE JoinWaits
    <2>1. me \in Threads /\ running = me
      BY <1>4, EntersIs DEF JoinWaits, In
    <2>2. /\ Arg # None /\ tcb'[me].waitingToEnd = Arg
          /\ \A t \in Threads : t # me => at'[t] = at[t] /\ tcb'[t] = tcb[t]
      BY <1>4, <2>1, JoinWaitsIs, ThreadsAssumption DEF Goes, ThreadsAssumption, Threads
    <2> QED
      BY <1>1, <2>1, <2>2 DEF ValueInv, HasValue
  <1> QED
    BY <1>2, <1>3, <1>4 DEF Enters

(* The value of the thread that ends goes where the one that waits wants   *)
(* it.                                                                     *)
LEMMA ExitValue ==
  ASSUME Base, JoinInv, ValueInv, Exit
  PROVE  ValueInv'
  <1> DEFINE w == Waiter(me)
  <1>1. /\ running = me /\ me \in Threads /\ me \in Workers /\ Goes("exit", None)
        /\ w # None => w \in Threads /\ tcb[w].waitingToEnd = me
    BY ExitIs
  <1>2. /\ tcb' = (IF w = None THEN tcb ELSE [tcb EXCEPT ![w].waitingToEnd = None])
        /\ results' = (IF w = None THEN results ELSE Given(w))
    BY DEF Exit
  <1> HIDE DEF w
  <1>3. \A t \in Threads : at'[t].op = "joining" => t # me /\ at'[t] = at[t]
    BY <1>1 DEF Goes
  <1>4. CASE w = None
    BY <1>2, <1>3, <1>4, ValueFrame
  <1>5. CASE w # None
    <2> DEFINE loc == tcb[w].joinReturnLocation
    <2>1. AtOp(w, "joining", me) /\ loc \in Workers \cup {None}
      BY <1>1, <1>5, ThreadsAssumption DEF Base, TypeOK, JoinInv, AtOp, ThreadsAssumption
    <2>2. \A t \in Threads : t # w => tcb'[t] = tcb[t]
      BY <1>2, <1>5 DEF Base, TypeOK
    <2>3. tcb'[w].joinReturnLocation = loc
      BY <1>1, <1>2, <1>5 DEF Base, TypeOK
    <2>4. results' = IF loc = None THEN results ELSE [results EXCEPT ![w][loc] = me]
      BY <1>2, <1>5 DEF Given
    <2> HIDE DEF loc
    <2>5. /\ results' \in [Threads -> [Workers -> Workers \cup {None}]]
          /\ \A t \in Threads : t # w => results'[t] = results[t]
          /\ loc # None => results'[w][loc] = me
      BY <1>1, <1>5, <2>1, <2>4 DEF ValueInv
    <2>6. ASSUME NEW t \in Threads PROVE HasValue(t)'
      <3>1. CASE t = w
        BY <1>1, <1>3, <1>5, <2>1, <2>3, <2>5, <3>1 DEF HasValue, AtOp
      <3>2. CASE t # w
        BY <1>3, <2>2, <2>5, <3>2 DEF ValueInv, HasValue
      <3> QED
        BY <3>1, <3>2
    <2> QED
      BY <2>5, <2>6 DEF ValueInv
  <1> QED
    BY <1>4, <1>5

(* Every step keeps the values right.                                      *)
LEMMA ValueKeeps ==
  ASSUME Base, JoinInv, ValueInv, Next
  PROVE  ValueInv'
  <1>1. CASE Scheduler \/ MutexStep \/ Enters \/ Exit \/ \E u \in Workers : Join(u)
    BY <1>1, SchedulerValue, MutexStepValue, EntersValue, ExitValue, JoinValue
  <1>2. CASE JoinReturns \/ ExitDelete
    <2>1. results' = results /\ tcb' = tcb
      BY <1>2 DEF JoinReturns, ExitDelete, history
    <2> QED
      BY <1>2, <2>1, ExitDeleteIs, JoinReturnsIs, ValueFrame DEF Goes
  <1>3. ASSUME NEW m \in Mutexes, Lock(m) \/ Unlock(m)
        PROVE  ValueInv'
    <2>1. results' = results /\ tcb' = tcb
      BY <1>3 DEF Lock, Unlock
    <2> QED
      BY <1>3, <2>1, BeginsIs, ValueFrame DEF Goes
  <1>4. CASE Leaves \/ LockNull \/ \E u \in Workers : Create(u) \/ JoinRefused(u)
    <2>1. results' = results /\ tcb' = tcb /\ at' = at
      BY <1>4 DEF Leaves, ExitReturns, MainReturns, SwitchScheduler, LockNull, Create, JoinRefused,
         history
    <2> QED
      BY <2>1, ValueFrame
  <1>5. CASE \E m \in Mutexes : MutexInit(m) \/ MutexDestroy(m)
    <2>1. results' = results /\ tcb' = tcb /\ at' = at
      BY <1>5 DEF MutexInit, MutexDestroy, history
    <2> QED
      BY <2>1, ValueFrame
  <1> QED
    BY <1>1, <1>2, <1>3, <1>4, <1>5, StepIs
-----------------------------------------------------------------------------
(* The invariant.                                                           *)

LEMMA InitInv ==
  ASSUME Init
  PROVE  Inv
  <1> USE DEF Init
  <1>1. None \notin Threads /\ Main \in Threads
    BY ThreadsAssumption DEF ThreadsAssumption, Threads
  <1>2. Alive = {} /\ \A t \in Threads : at[t].op = "user" /\ tcb[t].waitingToEnd = None
    BY DEF Alive, Range, User
  <1>3. TypeOK
    <2>1. User \in [op : Ops, arg : Threads \cup Mutexes \cup {None}]
      BY DEF User, Ops
    <2>2. at \in [Threads -> [op : Ops, arg : Threads \cup Mutexes \cup {None}]]
      BY <2>1
    <2>3. tcb \in [Threads -> [mutex : Mutexes \cup {None}, waitingToEnd : Threads \cup {None},
                              joinReturnLocation : Workers \cup {None}, numQuantum : Nat]]
      BY DEF InitialQuantum
    <2>4. mutex \in [Mutexes -> [flag : BOOLEAN, owner : Threads \cup {None}]]
      OBVIOUS
    <2>5. queue \in Seq(Threads)
          /\ waitList \in Seq([threadId : Threads \cup {None}, mutex : Mutexes \cup {None}])
      OBVIOUS
    <2>6. context \in [Threads -> Threads \cup {None}] /\ holders \in [Mutexes -> SUBSET Threads]
      OBVIOUS
    <2>7. \A i, j \in DOMAIN queue : queue[i] = queue[j] => i = j
      OBVIOUS
    <2> QED
      BY <1>1, <2>2, <2>3, <2>4, <2>5, <2>6, <2>7 DEF TypeOK
  <1>4. Base
    BY <1>1, <1>2, <1>3 DEF Base, QueueInv, ProcInv, CallInv, MutexOps, Protected, UnlockOps
  <1>5. LibInv /\ ReturnInv
    BY <1>1, <1>2 DEF LibInv, ReturnInv, Unwaiting, JoinedEnded
  <1>6. JoinInv /\ ValueInv
    BY <1>1, <1>2 DEF JoinInv, Unwaiting, ValueInv, HasValue
  <1>7. PlaceInv /\ MutexInv
    BY <1>1, <1>2, ThreadsAssumption DEF PlaceInv, MutexInv, Agree, AtOp, AtOps, Protected,
       UnlockOps, OwnOps, LineOps, ThreadsAssumption
  <1>8. ListInv
    BY <1>2 DEF ListInv, OncePerThread, InLine, Waits, AtOps, LineOps, Range
  <1> QED
    BY <1>4, <1>5, <1>6, <1>7, <1>8 DEF Inv

LEMMA NextInv ==
  ASSUME Inv, Next
  PROVE  Inv'
  <1>1. Base /\ Base' /\ cuts \subseteq cuts'
    BY NextBase, CutsGrow DEF Inv
  <1>2. "null" \notin cuts' => LibInv /\ LibInv'
    BY <1>1, LibKeeps DEF Inv
  <1>3. cuts' \cap {"null", "alone"} = {} => ReturnInv /\ ReturnInv'
    BY <1>1, <1>2, ReturnKeeps DEF Inv
  <1>4. cuts' \cap JoinCuts = {} => JoinInv' /\ ValueInv'
    BY <1>1, <1>2, JoinKeeps, ValueKeeps DEF Inv, JoinCuts
  <1>5. cuts' \cap MutexCuts = {} => PlaceInv' /\ MutexInv' /\ ListInv'
    BY <1>1, <1>2, <1>3, PlaceKeeps, MutexKeeps DEF Inv, MutexCuts
  <1>6. cuts' \cap ContextCuts = {} => \A t \in Threads : context'[t] = t
    BY <1>1, ContextsKeep DEF Inv
  <1> QED
    BY <1>1, <1>2, <1>3, <1>4, <1>5, <1>6 DEF Inv

LEMMA StutterInv ==
  ASSUME Inv, UNCHANGED vars
  PROVE  Inv'
  <1> USE DEF vars, processor, history, interruptions, me, Alive, Created
  <1>1. Base'
    BY DEF Inv, Base, TypeOK, QueueInv, ProcInv, CallInv
  <1>2. LibInv => LibInv'
    BY DEF LibInv
  <1>3. ReturnInv => ReturnInv'
    BY DEF ReturnInv, Unwaiting, JoinedEnded
  <1>4. JoinInv => JoinInv'
    BY DEF JoinInv, Unwaiting
  <1>5. ValueInv => ValueInv'
    BY DEF ValueInv, HasValue
  <1>6. PlaceInv => PlaceInv'
    BY DEF PlaceInv
  <1>7. MutexInv => MutexInv'
    BY DEF MutexInv, Agree, AtOp, AtOps
  <1>8. ListInv => ListInv'
    BY DEF ListInv, InLine, Waits, AtOps
  <1>9. cuts' = cuts /\ context' = context
    OBVIOUS
  <1> HIDE DEF vars, processor, history, interruptions, me, Alive, Created
  <1> QED
    BY <1>1, <1>2, <1>3, <1>4, <1>5, <1>6, <1>7, <1>8, <1>9 DEF Inv

(* The run queue, the calls, the mutexes, the waiting list and the joins    *)
(* agree in every reachable state, each until the cuts that end it.         *)
THEOREM ThreadsInv == Spec => []Inv
  <1>1. Init => Inv
    BY InitInv
  <1>2. Inv /\ [Next]_vars => Inv'
    BY NextInv, StutterInv
  <1> QED
    BY <1>1, <1>2, PTL DEF Spec

(* The state is well typed, and no thread is twice in the run queue,        *)
(* wherever the timer expires.                                              *)
THEOREM ThreadsTypeOK == Spec => []TypeOK
  <1>1. Inv => TypeOK
    BY DEF Inv, Base
  <1> QED
    BY <1>1, ThreadsInv, PTL

(* Until something gets past the protection of a mutex at most one thread   *)
(* is told that it holds it, that thread is its owner and the flag is set,  *)
(* an owner holds it or is in a call on it, and whoever waits for it is in   *)
(* line once.                                                               *)
THEOREM MutexesShelteredHolds == Spec => []MutexesSheltered
  <1>1. ASSUME Base, MutexInv PROVE MutualExclusion
    <2> SUFFICES ASSUME NEW m \in Mutexes PROVE Cardinality(holders[m]) <= 1
      BY DEF MutualExclusion
    <2>1. \A t \in holders[m] : t \in Threads /\ mutex[m].owner = t
      BY <1>1 DEF Base, TypeOK, MutexInv, Agree
    <2>2. CASE holders[m] = {}
      BY <2>2, FS_EmptySet
    <2>3. CASE holders[m] # {}
      <3>1. PICK t : t \in holders[m]
        BY <2>3
      <3>2. holders[m] = {t}
        BY <2>1, <3>1
      <3>3. Cardinality({t}) = 1
        BY FS_Singleton
      <3> QED
        BY <3>2, <3>3
    <2> QED
      BY <2>2, <2>3
  <1>2. ASSUME Base, MutexInv PROVE HoldersOwn
    <2> SUFFICES ASSUME NEW m \in Mutexes, NEW t \in holders[m]
                 PROVE  mutex[m] = [flag |-> TRUE, owner |-> t]
      BY DEF HoldersOwn
    <2>1. t \in Threads /\ mutex[m] \in [flag : BOOLEAN, owner : Threads \cup {None}]
      BY <1>2 DEF Base, TypeOK
    <2>2. mutex[m].flag = TRUE /\ mutex[m].owner = t
      BY <1>2, <2>1 DEF MutexInv, Agree
    <2> QED
      BY <2>1, <2>2
  <1>3. Base /\ MutexInv => OwnersAsked
    BY DEF Base, TypeOK, MutexInv, Agree, AtOps, OwnersAsked
  <1>4. ASSUME Base, ListInv PROVE WaitersInLine
    <2> SUFFICES ASSUME NEW t \in Threads, NEW m \in Mutexes
                 PROVE  Cardinality({i \in DOMAIN waitList :
                                       waitList[i] = [threadId |-> t, mutex |-> m]})
                          = IF Waits(t, m) THEN 1 ELSE 0
      BY DEF WaitersInLine, Waits, AtOps, LineOps
    <2> DEFINE places == {i \in DOMAIN waitList : waitList[i] = [threadId |-> t, mutex |-> m]}
    <2>1. places # {} <=> Waits(t, m)
      BY <1>4 DEF ListInv, InLine, Range
    <2>2. CASE places = {}
      BY <2>1, <2>2, FS_EmptySet
    <2>3. CASE places # {}
      <3>1. PICK i : i \in places
        BY <2>3
      <3>2. \A j \in places : j = i
        BY <1>4, <3>1 DEF ListInv, OncePerThread
      <3>3. places = {i}
        BY <3>1, <3>2
      <3>4. Cardinality(places) = 1
        BY <3>3, FS_Singleton
      <3> QED
        BY <2>1, <2>3, <3>4
    <2> QED
      BY <2>2, <2>3
  <1>5. Inv => MutexesSheltered
    BY <1>1, <1>2, <1>3, <1>4 DEF Inv, MutexesSheltered
  <1> QED
    BY <1>5, ThreadsInv, PTL

(* Until the timer expires in join or exit, or lock(NULL) is called, nobody *)
(* waits for a thread that has ended or that another waits for; and until   *)
(* lock(NULL), or a thread alone in the queue is run while it waits, a join *)
(* of another thread that returned 0 returned after its end.                *)
THEOREM JoinsShelteredHolds == Spec => []JoinsSheltered
  <1>1. ASSUME Base, JoinInv PROVE JoinersKnown
    <2>1. Alive \subseteq Threads
      BY <1>1, QueueFacts DEF Base
    <2> QED
      BY <1>1, <2>1 DEF JoinInv, JoinersKnown
  <1>2. Inv => JoinsSheltered
    BY <1>1 DEF Inv, JoinsSheltered, ReturnInv
  <1> QED
    BY <1>2, ThreadsInv, PTL

(* Until the timer expires in exit, or in the scheduler, the context of a   *)
(* thread of the queue holds the execution of that thread.                  *)
THEOREM ContextsShelteredHolds == Spec => []ContextsSheltered
  <1>1. ASSUME Inv PROVE ContextsSheltered
    <2>1. Alive \subseteq Threads
      BY <1>1, QueueFacts DEF Inv, Base
    <2> QED
      BY <1>1, <2>1 DEF Inv, ContextsSheltered, OwnContexts
  <1> QED
    BY <1>1, ThreadsInv, PTL

(* A join that had to wait finds the value of the thread it waited for.    *)
THEOREM WaitersGetTheValueHolds == Spec => WaitersGetTheValue
  <1> DEFINE Found == cuts \cap JoinCuts = {} =>
                        \A t \in Threads :
                          LET loc == tcb[t].joinReturnLocation
                          IN  at[t].op = "joining" /\ at'[t].op = "user" /\ loc # None
                                => results[t][loc] = at[t].arg
  <1>1. ASSUME Inv, [Next]_vars PROVE [Found]_vars
    <2> SUFFICES ASSUME cuts \cap JoinCuts = {}, NEW t \in Threads, at[t].op = "joining",
                        at'[t].op = "user", tcb[t].joinReturnLocation # None
                 PROVE  results[t][tcb[t].joinReturnLocation] = at[t].arg
      OBVIOUS
    <2>1. Base /\ JoinInv /\ ValueInv
      BY <1>1 DEF Inv
    <2>2. at' # at /\ Next
      BY <1>1 DEF vars
    <2>3. JoinReturns /\ t = running
      <3>1. ~ Scheduler
        BY <2>2, <2>1, SchedulerIs
      <3>2. ~ MutexStep
        BY <2>1, MutexStepGoes DEF Goes, MutexOps, Protected, UnlockOps
      <3>3. ~ Enters
        <4>1. CASE Switch
          BY <2>1, <2>2, <4>1, SwitchIs
        <4>2. CASE LockWaits \/ JoinWaits
          BY <2>1, <4>2, LockWaitsIs, JoinWaitsIs DEF Goes
        <4> QED
          BY <4>1, <4>2 DEF Enters
      <3>4. ~ Leaves /\ ~ LockNull
        BY <2>1, <2>2, LeavesIs DEF LockNull
      <3>5. ~ Exit /\ ~ ExitDelete
        BY <2>1, ExitIs, ExitDeleteIs DEF Goes
      <3>6. \A u \in Workers : ~ (Create(u) \/ Join(u) \/ JoinRefused(u))
        <4>1. ASSUME NEW u \in Workers, Create(u) \/ JoinRefused(u) PROVE FALSE
          BY <2>2, <4>1 DEF Create, JoinRefused
        <4>2. ASSUME NEW u \in Workers, Join(u) PROVE FALSE
          BY <2>1, <2>2, <4>2, JoinIs DEF Goes
        <4> QED
          BY <4>1, <4>2
      <3>7. \A m \in Mutexes : ~ (Lock(m) \/ Unlock(m) \/ MutexInit(m) \/ MutexDestroy(m))
        <4>1. ASSUME NEW m \in Mutexes, MutexInit(m) \/ MutexDestroy(m) PROVE FALSE
          BY <2>2, <4>1 DEF MutexInit, MutexDestroy
        <4>2. ASSUME NEW m \in Mutexes, Lock(m) \/ Unlock(m) PROVE FALSE
          BY <2>1, <4>2, BeginsIs DEF Goes
        <4> QED
          BY <4>1, <4>2
      <3>8. JoinReturns
        BY <2>2, <3>1, <3>2, <3>3, <3>4, <3>5, <3>6, <3>7, StepIs
      <3> QED
        BY <2>1, <3>8, JoinReturnsIs DEF Goes
    <2>4. tcb[t].waitingToEnd = None
      BY <2>1, <2>3, JoinReturnsIs DEF JoinInv, Unwaiting
    <2> QED
      BY <2>1, <2>4 DEF ValueInv, HasValue
  <1>2. Spec => [][Found]_vars
    BY <1>1, ThreadsInv, PTL DEF Spec
  <1> QED
    BY <1>2 DEF WaitersGetTheValue

(* A thread that the loop gives a mutex is the first in line for it.       *)
LEMMA GrantedIsFirst ==
  ASSUME Base, LibInv, PlaceInv, MutexInv, ListInv, LoopGrant
  PROVE  \E i \in DOMAIN waitList :
           /\ waitList[i] = [threadId |-> me, mutex |-> Wanted]
           /\ \A j \in 1 .. i - 1 : waitList[j].mutex # Wanted
  <1> DEFINE m == Wanted
             places == {i \in DOMAIN waitList : waitList[i].mutex = m}
             p == Min(places)
  <1>1. me \in Threads /\ m \in Mutexes /\ InLine(me, m) /\ NextFor(m) = me
    BY LoopGrantIs, LoopGrantKeeps, SchedulerHead DEF LoopGrant, Wanting
  <1>2. waitList \in Seq(Nodes) /\ DOMAIN waitList = 1 .. Len(waitList) /\ Len(waitList) \in Nat
    BY LenProperties DEF Base, TypeOK, Nodes
  <1> HIDE DEF m
  <1>3. places # {} /\ places \subseteq Nat
    BY <1>1, <1>2 DEF InLine, Range
  <1>4. p \in places /\ \A i \in places : p <= i
    BY <1>3, MinExists
  <1>5. waitList[p].threadId = me
    BY <1>1, <1>3 DEF NextFor
  <1> HIDE DEF p
  <1>6. p \in DOMAIN waitList /\ waitList[p] \in Nodes /\ waitList[p].mutex = m
    BY <1>2, <1>4
  <1>7. waitList[p] = [threadId |-> me, mutex |-> m]
    BY <1>5, <1>6 DEF Nodes
  <1>8. \A j \in 1 .. p - 1 : waitList[j].mutex # m
    BY <1>2, <1>4, <1>6
  <1> QED
    BY <1>6, <1>7, <1>8 DEF m

(* Mutexes are given by the scheduler in the order in which they were      *)
(* asked for.                                                              *)
THEOREM GrantedInOrderHolds == Spec => GrantedInOrder
  <1> DEFINE First == \A m \in Mutexes :
                        cuts \cap MutexCuts = {} /\ mode = "loop" /\ mutex[m].owner = None
                                                 /\ mutex'[m].owner # None
                          => \E i \in DOMAIN waitList :
                               /\ waitList[i] = [threadId |-> mutex'[m].owner, mutex |-> m]
                               /\ \A j \in 1 .. i - 1 : waitList[j].mutex # m
  <1>1. ASSUME Inv, [Next]_vars PROVE [First]_vars
    <2> SUFFICES ASSUME NEW m \in Mutexes, cuts \cap MutexCuts = {}, mode = "loop",
                        mutex[m].owner = None, mutex'[m].owner # None
                 PROVE  \E i \in DOMAIN waitList :
                          /\ waitList[i] = [threadId |-> mutex'[m].owner, mutex |-> m]
                          /\ \A j \in 1 .. i - 1 : waitList[j].mutex # m
      OBVIOUS
    <2>1. Base /\ LibInv /\ PlaceInv /\ MutexInv /\ ListInv
      BY <1>1 DEF Inv, MutexCuts
    <2>2. mutex' # mutex /\ Next
      BY <1>1 DEF vars
    <2>3. ~ MutexStep /\ ~ Enters /\ \A n \in Mutexes : ~ (Lock(n) \/ Unlock(n) \/ MutexInit(n))
      BY <2>1, MutexStepGoes, EntersIs, BeginsIs, MutexInitIs
    <2>4. LoopGrant
      <3>1. CASE LoopOwner
        BY <2>2, <3>1 DEF LoopOwner
      <3>2. CASE ~ LoopOwner /\ ~ LoopGrant
        BY <2>1, <2>2, <2>3, <3>2, QuietSteps DEF Quiet
      <3> QED
        BY <3>1, <3>2
    <2>5. m = Wanted /\ mutex'[m].owner = me
      BY <2>1, <2>4, LoopGrantIs
    <2> QED
      BY <2>1, <2>4, <2>5, GrantedIsFirst
  <1>2. Spec => [][First]_vars
    BY <1>1, ThreadsInv, PTL DEF Spec
  <1> QED
    BY <1>2 DEF GrantedInOrder
============================================================================
