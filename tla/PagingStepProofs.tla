--------------------------- MODULE PagingStepProofs ---------------------------
(***************************************************************************)
(* Theorems about the steps of Paging: what the library's calls still have *)
(* to do keeps its types and shrinks, pages are kept while the swap file   *)
(* takes them, and records on their slots keep their headers.              *)
(***************************************************************************)
EXTENDS PagingProofs

(* The rest of the type invariant: the threads, and the calls. *)
CallInv == /\ created \subseteq Threads /\ switched \in BOOLEAN
           /\ status \in {"up", "killed", "null_copy"}
           /\ todo \in Seq(Jobs)
           /\ given \subseteq Owners \X Int
           /\ handed \in [addr : Int, heap : Int]

-----------------------------------------------------------------------------
(* The queues of jobs that the calls make. *)
LEMMA JobTypes ==
    /\ \A t, by \in Owners : LoadAll(t, by) \in Loaders
    /\ \A t \in Threads : LoadStack(t) \in Loaders /\ LockAllBut(t) \in Locks
    /\ \A t \in Owners, n \in Nat \ {0} : NewPages(t, n) \in Claims
    /\ \A lead \in Frames, h \in Header : h.tid \in Owners => LoadSpan(lead, h) \in Loaders
  <1>1. /\ First \in First .. Last + 1 /\ First \in Int
        /\ \A f \in Frames : f + 1 \in First .. Last + 1
    BY PagingAssumption DEF Frames
  <1>2. ASSUME NEW t \in Owners, NEW by \in Owners
        PROVE  LoadAll(t, by) \in Loaders
    BY <1>1, FrameFacts DEF LoadAll, Loaders
  <1>3. ASSUME NEW t \in Threads
        PROVE  LoadStack(t) \in Loaders /\ LockAllBut(t) \in Locks
    <2>1. LoadAll(t, t) \in Loaders
      BY <1>2, OwnerFacts
    <2> QED
      BY <2>1 DEF LoadStack, Loaders, LockAllBut, Locks
  <1>4. ASSUME NEW t \in Owners, NEW n \in Nat \ {0}
        PROVE  NewPages(t, n) \in Claims
    BY DEF NewPages, Claims
  <1>5. ASSUME NEW lead \in Frames, NEW h \in Header, h.tid \in Owners
        PROVE  LoadSpan(lead, h) \in Loaders
    <2>1. lead \in Int /\ lead + 1 \in First .. Last + 1
      BY <1>1, FrameFacts
    <2>2. h.num + 1 \in Int /\ h.span - 1 \in Int
      BY DEF Header
    <2> QED
      BY <1>5, <2>1, <2>2 DEF LoadSpan, Loaders
  <1> QED
    BY <1>2, <1>3, <1>4, <1>5

(* Queues of jobs put one behind the other are queues of jobs.             *)
LEMMA Queues ==
    /\ <<>> \in Seq(Jobs)
    /\ \A a \in Jobs : <<a>> \in Seq(Jobs)
    /\ \A q, r \in Seq(Jobs) : q \o r \in Seq(Jobs)
  <1> HIDE DEF Jobs
  <1>1. \A a \in Jobs : <<a>> \in Seq(Jobs)
    OBVIOUS
  <1> QED
    BY <1>1, EmptySeq, ConcatProperties

(* A queue of one job is a queue.                                          *)
LEMMA JobQueues ==
    /\ \A t, by \in Owners : <<LoadAll(t, by)>> \in Seq(Jobs)
    /\ \A t \in Threads : <<LoadStack(t)>> \in Seq(Jobs) /\ <<LockAllBut(t)>> \in Seq(Jobs)
    /\ \A t \in Owners, n \in Nat \ {0} : <<NewPages(t, n)>> \in Seq(Jobs)
    /\ \A lead \in Frames, h \in Header : h.tid \in Owners => <<LoadSpan(lead, h)>> \in Seq(Jobs)
  <1>1. Loaders \subseteq Jobs /\ Claims \subseteq Jobs /\ Locks \subseteq Jobs
    BY DEF Jobs
  <1> QED
    BY <1>1, JobTypes, Queues

(* The next pass of a loop that has loaded a page to a frame. *)
LEMMA NextWantType ==
    ASSUME NEW job \in Loaders, job.pos \in Frames
    PROVE  NextWant(job) \in Loaders /\ NextWant(job).pos = job.pos + 1
  <1> DEFINE w == job.want + 1
             p == job.pos + 1
             l == job.left - 1
  <1>1. w \in Int /\ p \in First .. Last + 1 /\ l \in Int
    BY PagingAssumption DEF Frames, Loaders
  <1>2. NextWant(job) = [job EXCEPT !.want = w, !.pos = p, !.left = l, !.again = TRUE]
    BY DEF NextWant
  <1> HIDE DEF w, p, l
  <1>3. [job EXCEPT !.want = w, !.pos = p, !.left = l, !.again = TRUE] \in Loaders
    BY <1>1 DEF Loaders
  <1>4. [job EXCEPT !.want = w, !.pos = p, !.left = l, !.again = TRUE].pos = p
    BY DEF Loaders
  <1> QED
    BY <1>2, <1>3, <1>4 DEF p

(* The first job of a queue, and the rest of it.                           *)
LEMMA LoaderJob ==
    ASSUME todo \in Seq(Jobs), todo # <<>>
    PROVE  /\ Head(todo) \in Jobs /\ Tail(todo) \in Seq(Jobs) /\ Len(todo) \in Nat
           /\ Len(Tail(todo)) = Len(todo) - 1
           /\ Head(todo).op \in {"all", "stack", "span"} => Head(todo) \in Loaders
           /\ Head(todo).op = "lock" => Head(todo) \in Locks
  <1>1. Head(todo) \in Jobs /\ Tail(todo) \in Seq(Jobs) /\ Len(Tail(todo)) = Len(todo) - 1
    BY HeadTailProperties
  <1>2. \A a \in Jobs : /\ a.op \in {"all", "stack", "span"} => a \in Loaders
                        /\ a.op = "lock" => a \in Locks
    BY DEF Jobs, Loaders, Claims, Locks
  <1>3. Len(todo) \in Nat
    BY LenProperties
  <1> QED
    BY <1>1, <1>2, <1>3

(* A queue whose first job is replaced. *)
LEMMA Replaced ==
    ASSUME todo \in Seq(Jobs), todo # <<>>, NEW a \in Jobs
    PROVE  /\ <<a>> \o Tail(todo) \in Seq(Jobs)
           /\ Len(<<a>> \o Tail(todo)) = Len(todo)
           /\ Head(<<a>> \o Tail(todo)) = a
  <1>1. Tail(todo) \in Seq(Jobs) /\ Len(Tail(todo)) = Len(todo) - 1 /\ Len(todo) \in Nat
    BY LoaderJob
  <1> HIDE DEF Jobs
  <1>2. <<a>> \in Seq(Jobs) /\ Len(<<a>>) = 1 /\ <<a>>[1] = a
    OBVIOUS
  <1> DEFINE q == <<a>> \o Tail(todo)
  <1>3. q \in Seq(Jobs) /\ Len(q) = Len(todo) /\ q[1] = a
    BY <1>1, <1>2, ConcatProperties
  <1>4. Head(q) = q[1]
    <2> HIDE DEF q
    <2> QED
      BY <1>3
  <1> QED
    BY <1>3, <1>4

-----------------------------------------------------------------------------
(* Every step of the library shortens the queue, or leaves its length and  *)
(* makes its first job smaller.                                            *)
Smaller(q) == q \in Seq(Jobs) /\ Nearer(q, todo)

(* A queue without its first job is smaller.                               *)
LEMMA DoneSmaller ==
    ASSUME todo \in Seq(Jobs), todo # <<>>
    PROVE  Smaller(Tail(todo)) /\ Smaller(<<>>)
  <1>1. Tail(todo) \in Seq(Jobs) /\ Len(Tail(todo)) = Len(todo) - 1 /\ Len(todo) \in Nat
    BY LoaderJob
  <1>2. \A q \in Seq(Jobs) : Len(q) < Len(todo) => Smaller(q)
    BY DEF Smaller, Nearer
  <1>3. Len(<<>>) < Len(todo) /\ Len(Tail(todo)) < Len(todo)
    BY <1>1, EmptySeq
  <1> QED
    BY <1>1, <1>2, <1>3, Queues, Zenon

(* What loaders and claims weigh.                                          *)
LEMMA Weights ==
    /\ \A a \in Loaders : Weight(a) = Last + 2 - a.pos
    /\ \A a \in Claims : Weight(a) = Last + 3
  <1>1. \A a \in Loaders : a \notin Claims /\ a.op # "lock"
    BY DEF Loaders, Claims
  <1> QED
    BY <1>1 DEF Weight

(* A loader that goes on at the next frame weighs less.                    *)
LEMMA NextWantSmaller ==
    ASSUME todo \in Seq(Jobs), todo # <<>>, NEW job, job = Head(todo),
           job \in Loaders, job.pos \in Frames
    PROVE  Smaller(<<NextWant(job)>> \o Tail(todo))
  <1>1. NextWant(job) \in Loaders /\ NextWant(job).pos = job.pos + 1
    BY NextWantType
  <1>2. job.pos \in Int /\ Last \in Int
    BY PagingAssumption DEF Frames
  <1>3. Weight(NextWant(job)) < Weight(job)
    BY <1>1, <1>2, Weights
  <1>4. NextWant(job) \in Jobs
    BY <1>1 DEF Jobs
  <1> DEFINE q == <<NextWant(job)>> \o Tail(todo)
  <1>5. q \in Seq(Jobs) /\ Len(q) = Len(todo) /\ Head(q) = NextWant(job)
    BY <1>4, Replaced
  <1> HIDE DEF q
  <1>6. Smaller(q)
    BY <1>3, <1>5 DEF Smaller, Nearer
  <1> QED
    BY <1>6 DEF q

(* A step of a loader makes the queue smaller.                             *)
LEMMA LoaderSmaller ==
    ASSUME todo \in Seq(Jobs), todo # <<>>, Loader
    PROVE  Smaller(todo')
  <1> DEFINE job == Head(todo)
  <1>1. job \in Loaders
    BY LoaderJob DEF Loader
  <1>2. CASE LoaderSwap(job)
    <2>1. job.pos \in Frames
      BY <1>2, LoaderMoves
    <2>2. todo' = Tail(todo) \/ todo' = <<NextWant(job)>> \o Tail(todo)
      BY <1>2 DEF LoaderSwap, Continue
    <2> QED
      BY <1>1, <2>1, <2>2, DoneSmaller, NextWantSmaller
  <1>3. CASE LoaderSkip(job)
    <2> DEFINE f == Min(ToMove(job) \cup InPlace(job))
    <2>1. f \in InPlace(job)
      BY <1>3 DEF LoaderSkip
    <2>2. f \in Pass(job) /\ f = job.pos
      BY <2>1 DEF InPlace
    <2>3. Pass(job) \subseteq Frames
      BY PagingAssumption DEF Pass, Frames
    <2> QED
      BY <1>1, <1>3, <2>2, <2>3, NextWantSmaller DEF LoaderSkip
  <1>4. CASE LoaderEnds(job)
    BY <1>4, DoneSmaller DEF LoaderEnds
  <1> QED
    BY <1>2, <1>3, <1>4 DEF Loader

(* The lowest of some frames are not none. *)
LEMMA LowestNonEmpty ==
    ASSUME NEW S \in SUBSET Frames, S # {}, NEW n \in Nat \ {0}
    PROVE  Lowest(S, n) # {} /\ Lowest(S, n) \subseteq Nat
  <1>1. S \subseteq Nat
    BY PagingAssumption DEF Frames
  <1>2. Min(S) \in S /\ \A g \in S : Min(S) <= g
    BY <1>1, MinExists
  <1>5. PICK m : m = Min(S)
    OBVIOUS
  <1>6. m \in S /\ m \in Nat /\ \A g \in S : g \in Nat /\ m <= g
    BY <1>1, <1>2, <1>5
  <1>7. \A g \in S : ~(g < m)
    BY <1>6
  <1>3. {g \in S : g < m} = {}
    BY <1>7, Zenon
  <1>4. Cardinality({g \in S : g < m}) < n
    BY <1>3, FS_EmptySet
  <1> QED
    BY <1>1, <1>4, <1>6 DEF Lowest

(* A span starts behind its first page. *)
LEMMA ClaimSmaller ==
    ASSUME IInv, todo \in Seq(Jobs), todo # <<>>, Claim
    PROVE  /\ Smaller(todo')
           /\ given' \subseteq given \cup Owners \X Int
           /\ handed' \in [addr : Int, heap : Int]
  <1> DEFINE t == Head(todo).tid
             n == Head(todo).n
             st == IF n = 1 /\ ~(Cardinality(FreeFrames(Store)) >= n)
                   THEN Evict(Store, t) ELSE Store
             taken == Lowest(FreeFrames(st), n)
             f == Min(taken)
  <1>1. Head(todo) \in Claims /\ ClaimIn(st, t, n)
    BY DEF Claim
  <1>2. t \in Owners /\ n \in Nat \ {0}
    BY <1>1 DEF Claims
  <1> HIDE DEF st, t, n
  <1>3. /\ given' = given \cup {<<t, NextNumber(st, t) + Rank(taken, g)>> : g \in taken}
        /\ handed' = [addr |-> NextNumber(st, t), heap |-> NextNumber(st, t)]
    BY <1>1 DEF ClaimIn
  <1>4. /\ NextNumber(st, t) \in Int
        /\ \A g : NextNumber(st, t) + Rank(taken, g) \in Int
    BY CountsAreNumbers
  <1>5. n = 1 => todo' = Tail(todo)
    BY <1>1 DEF ClaimIn
  <1>6. ASSUME n # 1
        PROVE  Smaller(todo')
    <2> DEFINE job == LoadSpan(f, meta'[f])
    <2>1. todo' = <<job>> \o Tail(todo)
      BY <1>1, <1>6 DEF ClaimIn
    <2>2. f \in taken
      <3>1. FreeFrames(st) # {}
        <4>1. Cardinality(FreeFrames(st)) >= n
          BY <1>6 DEF Claim, st, n
        <4>2. Cardinality({}) = 0
          BY FS_EmptySet
        <4>3. FreeFrames(st) = {} => Cardinality(FreeFrames(st)) = 0
          BY <4>2, Zenon
        <4> QED
          BY <1>2, <4>1, <4>3
      <3>2. FreeFrames(st) \in SUBSET Frames
        BY DEF FreeFrames
      <3>3. taken # {} /\ taken \subseteq Nat
        BY <1>2, <3>1, <3>2, LowestNonEmpty
      <3> HIDE DEF taken
      <3> QED
        BY <3>3, MinExists
    <2>3. f \in Frames /\ meta'[f] \in Header /\ meta'[f].tid = t
      <3>1. f \in Frames
        BY <2>2 DEF Lowest, FreeFrames
      <3>2. DOMAIN meta = AllFrames /\ meta' \in [AllFrames -> Header]
        BY ClaimInv DEF IInv, Good
      <3>3. meta'[f].tid = t
        BY <1>1, <2>2, <3>1, <3>2 DEF ClaimIn, AllFrames
      <3> QED
        BY <3>1, <3>2, <3>3 DEF AllFrames
    <2>4. job \in Loaders /\ job.pos = f + 1
      BY <1>2, <2>3, JobTypes DEF LoadSpan
    <2>5. Weight(job) < Weight(Head(todo))
      BY <1>1, <2>3, <2>4, Weights, PagingAssumption DEF Frames
    <2>6. Smaller(<<job>> \o Tail(todo))
      <3>1. job \in Jobs
        BY <2>4 DEF Jobs
      <3> DEFINE q == <<job>> \o Tail(todo)
      <3>2. q \in Seq(Jobs) /\ Len(q) = Len(todo) /\ Head(q) = job
        BY <3>1, Replaced
      <3> HIDE DEF q, job
      <3>3. Smaller(q)
        BY <2>5, <3>2 DEF Smaller, Nearer
      <3> QED
        BY <3>3 DEF q
    <2> HIDE DEF job
    <2> QED
      BY <2>1, <2>6, Zenon
  <1>7. Smaller(todo')
    BY <1>5, <1>6, DoneSmaller
  <1>8. given' \subseteq given \cup Owners \X Int
    BY <1>2, <1>3, <1>4
  <1>9. handed' \in [addr : Int, heap : Int]
    BY <1>3, <1>4
  <1> QED
    BY <1>7, <1>8, <1>9

(* Every step of the library makes the queue smaller and keeps its types.  *)
LEMMA LibraryCalls ==
    ASSUME IInv, CallInv, Library
    PROVE  CallInv' /\ Smaller(todo')
  <1>1. todo \in Seq(Jobs) /\ todo # <<>>
    BY DEF CallInv, Library
  <1>2. CASE Loader
    <2>1. Smaller(todo')
      BY <1>1, <1>2, LoaderSmaller
    <2>2. UNCHANGED <<created, switched, given, handed>>
      BY <1>2 DEF Loader, LoaderSwap, LoaderSkip, LoaderEnds, threads
    <2>3. status' \in {"up", "killed", "null_copy"}
      BY <1>2 DEF Loader, LoaderSwap, LoaderSkip, LoaderEnds, Become, CallInv
    <2> QED
      BY <2>1, <2>2, <2>3 DEF CallInv, Smaller
  <1>3. CASE Lock
    <2>1. handed' \in [addr : Int, heap : Int]
      BY <1>3 DEF Lock, Nothing
    <2>2. Smaller(todo')
      BY <1>1, <1>3, DoneSmaller DEF Lock
    <2> QED
      BY <1>3, <2>1, <2>2 DEF CallInv, Smaller, Lock, threads
  <1>4. CASE Claim
    <2>1. /\ Smaller(todo')
          /\ given' \subseteq given \cup Owners \X Int
          /\ handed' \in [addr : Int, heap : Int]
      BY <1>1, <1>4, ClaimSmaller
    <2>2. UNCHANGED <<created, switched, status>>
      BY <1>4 DEF Claim, threads
    <2> QED
      BY <2>1, <2>2 DEF CallInv, Smaller
  <1>5. CASE ClaimFails
    <2>1. Smaller(todo')
      BY <1>1, <1>5, DoneSmaller DEF ClaimFails
    <2> QED
      BY <1>5, <2>1 DEF CallInv, Smaller, ClaimFails, threads
  <1> QED
    BY <1>2, <1>3, <1>4, <1>5 DEF Library

-----------------------------------------------------------------------------
(* The calls of the threads. *)
LEMMA CallsUnchanged ==
    ASSUME CallInv, UNCHANGED <<created, switched, given, handed, status>>, todo' \in Seq(Jobs)
    PROVE  CallInv'
  BY DEF CallInv

(* malloc of new pages queues typed jobs.                                  *)
LEMMA MallocCalls ==
    ASSUME IInv, CallInv, NEW n \in Requests, Malloc(n)
    PROVE  CallInv'
  <1>1. n \in Nat \ {0} /\ running \in Owners /\ running \in Threads
    BY PagingAssumption, OwnerFacts DEF IInv
  <1>2. <<NewPages(running, n)>> \in Seq(Jobs) /\ Relock(running) \in Seq(Jobs)
    BY <1>1, JobQueues, Queues DEF Relock
  <1>3. todo' = <<NewPages(running, n)>> \o Relock(running)
    BY DEF Malloc
  <1>4. todo' \in Seq(Jobs)
    BY <1>2, <1>3, Queues, Zenon
  <1> QED
    BY <1>4, CallsUnchanged DEF Malloc, threads

(* malloc in a page that is there queues typed jobs.                       *)
LEMMA MallocInCalls ==
    ASSUME IInv, CallInv, NEW f \in Frames, NEW n \in Requests, MallocIn(f, n)
    PROVE  CallInv'
  <1> DEFINE q == IF n = 1 THEN <<>> ELSE <<LoadSpan(f, meta[f])>>
  <1>1. meta[f] \in Header /\ meta[f].tid \in Owners /\ running \in Threads
    BY OwnerFacts DEF IInv, Good, AllFrames, MallocIn
  <1>2. q \in Seq(Jobs) /\ <<LockAllBut(running)>> \in Seq(Jobs)
    BY <1>1, JobQueues, Queues
  <1>3. todo' = q \o <<LockAllBut(running)>>
    BY DEF MallocIn
  <1> HIDE DEF q
  <1>4. todo' \in Seq(Jobs)
    BY <1>2, <1>3, Queues, Zenon
  <1>5. handed' \in [addr : Int, heap : Int]
    <2>1. IsFiniteSet({g \in PagesOf(running) : g <= f})
      BY FrameFacts, FS_Subset DEF PagesOf
    <2>2. Cardinality({g \in PagesOf(running) : g <= f}) \in Int /\ meta[f].num \in Int
      BY <1>1, <2>1, FS_CardinalityType DEF Header
    <2> QED
      BY <2>2 DEF MallocIn
  <1> QED
    BY <1>4, <1>5 DEF CallInv, MallocIn, threads

(* A fault queues the lock that ends it.                                   *)
LEMMA FaultCalls ==
    ASSUME IInv, CallInv, NEW v, Fault(v)
    PROVE  CallInv'
  <1>1. <<LockAllBut(running)>> \in Seq(Jobs)
    BY JobQueues DEF IInv
  <1>2. UNCHANGED <<created, switched, given, handed>>
    BY DEF Fault, threads
  <1>3. todo' = todo \/ todo' = <<LockAllBut(running)>>
    BY DEF Fault
  <1>4. status' \in {"up", "killed", "null_copy"}
    BY DEF Fault, Become, CallInv
  <1> QED
    BY <1>1, <1>2, <1>3, <1>4 DEF CallInv

(* myfree queues a load.                                                   *)
LEMMA FreeCalls ==
    ASSUME IInv, CallInv, NEW v, Free(v)
    PROVE  CallInv'
  <1>1. <<LoadAll(running, running)>> \in Seq(Jobs)
    BY JobQueues, OwnerFacts DEF IInv
  <1> QED
    BY <1>1, CallsUnchanged DEF Free, threads

(* mypthread_create queues typed jobs.                                     *)
LEMMA CreateCalls ==
    ASSUME IInv, CallInv, NEW u \in Threads, Create(u)
    PROVE  CallInv'
  <1>0. PICK stack \in MainStacks : CreateWith(u, stack)
    BY DEF Create
  <1> DEFINE a == LibraryMalloc
             b == <<LoadAll(Lib, u)>>
             c == NewStack(u)
             d == stack \o <<LoadAll(Lib, Lib), LoadAll(Main, Main), LoadAll(Lib, Main)>>
             e == IF created = {} THEN d ELSE b
             f == <<LoadStack(running), LockAllBut(running)>>
  <1>1. /\ running \in Threads /\ Main \in Threads /\ Threads \subseteq Owners /\ Lib \in Owners
        /\ StackPages - 1 \in Nat \ {0} /\ 1 \in Nat \ {0}
    BY OwnerFacts, PagingAssumption DEF IInv
  <1>2. a \in Seq(Jobs) /\ b \in Seq(Jobs)
    BY <1>1, JobQueues, Queues DEF LibraryMalloc
  <1>3. ASSUME NEW x \in Jobs, NEW y \in Jobs, NEW z \in Jobs
        PROVE  <<x, y>> \in Seq(Jobs) /\ <<x, y, z>> \in Seq(Jobs)
    <2> HIDE DEF Jobs
    <2> QED
      OBVIOUS
  <1>4. ASSUME NEW t \in Threads
        PROVE  NewStack(t) \in Seq(Jobs)
    <2>1. /\ NewPages(t, StackPages - 1) \in Jobs /\ NewPages(t, 1) \in Jobs
          /\ LoadAll(t, t) \in Jobs
      BY <1>1, JobTypes DEF Jobs
    <2> QED
      BY <1>3, <2>1 DEF NewStack
  <1>5. d \in Seq(Jobs) /\ f \in Seq(Jobs)
    <2>1. /\ LoadAll(Lib, Lib) \in Jobs /\ LoadAll(Main, Main) \in Jobs
          /\ LoadAll(Lib, Main) \in Jobs
          /\ LoadStack(running) \in Jobs /\ LockAllBut(running) \in Jobs
      BY <1>1, JobTypes DEF Jobs
    <2>2. /\ <<LoadAll(Lib, Lib), LoadAll(Main, Main), LoadAll(Lib, Main)>> \in Seq(Jobs)
          /\ f \in Seq(Jobs)
      BY <1>3, <2>1
    <2>3. NewPages(Main, StackPages - 1) \in Jobs
      BY <1>1, JobTypes DEF Jobs
    <2>4. stack \in Seq(Jobs)
      BY <1>1, <1>3, <1>4, <2>1, <2>3 DEF MainStacks
    <2> QED
      BY <2>2, <2>4, Queues, Zenon
  <1>6. c \in Seq(Jobs) /\ e \in Seq(Jobs)
    BY <1>2, <1>4, <1>5
  <1>7. todo' = a \o b \o c \o b \o e \o f
    BY <1>0 DEF CreateWith
  <1>8. created' \subseteq Threads
    BY <1>1 DEF Create, CallInv
  <1> HIDE DEF a, b, c, d, e, f
  <1>9. todo' \in Seq(Jobs)
    BY <1>2, <1>5, <1>6, <1>7, Queues, Zenon
  <1> QED
    BY <1>8, <1>9 DEF CallInv, Create

(* A switch of threads queues typed jobs.                                  *)
LEMMA DispatchCalls ==
    ASSUME IInv, CallInv, NEW u \in Threads, Dispatch(u)
    PROVE  CallInv'
  <1> DEFINE a == IF switched THEN <<LoadAll(Lib, running)>> ELSE <<>>
             b == <<LoadStack(running), LoadAll(Lib, running), LoadStack(u), LockAllBut(u)>>
  <1>1. running \in Threads /\ Threads \subseteq Owners /\ Lib \in Owners
    BY OwnerFacts DEF IInv
  <1>2. a \in Seq(Jobs)
    BY <1>1, JobQueues, Queues
  <1>3. b \in Seq(Jobs)
    <2>1. /\ LoadStack(running) \in Jobs /\ LoadAll(Lib, running) \in Jobs
          /\ LoadStack(u) \in Jobs /\ LockAllBut(u) \in Jobs
      BY <1>1, JobTypes DEF Jobs
    <2> HIDE DEF Jobs
    <2> QED
      BY <2>1
  <1>4. todo' = a \o b
    BY DEF Dispatch, Switch
  <1> HIDE DEF a, b
  <1>5. todo' \in Seq(Jobs)
    BY <1>2, <1>3, <1>4, Queues, Zenon
  <1> QED
    BY <1>5 DEF CallInv, Dispatch

(* No call is in progress at first.                                        *)
LEMMA InitCalls == Init => CallInv
  <1> SUFFICES ASSUME Init PROVE CallInv
    OBVIOUS
  <1>1. handed \in [addr : Int, heap : Int] /\ todo \in Seq(Jobs)
    BY Queues DEF Init, Nothing
  <1> QED
    BY <1>1 DEF Init, CallInv

(* Every step keeps the types of the calls.                                *)
LEMMA StepCalls == IInv /\ CallInv /\ [Next]_vars => CallInv'
  <1> SUFFICES ASSUME IInv, CallInv, [Next]_vars PROVE CallInv'
    OBVIOUS
  <1>1. CASE UNCHANGED vars
    BY <1>1 DEF vars, threads, CallInv
  <1> QED
    BY <1>1, LibraryCalls, MallocCalls, MallocInCalls, FaultCalls, FreeCalls, CreateCalls,
       DispatchCalls DEF Next

(* What a call of the library has still to do is a queue of jobs with      *)
(* their types: loads of frames that exist, locks and claims.              *)
THEOREM QueueStaysTyped == Spec => []CallInv
  BY InitCalls, StepCalls, StoresStayGood, PTL DEF Spec

(* Headers, pages, locks, the swap file and the queue of the call in       *)
(* progress keep their types: no loader leaves the frames, and none of the *)
(* reserved frames is ever locked.                                         *)
THEOREM PagingTypeOK == Spec => []TypeOK
  <1>1. IInv /\ CallInv => TypeOK
    BY DEF IInv, Good, CallInv, TypeOK, AllFrames, Files, Jobs
  <1> QED
    BY <1>1, StoresStayGood, QueueStaysTyped, PTL

(* Every step of the library brings its call closer to its end.            *)
THEOREM LibraryCallsProgress == Spec => LibraryProgress
  <1>1. IInv /\ CallInv /\ [Next]_vars
          => [status = "up" /\ todo # <<>> => Nearer(todo', todo)]_vars
    <2> SUFFICES ASSUME IInv, CallInv, Next, todo # <<>>
                 PROVE  Nearer(todo', todo)
      OBVIOUS
    <2>1. Library
      BY DEF Next, InThread, Malloc, MallocIn, Fault, Free, Create, Dispatch
    <2> QED
      BY <2>1, LibraryCalls DEF Smaller
  <1> QED
    BY <1>1, StoresStayGood, QueueStaysTyped, PTL DEF Spec, LibraryProgress

-----------------------------------------------------------------------------
(* What a write to the swap file keeps and adds. *)
Stays(file, new) ==
    \A i \in DOMAIN file :
        file[i].page # NoPage /\ ~file[i].shifted
          => i \in DOMAIN new /\ new[i].page = file[i].page /\ ~new[i].shifted

(* writeDataToSwap always finds a slot that reads as free, if not one it   *)
(* may use.                                                                *)
LEMMA FreeSlotFound ==
    ASSUME NEW file \in Files
    PROVE  FreeSlot(file) \in 1 .. Len(file) + 2 /\ ReadsZero(file, FreeSlot(file))
  <1> DEFINE S == {i \in 1 .. Len(file) + 2 : ReadsZero(file, i)}
             n == Len(file)
  <1>1. n \in Nat
    BY LenProperties DEF Files
  <1> HIDE DEF n
  <1>2. n + 2 \in 1 .. n + 2 /\ 1 .. n + 2 \subseteq Nat
    BY <1>1
  <1>3. ReadsZero(file, n + 2)
    BY DEF ReadsZero, n
  <1>4. S # {} /\ S \subseteq Nat
    BY <1>2, <1>3 DEF n
  <1>5. Min(S) \in S
    <2> HIDE DEF S
    <2> QED
      BY <1>4, MinExists
  <1> QED
    BY <1>5 DEF FreeSlot

(* The three ways a record is written, slot by slot. *)
LEMMA WrittenSlots ==
    ASSUME NEW file \in Files, NEW name \in PageNames
    PROVE  LET i == FreeSlot(file)
               n == Len(file)
               new == Written(file, name)
           IN  /\ n \in Nat /\ DOMAIN file = 1 .. n
               /\ DOMAIN file \subseteq DOMAIN new
               /\ i \in DOMAIN new /\ new[i].page = name
               /\ \A j \in DOMAIN file \ {i} : /\ new[j].page = file[j].page
                                               /\ new[j].shifted = file[j].shifted
               /\ i <= n => ~new[i].shifted
  <1> DEFINE i == FreeSlot(file)
             n == Len(file)
             new == Written(file, name)
             S == Slots(PageNames)
  <1>1. n \in Nat /\ DOMAIN file = 1 .. n /\ file \in [1 .. n -> S] /\ file \in Seq(S)
    BY LenProperties DEF Files
  <1>2. i \in 1 .. n + 2
    BY FreeSlotFound
  <1>3. \A shifted : Slot(name, shifted).page = name /\ Slot(name, shifted).shifted = shifted
    BY DEF Slot
  <1> DEFINE a == Slot(name, FALSE)
             b == Slot(name, TRUE)
  <1>4. a \in S /\ b \in S /\ Skipped \in S /\ a.page = name /\ b.page = name /\ ~a.shifted
    BY <1>3, OwnerFacts DEF Slot, Slots, Skipped, NoPage, PageNames, NoOwner, Tids
  <1>5. CASE i <= n
    <2>1. new = [file EXCEPT ![i] = a]
      BY <1>5 DEF Written
    <2> HIDE DEF i, n, new, S, a, b
    <2> QED
      BY <1>1, <1>2, <1>4, <1>5, <2>1 DEF i, n, new
  <1>6. CASE i = n + 2
    <2>7. ~(i <= n)
      BY <1>1, <1>6
    <2>1. new = file \o <<Skipped, b>>
      BY <1>6, <2>7, Zenon DEF Written
    <2> HIDE DEF i, n, new, S, a, b
    <2>2. <<Skipped, b>> \in Seq(S) /\ Len(<<Skipped, b>>) = 2 /\ <<Skipped, b>>[2] = b
      BY <1>4
    <2>3. /\ Len(new) = n + 2 /\ new \in Seq(S)
          /\ \A j \in 1 .. n : new[j] = file[j]
          /\ new[n + 2] = b
      <3> DEFINE t == <<Skipped, b>>
      <3>1. t \in Seq(S) /\ Len(t) = 2 /\ t[2] = b
        BY <2>2
      <3> HIDE DEF t
      <3>2. /\ file \o t \in Seq(S) /\ Len(file \o t) = n + 2
            /\ \A j \in 1 .. n + 2 : (file \o t)[j] = IF j <= n THEN file[j] ELSE t[j - n]
        <4>1. /\ file \o t \in Seq(S) /\ Len(file \o t) = n + Len(t)
              /\ \A j \in 1 .. n + Len(t) :
                    (file \o t)[j] = IF j <= n THEN file[j] ELSE t[j - n]
          BY <1>1, <3>1, ConcatProperties, Zenon DEF n
        <4> QED
          BY <3>1, <4>1, Zenon
      <3>3. new = file \o t
        BY <2>1 DEF t
      <3>4. \A j \in 1 .. n : j \in 1 .. n + 2 /\ j <= n
        BY <1>1
      <3>5. n + 2 \in 1 .. n + 2 /\ ~(n + 2 <= n) /\ (n + 2) - n = 2
        BY <1>1
      <3> QED
        BY <3>1, <3>2, <3>3, <3>4, <3>5
    <2>4. DOMAIN new = 1 .. n + 2
      BY <2>3, LenProperties
    <2>5. 1 .. n \subseteq 1 .. n + 2 /\ i \in 1 .. n + 2 /\ ~(i <= n)
      BY <1>1, <1>6
    <2>6. new[i].page = name
      BY <1>4, <1>6, <2>3
    <2> QED
      BY <1>1, <2>3, <2>4, <2>5, <2>6 DEF i, n, new
  <1>7. CASE i # n + 2 /\ ~(i <= n)
    <2> DEFINE cut == [j \in DOMAIN file |-> IF j = n THEN [file[j] EXCEPT !.whole = FALSE]
                                            ELSE file[j]]
    <2>1. new = Append(cut, a)
      BY <1>7 DEF Written
    <2>2. i = n + 1
      BY <1>1, <1>2, <1>7
    <2>3. \A e \in S : /\ [e EXCEPT !.whole = FALSE] \in S
                       /\ [e EXCEPT !.whole = FALSE].page = e.page
                       /\ [e EXCEPT !.whole = FALSE].shifted = e.shifted
      BY DEF Slots
    <2> HIDE DEF i, n, new, S, a, b
    <2>4. cut \in [1 .. n -> S]
      BY <1>1, <2>3
    <2>5. \A j \in 1 .. n : cut[j].page = file[j].page /\ cut[j].shifted = file[j].shifted
      BY <1>1, <2>3
    <2> HIDE DEF cut
    <2>6. cut \in Seq(S) /\ Len(cut) = n
      BY <1>1, <2>4, SeqDef
    <2>7. /\ new \in Seq(S) /\ Len(new) = n + 1
          /\ \A j \in 1 .. n : new[j] = cut[j]
          /\ new[n + 1] = a
      BY <1>4, <2>1, <2>6, AppendProperties
    <2>8. DOMAIN new = 1 .. n + 1
      BY <2>7, LenProperties
    <2>9. 1 .. n \subseteq 1 .. n + 1 /\ i \in 1 .. n + 1 /\ ~(i <= n)
      BY <1>1, <2>2
    <2>10. new[i].page = name
      BY <1>4, <2>2, <2>7
    <2> QED
      BY <1>1, <2>5, <2>7, <2>8, <2>9, <2>10 DEF i, n, new
  <1> QED
    BY <1>5, <1>6, <1>7

(* Writing a page leaves the records on their slots where they are.        *)
LEMMA WrittenStays ==
    ASSUME NEW file \in Files, NEW name \in PageNames
    PROVE  Stays(file, Written(file, name))
  <1> DEFINE i == FreeSlot(file)
             new == Written(file, name)
  <1>1. /\ Len(file) \in Nat /\ DOMAIN file = 1 .. Len(file)
        /\ DOMAIN file \subseteq DOMAIN new
        /\ \A j \in DOMAIN file \ {i} : /\ new[j].page = file[j].page
                                        /\ new[j].shifted = file[j].shifted
    BY WrittenSlots
  <1>2. i \in DOMAIN file => file[i].shifted
    BY <1>1, FreeSlotFound DEF ReadsZero
  <1> HIDE DEF i, new
  <1>3. Stays(file, new)
    BY <1>1, <1>2 DEF Stays
  <1> QED
    BY <1>3 DEF new

(* A page that is written is in the file.                                  *)
LEMMA WrittenRecorded ==
    ASSUME NEW file \in Files, NEW name \in PageNames, name # NoPage
    PROVE  name \in Recorded(Written(file, name))
  <1>1. FreeSlot(file) \in DOMAIN Written(file, name)
        /\ Written(file, name)[FreeSlot(file)].page = name
    BY WrittenSlots
  <1> QED
    BY <1>1 DEF Recorded

(* The pages named by the headers of the frames. *)
Pages(m) == {PageOf(m[f]) : f \in {g \in Frames : m[g].tid # NoOwner}}

(* Evicting writes the page whose frame it empties. *)
LEMMA EvictKeeps ==
    ASSUME NEW st, GoodStore(st), NEW by, CanEvict(st, by)
    PROVE  /\ Stays(st.swap, Evict(st, by).swap)
           /\ Pages(st.meta) \subseteq Pages(Evict(st, by).meta) \cup Recorded(Evict(st, by).swap)
           /\ FreeFrames(Evict(st, by)) # {}
  <1> DEFINE e == Min(Evictable(st, by))
             name == PageOf(st.meta[e])
             m == [st.meta EXCEPT ![e] = EmptyHeader(st.meta[e].loc)]
             new == Written(st.swap, name)
  <1>1. e \in Frames
    BY EvictableFrame
  <1> HIDE DEF e
  <1>2. st.meta[e] \in Header /\ st.meta \in [AllFrames -> Header] /\ st.swap \in Files
    BY <1>1 DEF GoodStore, Good, AllFrames
  <1>3. name \in PageNames
    BY <1>2 DEF PageOf, Header, PageNames
  <1>4. Evict(st, by).meta = m /\ Evict(st, by).swap = new
    BY DEF Evict, e
  <1>5. st.meta[e].tid # NoOwner => name \in Recorded(new)
    BY <1>2, <1>3, WrittenRecorded DEF PageOf, NoPage, NoOwner
  <1>6. Stays(st.swap, new)
    BY <1>2, <1>3, WrittenStays
  <1> HIDE DEF name, new
  <1>7. /\ \A f \in Frames \ {e} : m[f] = st.meta[f]
        /\ m[e].tid = NoOwner
    BY <1>1, <1>2 DEF EmptyHeader, AllFrames
  <1> HIDE DEF m
  <1>8. Pages(st.meta) \subseteq Pages(m) \cup Recorded(new)
    <2> SUFFICES ASSUME NEW f \in Frames, st.meta[f].tid # NoOwner
                 PROVE  PageOf(st.meta[f]) \in Pages(m) \cup Recorded(new)
      BY DEF Pages
    <2>1. CASE f = e
      BY <1>5, <2>1 DEF name
    <2>2. CASE f # e
      BY <1>7, <2>2 DEF Pages
    <2> QED
      BY <2>1, <2>2
  <1>9. e \in FreeFrames(Evict(st, by))
    BY <1>1, <1>4, <1>7 DEF FreeFrames
  <1> QED
    BY <1>4, <1>6, <1>8, <1>9

(* Moving a page keeps every page but the one it covers. *)
LEMMA MoveKeeps ==
    ASSUME NEW st, GoodStore(st), NEW from \in Frames, NEW to \in Frames, from # to
    PROVE  \A f \in Frames : /\ st.meta[f].tid # NoOwner
                             /\ f # to
                            => PageOf(st.meta[f]) \in Pages(MovePage(st, from, to).meta)
  <1> DEFINE h == Moved(st.meta[from], to)
             m == [st.meta EXCEPT ![to] = h, ![from] = EmptyHeader(from)]
  <1>1. st.meta[from] \in Header /\ st.meta \in [AllFrames -> Header]
    BY DEF GoodStore, Good, AllFrames
  <1>2. PageOf(h) = PageOf(st.meta[from]) /\ h.tid = st.meta[from].tid
    BY <1>1, MovedHeader, FrameFacts
  <1> HIDE DEF h
  <1>3. /\ \A f \in Frames \ {from, to} : m[f] = st.meta[f]
        /\ m[to] = h
    BY <1>1 DEF AllFrames
  <1>4. MovePage(st, from, to).meta = m
    BY DEF MovePage, h
  <1> HIDE DEF m
  <1>5. ASSUME NEW f \in Frames, st.meta[f].tid # NoOwner, f # to
        PROVE  PageOf(st.meta[f]) \in Pages(m)
    <2>1. CASE f = from
      BY <1>2, <1>3, <1>5, <2>1 DEF Pages
    <2>2. CASE f # from
      BY <1>3, <1>5, <2>2 DEF Pages
    <2> QED
      BY <2>1, <2>2
  <1> QED
    BY <1>4, <1>5

(* A page in the way goes to the spare frame, if that is a free one, and   *)
(* stays a page in the frames.                                             *)
LEMMA SwapMovesKeep ==
    ASSUME NEW st, GoodStore(st), NEW from \in Frames, NEW to \in Frames, from # to,
           NEW spare \in FreeFrames(st), st.meta[to].tid # NoOwner
    PROVE  Pages(st.meta) \subseteq Pages(MovePage(DisplacePage(st, to, spare), from, to).meta)
  <1> DEFINE d == DisplacePage(st, to, spare)
             h == Moved(st.meta[to], spare)
             m == MovePage(d, from, to).meta
  <1>1. spare \in Frames /\ st.meta[spare].tid = NoOwner /\ spare # to
    BY DEF FreeFrames
  <1>2. st.meta[to] \in Header /\ st.meta \in [AllFrames -> Header]
    BY DEF GoodStore, Good, AllFrames
  <1>3. PageOf(h) = PageOf(st.meta[to]) /\ h.tid = st.meta[to].tid
    BY <1>1, <1>2, MovedHeader, FrameFacts
  <1> HIDE DEF h
  <1>4. d.meta = [st.meta EXCEPT ![spare] = h]
    BY DEF DisplacePage, h
  <1>5. GoodStore(d)
    BY <1>1, DisplaceGood DEF AllFrames
  <1>6. \A f \in Frames : d.meta[f].tid # NoOwner /\ f # to => PageOf(d.meta[f]) \in Pages(m)
    BY <1>5, MoveKeeps
  <1> HIDE DEF d, m
  <1>7. ASSUME NEW f \in Frames, st.meta[f].tid # NoOwner
        PROVE  PageOf(st.meta[f]) \in Pages(m)
    <2>1. CASE f = to
      BY <1>1, <1>2, <1>3, <1>4, <1>6, <1>7, <2>1 DEF AllFrames
    <2>2. CASE f # to
      BY <1>1, <1>2, <1>4, <1>6, <1>7, <2>2 DEF AllFrames
    <2> QED
      BY <2>1, <2>2
  <1> QED
    BY <1>7 DEF Pages, m, d

(* What a change of the store does to the swap file and to the pages.      *)
Keeps(st, new) ==
    /\ Stays(st.swap, new.swap)
    /\ CanWrite(st.swap) => Pages(st.meta) \subseteq Pages(new.meta) \cup Recorded(new.swap)

(* What keeps the pages after a step that kept them keeps them.            *)
LEMMA KeepsMeta ==
    ASSUME NEW st, NEW mid, NEW new, Keeps(st, mid), new.swap = mid.swap,
           Pages(mid.meta) \subseteq Pages(new.meta)
    PROVE  Keeps(st, new)
  BY DEF Keeps

(* Making room writes the page it takes away, and takes none if it fails.  *)
LEMMA MakeRoomKeeps ==
    ASSUME NEW st, GoodStore(st), NEW by
    PROVE  /\ Keeps(st, MakeRoom(st, by))
           /\ SpareFrame(MakeRoom(st, by)) = Dedicated => MakeRoom(st, by) = st
  <1>1. CASE FreeFrames(st) = {} /\ CanEvict(st, by)
    <2>1. MakeRoom(st, by) = Evict(st, by)
      BY <1>1 DEF MakeRoom
    <2>2. Keeps(st, Evict(st, by)) /\ FreeFrames(Evict(st, by)) # {}
      BY <1>1, EvictKeeps DEF Keeps
    <2>3. SpareFrame(Evict(st, by)) # Dedicated
      BY <2>2, SpareFrameType, FrameFacts
    <2> QED
      BY <2>1, <2>2, <2>3
  <1>2. CASE ~(FreeFrames(st) = {} /\ CanEvict(st, by))
    <2>1. MakeRoom(st, by) = st
      BY <1>2 DEF MakeRoom
    <2> QED
      BY <2>1 DEF Keeps, Stays
  <1> QED
    BY <1>1, <1>2

(* Unloading the dedicated frame writes the page displaced there. *)
LEMMA UnloadKeeps ==
    ASSUME NEW st, GoodStore(st), NEW from \in Frames, NEW to \in Frames, from # to
    PROVE  Keeps(st, Unload(MovePage(DisplacePage(st, to, Dedicated), from, to)))
  <1> DEFINE d == DisplacePage(st, to, Dedicated)
             moved == MovePage(d, from, to)
             h == Moved(st.meta[to], Dedicated)
             name == PageOf(h)
             last == Unload(moved)
  <1>1. st.meta[to] \in Header /\ st.meta \in [AllFrames -> Header] /\ st.swap \in Files
    BY DEF GoodStore, Good, AllFrames
  <1>2. h \in Header /\ name = PageOf(st.meta[to]) /\ h.tid = st.meta[to].tid
    BY <1>1, MovedHeader, FrameFacts
  <1>3. name \in PageNames
    BY <1>2 DEF PageOf, Header, PageNames
  <1>4. GoodStore(d) /\ GoodStore(moved)
    BY DisplaceGood, MoveGood DEF AllFrames
  <1> HIDE DEF h
  <1>5. d.meta = [st.meta EXCEPT ![Dedicated] = h] /\ d.swap = st.swap
    BY DEF DisplacePage, h
  <1>6. /\ d.meta[Dedicated] = h
        /\ \A f \in Frames : d.meta[f] = st.meta[f]
    BY <1>1, <1>5, FrameFacts DEF AllFrames
  <1>7. moved.swap = st.swap /\ moved.meta[Dedicated] = h
    <2>1. moved.meta = [d.meta EXCEPT ![to] = Moved(d.meta[from], to), ![from] = EmptyHeader(from)]
      BY DEF MovePage
    <2>2. d.meta \in [AllFrames -> Header]
      BY <1>4 DEF GoodStore, Good
    <2> HIDE DEF d
    <2>3. moved.meta[Dedicated] = d.meta[Dedicated]
      <3> HIDE DEF moved
      <3> QED
        BY <2>1, <2>2, FrameFacts DEF AllFrames
    <2>4. moved.swap = d.swap
      BY DEF MovePage
    <2> QED
      BY <1>5, <1>6, <2>3, <2>4
  <1>8. \A f \in Frames : st.meta[f].tid # NoOwner /\ f # to
                        => PageOf(st.meta[f]) \in Pages(moved.meta)
    <2> HIDE DEF d
    <2> QED
      BY <1>4, <1>6, MoveKeeps
  <1> HIDE DEF d, moved
  <1>9. last.swap = IF CanWrite(st.swap) THEN Written(st.swap, name) ELSE st.swap
    BY <1>7 DEF Unload
  <1>10. Pages(last.meta) = Pages(moved.meta)
    <2> DEFINE g == Disowned(Moved(moved.meta[Dedicated], Dedicated))
    <2>1. last.meta = [moved.meta EXCEPT ![Dedicated] = g]
      BY DEF Unload
    <2>2. moved.meta \in [AllFrames -> Header]
      BY <1>4 DEF GoodStore, Good
    <2> HIDE DEF g, last
    <2>3. \A f \in Frames : last.meta[f] = moved.meta[f]
      BY <2>1, <2>2, FrameFacts DEF AllFrames
    <2> QED
      BY <2>3 DEF Pages
  <1> HIDE DEF last, name
  <1>11. Stays(st.swap, last.swap)
    <2>1. Stays(st.swap, st.swap)
      BY DEF Stays
    <2> QED
      BY <1>1, <1>3, <1>9, <2>1, WrittenStays
  <1>12. ASSUME CanWrite(st.swap), NEW f \in Frames, st.meta[f].tid # NoOwner
         PROVE  PageOf(st.meta[f]) \in Pages(last.meta) \cup Recorded(last.swap)
    <2>1. CASE f # to
      BY <1>8, <1>10, <1>12, <2>1
    <2>2. CASE f = to
      <3>1. name # NoPage
        BY <1>2, <1>12, <2>2 DEF PageOf, NoPage, NoOwner
      <3>2. name \in Recorded(last.swap)
        BY <1>1, <1>3, <1>9, <1>12, <3>1, WrittenRecorded
      <3> QED
        BY <1>2, <2>2, <3>2
    <2> QED
      BY <2>1, <2>2
  <1>13. Keeps(st, last)
    BY <1>11, <1>12 DEF Keeps, Pages
  <1> QED
    BY <1>13 DEF last, moved, d

(* swapPages as a whole loses no page while the file has room.             *)
LEMMA SwapPagesKeep ==
    ASSUME NEW st0, GoodStore(st0), NEW from \in Frames, NEW to \in Frames, NEW by
    PROVE  Keeps(st0, SwapPages(st0, from, to, by))
  <1> DEFINE st == MakeRoom(st0, by)
             spare == SpareFrame(st)
             moved == MovePage(DisplacePage(st, to, spare), from, to)
             lost == [st EXCEPT !.wild = TRUE]
             free == MovePage(st, from, to)
             new == SwapPages(st0, from, to, by)
  <1>1. GoodStore(st) /\ Keeps(st0, st) /\ (spare = Dedicated => st = st0)
    BY MakeRoomGood, MakeRoomKeeps
  <1>2. spare = Dedicated \/ spare \in FreeFrames(st)
    BY SpareFrameType
  <1>3. lost.meta = st.meta /\ lost.swap = st.swap
    OBVIOUS
  <1>4. free.swap = st.swap /\ moved.swap = st.swap
    BY DEF MovePage, DisplacePage
  <1>5. Keeps(st0, lost)
    <2> HIDE DEF st, lost
    <2> QED
      BY <1>1, <1>3, KeepsMeta
  <1>6. ASSUME st.meta[to].tid = NoOwner, from # to
        PROVE  Keeps(st0, free)
    <2> HIDE DEF st
    <2>1. Pages(st.meta) \subseteq Pages(free.meta)
      BY <1>1, <1>6, MoveKeeps DEF Pages
    <2> HIDE DEF free
    <2> QED
      BY <1>1, <1>4, <2>1, KeepsMeta
  <1>7. ASSUME st.meta[to].tid # NoOwner, from # to, spare # Dedicated
        PROVE  Keeps(st0, moved)
    <2> HIDE DEF st, spare
    <2>1. Pages(st.meta) \subseteq Pages(moved.meta)
      BY <1>1, <1>2, <1>7, SwapMovesKeep
    <2> HIDE DEF moved
    <2> QED
      BY <1>1, <1>4, <2>1, KeepsMeta
  <1>8. ASSUME from # to, spare = Dedicated
        PROVE  Keeps(st0, Unload(moved))
    <2>1. st = st0
      BY <1>1, <1>8
    <2>2. Keeps(st, Unload(MovePage(DisplacePage(st, to, Dedicated), from, to)))
      <3> HIDE DEF st
      <3> QED
        BY <1>1, <1>8, UnloadKeeps
    <2> HIDE DEF st, spare
    <2> QED
      BY <1>8, <2>1, <2>2
  <1>9. \/ new = st \/ new = lost
        \/ from # to /\ st.meta[to].tid = NoOwner /\ new = free
        \/ from # to /\ st.meta[to].tid # NoOwner /\ spare # Dedicated /\ new = moved
        \/ from # to /\ spare = Dedicated /\ new = Unload(moved)
    <2> HIDE DEF st, spare, moved, lost, free
    <2> QED
      BY DEF SwapPages, st, spare, moved, lost, free
  <1> HIDE DEF st, spare, moved, lost, free, new
  <1>10. Keeps(st0, new)
    BY <1>1, <1>5, <1>6, <1>7, <1>8, <1>9
  <1> QED
    BY <1>10 DEF new

-----------------------------------------------------------------------------
(* The steps of the specification, as changes of the store. *)
StepKeeps == /\ Stays(swap, swap')
             /\ CanWrite(swap) => Pages(meta) \subseteq Pages(meta') \cup Recorded(swap')

(* A step to a store that keeps the pages keeps them.                      *)
LEMMA StepStore ==
    ASSUME NEW new, Keeps(Store, new), meta' = new.meta, swap' = new.swap
    PROVE  StepKeeps
  BY DEF Keeps, Store, StepKeeps

(* So does a step that leaves headers and swap file alone.                 *)
LEMMA SameKeeps ==
    ASSUME UNCHANGED <<meta, swap>>
    PROVE  StepKeeps
  BY DEF StepKeeps, Stays

(* So does a step of a loader.                                             *)
LEMMA LoaderKeeps ==
    ASSUME IInv, Loader
    PROVE  StepKeeps
  <1> DEFINE job == Head(todo)
  <1>1. CASE LoaderSwap(job)
    <2> DEFINE from == Min(ToMove(job) \cup InPlace(job))
               new == SwapPages(Store, from, job.pos, job.by)
    <2>1. Keeps(Store, new)
      BY <1>1, LoaderMoves, StoreIsGood, SwapPagesKeep
    <2>2. meta' = new.meta /\ swap' = new.swap
      BY <1>1 DEF LoaderSwap, Become
    <2> HIDE DEF new
    <2> QED
      BY <2>1, <2>2, StepStore
  <1>2. CASE LoaderSkip(job) \/ LoaderEnds(job)
    BY <1>2, SameKeeps DEF LoaderSkip, LoaderEnds
  <1> QED
    BY <1>1, <1>2 DEF Loader

(* New pages are put in free frames only. *)
LEMMA ClaimKeeps ==
    ASSUME IInv, Claim
    PROVE  StepKeeps
  <1> DEFINE t == Head(todo).tid
             n == Head(todo).n
             evicts == n = 1 /\ ~(Cardinality(FreeFrames(Store)) >= n)
             st == IF evicts THEN Evict(Store, t) ELSE Store
             taken == Lowest(FreeFrames(st), n)
  <1>1. Keeps(Store, st)
    <2>1. CASE evicts
      <3>1. CanEvict(Store, t)
        BY <2>1 DEF Claim
      <3>2. Keeps(Store, Evict(Store, t))
        BY <3>1, StoreIsGood, EvictKeeps DEF Keeps
      <3> QED
        BY <2>1, <3>2
    <2>2. CASE ~evicts
      BY <2>2 DEF Keeps, Stays
    <2> QED
      BY <2>1, <2>2
  <1>2. ClaimIn(st, t, n)
    BY DEF Claim
  <1>3. \A f \in taken : st.meta[f].tid = NoOwner
    BY DEF Lowest, FreeFrames
  <1>4. DOMAIN meta = AllFrames
    BY DEF IInv, Good
  <1> HIDE DEF st, t, n
  <1>5. \A f \in Frames \ taken : meta'[f] = st.meta[f]
    BY <1>2, <1>4 DEF ClaimIn, AllFrames
  <1>6. swap' = st.swap
    BY <1>2 DEF ClaimIn
  <1> HIDE DEF taken
  <1>7. Pages(st.meta) \subseteq Pages(meta')
    BY <1>3, <1>5 DEF Pages
  <1> QED
    BY <1>1, <1>6, <1>7 DEF Keeps, Store, StepKeeps

(* The fault handler drops no page.                                        *)
LEMMA FaultKeeps ==
    ASSUME IInv, NEW v, Fault(v)
    PROVE  StepKeeps
  <1> DEFINE homes == {f \in Frames : PageOf(meta[f]) = <<running, v>>}
             to == FrameOf(v)
  <1>1. to \in Frames
    BY DEF Fault, IInv
  <1>2. CASE UNCHANGED <<meta, swap>>
    BY <1>2, SameKeeps
  <1>3. ASSUME NEW from \in Lowest(homes, 1), Become(SwapPages(Store, from, to, running))
        PROVE  StepKeeps
    <2> DEFINE new == SwapPages(Store, from, to, running)
    <2>1. from \in Frames
      BY DEF Lowest
    <2>2. Keeps(Store, new)
      BY <1>1, <2>1, StoreIsGood, SwapPagesKeep
    <2>3. meta' = new.meta /\ swap' = new.swap
      BY <1>3 DEF Become
    <2> HIDE DEF new
    <2> QED
      BY <2>2, <2>3, StepStore
  <1> QED
    BY <1>2, <1>3 DEF Fault

(* No step drops a page while the file has room.                           *)
LEMMA NextKeeps ==
    ASSUME IInv, [Next]_vars
    PROVE  StepKeeps
  <1>1. CASE Library
    <2>1. CASE Lock \/ ClaimFails
      BY <2>1, SameKeeps DEF Lock, ClaimFails
    <2> QED
      BY <1>1, <2>1, LoaderKeeps, ClaimKeeps DEF Library
  <1>2. ASSUME NEW v \in 1 .. MaxPages, Fault(v) \/ Free(v)
        PROVE  StepKeeps
    BY <1>2, FaultKeeps, SameKeeps DEF Free
  <1>3. ASSUME NEW u \in Threads, Create(u) \/ Dispatch(u)
        PROVE  StepKeeps
    BY <1>3, SameKeeps DEF Create, Dispatch
  <1>4. ASSUME NEW n \in Requests, Malloc(n) \/ \E f \in Frames : MallocIn(f, n)
        PROVE  StepKeeps
    BY <1>4, SameKeeps DEF Malloc, MallocIn
  <1>5. CASE UNCHANGED vars
    BY <1>5, SameKeeps DEF vars
  <1> QED
    BY <1>1, <1>2, <1>3, <1>4, <1>5 DEF Next

(* Whatever the frames, threads and the size of the swap file: while       *)
(* writeDataToSwap finds a slot, no loader, fault or allocation drops a    *)
(* page that was in memory.                                                *)
THEOREM PagesKeptWhileRoom == Spec => KeptWhileRoom
  <1>1. IInv /\ [Next]_vars
          => [CanWrite(swap) => InMemory \subseteq InMemory' \cup Recorded(swap')]_vars
    BY NextKeeps DEF StepKeeps, Pages, InMemory
  <1> QED
    BY <1>1, StoresStayGood, PTL DEF Spec, KeptWhileRoom

(* However records overlap, one that starts on its slot keeps its header.  *)
THEOREM SwapHeadersStay == Spec => AlignedHeadersStay
  <1>1. IInv /\ [Next]_vars
          => [\A i \in DOMAIN swap :
                 swap[i].page # NoPage /\ ~swap[i].shifted
                   => /\ i \in DOMAIN swap'
                      /\ swap'[i].page = swap[i].page /\ ~swap'[i].shifted]_vars
    BY NextKeeps DEF StepKeeps, Stays
  <1> QED
    BY <1>1, StoresStayGood, PTL DEF Spec, AlignedHeadersStay
=============================================================================
