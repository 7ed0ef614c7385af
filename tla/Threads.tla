------------------------------ MODULE Threads ------------------------------
(***************************************************************************)
(* The run queue, the PSJF scheduler, the mutexes and the joins of          *)
(* src/mypthread.c.  One thread has the processor at a time; the timer      *)
(* signal calls mypthread_yield, which saves the context of the head of     *)
(* the run queue and enters schedule().  The code a thread executes         *)
(* ("running") and the thread it acts for ("me", always runQueueHead) are   *)
(* kept apart, because the code keeps them apart.                           *)
(*                                                                         *)
(* A call whose statements can be told apart by a preemption is a chain of  *)
(* actions, at[t] naming where thread t is; every other call is one action. *)
(* TicksInside says whether the timer may expire inside a call of the       *)
(* library or only while the thread executes code of its own.  Paging       *)
(* (Paging.tla) is not visible here.                                        *)
(***************************************************************************)
EXTENDS Naturals, Sequences, FiniteSets, SequencesExt

CONSTANTS Main,         \* the thread main() runs in
          Workers,      \* the threads the program creates
          Mutexes,      \* the mutexes it initialises
          None,         \* the NULL pointer
          Lockers,      \* the threads that take mutexes
          Joins,        \* the pairs <<t, u>> such that t calls join on u, once
          Destroys,     \* the mutexes the program destroys
          Locks,        \* bound: calls a thread makes of lock, and of unlock on a
                        \* mutex it does not hold
          MaxTicks,     \* bound: yields and expiries of the timer in a run
          MaxQuantum,   \* bound: the quantum past which no thread is scheduled
          TicksInside,  \* the timer may expire inside the library
          NullLocks     \* the program may call mypthread_mutex_lock(NULL)

Threads == {Main} \cup Workers

ThreadsAssumption ==
  /\ Main \notin Workers
  /\ None \notin Threads \cup Mutexes
  /\ Lockers \subseteq Threads /\ Joins \subseteq Threads \X Workers
  /\ Destroys \subseteq Mutexes
  /\ Locks \in Nat /\ MaxTicks \in Nat /\ MaxQuantum \in Nat
  /\ TicksInside \in BOOLEAN /\ NullLocks \in BOOLEAN
ASSUME ThreadsAssumption

VARIABLES
  queue,     \* the run queue, from runQueueHead
  tcb,       \* the control block of each thread
  mutex,     \* the flag and the owner of each mutex
  inited,    \* the mutexes that are initialised
  listed,    \* listOfMutexes->mutex: the first mutex initialised
  waitList,  \* mutexQueueList: copies of control blocks, in order of arrival
  lib,       \* areWeInTheLibraryQuestionMark
  timer,     \* the interval timer is running
  mode,      \* who has the processor: a thread ("run"), schedule() ("sched"),
             \* the loop of sched_PSJF ("loop"), nobody ("ended", "crashed",
             \* "lost")
  running,   \* the thread whose code runs
  context,   \* whose execution the context of each thread holds
  masked,    \* SIGALRM is blocked in the scheduler's context
  at,        \* where each thread is in a call, [op, arg]
  exited,    \* exitValues: the threads that called exit
  holders,   \* history: who has been told it holds each mutex
  results,   \* history: the exit value in each location given to join
  returned,  \* history: the joins that have returned 0
  asked,     \* the joins that have been called
  calls,     \* calls of lock, and of unlock without the mutex, of each thread
  ticks,     \* yields and expiries so far
  struck,    \* history: the timer has expired in the present call of lock
  cuts       \* history: what went past the protection of the library so far

processor == <<mode, running, context, masked>>
interruptions == <<struck, cuts>>
history == <<holders, results, returned, asked, calls, ticks, interruptions>>
vars == <<queue, tcb, mutex, inited, listed, waitList, lib, timer, processor,
          at, exited, history>>

InitialQuantum == 5             \* initialQuantum, in steps of quantumIncrement
Blank == [threadId |-> None, mutex |-> None]    \* a node with a NULL tcb
User == [op |-> "user", arg |-> None]

me == Head(queue)
Alive == Range(queue)
Created == Alive \cup exited
Holds(t) == {m \in Mutexes : t \in holders[m]}

------------------------------------------------------------------------------
(* The lists.                                                               *)

\* llNodeInsertSortedByQuantum: never at the head; behind the head if the
\* head's quantum is as large, otherwise behind every quantum not larger.
InsertSorted(q, t, quantum) ==
  CASE q = <<>> -> <<t>>
    [] q # <<>> /\ quantum[t] <= quantum[Head(q)] -> <<Head(q), t>> \o Tail(q)
    [] OTHER -> LET larger == {i \in DOMAIN q : quantum[q[i]] > quantum[t]}
                    place == IF larger = {} THEN Len(q) + 1 ELSE Min(larger)
                IN  InsertAt(q, place, t)

Bounded == tcb[me].numQuantum < MaxQuantum
Quantum(block) == [t \in Threads |-> block[t].numQuantum]
Longer(block, t) == [block EXCEPT ![t].numQuantum = @ + 1]

\* VARIANT of Rotated: the head is not taken off the queue first.
RotatedUnpopped == InsertSorted(queue, me, Quantum(Longer(tcb, me)))

\* The head of the run queue, its quantum raised, sorted back into the queue.
Rotated == InsertSorted(Tail(queue), me, Quantum(Longer(tcb, me)))

\* VARIANT of NextFor: the last thread of the list instead of the first.
NextForLast(m) ==
  LET places == {i \in DOMAIN waitList : waitList[i].mutex = m}
  IN  IF places = {} THEN None
      ELSE waitList[Max(places)].threadId

\* mqFindNext: the first thread of the list queued for the mutex.
NextFor(m) ==
  LET places == {i \in DOMAIN waitList : waitList[i].mutex = m}
  IN  IF places = {} THEN None
      ELSE waitList[Min(places)].threadId

\* VARIANT of Dequeued: the copy stays.
DequeuedNot(t) == waitList

\* mqFindOnID and llNodeDelete: the list without the first copy of thread t.
Dequeued(t) ==
  LET places == {i \in DOMAIN waitList : waitList[i].threadId = t}
  IN  IF places = {} THEN waitList
      ELSE RemoveAt(waitList, Min(places))

\* The list with a copy of the running thread's block, queued for m.
Enqueued(m) ==
  LET copy == [threadId |-> me, mutex |-> m]
  IN  IF waitList = <<Blank>> THEN <<copy>> ELSE Append(waitList, copy)

\* llnodePrintThreadList tests and sets the flag of the first mutex for every
\* queued thread that has one, and "if(prev = 0)" never clears it again.
Printed(state) ==
  IF \E t \in Alive : tcb[t].mutex # None
  THEN [state EXCEPT ![listed].flag = TRUE] ELSE state

\* VARIANT of Waiter: the walk ends after the second thread.
WaiterNear(u) ==
  LET places == {i \in DOMAIN queue : i <= 2 /\ tcb[queue[i]].waitingToEnd = u}
  IN  IF places = {} THEN None ELSE queue[Min(places)]

\* llNodeFindWaitingForJoin: the first thread of the queue that waits for u.
Waiter(u) ==
  LET places == {i \in DOMAIN queue : tcb[queue[i]].waitingToEnd = u}
  IN  IF places = {} THEN None ELSE queue[Min(places)]

\* VARIANTS of Free: a thread that waits for a mutex, or for a thread, is free.
FreeOfJoin(t) == tcb[t].waitingToEnd = None
FreeOfMutex(t) == tcb[t].mutex = None

Free(t) == tcb[t].mutex = None /\ tcb[t].waitingToEnd = None

------------------------------------------------------------------------------
(* History: what got past the protection of the library.  No action depends *)
(* on it.                                                                   *)

\* The places of a call of lock at which areWeInTheLibraryQuestionMark is set:
\* the first expiry of the timer in the call only clears it.
Protected == {"lock", "busy", "asking", "locking", "owning", "overriding",
              "owned", "locked"}

\* What an expiry at a place of a call gets past.
CutAt(op) ==
  CASE op \in Protected -> IF struck THEN {"lock"} ELSE {}
    [] op \in {"undoing", "unlock", "unlocking", "unlocked"} -> {"unlock"}
    [] op = "join" -> {"join"}
    [] op \in {"exit", "exiting"} -> {"exit"}
    [] OTHER -> {}

\* Thread t waits: for a mutex it does not own, or for a thread.
Waiting(t) == \/ tcb[t].mutex # None /\ mutex[tcb[t].mutex].owner # t
              \/ tcb[t].waitingToEnd # None

------------------------------------------------------------------------------
(* The scheduler.                                                           *)

\* VARIANT of EnterScheduler: always the first switch, out of main.
EnterSchedulerMain(signal) ==
  /\ context' = [context EXCEPT ![Main] = running]
  /\ mode' = "sched"
  /\ masked' = signal
  /\ UNCHANGED running

\* mypthread_yield: whatever runs is saved in the context of the queue's head.
EnterScheduler(signal) ==
  /\ context' = [context EXCEPT ![me] = running]
  /\ mode' = "sched"
  /\ masked' = signal
  /\ UNCHANGED running

\* setcontext on the context of the thread that heads the queue.
Dispatch(head) ==
  /\ running' = context[head]
  /\ mode' = "run"
  /\ timer' = TRUE
  /\ UNCHANGED <<context, masked>>

\* The library was interrupted: it resumes, without its protection.
ScheduleLibrary ==
  /\ mode = "sched" /\ lib
  /\ lib' = FALSE
  /\ Dispatch(me)
  /\ UNCHANGED <<queue, tcb, mutex, inited, listed, waitList, at, exited, history>>

\* sched_PSJF with one thread in the queue: it runs, whatever it waits for.
ScheduleOnly ==
  /\ mode = "sched" /\ ~lib /\ Len(queue) = 1 /\ Bounded
  /\ tcb' = Longer(tcb, me)
  /\ Dispatch(me)
  /\ cuts' = IF Waiting(me) THEN cuts \cup {"alone"} ELSE cuts
  /\ UNCHANGED <<queue, mutex, inited, listed, waitList, lib, at, exited, holders,
                 results, returned, asked, calls, ticks, struck>>

\* sched_PSJF otherwise: the head goes back into the queue; the new head runs
\* if nothing is in its way, or the loop looks for one.
ScheduleRotate ==
  /\ mode = "sched" /\ ~lib /\ Len(queue) > 1 /\ Bounded
  /\ queue' = Rotated
  /\ mutex' = Printed(mutex)
  /\ IF Free(Head(Rotated))
     THEN /\ tcb' = Longer(Longer(tcb, me), Head(Rotated))
          /\ Dispatch(Head(Rotated))
     ELSE /\ tcb' = Longer(tcb, me)
          /\ mode' = "loop" /\ timer' = TRUE
          /\ UNCHANGED <<running, context, masked>>
  /\ UNCHANGED <<inited, listed, waitList, lib, at, exited, history>>

\* The head waits for nothing.
LoopFree ==
  /\ mode = "loop" /\ Free(me)
  /\ tcb' = Longer(tcb, me)
  /\ Dispatch(me)
  /\ UNCHANGED <<queue, mutex, inited, listed, waitList, lib, at, exited, history>>

Wanting == mode = "loop" /\ tcb[me].waitingToEnd = None /\ tcb[me].mutex # None
Wanted == tcb[me].mutex

\* The head owns its mutex: a copy left in the list goes.
LoopOwner ==
  /\ Wanting /\ mutex[Wanted].owner = me
  /\ waitList' = IF waitList = <<>> \/ Head(waitList) = Blank
                 THEN waitList ELSE Dequeued(me)
  /\ Dispatch(me)
  /\ UNCHANGED <<queue, tcb, mutex, inited, listed, lib, at, exited, history>>

\* VARIANTS of LoopGrant: whoever is first in line gets the mutex of an owner;
\* nobody gets a mutex whose flag is set.
LoopGrantOwned ==
  /\ Wanting /\ mutex[Wanted].owner # me /\ NextFor(Wanted) = me
  /\ waitList' = Dequeued(me)
  /\ mutex' = [mutex EXCEPT ![Wanted] = [flag |-> TRUE, owner |-> me]]
  /\ tcb' = Longer(tcb, me)
  /\ lib' = FALSE
  /\ Dispatch(me)
  /\ UNCHANGED <<queue, inited, listed, at, exited, history>>

LoopGrantClear ==
  /\ Wanting /\ ~mutex[Wanted].flag
  /\ LoopGrantOwned

\* The mutex goes to the head: to whoever asks when the list is empty, to the
\* first in line once it has no owner.
LoopGrant ==
  /\ Wanting /\ mutex[Wanted].owner # me
  /\ \/ waitList = <<>>
     \/ mutex[Wanted].owner = None /\ NextFor(Wanted) = me
  /\ waitList' = Dequeued(me)
  /\ mutex' = [mutex EXCEPT ![Wanted] = [flag |-> TRUE, owner |-> me]]
  /\ tcb' = Longer(tcb, me)
  /\ lib' = FALSE
  /\ Dispatch(me)
  /\ UNCHANGED <<queue, inited, listed, at, exited, history>>

\* The head goes back into the queue and the next one is looked at: for ever, if
\* all are blocked.
Skip ==
  /\ Bounded
  /\ tcb' = Longer(tcb, me)
  /\ queue' = Rotated
  /\ UNCHANGED <<mutex, inited, listed, waitList, lib, timer, processor, at,
                 exited, history>>

\* mqFindNext follows the NULL tcb of the blank node: the process ends.
LoopCrash ==
  /\ Wanting /\ mutex[Wanted].owner # me /\ waitList = <<Blank>>
  /\ mode' = "crashed"
  /\ UNCHANGED <<queue, tcb, mutex, inited, listed, waitList, lib, timer, running,
                 context, masked, at, exited, history>>

\* The head has to wait for its turn at the mutex.
LoopWait ==
  /\ Wanting /\ mutex[Wanted].owner # me /\ waitList \notin {<<>>, <<Blank>>}
  /\ mutex[Wanted].owner # None \/ NextFor(Wanted) # me
  /\ Skip

\* The head waits for a thread that is not in the queue any more.
LoopJoined ==
  /\ mode = "loop"
  /\ tcb[me].waitingToEnd # None /\ tcb[me].waitingToEnd \notin Alive
  /\ tcb' = [Longer(tcb, me) EXCEPT ![me].waitingToEnd = None]
  /\ Dispatch(me)
  /\ UNCHANGED <<queue, mutex, inited, listed, waitList, lib, at, exited, history>>

\* The head waits for a thread that is.
LoopJoining ==
  /\ mode = "loop" /\ tcb[me].waitingToEnd \in Alive
  /\ Skip

Scheduler == \/ ScheduleLibrary \/ ScheduleOnly \/ ScheduleRotate
             \/ LoopFree \/ LoopOwner \/ LoopGrant \/ LoopCrash \/ LoopWait
             \/ LoopJoined \/ LoopJoining

------------------------------------------------------------------------------
(* The threads.  In(op) is the thread that runs, at a step of a call.       *)

In(op) == mode = "run" /\ at[running].op = op
Goto(op, arg) == at' = [at EXCEPT ![running] = [op |-> op, arg |-> arg]]
Arg == at[running].arg

\* The call returns, or goes on, without giving up the processor.
Stay == UNCHANGED processor
Calling == In("user") /\ queue # <<>>

\* mypthread_create; the first call also puts main at the head of the queue,
\* and starts the timer.
Create(u) ==
  /\ In("user") /\ u \notin Created
  /\ queue' = IF queue = <<>> THEN <<Main, u>>
              ELSE InsertSorted(queue, u, Quantum(tcb))
  /\ timer' = TRUE
  /\ Stay
  /\ UNCHANGED <<tcb, mutex, inited, listed, waitList, lib, at, exited, history>>

\* mypthread_mutex_init; the first call also makes mutexQueueList.
MutexInit(m) ==
  /\ In("user") /\ m \notin inited
  /\ inited' = inited \cup {m}
  /\ mutex' = [mutex EXCEPT ![m] = [flag |-> FALSE, owner |-> None]]
  /\ listed' = IF listed = None THEN m ELSE listed
  /\ waitList' = IF listed = None THEN <<Blank>> ELSE waitList
  /\ lib' = FALSE /\ timer' = (queue # <<>>)
  /\ Stay
  /\ UNCHANGED <<queue, tcb, at, exited, history>>

\* mypthread_mutex_destroy: a mutex that is free is left with its flag set.
MutexDestroy(m) ==
  /\ In("user") /\ m \in Destroys \cap inited
  /\ mutex' = [mutex EXCEPT ![m].flag = TRUE]
  /\ Stay
  /\ UNCHANGED <<queue, tcb, inited, listed, waitList, lib, timer, at, exited, history>>

\* mypthread_mutex_lock: the timer is stopped, the library protected, and the
\* library's pages loaded, which starts the timer again.
Lock(m) ==
  /\ Calling /\ running \in Lockers /\ calls[running] < Locks
  /\ m \in inited /\ Holds(running) \subseteq {m}
  /\ calls' = [calls EXCEPT ![running] = @ + 1]
  /\ lib' = TRUE /\ timer' = TRUE /\ struck' = FALSE
  /\ Goto("lock", m) /\ Stay
  /\ UNCHANGED <<queue, tcb, mutex, inited, listed, waitList, exited, holders,
                 results, returned, asked, ticks, cuts>>

\* mypthread_mutex_lock(NULL) returns before the timer is started again.
LockNull ==
  /\ Calling /\ NullLocks /\ running \in Lockers /\ calls[running] < Locks
  /\ calls' = [calls EXCEPT ![running] = @ + 1]
  /\ lib' = TRUE /\ timer' = FALSE
  /\ cuts' = cuts \cup {"null"}
  /\ Stay
  /\ UNCHANGED <<queue, tcb, mutex, inited, listed, waitList, at, exited, holders,
                 results, returned, asked, ticks, struck>>

\* The flag is tested and set: it was clear, or it was set.
LockTaken ==
  /\ In("lock")
  /\ mutex' = [mutex EXCEPT ![Arg].flag = TRUE]
  /\ Goto(IF mutex[Arg].flag THEN "busy" ELSE "locking", Arg) /\ Stay
  /\ UNCHANGED <<queue, tcb, inited, listed, waitList, lib, timer, exited, history>>

\* The flag was set, by the caller: an error is returned.
LockAgain ==
  /\ In("busy") /\ mutex[Arg].owner = me
  /\ lib' = FALSE /\ timer' = TRUE
  /\ Goto("user", None) /\ Stay
  /\ UNCHANGED <<queue, tcb, mutex, inited, listed, waitList, exited, history>>

\* VARIANT of LockBusy: the protection ends before the caller is in line.
LockBusyUnprotected ==
  /\ In("busy") /\ mutex[Arg].owner # me
  /\ tcb' = [tcb EXCEPT ![me].mutex = Arg]
  /\ lib' = FALSE
  /\ Goto("asking", Arg) /\ Stay
  /\ UNCHANGED <<queue, mutex, inited, listed, waitList, timer, exited, history>>

\* The flag was set, by another: the caller's block names the mutex ...
LockBusy ==
  /\ In("busy") /\ mutex[Arg].owner # me
  /\ tcb' = [tcb EXCEPT ![me].mutex = Arg]
  /\ Goto("asking", Arg) /\ Stay
  /\ UNCHANGED <<queue, mutex, inited, listed, waitList, lib, timer, exited, history>>

\* ... a copy of it gets in line, and the protection ends ...
LockLined ==
  /\ In("asking")
  /\ waitList' = Enqueued(Arg)
  /\ lib' = FALSE
  /\ Goto("lined", Arg) /\ Stay
  /\ UNCHANGED <<queue, tcb, mutex, inited, listed, timer, exited, history>>

\* ... and the caller yields.
LockWaits ==
  /\ In("lined")
  /\ Goto("waiting", Arg) /\ EnterScheduler(FALSE)
  /\ UNCHANGED <<queue, tcb, mutex, inited, listed, waitList, lib, timer, exited,
                 history>>

\* The flag was clear: has the mutex an owner?
LockChecked ==
  /\ In("locking")
  /\ Goto(IF mutex[Arg].owner = None THEN "owning" ELSE "overriding", Arg) /\ Stay
  /\ UNCHANGED <<queue, tcb, mutex, inited, listed, waitList, lib, timer, exited,
                 history>>

\* The caller becomes the owner ...
LockOwned ==
  /\ In("owning")
  /\ mutex' = [mutex EXCEPT ![Arg].owner = me]
  /\ Goto("owned", Arg) /\ Stay
  /\ UNCHANGED <<queue, tcb, inited, listed, waitList, lib, timer, exited, history>>

\* ... its block names the mutex, and the flag is set again.
LockNamed ==
  /\ In("owned")
  /\ tcb' = [tcb EXCEPT ![me].mutex = Arg]
  /\ mutex' = [mutex EXCEPT ![Arg].flag = TRUE]
  /\ Goto("locked", Arg) /\ Stay
  /\ UNCHANGED <<queue, inited, listed, waitList, lib, timer, exited, history>>

\* There was an owner: the caller becomes the owner all the same.
LockOverrides ==
  /\ In("overriding")
  /\ mutex' = [mutex EXCEPT ![Arg].owner = me]
  /\ Goto("locked", Arg) /\ Stay
  /\ UNCHANGED <<queue, tcb, inited, listed, waitList, lib, timer, exited, history>>

\* mypthread_mutex_lock returns 0, at once or after the yield.
LockReturns ==
  /\ mode = "run" /\ at[running].op \in {"locked", "waiting"}
  /\ holders' = [holders EXCEPT ![Arg] = @ \cup {running}]
  /\ lib' = FALSE /\ timer' = TRUE
  /\ Goto("user", None) /\ Stay
  /\ UNCHANGED <<queue, tcb, mutex, inited, listed, waitList, exited, results,
                 returned, asked, calls, ticks, interruptions>>

\* mypthread_mutex_unlock, by a thread that holds the mutex or not: the flag is
\* tested and set.
Unlock(m) ==
  LET holds == m \in Holds(running) IN
  /\ Calling /\ running \in Lockers /\ m \in inited
  /\ holds \/ calls[running] < Locks
  /\ calls' = IF holds THEN calls ELSE [calls EXCEPT ![running] = @ + 1]
  /\ holders' = [holders EXCEPT ![m] = @ \ {running}]
  /\ mutex' = [mutex EXCEPT ![m].flag = TRUE]
  /\ timer' = (timer \/ mutex[m].flag)
  /\ Goto(IF mutex[m].flag THEN "unlock" ELSE "undoing", m)
  /\ Stay
  /\ UNCHANGED <<queue, tcb, inited, listed, waitList, lib, exited, results,
                 returned, asked, ticks, interruptions>>

\* The flag had been clear, and is again.
UnlockUndone ==
  /\ In("undoing")
  /\ mutex' = [mutex EXCEPT ![Arg].flag = FALSE]
  /\ Goto("user", None) /\ Stay
  /\ UNCHANGED <<queue, tcb, inited, listed, waitList, lib, timer, exited, history>>

\* The flag was set, and the caller is not the owner: an error is returned.
UnlockRefused ==
  /\ In("unlock") /\ mutex[Arg].owner # me
  /\ Goto("user", None) /\ Stay
  /\ UNCHANGED <<queue, tcb, mutex, inited, listed, waitList, lib, timer, exited,
                 history>>

\* The flag was set, and the caller is the owner.
UnlockOwned ==
  /\ In("unlock") /\ mutex[Arg].owner = me
  /\ Goto("unlocking", Arg) /\ Stay
  /\ UNCHANGED <<queue, tcb, mutex, inited, listed, waitList, lib, timer, exited,
                 history>>

\* The owner clears the flag first ...
UnlockFlag ==
  /\ In("unlocking")
  /\ mutex' = [mutex EXCEPT ![Arg].flag = FALSE]
  /\ Goto("unlocked", Arg) /\ Stay
  /\ UNCHANGED <<queue, tcb, inited, listed, waitList, lib, timer, exited, history>>

\* VARIANT of UnlockOwner: the thread goes on naming the mutex.
UnlockOwnerOnly ==
  /\ In("unlocked")
  /\ mutex' = [mutex EXCEPT ![Arg].owner = None]
  /\ timer' = TRUE
  /\ Goto("user", None) /\ Stay
  /\ UNCHANGED <<queue, tcb, inited, listed, waitList, lib, exited, history>>

\* ... then the owner of the mutex and its own mutex.
UnlockOwner ==
  /\ In("unlocked")
  /\ mutex' = [mutex EXCEPT ![Arg].owner = None]
  /\ tcb' = [tcb EXCEPT ![me].mutex = None]
  /\ timer' = TRUE
  /\ Goto("user", None) /\ Stay
  /\ UNCHANGED <<queue, inited, listed, waitList, lib, exited, history>>

\* mypthread_join on a thread of the queue that nobody waits for.
JoinChecked(u) ==
  /\ u \in Alive /\ Waiter(u) = None
  /\ Goto("join", u)
  /\ UNCHANGED <<results, returned>>

\* ... that somebody waits for: EINVAL.
JoinTaken(u) ==
  /\ u \in Alive /\ Waiter(u) # None
  /\ UNCHANGED <<at, results, returned>>

\* ... on a thread that has ended: its value goes where the caller's last
\* join that had to wait was told to put one, if that was anywhere.
JoinEnded(u) ==
  LET old == tcb[me].joinReturnLocation IN
  /\ u \notin Alive
  /\ results' = IF old = None THEN results
                ELSE [results EXCEPT ![running][old] = u]
  /\ returned' = returned \cup {[by |-> running, of |-> u]}
  /\ UNCHANGED at

\* mypthread_join by a thread that waits already, or on itself, returns 0; on a
\* thread that was never created it returns ESRCH.
JoinRefused(u) ==
  LET refused == tcb[me].waitingToEnd # None \/ u = me IN
  /\ Calling /\ <<running, u>> \in Joins \ asked
  /\ refused \/ u \notin Created
  /\ asked' = IF refused THEN asked \cup {<<running, u>>} ELSE asked
  /\ returned' = IF refused THEN returned \cup {[by |-> running, of |-> u]} ELSE returned
  /\ timer' = TRUE
  /\ Stay
  /\ UNCHANGED <<queue, tcb, mutex, inited, listed, waitList, lib, at, exited, holders,
                 results, calls, ticks, interruptions>>

Join(u) ==
  /\ Calling /\ <<running, u>> \in Joins \ asked
  /\ u \in Created /\ u # me /\ tcb[me].waitingToEnd = None
  /\ asked' = asked \cup {<<running, u>>}
  /\ mutex' = Printed(mutex)
  /\ timer' = TRUE
  /\ JoinChecked(u) \/ JoinTaken(u) \/ JoinEnded(u)
  /\ Stay
  /\ UNCHANGED <<queue, tcb, inited, listed, waitList, lib, exited, holders, calls, ticks,
                 interruptions>>

\* The caller waits; loc is value_ptr: the variable the program keeps for the
\* thread, or NULL.
JoinWaits ==
  /\ In("join")
  /\ \E loc \in {Arg, None} :
       tcb' = [tcb EXCEPT ![me].waitingToEnd = Arg, ![me].joinReturnLocation = loc]
  /\ Goto("joining", Arg) /\ EnterScheduler(FALSE)
  /\ UNCHANGED <<queue, mutex, inited, listed, waitList, lib, timer, exited, history>>

\* mypthread_join returns 0 after the yield.
JoinReturns ==
  /\ In("joining")
  /\ returned' = returned \cup {[by |-> running, of |-> Arg]}
  /\ Goto("user", None) /\ Stay
  /\ UNCHANGED <<queue, tcb, mutex, inited, listed, waitList, lib, timer, exited,
                 holders, results, asked, calls, ticks, interruptions>>

\* VARIANT of Given: the value goes to the location of the thread that ends.
GivenToItself(waiter) ==
  LET loc == tcb[me].joinReturnLocation
  IN  IF loc = None THEN results ELSE [results EXCEPT ![me][loc] = me]

\* The value of the head of the queue, put where the waiter wants it.
Given(waiter) ==
  LET loc == tcb[waiter].joinReturnLocation
  IN  IF loc = None THEN results ELSE [results EXCEPT ![waiter][loc] = me]

\* mypthread_exit: the value is recorded and given to the first thread of the
\* queue that waits for it.
Exit ==
  LET waiter == Waiter(me) IN
  /\ Calling /\ running # Main /\ Holds(running) = {}
  /\ exited' = exited \cup {me}
  /\ tcb' = IF waiter = None THEN tcb ELSE [tcb EXCEPT ![waiter].waitingToEnd = None]
  /\ results' = IF waiter = None THEN results ELSE Given(waiter)
  /\ timer' = TRUE
  /\ Goto("exit", None) /\ Stay
  /\ UNCHANGED <<queue, mutex, inited, listed, waitList, lib, holders, returned,
                 asked, calls, ticks, interruptions>>

\* The head leaves the run queue.
ExitDelete ==
  /\ In("exit")
  /\ queue' = Tail(queue)
  /\ Goto("exiting", None) /\ Stay
  /\ UNCHANGED <<tcb, mutex, inited, listed, waitList, lib, timer, exited, history>>

\* The function of the thread returns to uc_link, the scheduler's context.
ExitReturns ==
  /\ In("exiting")
  /\ mode' = "sched"
  /\ UNCHANGED <<queue, tcb, mutex, inited, listed, waitList, lib, timer, running,
                 context, masked, at, exited, history>>

\* main returns, having called join for every thread.
MainReturns ==
  /\ Calling /\ running = Main
  /\ {u \in Workers : <<Main, u>> \in asked} = Workers
  /\ mode' = "ended"
  /\ UNCHANGED <<queue, tcb, mutex, inited, listed, waitList, lib, timer, running,
                 context, masked, at, exited, history>>

\* The timer expires, or the thread calls mypthread_yield itself.
Switch ==
  /\ mode = "run" /\ queue # <<>> /\ ticks < MaxTicks
  /\ \/ timer /\ (TicksInside \/ at[running] = User) /\ EnterScheduler(TRUE)
     \/ at[running] = User /\ EnterScheduler(FALSE)
  /\ ticks' = ticks + 1
  /\ struck' = (struck \/ at[running].op \in Protected)
  /\ cuts' = cuts \cup CutAt(at[running].op)
  /\ UNCHANGED <<queue, tcb, mutex, inited, listed, waitList, lib, timer, at,
                 exited, holders, results, returned, asked, calls>>

\* The timer expires in the scheduler, when it was entered by a call: the
\* scheduler is saved in the context of the queue's head, and started again on
\* its own stack.  What happens then is not followed.
SwitchScheduler ==
  /\ mode \in {"sched", "loop"} /\ TicksInside /\ timer /\ ~masked
  /\ context' = [context EXCEPT ![me] = None]
  /\ mode' = "lost"
  /\ cuts' = cuts \cup {"scheduler"}
  /\ UNCHANGED <<queue, tcb, mutex, inited, listed, waitList, lib, timer, running,
                 masked, at, exited, holders, results, returned, asked, calls, ticks,
                 struck>>

------------------------------------------------------------------------------
Init ==
  /\ queue = <<>>
  /\ tcb = [t \in Threads |-> [mutex |-> None, waitingToEnd |-> None,
                               joinReturnLocation |-> None,
                               numQuantum |-> InitialQuantum]]
  /\ mutex = [m \in Mutexes |-> [flag |-> FALSE, owner |-> None]]
  /\ inited = {} /\ listed = None /\ waitList = <<>>
  /\ lib = FALSE /\ timer = FALSE
  /\ mode = "run" /\ running = Main /\ context = [t \in Threads |-> t]
  /\ masked = FALSE
  /\ at = [t \in Threads |-> User]
  /\ exited = {}
  /\ holders = [m \in Mutexes |-> {}]
  /\ results = [t \in Threads |-> [u \in Workers |-> None]]
  /\ returned = {} /\ asked = {}
  /\ calls = [t \in Threads |-> 0] /\ ticks = 0
  /\ struck = FALSE /\ cuts = {}

Calls == \/ \E u \in Workers : Create(u) \/ Join(u) \/ JoinRefused(u)
         \/ \E m \in Mutexes : MutexInit(m) \/ MutexDestroy(m) \/ Lock(m) \/ Unlock(m)
         \/ LockNull \/ LockTaken \/ LockAgain \/ LockBusy \/ LockLined \/ LockWaits
         \/ LockChecked \/ LockOwned \/ LockNamed \/ LockOverrides \/ LockReturns
         \/ UnlockUndone \/ UnlockRefused \/ UnlockOwned \/ UnlockFlag \/ UnlockOwner
         \/ JoinWaits \/ JoinReturns \/ Exit \/ ExitDelete \/ ExitReturns \/ MainReturns

Next == Scheduler \/ Calls \/ Switch \/ SwitchScheduler

Spec == Init /\ [][Next]_vars

\* The processor goes on executing: the only fairness the code needs.
FairSpec == Spec /\ WF_vars(Next)

------------------------------------------------------------------------------
Ops == Protected \cup {"user", "lined", "waiting", "undoing", "unlock", "unlocking",
                        "unlocked", "join", "joining", "exit", "exiting"}
Cuts == {"lock", "unlock", "join", "exit", "null", "alone", "scheduler"}

\* The types of the state; no thread is twice in the run queue.
TypeOK ==
  /\ queue \in Seq(Threads) /\ \A i, j \in DOMAIN queue : queue[i] = queue[j] => i = j
  /\ tcb \in [Threads -> [mutex : Mutexes \cup {None}, waitingToEnd : Threads \cup {None},
                          joinReturnLocation : Workers \cup {None}, numQuantum : Nat]]
  /\ mutex \in [Mutexes -> [flag : BOOLEAN, owner : Threads \cup {None}]]
  /\ inited \subseteq Mutexes /\ listed \in inited \cup {None}
  /\ waitList \in Seq([threadId : Threads \cup {None}, mutex : Mutexes \cup {None}])
  /\ lib \in BOOLEAN /\ timer \in BOOLEAN /\ masked \in BOOLEAN
  /\ mode \in {"run", "sched", "loop", "ended", "crashed", "lost"} /\ running \in Threads
  /\ context \in [Threads -> Threads \cup {None}]
  /\ at \in [Threads -> [op : Ops, arg : Threads \cup Mutexes \cup {None}]]
  /\ exited \subseteq Workers
  /\ holders \in [Mutexes -> SUBSET Threads]
  /\ struck \in BOOLEAN /\ cuts \subseteq Cuts

\* Two threads are never told at once that they hold the same mutex.
MutualExclusion == \A m \in Mutexes : Cardinality(holders[m]) <= 1

\* A thread whose call of lock returned 0 is the owner of the mutex, and the
\* flag is set, until it calls unlock.
HoldersOwn ==
  \A m \in Mutexes : \A t \in holders[m] : mutex[m] = [flag |-> TRUE, owner |-> t]

\* The owner of a mutex holds it, or is in a call of lock or unlock on it.
OwnersAsked ==
  \A m \in Mutexes : LET t == mutex[m].owner IN
    t # None => t \in holders[m] \/ at[t].arg = m

\* A thread that waits for a mutex, and is not its owner yet, is in line for it
\* once, with its block saying so; nobody else is in line.
WaitersInLine ==
  \A t \in Threads, m \in Mutexes :
    Cardinality({i \in DOMAIN waitList : waitList[i] = [threadId |-> t, mutex |-> m]})
      = IF at[t].op \in {"lined", "waiting"} /\ at[t].arg = m /\ mutex[m].owner # t
        THEN 1 ELSE 0

\* A thread on whose behalf a join of another returned 0 has ended.
JoinedEnded == \A r \in returned : r.of \in exited \/ r.of = r.by

\* Nobody waits for a thread that ended, and a thread is waited for by one.
JoinersKnown ==
  \A t \in Alive : LET u == tcb[t].waitingToEnd IN
    u # None => u \in Alive /\ \A v \in Alive \ {t} : tcb[v].waitingToEnd # u

\* The context of a thread of the queue holds the execution of that thread.
OwnContexts == \A t \in Alive : context[t] = t

\* The mutexes agree with their callers, wherever the timer expires, until one of:
\* a second expiry in one call of lock; an expiry in unlock; lock(NULL); a thread
\* alone in the queue run while it waits.
MutexCuts == {"lock", "unlock", "null", "alone"}
MutexesSheltered ==
  cuts \cap MutexCuts = {} =>
    MutualExclusion /\ HoldersOwn /\ OwnersAsked /\ WaitersInLine

\* Until then mutexes are given in the order in which they were asked for by those
\* who wait: a thread granted one by the scheduler is the first in line.
GrantedInOrder ==
  [][\A m \in Mutexes :
       cuts \cap MutexCuts = {} /\ mode = "loop" /\ mutex[m].owner = None /\ mutex'[m].owner # None
         => \E i \in DOMAIN waitList :
              /\ waitList[i] = [threadId |-> mutex'[m].owner, mutex |-> m]
              /\ \A j \in 1 .. i - 1 : waitList[j].mutex # m]_vars

\* The joins agree with the queue until the timer expires in join or exit, or
\* lock(NULL) is called; and none returns early until lock(NULL) is called or a
\* thread alone in the queue run while it waits.
JoinCuts == {"join", "exit", "null"}
JoinsSheltered ==
  /\ cuts \cap JoinCuts = {} => JoinersKnown
  /\ cuts \cap {"null", "alone"} = {} => JoinedEnded

\* Until then, a join that had to wait finds, when it returns, the value of the
\* thread it waited for in the location it was given.
WaitersGetTheValue ==
  [][cuts \cap JoinCuts = {} =>
       \A t \in Threads :
         LET loc == tcb[t].joinReturnLocation
         IN  at[t].op = "joining" /\ at'[t].op = "user" /\ loc # None
               => results[t][loc] = at[t].arg]_vars

\* Contexts hold their own threads until the timer expires in exit, or in the
\* scheduler.
ContextCuts == {"exit", "scheduler"}
ContextsSheltered == cuts \cap ContextCuts = {} => OwnContexts

\* A program whose threads make finitely many calls ends.
Finishes == <>(mode = "ended")

=============================================================================
