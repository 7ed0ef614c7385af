-------------------------------- MODULE Paging --------------------------------
(***************************************************************************)
(* The page frames of umalloc.c.  Every thread sees the same addresses:    *)
(* its page number n must be in frame First+n-1 when the thread touches    *)
(* it.  Headers (page_header_t) say whose page sits in which frame,        *)
(* mprotect keeps a thread off the frames of others, the fault handler and *)
(* the loaders copy pages between frames, and evictPageToSwapFile moves    *)
(* single pages to the swap file when the frames run out.                  *)
(*                                                                         *)
(* The work of a library call is kept in `todo', a queue of the operations *)
(* the call still has to do, and a step of a loader is one iteration of    *)
(* its loop that acts on a page.  A call is not interrupted here, although *)
(* the code only asks for that: loadLibraryPages, lockAllButThread and     *)
(* loadThreadStack start the timer again (2148, 2375, 2439) and the call   *)
(* may have more to do.  Threads follows what an expiry inside a call does *)
(* to the threads; what it does to a half-loaded memory is not followed.   *)
(*                                                                         *)
(* What a page holds is the name <<thread, number>> of the page the bytes  *)
(* were written for.  The swap file is a file of SwapFile.                 *)
(*                                                                         *)
(* Calls that return without putting the caller's pages back are left out: *)
(* the errors of mypthread_join and the return of mypthread_exit, after    *)
(* which a thread runs on with the library's page loaded and everything    *)
(* unlocked.  Nor is it followed what a worker's create does to the stack  *)
(* it runs on: the loaders move that stack's pages from under it.          *)
(***************************************************************************)
EXTENDS SwapFile, FiniteSets

CONSTANTS First,       \* RESERVED_PAGES, the frame of page number 1
          Last,        \* SCHEDULER_PAGE_START - 1, the last frame
          Main,        \* MAINID
          Others,      \* the ids given out by mypthread_create
          Lib,         \* LIBRARYID, owner of the thread library's pages
          StackPages,  \* pages loadThreadStack puts in place: stack and context
          EvictStart,  \* EVICT_START_PAGE
          MaxPages,    \* bound: pages a thread asks for
          Requests,    \* the page counts of a malloc that needs new pages
          Freed        \* the page numbers that threads free a chunk of

Frames == First .. Last
Dedicated == First - 1          \* SWAP_PAGE_INDEX
Threads == {Main} \cup Others
Owners == Threads \cup {Lib}
NoOwner == 0
Reserved == -1

ASSUME PagingAssumption ==
    /\ First \in Nat /\ Last \in Nat /\ 2 <= First /\ First <= Last
    /\ Owners \subseteq Int \ {NoOwner, Reserved}
    /\ Main \notin Others /\ Lib \notin Threads
    /\ StackPages \in Nat /\ 2 <= StackPages
    /\ EvictStart \in Nat /\ SwapRoom \in Nat /\ MaxPages \in Nat
    /\ Dense \subseteq Owners
    /\ Requests \subseteq 1 .. MaxPages /\ Freed \subseteq Nat

VARIABLES meta,      \* frame -> page_header_t
          page,      \* frame -> the page whose bytes are there
          locked,    \* the frames mprotect'ed PROT_NONE
          swap,      \* the swap file
          running,   \* currentThreadId outside the library
          created,   \* the threads mypthread_create has made, and main
          switched,  \* didweswitchcontextfrommainyet
          todo,      \* what the library call in progress still has to do
          given,     \* the pages findFreePage ever gave out
          handed,    \* what the malloc in progress returns: page of the address, of the heap
          status     \* "up", or why the process ended

threads == <<running, created, switched>>
vars == <<meta, page, locked, swap, threads, todo, given, handed, status>>

Nothing == [addr |-> 0, heap |-> 0]
Nobody == NoPage                \* what a frame holds that was never written

(* aux stands for usage = -1, a page that continues the span before it. *)
EmptyHeader(loc) == [tid |-> NoOwner, num |-> 0, loc |-> loc, span |-> 0, aux |-> FALSE]
ReservedHeader == [tid |-> Reserved, num |-> -1, loc |-> Dedicated, span |-> 0, aux |-> FALSE]

PageOf(header) == <<header.tid, header.num>>
FrameOf(num) == First + num - 1

-----------------------------------------------------------------------------
(* A store is what the loaders and the fault handler change: the headers,  *)
(* the bytes, the swap file, and whether a copy went through a null        *)
(* pointer.                                                                *)
Store == [meta |-> meta, page |-> page, swap |-> swap, wild |-> FALSE]

FreeFrames(st) == {f \in Frames : st.meta[f].tid = NoOwner}

Evictable(st, by) ==
    {f \in Frames : f >= EvictStart /\ st.meta[f].span = 1 /\ st.meta[f].tid # by}

(* evictPageToSwapFile, called while currentThreadId = by. *)
CanEvict(st, by) == Evictable(st, by) # {} /\ CanWrite(st.swap)

EvictUnsaved(st, by) ==         \* a variant that forgets the swap file
    LET f == Min(Evictable(st, by))
    IN  [meta |-> [st.meta EXCEPT ![f] = EmptyHeader(st.meta[f].loc)],
         page |-> [st.page EXCEPT ![f] = Nobody],
         swap |-> st.swap, wild |-> st.wild]
Evict(st, by) ==
    LET f == Min(Evictable(st, by))
    IN  [meta |-> [st.meta EXCEPT ![f] = EmptyHeader(st.meta[f].loc)],
         page |-> [st.page EXCEPT ![f] = Nobody],
         swap |-> Written(st.swap, PageOf(st.meta[f])), wild |-> st.wild]

(* findFreePageUsingMetaData: makes room if it must, and falls back on the *)
(* dedicated frame.                                                        *)
MakeRoom(st, by) == IF FreeFrames(st) = {} /\ CanEvict(st, by) THEN Evict(st, by) ELSE st
SpareFrame(st) == IF FreeFrames(st) = {} THEN Dedicated ELSE Min(FreeFrames(st))

(* A header copied to the frame loc. *)
Moved(header, loc) == [header EXCEPT !.loc = loc]
Disowned(header) == [header EXCEPT !.tid = Reserved]

(* What is left in the dedicated frame is written to the swap file, whose  *)
(* refusal goes unnoticed, and the frame is marked reserved again.         *)
Unload(st) ==
    [meta |-> [st.meta EXCEPT ![Dedicated] = Disowned(Moved(st.meta[Dedicated], Dedicated))],
     page |-> st.page,
     swap |-> IF CanWrite(st.swap) THEN Written(st.swap, PageOf(st.meta[Dedicated]))
              ELSE st.swap,
     wild |-> st.wild]

(* Variants of MovePage: the header keeps the frame it came from, the page *)
(* is not copied, the old header is left in place.                         *)
MovePageKeepsLoc(st, from, to) ==
    [meta |-> [st.meta EXCEPT ![to] = st.meta[from], ![from] = EmptyHeader(from)],
     page |-> [st.page EXCEPT ![to] = st.page[from]], swap |-> st.swap, wild |-> st.wild]
MovePageHeaderOnly(st, from, to) ==
    [meta |-> [st.meta EXCEPT ![to] = Moved(st.meta[from], to), ![from] = EmptyHeader(from)],
     page |-> st.page, swap |-> st.swap, wild |-> st.wild]
MovePageLeavesHeader(st, from, to) ==
    [meta |-> [st.meta EXCEPT ![to] = Moved(st.meta[from], to)],
     page |-> [st.page EXCEPT ![to] = st.page[from]], swap |-> st.swap, wild |-> st.wild]

(* The two ways swapPages fills frame `to' from frame `from': a page in    *)
(* the way is first moved to the spare frame.                              *)
MovePage(st, from, to) ==
    [meta |-> [st.meta EXCEPT ![to] = Moved(st.meta[from], to), ![from] = EmptyHeader(from)],
     page |-> [st.page EXCEPT ![to] = st.page[from]], swap |-> st.swap, wild |-> st.wild]

DisplacePage(st, to, spare) ==
    [meta |-> [st.meta EXCEPT ![spare] = Moved(st.meta[to], spare)],
     page |-> [st.page EXCEPT ![spare] = st.page[to]], swap |-> st.swap, wild |-> st.wild]

(* swapPages: load the page of frame `from' into frame `to'.  A frame is   *)
(* found by its loc field, which is 0 in a header that was never filled.   *)
SwapPages(st0, from, to, by) ==
    LET st == MakeRoom(st0, by)
        spare == SpareFrame(st)
        moved == MovePage(DisplacePage(st, to, spare), from, to)
    IN  IF st.meta[to].loc = from THEN st
        ELSE IF st.meta[to].loc # to THEN [st EXCEPT !.wild = TRUE]
        ELSE IF st.meta[to].tid = NoOwner THEN MovePage(st, from, to)
        ELSE IF spare = Dedicated THEN Unload(moved)
        ELSE moved

Become(st) == /\ meta' = st.meta /\ page' = st.page /\ swap' = st.swap
              /\ status' = IF st.wild THEN "null_copy" ELSE status

-----------------------------------------------------------------------------
(* The operations of a library call.  `want' and `pos' are the loop        *)
(* variables startPageIndexForThread (spanPageIndex) and positionLoadTo;   *)
(* `by' is currentThreadId while the operation runs.                       *)
LoadAll(t, by) == [op |-> "all", tid |-> t, by |-> by, want |-> 1, pos |-> First,
                   lead |-> Dedicated, left |-> 0, again |-> FALSE]
LoadStack(t) == [LoadAll(t, t) EXCEPT !.op = "stack"]
LoadSpan(lead, header) ==
    [op |-> "span", tid |-> header.tid, by |-> header.tid, want |-> header.num + 1,
     pos |-> lead + 1, lead |-> lead, left |-> header.span - 1, again |-> FALSE]
Claims == [op : {"claim"}, tid : Owners, n : Nat \ {0}]
NewPages(t, n) == [op |-> "claim", tid |-> t, n |-> n]
LockAllBut(t) == [op |-> "lock", tid |-> t]

(* The frames of the loop's next pass: it starts again one frame late. *)
Pass(job) == IF job.again THEN First + 1 .. Last ELSE Frames

(* Bound: nothing is loaded past Last. *)
ToMove(job) ==
    {f \in Pass(job) : /\ PageOf(meta[f]) = <<job.tid, job.want>>
                       /\ f # job.pos /\ f # job.lead /\ job.pos \in Frames}

(* loadLibraryPages skips a frame that holds any page of the thread. *)
InPlace(job) == IF job.op = "all"
                THEN {f \in Pass(job) : f = job.pos /\ meta[f].tid = job.tid}
                ELSE {}

NextWantStuck(job) == job       \* a variant that never advances
NextWant(job) == [job EXCEPT !.want = @ + 1, !.pos = @ + 1, !.left = @ - 1, !.again = TRUE]

LastOneOfAny(job) ==            \* a variant: every loader stops after the stack
    \/ job.op # "span" /\ job.want + 1 > StackPages
    \/ job.op = "span" /\ job.left = 1
LastOne(job) == \/ job.op = "stack" /\ job.want + 1 > StackPages
                \/ job.op = "span" /\ job.left = 1

Continue(job) == IF LastOne(job) THEN Tail(todo) ELSE <<NextWant(job)>> \o Tail(todo)

LoaderSwap(job) ==
    LET hits == ToMove(job) \cup InPlace(job)
    IN  /\ hits # {} /\ Min(hits) \in ToMove(job)
        /\ Become(SwapPages(Store, Min(hits), job.pos, job.by))
        /\ todo' = Continue(job)
        /\ locked' = {}
        /\ UNCHANGED <<threads, given, handed>>

LoaderSkip(job) ==
    LET hits == ToMove(job) \cup InPlace(job)
    IN  /\ hits # {} /\ Min(hits) \in InPlace(job)
        /\ todo' = <<NextWant(job)>> \o Tail(todo)
        /\ locked' = {}
        /\ UNCHANGED <<meta, page, swap, threads, given, handed, status>>

LoaderEnds(job) ==
    /\ ToMove(job) \cup InPlace(job) = {}
    /\ todo' = Tail(todo)
    /\ locked' = {}
    /\ UNCHANGED <<meta, page, swap, threads, given, handed, status>>

Loader == /\ Head(todo).op \in {"all", "stack", "span"}
          /\ LET job == Head(todo) IN LoaderSwap(job) \/ LoaderSkip(job) \/ LoaderEnds(job)

(* lockAllButThread, and a variant that locks a reserved frame too. *)
LockedForReserved(t) == {f \in DOMAIN meta : meta[f].tid # t}
LockedFor(t) == {f \in Frames : meta[f].tid # t}

Lock == /\ Head(todo).op = "lock"
        /\ locked' = LockedFor(Head(todo).tid)
        /\ todo' = Tail(todo)
        /\ handed' = Nothing
        /\ UNCHANGED <<meta, page, swap, threads, given, status>>

(* The first number findFreePage gives to new pages of t, threadPageCount, *)
(* and a variant that counts from 0.                                       *)
PageCount(st, t) == Cardinality({f \in Frames : st.meta[f].tid = t})
NextNumberFromZero(st, t) == PageCount(st, t)
NextNumber(st, t) == PageCount(st, t) + 1

(* The n lowest free frames, as findFreePage meets them. *)
Lowest(S, n) == {f \in S : Cardinality({g \in S : g < f}) < n}
Rank(S, f) == Cardinality({g \in S : g < f})

ClaimIn(st, t, n) ==
    LET taken == Lowest(FreeFrames(st), n)
        num(f) == NextNumber(st, t) + Rank(taken, f)
    IN  /\ meta' = [f \in DOMAIN meta |->
                      IF f \in taken
                      THEN [tid |-> t, num |-> num(f), loc |-> f, span |-> n,
                            aux |-> Rank(taken, f) > 0]
                      ELSE st.meta[f]]
        /\ page' = [f \in DOMAIN page |-> IF f \in taken THEN <<t, num(f)>> ELSE st.page[f]]
        /\ swap' = st.swap
        /\ given' = given \cup {<<t, num(f)>> : f \in taken}
        /\ handed' = [addr |-> NextNumber(st, t), heap |-> NextNumber(st, t)]
        /\ todo' = IF n = 1 THEN Tail(todo)
                   ELSE <<LoadSpan(Min(taken), meta'[Min(taken)])>> \o Tail(todo)

(* The part of findFreePage that takes new pages. *)
Claim ==
    LET t == Head(todo).tid
        n == Head(todo).n
        enough == Cardinality(FreeFrames(Store)) >= n
        st == IF n = 1 /\ ~enough THEN Evict(Store, t) ELSE Store
    IN  /\ Head(todo) \in Claims
        /\ enough \/ (n = 1 /\ CanEvict(Store, t))
        /\ ClaimIn(st, t, n)
        /\ locked' = {}
        /\ UNCHANGED <<threads, status>>

(* No page to be had: malloc returns NULL, with everything unlocked. *)
ClaimFails ==
    /\ Head(todo) \in Claims
    /\ Cardinality(FreeFrames(Store)) < Head(todo).n
    /\ Head(todo).n > 1 \/ ~CanEvict(Store, Head(todo).tid)
    /\ todo' = <<>>
    /\ locked' = {}
    /\ UNCHANGED <<meta, page, swap, threads, given, handed, status>>

Library == status = "up" /\ todo # <<>> /\ (Loader \/ Lock \/ Claim \/ ClaimFails)

-----------------------------------------------------------------------------
(* What the running thread does.  It makes one call at a time, and starts  *)
(* the next when the last one has nothing left to do.                      *)
InThread == status = "up" /\ todo = <<>>

PagesOf(t) == {f \in Frames : meta[f].tid = t}

(* Bound: a span that starts at `lead' ends inside the frames modelled. *)
SpanFits(lead, n) == lead + n - 1 <= Last

(* malloc locks the pages of others again, but for the very first call,    *)
(* which returns right after the memory is set up.                         *)
RelockNever(t) == <<>>          \* a variant that never locks again
Relock(t) == IF created = {} /\ FreeFrames(Store) = Frames THEN <<>> ELSE <<LockAllBut(t)>>

(* A malloc that no page of the thread has room for. *)
Malloc(n) ==
    /\ InThread
    /\ Cardinality(PagesOf(running)) + n + (IF created = {} THEN StackPages ELSE 0) <= MaxPages
    /\ \A f \in Lowest(FreeFrames(Store), 1) : SpanFits(f, n)
    /\ todo' = <<NewPages(running, n)>> \o Relock(running)
    /\ locked' = {}
    /\ UNCHANGED <<meta, page, swap, threads, given, handed, status>>

(* A malloc served by the page in frame f.  The address it returns counts  *)
(* the thread's pages in the order of their frames; the heap is the one of *)
(* the page itself.  Bound: the request is for no more pages than the span *)
(* has, though a span all of it is asked for counts as one page more.      *)
MallocIn(f, n) ==
    /\ InThread
    /\ meta[f].tid = running /\ ~meta[f].aux /\ n <= meta[f].span
    /\ n = 1 \/ SpanFits(f, MaxPages)
    /\ handed' = [addr |-> Cardinality({g \in PagesOf(running) : g <= f}), heap |-> meta[f].num]
    /\ todo' = (IF n = 1 THEN <<>> ELSE <<LoadSpan(f, meta[f])>>) \o <<LockAllBut(running)>>
    /\ locked' = {}
    /\ UNCHANGED <<meta, page, swap, threads, given, status>>

(* PageFaultHandlerFunction.  What findPageForThreadGivenPageNum does not  *)
(* find in memory it does not find in the swap file either.                *)
Fault(v) ==
    /\ InThread
    /\ <<running, v>> \in given /\ FrameOf(v) \in locked
    /\ LET homes == {f \in Frames : PageOf(meta[f]) = <<running, v>>}
       IN  \/ /\ homes = {} /\ Found(swap, <<running, v>>) = {}
              /\ status' = "killed"
              /\ UNCHANGED <<meta, page, locked, swap, todo>>
           \/ \E from \in Lowest(homes, 1) :
                 /\ Become(SwapPages(Store, from, FrameOf(v), running))
                 /\ todo' = <<LockAllBut(running)>>
                 /\ locked' = {}
    /\ UNCHANGED <<threads, given, handed>>

(* myfree of a chunk of page v: it puts the thread's pages in place, and   *)
(* returns without locking any.                                            *)
Free(v) ==
    /\ InThread
    /\ v \in Freed /\ <<running, v>> \in {PageOf(meta[f]) : f \in Frames}
    /\ todo' = <<LoadAll(running, running)>>
    /\ locked' = {}
    /\ UNCHANGED <<meta, page, swap, threads, given, handed, status>>

(* Bound: the library's data stays on one page, and what the library does  *)
(* when that page was evicted is not modelled.                             *)
LibraryResident == created = {} \/ PagesOf(Lib) # {}

(* mypthread_create of thread u. *)
LibraryMalloc == IF PagesOf(Lib) = {} THEN <<NewPages(Lib, 1)>> ELSE <<>>
NewStack(t) == <<NewPages(t, StackPages - 1), NewPages(t, 1), LoadAll(t, t)>>

(* What the first create asks for main.  The stack has pages of its own    *)
(* (bound: main has freed no span as long); the context may find room on a *)
(* page that main has already.                                             *)
MainStacks ==
    {NewStack(Main)} \cup
    {q \in {<<NewPages(Main, StackPages - 1), LoadAll(Main, Main)>>} : PagesOf(Main) # {}}

CreateWith(u, stack) ==
    todo' = LibraryMalloc \o <<LoadAll(Lib, u)>> \o NewStack(u) \o <<LoadAll(Lib, u)>>
            \o (IF created = {}
                THEN stack \o <<LoadAll(Lib, Lib), LoadAll(Main, Main), LoadAll(Lib, Main)>>
                ELSE <<LoadAll(Lib, u)>>)
            \o <<LoadStack(running), LockAllBut(running)>>

Create(u) ==
    /\ InThread
    /\ u \in Others \ created /\ LibraryResident
    /\ (IF created = {} THEN 2 * StackPages + 1 ELSE StackPages) <= Cardinality(FreeFrames(Store))
    /\ \E stack \in MainStacks : CreateWith(u, stack)
    /\ created' = created \cup {u, Main}
    /\ locked' = {}
    /\ UNCHANGED <<meta, page, swap, running, switched, given, handed, status>>

(* What is loaded and locked when thread r is left for u. *)
Switch(r, u) ==
    (IF switched THEN <<LoadAll(Lib, r)>> ELSE <<>>)
    \o <<LoadStack(r), LoadAll(Lib, r), LoadStack(u), LockAllBut(u)>>

(* The switch from the running thread to u: mypthread_yield, also the      *)
(* handler of the timer, and schedule.  The first one leaves main.         *)
Dispatch(u) ==
    /\ InThread
    /\ u \in created /\ LibraryResident
    /\ todo' = Switch(running, u)
    /\ running' = u /\ switched' = TRUE
    /\ locked' = {}
    /\ UNCHANGED <<meta, page, swap, created, given, handed, status>>

Init == /\ meta = [f \in Frames \cup {Dedicated} |->
                      IF f = Dedicated
                      THEN ReservedHeader ELSE EmptyHeader(0)]
        /\ page = [f \in Frames \cup {Dedicated} |-> Nobody]
        /\ locked = {} /\ swap = NewFile
        /\ running = Main /\ created = {} /\ switched = FALSE
        /\ todo = <<>>
        /\ given = {} /\ handed = Nothing
        /\ status = "up"

Next == \/ Library
        \/ \E n \in Requests : Malloc(n)
        \/ \E f \in Frames, n \in Requests : MallocIn(f, n)
        \/ \E v \in 1 .. MaxPages : Fault(v) \/ Free(v)
        \/ \E u \in Threads : Create(u) \/ Dispatch(u)

Spec == Init /\ [][Next]_vars

-----------------------------------------------------------------------------
PageNames == (Owners \cup {NoOwner, Reserved}) \X Int
Header == [tid : Owners \cup {NoOwner, Reserved}, num : Int, loc : Int, span : Int,
           aux : BOOLEAN]
Loaders == [op : {"all", "stack", "span"}, tid : Owners, by : Owners, want : Int,
            pos : First .. Last + 1, lead : Int, left : Int, again : BOOLEAN]
Locks == [op : {"lock"}, tid : Threads]

(* The types of the state: headers for every frame, jobs that load to a    *)
(* frame or just behind the last, and no lock ever on the reserved frames, *)
(* which the library reads at any time.                                    *)
TypeOK ==
    /\ meta \in [Frames \cup {Dedicated} -> Header]
    /\ page \in [Frames \cup {Dedicated} -> PageNames]
    /\ locked \subseteq Frames
    /\ swap \in Seq(Slots(PageNames))
    /\ running \in Threads /\ created \subseteq Threads /\ switched \in BOOLEAN
    /\ todo \in Seq(Loaders \cup Claims \cup Locks)
    /\ given \subseteq Owners \X Int /\ handed \in [addr : Int, heap : Int]
    /\ status \in {"up", "killed", "null_copy"}

(* A header that names an owner says the frame it describes: swapPages and *)
(* the fault handler find a frame by that field (findPageGivenPageNum).    *)
AtHome == \A f \in Frames : meta[f].loc = f \/ (meta[f].loc = 0 /\ meta[f].tid = NoOwner)

(* The bytes in a frame are those of the page its header names, through    *)
(* every copy that swapPages and evictPageToSwapFile make.                 *)
ContentFollows == \A f \in Frames : meta[f].tid # NoOwner => page[f] = PageOf(meta[f])

(* Without the swap file, every page given out is in exactly one frame: no *)
(* sequence of moves loses a page or leaves two copies.                    *)
EachPageOnce == \A p \in given : Cardinality({f \in Frames : PageOf(meta[f]) = p}) = 1

(* Without the swap file, the pages of an owner are numbered from 1 on     *)
(* with no gap: a thread's addresses are contiguous.                       *)
Numbered == \A t \in Owners : {meta[f].num : f \in PagesOf(t)} = 1 .. Cardinality(PagesOf(t))

(* While a thread runs, the pages of the others are locked                 *)
(* (lockAllButThread), however mallocs that succeed, creates, switches and *)
(* faults follow each other.                                               *)
Isolated == todo = <<>> => \A f \in Frames \ locked : meta[f].tid \in {running, NoOwner}

(* loadLibraryPages leaves every page of its owner at its own address.     *)
LoadedInPlace ==
    [][todo # <<>> /\ Head(todo).op = "all" /\ todo' = Tail(todo)
       => \A f \in PagesOf(Head(todo).tid) : f = FrameOf(meta[f].num)]_vars

(* As long as writeDataToSwap finds a slot, no step drops a page: what was *)
(* in memory is in memory still or is written to the swap file.            *)
InMemory == {PageOf(meta[f]) : f \in {g \in Frames : meta[g].tid # NoOwner}}
KeptWhileRoom ==
    [][CanWrite(swap) => InMemory \subseteq InMemory' \cup Recorded(swap')]_vars

(* Although records overlap and start at odd places, the header of a       *)
(* record that starts on its slot is never written over: the scan reads a  *)
(* byte of the id there, and the record before it was written earlier.     *)
AlignedHeadersStay ==
    [][\A i \in DOMAIN swap :
         swap[i].page # NoPage /\ ~swap[i].shifted
           => /\ i \in DOMAIN swap'
              /\ swap'[i].page = swap[i].page /\ ~swap'[i].shifted]_vars

(* Every step of the library brings its call closer to the end: the loops  *)
(* that start over at RESERVED_PAGES after each page they load do not go   *)
(* on for ever.                                                            *)
Weight(job) == IF job \in Claims THEN Last + 3
               ELSE IF job.op = "lock" THEN 1
               ELSE Last + 2 - job.pos
Nearer(done, left) == \/ Len(done) < Len(left)
                      \/ Len(done) = Len(left) /\ Weight(Head(done)) < Weight(Head(left))
LibraryProgress == [][status = "up" /\ todo # <<>> => Nearer(todo', todo)]_vars

(* An access that does not fault reaches the page its address stands for   *)
(* (the tests: "Page fault occurs, but data is still there").              *)
TouchesOwn ==
    InThread => \A p \in given :
                   p[1] = running /\ FrameOf(p[2]) \notin locked => page[FrameOf(p[2])] = p

(* malloc returns an address in the page whose heap holds the chunk        *)
(* ("should be based on the location relative to the thread").             *)
AddressOnItsHeap == handed.addr = handed.heap

(* A thread that touches a page it was given is not ended for it: what is  *)
(* not in memory is found in the swap file ("Now search the swap file for  *)
(* the page").                                                             *)
Survives == status # "killed"
=============================================================================
