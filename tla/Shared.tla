-------------------------------- MODULE Shared --------------------------------
(***************************************************************************)
(* shalloc of umalloc.c: the heap in the shared pages, which every thread  *)
(* reaches, and the globals through which shalloc and mymalloc tell the    *)
(* common function findFreeChunk whose request it serves.  shalloc starts  *)
(* the timer before it calls findFreeChunk, so another thread can get in   *)
(* between; the places where it matters are the steps of a shalloc, named  *)
(* by at.  mymalloc and myfree run with the timer stopped, one step each.  *)
(*                                                                         *)
(* The heap is a heap of ChunkHeap, over all the shared pages.  What a     *)
(* mymalloc finds in the caller's own pages is left open: only the kind of *)
(* the address it returns is kept.  The usage of the shared pages is       *)
(* written and never read, and is left out.                                *)
(***************************************************************************)
EXTENDS Integers

CONSTANTS Main,        \* MAINID
          Others,      \* the threads made by mypthread_create
          PageSize,    \* PAGE_SIZE
          SharedPages, \* SHARED_PAGES
          HS,          \* HEADER_SIZE
          UShorts,     \* the values of an unsigned short, which sizeOfChunk is
          Sizes,       \* the sizes asked of shalloc
          Requests,    \* the page counts of the mallocs, PAGES_FOR_MALLOC
          Inside,      \* the steps of a shalloc at which the timer may expire
          MaxCuts      \* bound: how often it expires there

Threads == {Main} \cup Others
Steps == {"search", "found", "taken"}
Upper == PageSize * SharedPages

SharedAssumption ==
    /\ Main \notin Others
    /\ PageSize \in Nat /\ SharedPages \in Nat /\ HS \in Nat \ {0} /\ HS < PageSize
    /\ 0 < SharedPages /\ UShorts \in Nat /\ Upper < UShorts
    /\ Sizes \subseteq Nat /\ Requests \subseteq Nat \ {0}
    /\ Inside \subseteq Steps /\ MaxCuts \in Nat
ASSUME SharedAssumption

VARIABLES chunks,    \* the headers in the shared pages, none before shallocInitialized
          flag,      \* isthisashalloc
          pages,     \* PAGES_FOR_MALLOC
          started,   \* schedulerInitialized
          timer,     \* the interval timer runs
          running,   \* the thread that has the processor
          at,        \* where each thread is in a shalloc
          given,     \* the shared blocks in the hands of threads
          handed,    \* the kind of address returned last
          cuts       \* history: expiries of the timer inside a shalloc

control == <<started, running, cuts>>
vars == <<chunks, flag, pages, timer, control, at, given, handed>>

(* The kinds of address: inside the shared pages; by the page numbers of   *)
(* the caller; in the frame where a page of the caller happens to be; by   *)
(* page number, but of a chunk that is in the shared pages.                *)
Kinds == {"null", "shared", "relative", "raw", "misplaced"}

User == [pc |-> "user", size |-> 0, head |-> 0, bound |-> 0]

(* The shared pages, as one heap that long: what ChunkHeap says of a page. *)
(* The instance's usage, result and spilled are not looked at here.        *)
Heap == INSTANCE ChunkHeap WITH
            heap <- chunks, PageSize <- Upper, Span <- 1, PageHS <- 0, ShortMax <- Upper,
            usage <- 0, result <- "none", spilled <- FALSE

InUser == at[running] = User
interrupted == cuts > 0
Is(pc) == at[running].pc = pc
Size == at[running].size
Found == at[running].head
Bound == at[running].bound
Goto(pc, head, bound) ==
    at' = [at EXCEPT ![running] = [pc |-> pc, size |-> Size, head |-> head, bound |-> bound]]
Returns(kind) == at' = [at EXCEPT ![running] = User] /\ handed' = kind

-----------------------------------------------------------------------------
(* shalloc refuses a size that no shared page can hold, and leaves the     *)
(* timer stopped.                                                          *)
TooLarge(size) == size < 1 \/ size > Upper - HS

ShallocRefuses(size) ==
    /\ InUser /\ TooLarge(size)
    /\ pages' = SharedPages
    /\ timer' = FALSE
    /\ Returns("null")
    /\ UNCHANGED <<chunks, flag, control, given>>

(* makeShallocPages, on the first call, and a variant that forgets the     *)
(* header.                                                                 *)
OneFreeChunkLong == [h \in {0} |-> [free |-> TRUE, size |-> Upper, prev |-> 0]]
OneFreeChunk == [h \in {0} |-> [free |-> TRUE, size |-> Upper - HS, prev |-> 0]]
Initialized == DOMAIN chunks # {}

(* shalloc up to the call of findFreeChunk, with the timer running. *)
ShallocStarts(size) ==
    /\ InUser /\ ~TooLarge(size)
    /\ pages' = SharedPages
    /\ chunks' = IF Initialized THEN chunks ELSE OneFreeChunk
    /\ flag' = TRUE
    /\ timer' = started
    /\ at' = [at EXCEPT ![running] = [pc |-> "search", size |-> size, head |-> 0, bound |-> 0]]
    /\ UNCHANGED <<control, given, handed>>

(* The bound of the walk, UPPERBOUND, and a variant that is one page.      *)
OnePageBound == PageSize
WalkBound == PageSize * pages

Fits(h) == /\ h \in DOMAIN chunks /\ h < WalkBound
           /\ chunks[h].free /\ chunks[h].size >= Size
FirstFit(h) == Fits(h) /\ \A g \in DOMAIN chunks : Fits(g) => h <= g

(* findFreeChunk walks to the first chunk that fits.  If another call has  *)
(* cleared the flag it first calls loadSpan for the shared pages, which    *)
(* moves nothing: no shared page has the page number 2 that it looks for.  *)
SearchFinds ==
    /\ Is("search")
    /\ \E h \in DOMAIN chunks : FirstFit(h) /\ Goto("found", h, WalkBound)
    /\ UNCHANGED <<chunks, flag, pages, timer, control, given, handed>>

(* It returns NULL, and the flag stays set.                                *)
SearchFails ==
    /\ Is("search")
    /\ \A h \in DOMAIN chunks : ~Fits(h)
    /\ Returns("null")
    /\ UNCHANGED <<chunks, flag, pages, timer, control, given>>

(* The chunk that was found, whose header is old, cut for the request: the *)
(* rest is written to an unsigned short.  A header at the bound or past it *)
(* is not told the size of the chunk before it.                            *)
Cut(old) ==
    LET n == Found + Size + HS
        rest == (old.size - Size - HS) % UShorts
        after == n + HS + rest
    IN  [o \in DOMAIN chunks \cup {Found, n} |->
            IF o = Found THEN [free |-> FALSE, size |-> Size, prev |-> old.prev]
            ELSE IF o = n THEN [free |-> TRUE, size |-> rest, prev |-> Size]
            ELSE IF o = after /\ after < Bound THEN [chunks[o] EXCEPT !.prev = rest]
            ELSE chunks[o]]

(* The rest is worth a header: compared as unsigned, one below zero is.    *)
Splits(old) == old.size < Size \/ old.size - Size > HS

Marked(old) == [o \in DOMAIN chunks \cup {Found} |->
                   IF o = Found THEN [old EXCEPT !.free = FALSE] ELSE chunks[o]]

(* A variant that forgets to mark the chunk. *)
TakenUnmarked(old) == IF Splits(old) THEN Cut(old) ELSE chunks
Taken(old) == IF Splits(old) THEN Cut(old) ELSE Marked(old)

(* The chunk that was found, if it is a chunk still and large enough. *)
Usable == \E h \in DOMAIN chunks : h = Found /\ chunks[h].size >= Size

Take ==
    /\ Is("found") /\ Usable
    /\ chunks' = Taken(chunks[Found])
    /\ Goto("taken", Found, Bound)
    /\ UNCHANGED <<flag, pages, timer, control, given, handed>>

(* It has become smaller since the walk, or was merged away, and then its  *)
(* header is whatever bytes are there now.                                 *)
Leftovers == IF Found \in DOMAIN chunks THEN {chunks[Found]}
             ELSE [free : {TRUE}, size : 0 .. UShorts - 1, prev : {0}]

(* The code takes it all the same: it may write a size below zero as a     *)
(* large one, or headers into the middle of another chunk.  The walks and  *)
(* calls that meet them are not followed: nothing happens after this.      *)
TakeWild ==
    /\ Is("found") /\ ~Usable
    /\ \E old \in Leftovers : chunks' = Taken(old)
    /\ Goto("lost", Found, Bound)
    /\ UNCHANGED <<flag, pages, timer, control, given, handed>>

(* A variant of ReturnShared that leaves the flag set. *)
ReturnSharedFlagged ==
    /\ Is("taken") /\ flag
    /\ timer' = started
    /\ given' = given \cup {[by |-> running, at |-> Found + HS, len |-> Size]}
    /\ Returns("shared")
    /\ UNCHANGED <<chunks, flag, pages, control>>

(* findFreeChunk returns the chunk itself if the flag is set, and a place  *)
(* in the pages of the caller if another call has cleared it.              *)
ReturnShared ==
    /\ Is("taken") /\ flag
    /\ flag' = FALSE
    /\ timer' = started
    /\ given' = given \cup {[by |-> running, at |-> Found + HS, len |-> Size]}
    /\ Returns("shared")
    /\ UNCHANGED <<chunks, pages, control>>

ReturnMisplaced ==
    /\ Is("taken") /\ ~flag
    /\ Returns("misplaced")
    /\ UNCHANGED <<chunks, flag, pages, timer, control, given>>

Shalloc == \/ \E size \in Sizes : ShallocRefuses(size) \/ ShallocStarts(size)
           \/ SearchFinds \/ SearchFails \/ Take \/ TakeWild
           \/ ReturnShared \/ ReturnMisplaced

-----------------------------------------------------------------------------
(* A mymalloc for n pages that a page of the caller serves, taken for a    *)
(* shalloc if the flag is set.                                             *)
MallocServed(n) ==
    /\ InUser
    /\ pages' = n
    /\ flag' = FALSE
    /\ timer' = started
    /\ Returns(IF flag THEN "raw" ELSE "relative")
    /\ UNCHANGED <<chunks, control, given>>

(* findFreePage has no page for it: the timer stays stopped. *)
MallocNoPage(n) ==
    /\ InUser
    /\ pages' = n
    /\ timer' = FALSE
    /\ Returns("null")
    /\ UNCHANGED <<chunks, flag, control, given>>

(* The page it found has no chunk for it. *)
MallocNoChunk(n) ==
    /\ InUser
    /\ pages' = n
    /\ timer' = started
    /\ Returns("null")
    /\ UNCHANGED <<chunks, flag, control, given>>

Malloc(n) == MallocServed(n) \/ MallocNoPage(n) \/ MallocNoChunk(n)

(* myfree of a shared block, by any thread: the timer stays stopped.       *)
InShared(p) == p >= HS /\ p < Upper
Used(h) == h \in DOMAIN chunks /\ ~chunks[h].free

(* A variant that does not merge with the chunk on the right. *)
FreedChunksLeftOnly(h) == Heap!FreedLeft(h)
FreedChunks(h) == Heap!FreedBoth(h)

Free(p) ==
    /\ InUser /\ InShared(p)
    /\ p \in {b.at : b \in given}
    /\ chunks' = IF Used(p - HS) THEN FreedChunks(p - HS) ELSE chunks
    /\ given' = {b \in given : b.at # p}
    /\ timer' = FALSE
    /\ UNCHANGED <<flag, pages, control, at, handed>>

(* The first mypthread_create: the scheduler's stack and context are the   *)
(* first mallocs in it, and take the flag if a shalloc left it set.        *)
StartScheduler ==
    /\ ~started /\ InUser
    /\ started' = TRUE
    /\ pages' = 1 /\ flag' = FALSE /\ timer' = TRUE
    /\ UNCHANGED <<chunks, running, cuts, at, given, handed>>

(* A yield, or the timer expires: between calls, or inside a shalloc.      *)
Switch(u) ==
    /\ started
    /\ InUser \/ (timer /\ at[running].pc \in Inside /\ cuts < MaxCuts)
    /\ running' = u /\ timer' = TRUE
    /\ cuts' = IF InUser THEN cuts ELSE cuts + 1
    /\ UNCHANGED <<chunks, flag, pages, started, at, given, handed>>

Init == /\ chunks = [h \in {} |-> 0]
        /\ flag = FALSE /\ pages = 0
        /\ started = FALSE /\ timer = FALSE /\ running = Main
        /\ cuts = 0
        /\ at = [t \in Threads |-> User]
        /\ given = {} /\ handed = "null"

Next == \/ Shalloc
        \/ \E n \in Requests : Malloc(n)
        \/ \E p \in {b.at : b \in given} : Free(p)
        \/ StartScheduler
        \/ \E u \in Threads \ {running} : Switch(u)

Spec == Init /\ [][Next]_vars

-----------------------------------------------------------------------------
(* The types of the state; of the chunks and the blocks, until a shalloc   *)
(* is interrupted: the chunks tile the shared pages and the blocks are in  *)
(* them.                                                                   *)
TypeOK ==
    /\ Initialized /\ ~interrupted =>
         /\ Heap!Tiled
         /\ \A h \in DOMAIN chunks : chunks[h] \in Heap!HeaderFields
         /\ \A b \in given : b.by \in Threads /\ InShared(b.at) /\ b.len \in Sizes
    /\ flag \in BOOLEAN /\ started \in BOOLEAN /\ timer \in BOOLEAN
    /\ pages \in Requests \cup {0, 1, SharedPages}
    /\ running \in Threads
    /\ at \in [Threads -> [pc : Steps \cup {"user", "lost"}, size : Sizes \cup {0},
                           head : Nat, bound : Nat]]
    /\ handed \in Kinds

(* The heap that all threads share stays one whole: its links lead back,   *)
(* and no two free chunks are neighbours, however the calls of the threads *)
(* follow each other, unless the timer expires inside a shalloc.           *)
SharedHeapWhole ==
    Initialized /\ ~interrupted => Heap!PrevCoherent /\ Heap!NoAdjacentFree

(* Until a shalloc is interrupted, the blocks it gives to the threads are  *)
(* blocks of one allocator: disjoint, within the shared pages, released    *)
(* one at a time.                                                          *)
Blocks == {[at |-> b.at, len |-> b.len] : b \in given}
Abstract == INSTANCE Allocator WITH Space <- Upper, live <- Blocks
AllocatesDisjoint == [][interrupted' \/ Blocks' = Blocks \/ Abstract!Next]_vars

(* No two threads are given bytes in common ("Pointer is different across  *)
(* threads").                                                              *)
BlocksDisjoint ==
    \A b, c \in given : b # c => b.at + b.len <= c.at \/ c.at + c.len <= b.at

(* isthisashalloc outlives a call only if the last call that returned an   *)
(* address returned NULL: wherever the timer expires, a malloc gets an     *)
(* address of the wrong kind only inside another's shalloc or after a      *)
(* failure.                                                                *)
FlagLeftByFailure ==
    flag /\ (\A t \in Threads : at[t] = User) => handed = "null"

(* Until a shalloc is interrupted, one that is refused is for a size that  *)
(* no free chunk has, on whichever shared page.                            *)
RefusesOnlyWhatFitsNowhere ==
    [][~interrupted /\ Is("search") /\ at'[running] = User
         => \A h \in DOMAIN chunks : chunks[h].free => chunks[h].size < Size]_vars
=============================================================================
