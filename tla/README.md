# Verification of the thread and memory library

This directory models the user-level thread library of this repository
(`src/mypthread.c`, `src/umalloc.c` and their headers) in TLA+, checks the
models with TLC, and proves theorems about them with TLAPS.

Every definition follows the C code. A definition's source lines are in
`PROJECT.json` under `map`; variants of a definition (`...NoRelink`,
`...LeavesHeader`, the comments say which) are plausible mistakes that the
properties are known to detect, and are not part of any specification.

## 1. The system

Threads are `ucontext_t` contexts in one process. A periodic timer
(`setitimer` with an interval, `mypthread.c:2246-2247`, SIGALRM) preempts them;
the functions that start and stop it do nothing before the scheduler exists. All
threads see the same 8 MB heap at the
same addresses: the heap is a row of 2048 page frames, and a thread's page
number *n* has to sit in frame `RESERVED_PAGES + n - 1` when the thread touches
it. `mprotect` keeps a thread off other threads' frames, and the SIGSEGV handler
brings the right page in. When the frames run out, single pages go to a swap
file.

| component | state | operations | interacts with |
|---|---|---|---|
| chunk heap (`findFreeChunk`, `coalesce`, `myfree`) | headers `header_t` in a page or a span, `usage` in the page's metadata | malloc in a chosen page, free | the frames: `findFreePage` chooses the page by `usage` and span |
| page frames (`findFreePage`, `swapPages`, loaders, `lockAllButThread`, fault handler, `evictPageToSwapFile`) | `page_header_t` per frame, bytes of the frames, protection, swap file | malloc of new pages, load a thread/a stack/a span/the library, lock, fault, evict | every library call loads and locks pages; `currentThreadId` comes from the threads |
| swap file layout (`writeDataToSwap`, `swapFindOnPageNum`) | slots of a file | write, find, read back | eviction, the dedicated frame and faults |
| shared and scheduler pages (`shalloc`, `findSchedulerPages`) | a heap in four pages at the end, three pages for the scheduler, `isthisashalloc`, `PAGES_FOR_MALLOC` | `shalloc`, free in a shared page | shares `findFreeChunk` and the globals that steer it with `mymalloc`; no move touches these pages |
| threads: run queue and PSJF scheduler | `runQueueHead`, control blocks, contexts, timer, `areWeInTheLibraryQuestionMark` | create, yield, timer expiry, schedule | one processor; the scheduler grants mutexes and completes joins |
| mutexes | flag, owner, `mutexQueueList` of *copies* of control blocks | init, lock, unlock, destroy | the scheduler gives a mutex to a waiter |
| join and exit | `waitingToEnd`, `joinReturnLocation`, `exitValues` | join, exit | the run queue |
| round robin, MLFQ | – | – | never chosen: `mypthread.c:39` sets PSJF and nothing changes it |
| clean-up, debug output, unit tests | – | – | – |

Behaviours that are hard here: the timer may expire between any two statements,
also inside the library, whose loaders and locks start it again
(`umalloc.c:2148, 2375, 2439`); the scheduler saves the running execution in the
context of the head of the queue, which need not be the thread that runs; the
waiting list holds copies that must be dropped at the right time; moves of pages
chain through a spare frame; headers hold a copy of their own position;
`usage` and page counts are caches; the bound of a walk is computed from the
request and not from the heap; records of the swap file are longer than the slots
they are written at; `shalloc` starts the timer before it searches, so another
thread may search and change the same heap half-way.

What makes each component correct:

* *chunk heap*: chunks tile the heap; every `prev` leads to the left neighbour;
  no two free neighbours; a request is refused only if nothing fits; callers'
  blocks are disjoint and keep their place; the walk stays in its heap;
* *page frames*: a page is in one place; headers tell the truth about position
  and bytes; a running thread reaches only its own pages, and an address reaches the
  page it was given for; nothing is lost while the swap file has room; the loader
  loops end;
* *swap file*: a record that was written keeps the header it is found by;
* *shared pages*: one heap for all threads, blocks of different threads disjoint;
  the flag that says "this is a shalloc" does not outlive the call;
* *threads*: mutual exclusion; flag, owner, control blocks and waiting list
  agree; mutexes are given in the order of arrival; a join returns after the end
  of its thread and with its value; a context holds its own thread; a finite
  program ends.

## 2. Modules

| module | models |
|---|---|
| `Allocator` | the abstract promise of malloc and free on one heap |
| `ChunkHeap` | one heap in detail; refines `Allocator` |
| `ChunkHeapProofs` | theorems about `ChunkHeap`, for all constants |
| `SwapFile` | the slots of the swap file, as operators |
| `Paging` | frames, loaders, locks, faults, eviction; extends `SwapFile` |
| `PagingProofs` | theorems about the store of frames |
| `PagingStepProofs` | theorems about calls, the swap file and what steps keep |
| `PagingRoomProofs` | where every page is, how it is numbered and locked, with room for all |
| `Shared` | `shalloc` and its shared heap, an instance of `ChunkHeap`, under the timer |
| `SharedProofs` | theorems about `Shared`; uses the lemmas of `ChunkHeapProofs` |
| `Threads` | run queue, scheduler, mutexes, join, exit, preemption |
| `ThreadsListProofs` | lemmas on the queue and the waiting list |
| `ThreadsProofs` | the inductive invariant of `Threads` and its theorems |
| `MCChunkHeap`, `MCPaging`, `MCShared`, `MCThreads` | instances for TLC |

### ChunkHeap

`heap` maps header offsets to `[free, size, prev]`, `usage` is the `short` of
`page_header_t` (`Short` truncates as the C assignment does). `Malloc(size)` is
a `mymalloc` whose `findFreePage` found this heap (`Selected`): first fit, split
when more than a header is left (`MallocSplit`), else the whole chunk
(`MallocWhole`), else NULL (`MallocFails`). `UpperBound(size)` is the C variable
`UPPERBOUND`, a function of the request; where it lies past the heap the walk goes on
in the next frame and may take a chunk there (`MallocOutside`). The page that is
charged is the one that the ordinal `Thread_Page_Index` names (`umalloc.c:157, 169,
832`), which after moves of pages need not be the one that was cut: a malloc of this
page may leave its `usage` alone (`Charge`), and one of another page may lower it
(`MallocElsewhere`). `Free(p)` is `myfree` of any pointer: the header must be found by
a walk, free chunks are reported as double frees, others coalesce to the left and then
to the right. `spilled` records that the walk went past the heap. The bytes of blocks
are left out; so is a pointer to a page that nobody was given, where `myfree` reads a
header that it has not set (`umalloc.c:456`). `HeapAssumption` asks for a heap that a
`short` can describe: spans of up to 7 pages.

### Paging

Frames are numbered from `RESERVED_PAGES`. A *store* is what moves change:
headers, bytes (the name of the page the bytes were written for), swap file.
`SwapPages` is `swapPages` with its room-making, its spare frame and the
dedicated frame; `Fault` is `PageFaultHandlerFunction`. A call puts its operations
in the queue `todo` and `Library` executes them one by one, without interruption: an
iteration of a loader (`LoaderSwap`, `LoaderSkip`, `LoaderEnds`), a lock, a claim of
new pages. What is evicted goes to a file of `SwapFile`. `Create`, `Dispatch` (yield,
timer and `schedule`), `Malloc`, `MallocIn` (a page that is there already), `Free` and
`Fault` are what the running thread does.

Abstractions and bounds: the timer does not expire inside a library call, although
`loadLibraryPages`, `lockAllButThread` and `loadThreadStack` start it while the call
has more to do (`umalloc.c:2148, 2375, 2439`); `Threads` looks at what that does to the
threads, and what it does to a half-loaded memory is not followed. The calls that
return without putting the caller's pages back are left out (the errors of join,
`mypthread.c:563-577`, `651-661`, and the return of exit, `:536-548`), and so is what a
worker's create does to the stack it runs on, whose pages the loaders move
(`:158, 186, 199, 345`). The library's own data stays on one page, and what follows its
eviction is not modelled (`LibraryResident`); spans end within the frames modelled and
nothing is loaded past the last one; a request of *n* pages is served by a span of at
least *n*; main's stack is on pages of its own, its context on one of them or on a page
main had before (`MainStacks`); a create that runs out of frames is not modelled, nor
the loads of the mutex calls; accesses that do not fault change nothing; a page that is
not in memory is never found in the swap file (`swapFindOnPageNum` compares the address
of a buffer, `umalloc.c:2676`), so `putPageAndMetaInMemory` is never reached.

### SwapFile

A file is the sequence of its slots up to the last record. `writeDataToSwap` scans
slots of `PAGE_SIZE` bytes and writes records of a page and 8 bytes
(`sizeof(PAGE_HEADER_SIZE)` is the size of a size), so a record ends inside the
next slot. `ReadsZero` is the one byte the scan looks at: in the header of a
record that starts on its slot it is the low byte of a thread id, which is not 0;
in a record written one byte early (`shifted`, after a read past the end of the
file steps back a byte it never read) it is the high byte, which is; behind the
last record it belongs to the tail of that record's page, which is not 0 for the
owners in `Dense`, who fill their pages. `Written` is the write in its three
cases: over a shifted record, behind the last one (whose end it overwrites,
`whole`), one byte early after a skipped slot. `Found` is empty, for the reason
above.

### Shared

`chunks` is the heap in the shared pages; `Heap` is `ChunkHeap` with a heap as
long as all of them. `flag`, `pages`, `started`, `timer` are `isthisashalloc`,
`PAGES_FOR_MALLOC`, `schedulerInitialized` and whether the timer runs. A shalloc is
a chain of actions, and `at[t]` says where the thread is: `ShallocRefuses` or
`ShallocStarts` (with `makeShallocPages` on the first call, and the timer started),
`SearchFinds` or `SearchFails` (the walk to the first fit), `Take` (split or mark),
or `TakeWild` if the chunk changed meanwhile, `ReturnShared` or `ReturnMisplaced`
(which of the two addresses `findFreeChunk` computes depends on the flag, which
another call may have cleared). `mymalloc` and `myfree` run with the timer stopped
and are one step. `Switch` is a yield or an expiry: `Inside` says at which steps of
a shalloc it may happen, `MaxCuts` how often, and `cuts` counts. `given` is history:
the blocks handed out and by whom.

`Taken` is the code's own test, on unsigned sizes: a chunk that has become smaller than
the request since the walk is cut all the same, and the rest is written modulo
`UShorts`; of a chunk that was merged away the header reads as whatever bytes are there
(`Leftovers`). That step is the last one (`lost`): nothing is said of the chunks after
an interruption, neither checked nor proved.

Abstractions: what a `mymalloc` finds in the caller's own pages is left open (found,
no page, no chunk), only the kind of address it returns is kept; the `loadSpan` that
`findFreeChunk` calls when another call has cleared the flag (`umalloc.c:95-111`) moves
nothing, since no page has the number after that of a shared page (-5, `:1057`); the
`usage` of the shared pages is never read.

### Threads

`queue`, `tcb`, `mutex`, `waitList`, `lib`, `timer` are the globals of
`mypthread.c`; `me` is `runQueueHead`, `running` the thread whose code
executes, `context` whose execution a saved context holds. They differ in the
code, and so here. A call whose statements another thread can get between is a
chain of actions and `at[t]` says where the thread is:

* lock: `Lock`, then `LockTaken` tests and sets the flag; if it was clear, `LockChecked`
  reads the owner, `LockOwned` writes it, `LockNamed` the control block and the flag
  again (or `LockOverrides`); if it was set, `LockAgain` returns an error, or
  `LockBusy` writes the control block, `LockLined` the list, and `LockWaits` yields;
  `LockReturns`; `LockNull` is the call with NULL;
* unlock, by whoever calls it: `Unlock` tests and sets the flag, `UnlockUndone`,
  `UnlockRefused`, or `UnlockOwned`, `UnlockFlag`, `UnlockOwner`;
* join: `JoinRefused` (the caller waits already, joins itself, or nobody has that id),
  or `Join`, then `JoinWaits` and `JoinReturns`;
* exit: `Exit`, `ExitDelete`, `ExitReturns`.

`TicksInside = TRUE` lets the timer expire at each of these places; with `FALSE` only
in the thread's own code. `sched_PSJF` is `ScheduleOnly`, `ScheduleRotate` and its loop
`Loop...`, one action per iteration, including the effect that `llnodePrintThreadList`
has on the first mutex's flag (`Printed`) and the NULL that `mqFindNext` follows in
the blank node of the list (`LoopCrash`). Quanta are counted in steps of 100 µs.

What protects the library from its own timer is `areWeInTheLibraryQuestionMark`: an
expiry while it is set only clears it and goes back (`ScheduleLibrary`). It is set in
lock, up to the place where the caller is in line (`Protected`), and nowhere in unlock,
join and exit. `cuts` is a history variable: it names what has got past that protection
so far, and no action reads it.

| cut | event |
|---|---|
| `lock` | a second expiry at a protected place of the same call of lock (`struck` records the first) |
| `unlock`, `join`, `exit` | an expiry inside that call (in join, before the caller waits) |
| `null` | a `lock(NULL)`, which leaves the flag set and the timer stopped |
| `alone` | a thread that waits is run because it is the only one in the queue (`mypthread.c:1442`) |
| `scheduler` | an expiry in a scheduler entered by a call, where SIGALRM is not blocked |

`MutexesSheltered`, `JoinsSheltered`, `ContextsSheltered`, `WaitersGetTheValue` and
`GrantedInOrder` say what holds until which of these cuts. The other places are inside
the claim: one expiry anywhere in lock, any number between lining up and yielding, and
for joins and contexts any expiry in lock and unlock.

Abstractions and bounds: `mypthread_create`, `mutex_init` and `mutex_destroy`
are one step; threads end by `mypthread_exit` holding no mutex and hold at most
one at a time; main asks to join all workers before it returns; lock before the
first create is excluded (it follows a null pointer); the `joinReturnLocation` of
main's block, never initialised, lies on a fresh page of the heap and reads as
NULL; a scheduler interrupted on its own stack is the end state `lost`.
`Locks`, `MaxTicks` and `MaxQuantum` bound calls of lock (and of unlock without the
mutex), preemptions and quanta.

## 3. Runs

| run | instance | checks |
|---|---|---|
| `heap_page` | page of 12 bytes, headers of 2, sizes 1, 2, 4, 9, `usage` in -16 .. 15 | `TypeOK`, `Tiled`, `PrevCoherent`, `NoAdjacentFree`, refinement of `Allocator`, `RefusesOnlyWhatFitsNowhere` |
| `paging_frames` | 10 frames, main and a thread, spans of two, no eviction, no free | `TypeOK`, `EachPageOnce`, `Numbered`, `Isolated`, `LoadedInPlace`, `LibraryProgress` |
| `paging_swap` | 6 frames, swap file of 3 slots, pages and spans of two, frees; thread 4 and the library fill their pages | `AtHome`, `ContentFollows`, `KeptWhileRoom`, `AlignedHeadersStay` |
| `paging_access`, `paging_address`, `paging_killed` | as above, with requests of one page and (the last) two slots | findings: `TouchesOwn`, `AddressOnItsHeap`, `Survives` fail |
| `shared_calls` | main and a thread, 2 shared pages of 6 bytes, headers of 2, sizes 1, 4, 10, 11, one expiry anywhere in a shalloc | `TypeOK`, `SharedHeapWhole`, `FlagLeftByFailure`, `AllocatesDisjoint` (refinement of `Allocator`), `RefusesOnlyWhatFitsNowhere` |
| `shared_race` | the same | finding: `BlocksDisjoint` fails |
| `thr_line` | main and 3 workers, 2 mutexes, 2 preemptions between calls | `TypeOK`, `MutualExclusion`, `WaitersInLine`, `HoldersOwn`, `OwnersAsked`, `JoinersKnown`, `OwnContexts`, `JoinedEnded`, `WaitersGetTheValue` |
| `thr_inside` | 2 workers, 2 locks each, a mutex that is destroyed, 2 preemptions anywhere, `lock(NULL)` | `MutexesSheltered`, `JoinsSheltered`, `ContextsSheltered`, `GrantedInOrder` |
| `thr_ends` | fair, 2 workers that also ask to join themselves, 2 mutexes | `Finishes` |
| `thr_race` | 3 workers, 1 mutex, 3 preemptions anywhere | finding: `MutualExclusion` fails |

Why the bounds are enough to meet the cases. *Heap*: 12 bytes hold up to four chunks,
so every pattern of free and used neighbours around a free, exact fits (2, 4),
remainders of exactly a header, of less and of more, and a request (9) that counts as
two pages all occur; `usage` goes through all the values of its type, 15 and -16
included, where arithmetic wraps. *Paging*: with two threads of three or four
pages and the library's, pages of each lie in the frames the others need, so chains of
displacements and spans moved behind their first page occur (with `Requests = {1, 2}`
the properties of `paging_frames` hold too, in 3.2 million states; spans only keep the
run at a million). With six frames and a swap file of three slots both the full memory
and the full file are reached, and a record is written on its slot, one byte early,
and over another: two owners are `Dense`, one is not. *Shared*: 12 bytes in two pages
hold up to four chunks; 10 is the largest size (one chunk over both pages), 11 is
refused; two threads and one expiry are enough for either to find the heap the other
left half-changed. *Threads*: three workers and two mutexes give a line of two for one
mutex while another is held; one preemption puts a thread out between two calls, the
second interrupts its successor. `MaxQuantum` is never met in `thr_ends` and
`thr_line`, where quanta only order the queue; in `thr_inside` (10) and `thr_race` (12)
it ends a run in which everybody waits for ever after a cut, or quanta would grow
without end.

`CHECK_DEADLOCK FALSE` stands where the program ends (threads) or the process is
killed (swap).

Fairness. Only `thr_ends` assumes any: weak fairness of `Next`, that is, some
thread always executes if one can. No fairness is assumed between threads; that no
waiter is forgotten is what `Finishes` shows of the scheduler itself. That a library
call of `Paging` ends needs none: `LibraryProgress` is a safety property, a measure
(the operations left, then the frames the loader has before it) that every step of
the call makes smaller, whatever the loops that start over do.

### Limits of the properties

Several properties are true only in the instance given, and changing one constant
of the configuration shows where the code stops keeping them:

| property | fails with | because |
|---|---|---|
| `PrevCoherent`, `RefusesOnlyWhatFitsNowhere` | `Span = 2`, `ShortMax = 28`, `Sizes = {1, 10, 12}` | a one-page request does not update the `prev` behind its bound (`umalloc.c:146`), nor look there (`:124`) |
| `StaysInHeap` (`ChunkHeap`) | the constants of `heap_page` | `usage` drifts above the free bytes, the page is chosen for a request whose bound lies behind it |
| `Isolated` | `Freed = {1}`, or a malloc that fails | `myfree` returns with everything unlocked, so does a `mymalloc` without a page |
| `LoadedInPlace` | `Freed = {1}`, `Requests = {1}` | a page in the right frame is taken for the right page (`:2138`) |
| `Numbered` | the constants of `paging_swap` | new numbers count the pages in memory |
| `HoldersOwn` | `Lockers <- Threads` | a thread alone in the queue runs without its mutex (`mypthread.c:1442`) |
| `JoinedEnded`, `HoldersOwn` | `NullLocks = TRUE` | `lock(NULL)` leaves the library flag set, and the scheduler goes back to the head of the queue, whatever it waits for |
| `OwnContexts` | `TicksInside = TRUE` | the scheduler, or who has just left the queue, is saved in the head's context (cuts `scheduler` and `exit`) |
| `MutualExclusion` | `TicksInside = TRUE` | two expiries in one call of lock (`thr_race`) |
| `SharedHeapWhole`, `AllocatesDisjoint`, `RefusesOnlyWhatFitsNowhere` (`Shared`) | the hypothesis "no expiry inside a shalloc" dropped | the heap is changed between the walk and the mark (`shared_race`) |
| records stay whole (`SwapFile`) | any two evictions | a record is 8 bytes longer than its slot (`umalloc.c:2624`) |

The five `violation` runs (`paging_access`, `paging_address`, `paging_killed`,
`thr_race`, `shared_race`) are disagreements between the code and its own comments
or tests; `PROJECT.json` quotes both sides of each. Seen in the model and not made
a property: a double free whose header was merged away is reported as an invalid
pointer; a join on a thread that ended ignores `value_ptr` (`mypthread.c:587-612`);
threads that join each other never get EDEADLK (`:651-655`).

## 4. Proofs

`ChunkHeapProofs`, from `HeapAssumption` alone:

* `HeapInvariant`: `FullScan => (Spec => []IInv)`. `IInv` is the conjunction of
  the types, `Tiled`, `PrevCoherent` and `NoAdjacentFree`; none of them is
  inductive alone. The coalesce to the left trusts `prev` (needs `PrevCoherent`),
  the merged chunk is a chunk of the tiling only if the right header is where the
  left chunk ends (needs `Tiled`), and a single merge on each side is enough only
  because no two free neighbours existed before (needs `NoAdjacentFree`).
  `SplitWellFormed`, `MarkWellFormed` and `MergedWellFormed` say what each rewriting
  of the map keeps; `LeftMerge` and `FreeWellFormed` combine them for `myfree`.
* `FullScan` (every request walks the whole heap) is the hypothesis that the
  two-page instance above violates; `OnePageFullScan` proves it for `Span = 1`,
  hence `OnePageTypeOK`, `OnePageTiled`, `OnePagePrevCoherent`,
  `OnePageNoAdjacentFree` for every page size, header size and set of sizes.
* `HeapRefinesAllocator`: each step of the heap is a step of `Allocator` or
  leaves the blocks in use alone; disjointness comes from the tiling
  (`ChunksDisjoint`). `RefusesOnlyFull`: under `FullScan` the walk sees every chunk.

`PagingProofs` and `PagingStepProofs`, from `PagingAssumption`:

* `StoresStayGood`: headers at home and bytes following their headers are
  together invariant, for any number of frames and threads, any swap file and any
  requests. The two are proved jointly: a page in the way is moved to the frame
  named by a header found by its `loc`. One lemma per operation on stores
  (`EvictGood`, `DisplaceGood`, ... ) and one step per action; `HeadersAtHome` and
  `ContentFollowsHeader` are its two halves.
* `PagingTypeOK`: `CallInv` adds the queue of jobs and the threads to it; that a
  loader never indexes a frame outside the memory is part of the types of jobs.
* `LibraryCallsProgress`: the weight of the head of the queue is bounded by its
  type, a claim weighs more than the loader it is replaced by, and each iteration
  moves a loader's position forward.
* `PagesKeptWhileRoom`: each operation on stores keeps the pages it is given or
  writes them (`StepKeeps`); the chains of displacements are composed of these.
* `SwapHeadersStay`: the slot chosen is the least whose byte is 0, which a record
  on its slot does not have, and a write touches only that slot and the end of the
  one before.

`PagingRoomProofs` is about where the pages are. Its hypothesis is `Roomy`: the number
of threads is finite and the frames are more than all pages the threads and the library
may ask for (`MaxPages`, or a stack, for each thread), so that a frame is left for the
page that a load finds in its way. It is a hypothesis on the size of the program, not of
the moves: with 2048 frames the code meets it for a thousand threads of two pages. It
cannot be dropped: once memory is full, pages are evicted and never found again
(`paging_killed`, and `Numbered` in the table above).
`paging_frames` satisfies it, with 10 frames for 2 * 4 + 1 pages.

* `PagesStayWhileRoom`: as long as a frame is free, every page given out is in
  exactly one frame and the pages of an owner are numbered without a gap (`OnceInv`).
  It is proved of the store, operation by operation, next to `StoresStayGood`: a move
  carries a page to a frame that is free or whose page goes elsewhere (`CarriedOnce`,
  `SwapPagesOnce`), and a claim numbers on from the count of the owner's pages, numbers
  that are free only because there was no gap (`ClaimTakes`).
* `RoomForAll`: under `Roomy` a frame is always free. `BudgetInv` says that the pages an
  owner has, those that the queued jobs will claim for it, and main's stack before the
  first create are within its share; that the shares of all leave a frame is a count of
  the pairs of owner and number, which `OnceInv` makes different for different
  frames. `NoPageLostOrDoubled`, `NumbersHaveNoGap` and `NobodyKilledWithRoom` follow:
  the fault handler always finds the page it looks for.
* `OthersAreLocked` also assumes `Freed = {}`, for the reason given in the table above
  (`myfree` returns with everything unlocked); `Roomy` excludes a malloc without a page.
  `IsolatedInv` adds that whatever a call still has to do ends with locking the pages of
  all others, also after a fault or a claim put new jobs in front.

`ThreadsProofs` (with `ThreadsListProofs`), from `ThreadsAssumption` alone: any threads,
mutexes, calls and preemptions, at any place of a call, whoever locks and joins.

* `ThreadsInv`: `Inv` is invariant. It has layers, each guarded by the cuts that end it:
  - `Base`, without condition: the types, `QueueInv` (main is in the queue once there is
    one), `ProcInv` (who runs is the head of the queue or has just left it, and a context
    holds its thread or one that has just left), `CallInv` (which arguments the places of
    calls have; a thread is in `exited` exactly while it leaves);
  - until `null`: `LibInv` (while the library's flag is set, the head of the queue is at
    a protected place of lock, and the scheduler goes back to it);
  - until `null` or `alone`: `ReturnInv` (only who is in join waits for a thread, and a
    join that returned did so after the end);
  - until `join`, `exit` or `null`: `JoinInv` (who waits for whom) and `ValueInv` (the
    value is where the joiner wants it);
  - until `lock`, `unlock`, `null` or `alone`: `PlaceInv` (nobody but the running thread
    is at a protected place or in unlock, and there the flag is set or was struck once),
    `MutexInv` (the flag, the owner, the mutex of the control block and the place of each
    thread agree) and `ListInv` (the list of copies is the blank node or the threads that
    wait, each once);
  - until `exit` or `scheduler`: contexts hold their own threads.

  The layers above `Base` need each other. That one expiry in lock is harmless needs `LibInv` (the
  scheduler goes back to the thread it interrupted) and `PlaceInv` (so nobody else is
  at such a place); that an unlock leaves no second holder needs the owner to agree with
  the caller's place; that the loop of the scheduler gives a mutex to a thread that still
  wants it needs the copies in the list to agree with the control blocks; that `delete`
  of a thread's copy removes exactly one needs each thread to be there once.
* From it follow `ThreadsTypeOK`, `MutexesShelteredHolds`, `JoinsShelteredHolds`,
  `ContextsShelteredHolds`, `WaitersGetTheValueHolds` and `GrantedInOrderHolds`. The
  bare `MutualExclusion`, `HoldersOwn`, ... of `thr_line` are consequences for programs
  that meet no cut; after one they can fail (`thr_race` and the table above).

`SharedProofs`, from `SharedAssumption`:

* `FlagOutlivesFailureOnly`, wherever the timer expires: the flag is set only while
  some thread is inside a shalloc, or after a NULL (`FlagInv`).
* `SharedHeapStaysWhole`, `SharedCallsAllocate`, `SharedRefusalsAreFull`: until a
  shalloc is interrupted, `CalmInv` holds. Only the running thread is inside a shalloc
  and what it has found is still there (`StepInv`), the blocks given out are chunks in
  use, no two the same (`GivenInv`), and the chunks are a well-formed heap without
  free neighbours (`HeapInv`), which `SplitWellFormed`, `MarkWellFormed` and
  `FreeWellFormed` of `ChunkHeapProofs`, instantiated with the shared pages as one
  heap, keep (`CutIsSplit`, `FreeIsFree`).
* `SharedTypeOK`: the types, wherever and however often the timer expires; the chunks
  are in it until a shalloc is interrupted (from `CalmInv`), and not after: by then a chunk
  may lie inside another, and a header that was cut over may say more than all the
  shared pages hold.

Only model-checked: `Finishes` (liveness under fairness, which is beyond the prover), and
`LoadedInPlace` of `Paging`, which holds for the requests of the run and not for all (see
the table above).

## 5. Not modelled

The order of the work was: the heap (every other part stores its data there), the
frames, the threads, the swap file, the shared pages, and the proofs of each. What
is left out, and why:

* `mypthread_create` is one step of `Threads`: thread ids are the names of the
  threads, so two creations that get one id are not in the model. `mutex_init` and
  `mutex_destroy` are one step for the same reason.
* A composition of `Threads` and `Paging`: `Paging` takes the scheduler's choice as
  any dispatch (`Dispatch`), which covers every schedule; the product of the two state
  spaces is out of reach.
* In `Paging`: the loads of the mutex calls; the returns of join with an error and of exit,
  which leave the library's page loaded, no stack in place and everything unlocked; an
  expiry of the timer in a half-done load; a create made by a worker, as far as its own
  stack is concerned. What thread code then finds at its addresses is not known from
  this model, and no property speaks of the stack.
* What happens to the shared chunks after an interrupted shalloc has written over one
  that changed; a free of a pointer to a page that nobody was given.
* Eviction of the library's own page and what the library then reads; a create that
  runs out of frames.
* `findSchedulerPages`: fills three fixed pages once, before the timer exists.
* A thread whose function returns without `mypthread_exit`, one that exits with a
  mutex: the tests' programs do neither, and the hazards of `PROJECT.json` say what the
  code does with them. Workers that join each other are in `Threads` and in its proofs,
  and in no run.
* Round robin and MLFQ (never chosen), clean-up at exit of the process, debug output
  but for its effect on a mutex's flag (`Printed`), the unit tests and the Unity
  framework.
