----------------------------- MODULE PagingProofs -----------------------------
(***************************************************************************)
(* Theorems about the states of Paging, for any frames, threads, stack     *)
(* size and swap file: the types, a frame's header says that frame, and    *)
(* the frame's bytes are those of the page the header names.               *)
(***************************************************************************)
EXTENDS Paging, FiniteSetTheorems, SequenceTheorems, WellFoundedInduction, TLAPS

AllFrames == Frames \cup {Dedicated}
Tids == Owners \cup {NoOwner, Reserved}
Files == Seq(Slots(PageNames))
Jobs == Loaders \cup Claims \cup Locks

(* The invariant of a store, which every operation on stores preserves. *)
Good(m, p) ==
    /\ m \in [AllFrames -> Header]
    /\ p \in [AllFrames -> PageNames]
    /\ \A f \in Frames : m[f].loc = f \/ (m[f].loc = 0 /\ m[f].tid = NoOwner)
    /\ \A f \in Frames : m[f].tid # NoOwner => p[f] = PageOf(m[f])
GoodStore(st) == Good(st.meta, st.page) /\ st.swap \in Files

IInv == /\ Good(meta, page)
        /\ swap \in Files
        /\ locked \subseteq Frames
        /\ running \in Threads

(* Frames are integers, finitely many, and the dedicated frame is none.    *)
LEMMA FrameFacts == /\ Frames \subseteq Int /\ Dedicated \in Int /\ Dedicated \notin Frames
                    /\ 0 \notin Frames /\ IsFiniteSet(Frames)
  BY PagingAssumption, FS_Interval DEF Frames, Dedicated

(* Thread ids are integers, different from the marks of free and           *)
(* reserved.                                                               *)
LEMMA OwnerFacts == /\ Owners \subseteq Int /\ NoOwner \notin Owners
                    /\ Threads \subseteq Owners /\ Main \in Threads /\ Lib \in Owners
                    /\ Tids \subseteq Int /\ NoOwner \in Tids /\ Reserved \in Tids
  BY PagingAssumption DEF Owners, Threads, Tids, NoOwner, Reserved

(* A set of numbers has a least one, and Min is it. *)
LEMMA MinExists ==
    ASSUME NEW S, S \subseteq Nat, S # {}
    PROVE  Min(S) \in S /\ \A x \in S : Min(S) <= x
  <1> DEFINE R == OpToRel(<, Nat)
  <1>1. IsWellFoundedOn(R, Nat)
    BY NatLessThanWellFounded
  <1>2. \A x, y \in Nat : y < x => <<y, x>> \in R
    BY DEF OpToRel
  <1> HIDE DEF R
  <1>3. PICK m \in S : \A y \in S : ~ (<<y, m>> \in R)
    BY <1>1, WFMin
  <1>4. ASSUME NEW y \in S PROVE m <= y
    <2>1. y \in Nat /\ m \in Nat
      OBVIOUS
    <2>2. ~ (y < m)
      BY <1>2, <1>3, <2>1, Zenon
    <2> QED
      BY <2>1, <2>2
  <1> QED
    BY <1>3, <1>4 DEF Min

(* Writing a record makes a file of a file. *)
LEMMA WrittenFile ==
    ASSUME NEW file \in Files, NEW name \in PageNames
    PROVE  Written(file, name) \in Files
  <1> DEFINE S == Slots(PageNames)
             n == Len(file)
             cut == [j \in DOMAIN file |-> IF j = n THEN [file[j] EXCEPT !.whole = FALSE]
                                          ELSE file[j]]
  <1>1. /\ Slot(name, TRUE) \in S /\ Slot(name, FALSE) \in S /\ Skipped \in S
        /\ \A e \in S : [e EXCEPT !.whole = FALSE] \in S
    BY OwnerFacts DEF Slot, Slots, Skipped, NoPage, PageNames, NoOwner, Tids
  <1>2. file \in Seq(S) /\ n \in Nat /\ file \in [1 .. n -> S]
    BY LenProperties DEF Files
  <1>3. cut \in Seq(S)
    <2>1. cut \in [1 .. n -> S]
      BY <1>1, <1>2
    <2> HIDE DEF S, cut, n
    <2> QED
      BY <1>2, <2>1, SeqDef
  <1>4. [file EXCEPT ![FreeSlot(file)] = Slot(name, FALSE)] \in Seq(S)
    <2>1. [file EXCEPT ![FreeSlot(file)] = Slot(name, FALSE)] \in [1 .. n -> S]
      <3> HIDE DEF S, n
      <3> QED
        BY <1>1, <1>2
    <2> HIDE DEF S, n
    <2> QED
      BY <1>2, <2>1, SeqDef
  <1>5. file \o <<Skipped, Slot(name, TRUE)>> \in Seq(S)
    <2> DEFINE a == Skipped
               b == Slot(name, TRUE)
    <2>1. a \in S /\ b \in S
      BY <1>1
    <2> HIDE DEF S, a, b
    <2>2. <<a, b>> \in Seq(S)
      BY <2>1
    <2>3. file \o <<a, b>> \in Seq(S)
      BY <1>2, <2>2, ConcatProperties
    <2> QED
      BY <2>3 DEF a, b
  <1>6. Append(cut, Slot(name, FALSE)) \in Seq(S)
    <2> HIDE DEF S, cut
    <2> QED
      BY <1>1, <1>3, AppendProperties
  <1> HIDE DEF S
  <1> QED
    BY <1>4, <1>5, <1>6 DEF Written, Files, S

(* What is evicted is in a frame. *)
LEMMA EvictableFrame ==
    ASSUME NEW st, NEW by, CanEvict(st, by)
    PROVE  Min(Evictable(st, by)) \in Evictable(st, by) /\ Min(Evictable(st, by)) \in Frames
  <1>1. Evictable(st, by) \subseteq Frames /\ Evictable(st, by) # {} /\ Frames \subseteq Nat
    BY PagingAssumption DEF Evictable, CanEvict, Frames
  <1> QED
    BY <1>1, MinExists

(* Evicting a page empties its frame. *)
LEMMA EvictGood ==
    ASSUME NEW st, GoodStore(st), NEW by, CanEvict(st, by)
    PROVE  GoodStore(Evict(st, by))
  <1> DEFINE f == Min(Evictable(st, by))
             e == EmptyHeader(st.meta[f].loc)
             m == [st.meta EXCEPT ![f] = e]
             p == [st.page EXCEPT ![f] = Nobody]
  <1>1. f \in Frames
    BY EvictableFrame
  <1> HIDE DEF f
  <1>2. st.meta[f] \in Header
    BY <1>1 DEF GoodStore, Good, AllFrames
  <1>3. e \in Header /\ e.tid = NoOwner /\ e.loc = st.meta[f].loc
    BY <1>2, OwnerFacts DEF EmptyHeader, Header, Tids
  <1>4. Nobody \in PageNames
    BY OwnerFacts DEF Nobody, NoPage, NoOwner, PageNames, Tids
  <1>5. PageOf(st.meta[f]) \in PageNames
    BY <1>2 DEF PageOf, Header, PageNames
  <1> HIDE DEF e
  <1>6. Good(m, p)
    BY <1>1, <1>3, <1>4 DEF GoodStore, Good, AllFrames
  <1>7. Written(st.swap, PageOf(st.meta[f])) \in Files
    BY <1>5, WrittenFile DEF GoodStore
  <1> QED
    BY <1>6, <1>7 DEF GoodStore, Evict, f, e

(* Evicting to make a frame free keeps the store good.                     *)
LEMMA MakeRoomGood ==
    ASSUME NEW st, GoodStore(st), NEW by
    PROVE  GoodStore(MakeRoom(st, by))
  BY EvictGood DEF MakeRoom

(* Moving a header changes the frame it names and nothing else.            *)
LEMMA MovedHeader ==
    ASSUME NEW h \in Header, NEW loc \in Int
    PROVE  Moved(h, loc) \in Header /\ Moved(h, loc).loc = loc /\ PageOf(Moved(h, loc)) = PageOf(h)
           /\ Moved(h, loc).tid = h.tid
  BY DEF Moved, Header, PageOf

(* The spare frame is a free frame, or the dedicated one if there is       *)
(* none.                                                                   *)
LEMMA SpareFrameType ==
    ASSUME NEW st
    PROVE  \/ FreeFrames(st) = {} /\ SpareFrame(st) = Dedicated
           \/ SpareFrame(st) \in FreeFrames(st) /\ SpareFrame(st) \in Frames
  <1>1. FreeFrames(st) \subseteq Frames /\ Frames \subseteq Nat
    BY PagingAssumption DEF FreeFrames, Frames
  <1>2. FreeFrames(st) # {} => Min(FreeFrames(st)) \in FreeFrames(st)
    BY <1>1, MinExists
  <1> QED
    BY <1>1, <1>2 DEF SpareFrame

(* The displaced page's header and bytes go to the same frame. *)
LEMMA DisplaceGood ==
    ASSUME NEW st, GoodStore(st), NEW to \in Frames, NEW spare \in AllFrames
    PROVE  GoodStore(DisplacePage(st, to, spare))
  <1> DEFINE h == Moved(st.meta[to], spare)
  <1>1. h \in Header /\ h.loc = spare /\ h.tid = st.meta[to].tid /\ PageOf(h) = PageOf(st.meta[to])
    BY MovedHeader, FrameFacts DEF GoodStore, Good, AllFrames
  <1> HIDE DEF h
  <1>2. Good([st.meta EXCEPT ![spare] = h], [st.page EXCEPT ![spare] = st.page[to]])
    BY <1>1, FrameFacts DEF GoodStore, Good, AllFrames
  <1> QED
    BY <1>2 DEF GoodStore, DisplacePage, h

(* Moving a page over a frame keeps the store good.                        *)
LEMMA MoveGood ==
    ASSUME NEW st, GoodStore(st), NEW from \in Frames, NEW to \in Frames
    PROVE  GoodStore(MovePage(st, from, to))
  <1> DEFINE h == Moved(st.meta[from], to)
             e == EmptyHeader(from)
  <1>1. h \in Header /\ h.loc = to /\ h.tid = st.meta[from].tid /\ PageOf(h) = PageOf(st.meta[from])
    BY MovedHeader, FrameFacts DEF GoodStore, Good, AllFrames
  <1>2. e \in Header /\ e.loc = from /\ e.tid = NoOwner
    BY FrameFacts, OwnerFacts DEF EmptyHeader, Header, Tids
  <1> HIDE DEF h, e
  <1>3. Good([st.meta EXCEPT ![to] = h, ![from] = e], [st.page EXCEPT ![to] = st.page[from]])
    BY <1>1, <1>2, FrameFacts DEF GoodStore, Good, AllFrames
  <1> QED
    BY <1>3 DEF GoodStore, MovePage, h, e

(* Bringing back the page parked in the dedicated frame keeps the store    *)
(* good.                                                                   *)
LEMMA UnloadGood ==
    ASSUME NEW st, GoodStore(st)
    PROVE  GoodStore(Unload(st))
  <1> DEFINE g == st.meta[Dedicated]
             h == Disowned(Moved(g, Dedicated))
  <1>1. g \in Header
    BY DEF GoodStore, Good, AllFrames
  <1>2. h \in Header
    <2>1. Moved(g, Dedicated) \in Header
      BY <1>1, MovedHeader, FrameFacts
    <2> QED
      BY <2>1, OwnerFacts DEF Header, Disowned, Tids
  <1>3. PageOf(g) \in PageNames
    BY <1>1 DEF PageOf, Header, PageNames
  <1> HIDE DEF g, h
  <1>4. Good([st.meta EXCEPT ![Dedicated] = h], st.page)
    BY <1>2, FrameFacts DEF GoodStore, Good, AllFrames
  <1>5. Written(st.swap, PageOf(g)) \in Files
    BY <1>3, WrittenFile DEF GoodStore
  <1> QED
    BY <1>4, <1>5 DEF GoodStore, Unload, g, h

(* Whatever swapPages finds in the two frames, the store stays good. *)
LEMMA SwapPagesGood ==
    ASSUME NEW st0, GoodStore(st0), NEW from \in Frames, NEW to \in Frames, NEW by
    PROVE  GoodStore(SwapPages(st0, from, to, by))
  <1> DEFINE st == MakeRoom(st0, by)
             spare == SpareFrame(st)
             moved == MovePage(DisplacePage(st, to, spare), from, to)
             lost == [st EXCEPT !.wild = TRUE]
  <1>1. GoodStore(st)
    BY MakeRoomGood
  <1>2. spare \in AllFrames
    BY SpareFrameType DEF AllFrames
  <1>3. GoodStore(moved) /\ GoodStore(Unload(moved)) /\ GoodStore(MovePage(st, from, to))
    <2> HIDE DEF st, spare
    <2> QED
      BY <1>1, <1>2, DisplaceGood, MoveGood, UnloadGood
  <1>4. lost.meta = st.meta /\ lost.page = st.page /\ lost.swap = st.swap
    OBVIOUS
  <1> HIDE DEF st, spare, moved, lost
  <1>5. GoodStore(lost)
    BY <1>1, <1>4 DEF GoodStore
  <1> QED
    BY <1>1, <1>3, <1>5 DEF SwapPages, st, spare, moved, lost

(* The memory just set up is good.                                         *)
LEMMA InitInv == Init => IInv
  <1> SUFFICES ASSUME Init PROVE IInv
    OBVIOUS
  <1>1. EmptyHeader(0) \in Header /\ ReservedHeader \in Header /\ Nobody \in PageNames
    BY OwnerFacts, FrameFacts
    DEF EmptyHeader, ReservedHeader, Header, Tids, Nobody, NoPage, PageNames, NoOwner
  <1>2. /\ meta = [f \in AllFrames |-> IF f = Dedicated THEN ReservedHeader ELSE EmptyHeader(0)]
        /\ page = [f \in AllFrames |-> Nobody]
    BY DEF Init, AllFrames
  <1>3. meta \in [AllFrames -> Header] /\ page \in [AllFrames -> PageNames]
    BY <1>1, <1>2
  <1>4. \A f \in Frames : meta[f] = EmptyHeader(0)
    BY FrameFacts DEF Init
  <1>5. swap \in Files
    BY DEF Init, NewFile, Files
  <1> QED
    BY <1>3, <1>4, <1>5, OwnerFacts DEF Init, IInv, Good, EmptyHeader, NoOwner

(* A step that leaves the store and the running thread alone. *)
LEMMA StoreUnchanged ==
    ASSUME IInv, UNCHANGED <<meta, page, swap>>, locked' \subseteq Frames, running' \in Threads
    PROVE  IInv'
  BY DEF IInv, Good, PageOf

(* A step that ends in a good store keeps the invariant.                   *)
LEMMA BecomeGood ==
    ASSUME IInv, NEW st, GoodStore(st), Become(st), locked' \subseteq Frames, running' \in Threads
    PROVE  IInv'
  BY DEF IInv, Good, GoodStore, Become, PageOf

(* The invariant says that the store of the state is good.                 *)
LEMMA StoreIsGood == IInv => GoodStore(Store)
  BY DEF IInv, GoodStore, Store

(* What a loader moves comes from a frame and goes to a frame. *)
LEMMA LoaderMoves ==
    ASSUME NEW job, LoaderSwap(job)
    PROVE  Min(ToMove(job) \cup InPlace(job)) \in Frames /\ job.pos \in Frames
  <1>1. Min(ToMove(job) \cup InPlace(job)) \in ToMove(job)
    BY DEF LoaderSwap
  <1>2. ToMove(job) \subseteq Pass(job) /\ job.pos \in Frames
    BY <1>1 DEF ToMove
  <1>3. Pass(job) \subseteq Frames
    BY PagingAssumption DEF Pass, Frames
  <1> QED
    BY <1>1, <1>2, <1>3

(* A step of a loader keeps the invariant.                                 *)
LEMMA LoaderInv ==
    ASSUME IInv, Loader
    PROVE  IInv'
  <1> DEFINE job == Head(todo)
  <1>1. CASE LoaderSwap(job)
    <2> DEFINE from == Min(ToMove(job) \cup InPlace(job))
    <2>1. GoodStore(SwapPages(Store, from, job.pos, job.by))
      BY <1>1, LoaderMoves, StoreIsGood, SwapPagesGood
    <2>2. Become(SwapPages(Store, from, job.pos, job.by))
      BY <1>1 DEF LoaderSwap
    <2>3. locked' \subseteq Frames /\ running' \in Threads
      BY <1>1 DEF LoaderSwap, IInv, threads
    <2> QED
      BY <2>1, <2>2, <2>3, BecomeGood
  <1>2. CASE LoaderSkip(job) \/ LoaderEnds(job)
    BY <1>2, StoreUnchanged DEF LoaderSkip, LoaderEnds, IInv, threads
  <1> QED
    BY <1>1, <1>2 DEF Loader

(* lockAllButThread keeps the invariant.                                   *)
LEMMA LockInv ==
    ASSUME IInv, Lock
    PROVE  IInv'
  BY StoreUnchanged DEF Lock, LockedFor, IInv, threads

(* The numbers given to new pages are integers.                            *)
LEMMA CountsAreNumbers ==
    ASSUME NEW st, NEW t, NEW n, NEW f
    PROVE  /\ NextNumber(st, t) \in Int
           /\ Rank(Lowest(FreeFrames(st), n), f) \in Nat
  <1>1. IsFiniteSet({g \in Frames : st.meta[g].tid = t})
    BY FrameFacts, FS_Subset
  <1>2. IsFiniteSet({g \in Lowest(FreeFrames(st), n) : g < f})
    BY FrameFacts, FS_Subset DEF Lowest, FreeFrames
  <1> QED
    BY <1>1, <1>2, FS_CardinalityType DEF NextNumber, PageCount, Rank

(* findFreePage gives the new header and the new page the same name. *)
LEMMA ClaimInv ==
    ASSUME IInv, Claim
    PROVE  IInv'
  <1> DEFINE t == Head(todo).tid
             n == Head(todo).n
             enough == Cardinality(FreeFrames(Store)) >= n
             st == IF n = 1 /\ ~enough THEN Evict(Store, t) ELSE Store
             taken == Lowest(FreeFrames(st), n)
             num(f) == NextNumber(st, t) + Rank(taken, f)
             h(f) == [tid |-> t, num |-> num(f), loc |-> f, span |-> n, aux |-> Rank(taken, f) > 0]
  <1>1. GoodStore(st)
    <2>1. n = 1 /\ ~enough => CanEvict(Store, t)
      BY DEF Claim
    <2> QED
      BY <2>1, StoreIsGood, EvictGood
  <1>2. locked' \subseteq Frames /\ running' \in Threads
    BY DEF Claim, IInv, threads
  <1>3. ClaimIn(st, t, n)
    BY DEF Claim
  <1>4. t \in Owners /\ n \in Nat
    <2>1. Head(todo) \in Claims
      BY DEF Claim
    <2> QED
      BY <2>1 DEF Claims
  <1>5. taken \subseteq Frames
    BY DEF Lowest, FreeFrames
  <1>6. \A f : num(f) \in Int
    BY CountsAreNumbers
  <1>7. \A f \in taken : h(f) \in Header
    <2> HIDE DEF st, taken, t, n, num
    <2> QED
      BY <1>4, <1>5, <1>6, FrameFacts DEF Header
  <1>8. /\ DOMAIN meta = AllFrames /\ DOMAIN page = AllFrames
        /\ meta' = [f \in AllFrames |-> IF f \in taken THEN h(f) ELSE st.meta[f]]
        /\ page' = [f \in AllFrames |-> IF f \in taken THEN <<t, num(f)>> ELSE st.page[f]]
        /\ swap' = st.swap
    <2>1. DOMAIN meta = AllFrames /\ DOMAIN page = AllFrames
      BY DEF IInv, Good
    <2> HIDE DEF st, t, n
    <2> QED
      BY <1>3, <2>1 DEF ClaimIn
  <1>9. Good(meta', page')
    <2> HIDE DEF st, taken, t, n, num
    <2>1. meta' \in [AllFrames -> Header] /\ page' \in [AllFrames -> PageNames]
      BY <1>1, <1>4, <1>6, <1>7, <1>8, OwnerFacts DEF GoodStore, Good, PageNames
    <2>2. ASSUME NEW f \in Frames
          PROVE  /\ meta'[f].loc = f \/ (meta'[f].loc = 0 /\ meta'[f].tid = NoOwner)
                 /\ meta'[f].tid # NoOwner => page'[f] = PageOf(meta'[f])
      BY <1>1, <1>8, FrameFacts DEF GoodStore, Good, AllFrames, PageOf
    <2> QED
      BY <2>1, <2>2 DEF Good
  <1> QED
    BY <1>1, <1>2, <1>8, <1>9 DEF IInv, Good, GoodStore, PageOf

(* Every step of the library keeps the invariant.                          *)
LEMMA LibraryInv ==
    ASSUME IInv, Library
    PROVE  IInv'
  <1>1. CASE ClaimFails
    BY <1>1, StoreUnchanged DEF ClaimFails, IInv, threads
  <1> QED
    BY <1>1, LoaderInv, LockInv, ClaimInv DEF Library

(* The fault handler copies a page it found in memory to a locked frame. *)
LEMMA FaultInv ==
    ASSUME IInv, NEW v, Fault(v)
    PROVE  IInv'
  <1> DEFINE homes == {f \in Frames : PageOf(meta[f]) = <<running, v>>}
             to == FrameOf(v)
  <1>1. to \in Frames
    BY DEF Fault, IInv
  <1>2. running' \in Threads
    BY DEF Fault, IInv, threads
  <1>3. CASE UNCHANGED <<meta, page, swap, locked>>
    BY <1>2, <1>3, StoreUnchanged DEF IInv
  <1>4. CASE locked' = {} /\ \E from \in Lowest(homes, 1) :
                 Become(SwapPages(Store, from, to, running))
    <2>1. PICK from \in Lowest(homes, 1) : Become(SwapPages(Store, from, to, running))
      BY <1>4
    <2>2. from \in Frames
      BY DEF Lowest
    <2>3. GoodStore(SwapPages(Store, from, to, running))
      BY <1>1, <2>2, StoreIsGood, SwapPagesGood
    <2> QED
      BY <1>2, <1>4, <2>1, <2>3, BecomeGood
  <1> QED
    BY <1>3, <1>4 DEF Fault

(* Every step keeps the invariant.                                         *)
LEMMA StepInv == IInv /\ [Next]_vars => IInv'
  <1> SUFFICES ASSUME IInv, [Next]_vars PROVE IInv'
    OBVIOUS
  <1>1. CASE Library
    BY <1>1, LibraryInv
  <1>2. ASSUME NEW n \in Requests, Malloc(n) PROVE IInv'
    BY <1>2, StoreUnchanged DEF Malloc, IInv, threads
  <1>3. ASSUME NEW f \in Frames, NEW n \in Requests, MallocIn(f, n) PROVE IInv'
    BY <1>3, StoreUnchanged DEF MallocIn, IInv, threads
  <1>4. ASSUME NEW v \in 1 .. MaxPages, Fault(v) PROVE IInv'
    BY <1>4, FaultInv
  <1>5. ASSUME NEW v \in 1 .. MaxPages, Free(v) PROVE IInv'
    BY <1>5, StoreUnchanged DEF Free, IInv, threads
  <1>6. ASSUME NEW u \in Threads, Create(u) PROVE IInv'
    BY <1>6, StoreUnchanged DEF Create, IInv
  <1>7. ASSUME NEW u \in Threads, Dispatch(u) PROVE IInv'
    BY <1>7, StoreUnchanged DEF Dispatch, IInv
  <1>8. CASE UNCHANGED vars
    BY <1>8, StoreUnchanged DEF vars, threads, IInv
  <1> QED
    BY <1>1, <1>2, <1>3, <1>4, <1>5, <1>6, <1>7, <1>8 DEF Next

(* Whatever the number of frames and threads, and with the swap file in    *)
(* use, headers and bytes stay together through every loader, fault,       *)
(* eviction and allocation.                                                *)
THEOREM StoresStayGood == Spec => []IInv
  BY InitInv, StepInv, PTL DEF Spec

(* A header that names an owner says the frame it is in (swapPages finds   *)
(* frames by that field).                                                  *)
THEOREM HeadersAtHome == Spec => []AtHome
  <1>1. IInv => AtHome
    BY DEF IInv, Good, AtHome
  <1> QED
    BY <1>1, StoresStayGood, PTL

(* The bytes of a frame are the page its header names. *)
THEOREM ContentFollowsHeader == Spec => []ContentFollows
  <1>1. IInv => ContentFollows
    BY DEF IInv, Good, ContentFollows
  <1> QED
    BY <1>1, StoresStayGood, PTL
=============================================================================
