---------------------------- MODULE SharedProofs ----------------------------
(***************************************************************************)
(* Theorems about Shared, for any number of threads, shared pages and      *)
(* sizes: when isthisashalloc may outlive the call that set it, wherever   *)
(* the timer expires; and, until it expires inside a shalloc, that the     *)
(* shared pages are one whole heap and its calls those of an allocator.    *)
(* What a split, a mark and a free do to the chunks is taken from          *)
(* ChunkHeapProofs.                                                        *)
(***************************************************************************)
EXTENDS Shared, TLAPS

(* Every thread is at one place, and the one that runs is a thread. *)
PlaceInv == running \in Threads /\ at = [t \in Threads |-> at[t]]

(* The flag belongs to a shalloc that is going on or to one that failed.   *)
FlagInv == flag => handed = "null" \/ \E t \in Threads : at[t] # User

IInv == PlaceInv /\ FlagInv

-----------------------------------------------------------------------------
(* A thread that moves to a step of a shalloc is inside it. *)
LEMMA GotoInside ==
    ASSUME PlaceInv, NEW pc, pc # "user", running' = running,
           NEW size, NEW h, NEW b,
           at' = [at EXCEPT ![running] = [pc |-> pc, size |-> size, head |-> h, bound |-> b]]
    PROVE  PlaceInv' /\ at'[running] # User
  <1> DEFINE new == [pc |-> pc, size |-> size, head |-> h, bound |-> b]
  <1>1. new.pc = pc /\ User.pc = "user"
    BY DEF User
  <1>2. at' = [at EXCEPT ![running] = new]
    OBVIOUS
  <1> HIDE DEF new
  <1>3. at' = [t \in Threads |-> at'[t]] /\ at'[running] = new
    BY <1>2 DEF PlaceInv
  <1> QED
    BY <1>1, <1>3 DEF PlaceInv

(* A thread whose call returns is in code of its own. *)
LEMMA ReturnsToUser ==
    ASSUME PlaceInv, NEW kind, Returns(kind), running' = running
    PROVE  PlaceInv' /\ handed' = kind
  BY DEF PlaceInv, Returns

(* The steps of a shalloc. *)
LEMMA ShallocKeeps ==
    ASSUME IInv, Shalloc
    PROVE  IInv'
  <1> USE DEF IInv
  <1>1. CASE \E size \in Sizes : ShallocRefuses(size)
    BY <1>1, ReturnsToUser DEF ShallocRefuses, control, FlagInv
  <1>2. ASSUME NEW size \in Sizes, ShallocStarts(size)
        PROVE  IInv'
    BY <1>2, GotoInside DEF ShallocStarts, control, FlagInv, PlaceInv
  <1>3. ASSUME NEW pc \in {"found", "taken", "lost"}, NEW h, NEW b,
               Goto(pc, h, b), running' = running
        PROVE  IInv'
    BY <1>3, GotoInside DEF Goto, FlagInv, PlaceInv
  <1>4. CASE SearchFinds
    BY <1>3, <1>4 DEF SearchFinds, control
  <1>5. CASE SearchFails
    BY <1>5, ReturnsToUser DEF SearchFails, control, FlagInv
  <1>6. CASE Take
    BY <1>3, <1>6 DEF Take, control
  <1>7. CASE TakeWild
    BY <1>3, <1>7 DEF TakeWild, control
  <1>8. CASE ReturnShared
    BY <1>8, ReturnsToUser DEF ReturnShared, control, FlagInv
  <1>9. CASE ReturnMisplaced
    BY <1>9, ReturnsToUser DEF ReturnMisplaced, control, FlagInv
  <1> QED
    BY <1>1, <1>2, <1>4, <1>5, <1>6, <1>7, <1>8, <1>9 DEF Shalloc

(* malloc takes the flag, or returns NULL. *)
LEMMA MallocKeeps ==
    ASSUME IInv, NEW n \in Requests, Malloc(n)
    PROVE  IInv'
  <1>1. running' = running
    BY DEF Malloc, MallocServed, MallocNoPage, MallocNoChunk, control
  <1>2. flag' = FALSE \/ handed' = "null"
    BY DEF Malloc, MallocServed, MallocNoPage, MallocNoChunk, Returns
  <1>3. PlaceInv'
    BY <1>1, ReturnsToUser DEF IInv, Malloc, MallocServed, MallocNoPage, MallocNoChunk
  <1> QED
    BY <1>2, <1>3 DEF IInv, FlagInv

(* Every other step leaves the calls alone, and sets no flag. *)
LEMMA OtherKeeps ==
    ASSUME IInv, at' = at, handed' = handed, flag' = flag \/ flag' = FALSE, running' \in Threads
    PROVE  IInv'
  BY DEF IInv, PlaceInv, FlagInv

(* Every step keeps the invariant. *)
LEMMA FlagStep ==
    ASSUME IInv, [Next]_vars
    PROVE  IInv'
  <1>1. running \in Threads
    BY DEF IInv, PlaceInv
  <1>2. CASE \E p \in {b.at : b \in given} : Free(p)
    BY <1>1, <1>2, OtherKeeps DEF Free, control
  <1>3. CASE StartScheduler
    BY <1>1, <1>3, OtherKeeps DEF StartScheduler
  <1>4. CASE \E u \in Threads \ {running} : Switch(u)
    BY <1>4, OtherKeeps DEF Switch
  <1>5. CASE UNCHANGED vars
    BY <1>1, <1>5, OtherKeeps DEF vars, control
  <1> QED
    BY <1>2, <1>3, <1>4, <1>5, ShallocKeeps, MallocKeeps DEF Next

(* isthisashalloc is set between calls only if the last call that returned *)
(* an address returned NULL, wherever the timer expires.                   *)
THEOREM FlagOutlivesFailureOnly == Spec => []FlagLeftByFailure
  <1>1. Init => IInv
    BY DEF Init, IInv, PlaceInv, FlagInv, User, Threads
  <1>2. IInv /\ [Next]_vars => IInv'
    BY FlagStep
  <1>3. IInv => FlagLeftByFailure
    BY DEF IInv, FlagInv, FlagLeftByFailure
  <1> QED
    BY <1>1, <1>2, <1>3, PTL DEF Spec

-----------------------------------------------------------------------------
(* The shared pages as the heap of ChunkHeapProofs. *)
P == INSTANCE ChunkHeapProofs WITH
         heap <- chunks, PageSize <- Upper, Span <- 1, PageHS <- 0, ShortMax <- Upper,
         Sizes <- {}, usage <- 0, result <- "none", spilled <- FALSE

(* Until a shalloc is interrupted: the chunks are a whole heap, each block *)
(* in the hands of a thread is a chunk in use of its own, and only the     *)
(* thread that runs is inside a shalloc.                                   *)
HeapInv == Initialized => P!WellFormed(chunks) /\ P!NoAdjacentFree

GivenInv ==
    /\ \A b \in given : /\ b.at - HS \in DOMAIN chunks /\ ~chunks[b.at - HS].free
                        /\ b.at \in Int /\ b.len \in Nat /\ b.len <= chunks[b.at - HS].size
    /\ \A b, c \in given : b.at = c.at => b = c

StepInv ==
    /\ \A t \in Threads \ {running} : at[t] = User
    /\ InUser \/ Is("search") \/ Is("found") \/ Is("taken")
    /\ ~InUser => /\ Initialized /\ flag /\ pages = SharedPages
                  /\ Size \in Nat /\ 0 < Size /\ Size <= Upper - HS
    /\ Is("found") => /\ Found \in DOMAIN chunks /\ chunks[Found].free
                      /\ chunks[Found].size >= Size /\ Bound = Upper
    /\ Is("taken") => /\ Found \in DOMAIN chunks /\ ~chunks[Found].free
                      /\ chunks[Found].size >= Size
                      /\ \A b \in given : b.at # Found + HS

CalmInv == PlaceInv /\ HeapInv /\ GivenInv /\ StepInv

(* The sizes of the instance are those of a heap. *)
LEMMA Sized ==
    /\ Upper \in Nat /\ HS \in Nat /\ 0 < HS /\ 0 < Upper /\ HS < Upper
    /\ 1 \in Nat /\ 0 \in Nat
    /\ P!Upper = Upper /\ P!Upper \in Nat /\ HS < P!Upper /\ P!Upper <= Upper
    /\ {} \subseteq Nat \ {0}
  <1>1. /\ PageSize \in Nat /\ SharedPages \in Nat /\ HS \in Nat \ {0} /\ HS < PageSize
        /\ 0 < SharedPages
    BY SharedAssumption DEF SharedAssumption
  <1>2. \A k \in Nat : PageSize * (k + 1) = PageSize * k + PageSize /\ PageSize * k \in Nat
    BY <1>1
  <1>3. SharedPages - 1 \in Nat /\ SharedPages = (SharedPages - 1) + 1
    BY <1>1
  <1>4. PageSize * SharedPages = PageSize * (SharedPages - 1) + PageSize
        /\ PageSize * (SharedPages - 1) \in Nat
    BY <1>2, <1>3
  <1>5. Upper \in Nat /\ PageSize <= Upper
    BY <1>1, <1>4 DEF Upper
  <1>6. P!Upper = Upper
    BY <1>5 DEF P!Upper
  <1> QED
    BY <1>1, <1>5, <1>6

(* The instance walks all of its heap, whatever the size. *)
LEMMA FullWalk ==
    ASSUME NEW size \in Nat
    PROVE  P!UpperBound(size) \in Int /\ P!Upper <= P!UpperBound(size)
  <1>1. P!UpperBound(size) = Upper * (size \div (Upper - 0) + 1)
    BY DEF P!UpperBound, P!PagesFor
  <1>2. size \div (Upper - 0) \in Nat
    BY Sized
  <1> DEFINE k == size \div (Upper - 0)
  <1> HIDE DEF k
  <1>3. k \in Nat /\ P!UpperBound(size) = Upper * (k + 1)
    BY <1>1, <1>2 DEF k
  <1>4. Upper * (k + 1) = Upper * k + Upper /\ Upper * k \in Nat
    BY <1>3, Sized
  <1> QED
    BY <1>3, <1>4, Sized

(* What the running thread does changes where it is, and nobody else. *)
LEMMA OwnStep ==
    ASSUME PlaceInv, StepInv, running' = running, NEW p, at' = [at EXCEPT ![running] = p]
    PROVE  /\ PlaceInv' /\ at'[running] = p
           /\ \A t \in Threads \ {running} : at'[t] = User
  BY DEF PlaceInv, StepInv

(* A header of a whole heap. *)
LEMMA ChunkFacts ==
    ASSUME P!WellFormed(chunks), NEW h \in DOMAIN chunks
    PROVE  /\ h \in 0 .. Upper - 1 /\ h \in P!Headers(chunks)
           /\ chunks[h].size \in 0 .. Upper /\ chunks[h].prev \in 0 .. Upper
           /\ chunks[h].free \in BOOLEAN
           /\ h + HS + chunks[h].size <= Upper
  <1>1. h \in P!Headers(chunks)
    BY DEF P!Headers
  <1>2. h \in 0 .. Upper - 1 /\ chunks[h] \in P!HeaderFields
    BY <1>1, Sized DEF P!WellFormed
  <1>3. /\ chunks[h].size \in 0 .. Upper /\ chunks[h].prev \in 0 .. Upper
        /\ chunks[h].free \in BOOLEAN
    BY <1>2, Sized DEF P!HeaderFields
  <1>4. \/ h + HS + chunks[h].size = Upper
        \/ h + HS + chunks[h].size \in P!Headers(chunks)
    BY <1>1, Sized DEF P!WellFormed, P!Tiles, P!FindNextHeader
  <1>5. h + HS + chunks[h].size <= Upper
    BY <1>4, Sized DEF P!WellFormed
  <1> QED
    BY <1>1, <1>2, <1>3, <1>5

(* makeShallocPages makes one free chunk of the shared pages. *)
LEMMA NewHeap ==
    /\ P!WellFormed(OneFreeChunk) /\ DOMAIN OneFreeChunk = {0}
    /\ \A h \in {0} : ~P!AdjacentFree(OneFreeChunk, h)
  <1> DEFINE c == OneFreeChunk
  <1>1. /\ DOMAIN c = {0} /\ c[0].free = TRUE /\ c[0].size = Upper - HS /\ c[0].prev = 0
        /\ c[0] = [free |-> TRUE, size |-> Upper - HS, prev |-> 0]
        /\ c = [h \in {0} |-> c[h]]
    BY DEF OneFreeChunk
  <1> HIDE DEF c
  <1>2. P!Headers(c) = {0}
    BY <1>1 DEF P!Headers
  <1>3. c[0] \in P!HeaderFields
    BY <1>1, Sized DEF P!HeaderFields
  <1>4. P!FindNextHeader(c, 0) = Upper /\ P!FindPrevHeader(c, 0) < 0
    BY <1>1, Sized DEF P!FindNextHeader, P!FindPrevHeader
  <1>5. P!Tiles(c) /\ P!Linked(c)
    BY <1>2, <1>4, Sized DEF P!Tiles, P!Linked
  <1>6. c \in [{0} -> P!HeaderFields]
    BY <1>1, <1>3
  <1>7. P!WellFormed(c)
    BY <1>2, <1>5, <1>6, Sized DEF P!WellFormed
  <1>8. ~P!AdjacentFree(c, 0)
    BY <1>2, <1>4, Sized DEF P!AdjacentFree
  <1> QED
    BY <1>1, <1>7, <1>8 DEF c

(* A shalloc that starts makes the heap on the first call, and is alone    *)
(* inside.                                                                 *)
LEMMA StartsCalm ==
    ASSUME CalmInv, NEW size \in Sizes, ShallocStarts(size)
    PROVE  CalmInv'
  <1> DEFINE p == [pc |-> "search", size |-> size, head |-> 0, bound |-> 0]
  <1>1. /\ at' = [at EXCEPT ![running] = p] /\ running' = running /\ given' = given
        /\ flag' = TRUE /\ pages' = SharedPages
        /\ chunks' = IF Initialized THEN chunks ELSE OneFreeChunk
    BY DEF ShallocStarts, control
  <1>2. size \in Nat /\ 0 < size /\ size <= Upper - HS
    BY Sized, SharedAssumption DEF ShallocStarts, TooLarge, SharedAssumption
  <1>3. p.pc = "search" /\ p.size = size /\ p # User
    BY DEF User
  <1> HIDE DEF p
  <1>4. PlaceInv' /\ at'[running] = p /\ \A t \in Threads \ {running} : at'[t] = User
    BY <1>1, OwnStep DEF CalmInv
  <1>5. CASE Initialized
    BY <1>1, <1>2, <1>3, <1>4, <1>5
       DEF CalmInv, HeapInv, GivenInv, StepInv, Initialized, InUser, Is, Size, User,
           P!NoAdjacentFree
  <1>6. CASE ~Initialized
    <2>1. chunks' = OneFreeChunk /\ DOMAIN chunks' = {0}
      BY <1>1, <1>6, NewHeap
    <2>2. given = {}
      BY <1>6 DEF CalmInv, GivenInv, Initialized
    <2>3. HeapInv'
      BY <2>1, NewHeap DEF HeapInv, P!NoAdjacentFree, P!AdjacentFree, P!Headers
    <2>4. StepInv'
      BY <1>1, <1>2, <1>3, <1>4, <2>1 DEF StepInv, Initialized, InUser, Is, Size
    <2> QED
      BY <1>1, <1>4, <2>2, <2>3, <2>4 DEF CalmInv, GivenInv
  <1> QED
    BY <1>5, <1>6

(* A search that finds a chunk finds a free one that is large enough.      *)
LEMMA FindsCalm ==
    ASSUME CalmInv, SearchFinds
    PROVE  CalmInv'
  <1>1. PICK h \in DOMAIN chunks : FirstFit(h) /\ Goto("found", h, WalkBound)
    BY DEF SearchFinds, FirstFit, Fits
  <1>2. UNCHANGED <<chunks, flag, pages, running, given>> /\ Is("search")
    BY DEF SearchFinds, control
  <1>3. Is("search") => at[running] # User
    BY DEF Is, User
  <1>4. /\ Initialized /\ flag /\ pages = SharedPages
        /\ Size \in Nat /\ 0 < Size /\ Size <= Upper - HS
    BY <1>2, <1>3 DEF CalmInv, StepInv, InUser
  <1>5. WalkBound = Upper
    BY <1>4 DEF WalkBound, Upper
  <1> DEFINE p == [pc |-> "found", size |-> Size, head |-> h, bound |-> WalkBound]
  <1>6. /\ p.pc = "found" /\ p.size = Size /\ p.head = h /\ p.bound = Upper /\ p # User
        /\ at' = [at EXCEPT ![running] = p]
    BY <1>1, <1>5 DEF User, Goto
  <1> HIDE DEF p
  <1>7. PlaceInv' /\ at'[running] = p /\ \A t \in Threads \ {running} : at'[t] = User
    BY <1>2, <1>6, OwnStep DEF CalmInv
  <1>8. chunks[h].free /\ chunks[h].size >= Size
    BY <1>1 DEF FirstFit, Fits
  <1>9. StepInv'
    BY <1>2, <1>4, <1>6, <1>7, <1>8 DEF StepInv, Initialized, InUser, Is, Size, Found, Bound
  <1> QED
    BY <1>2, <1>7, <1>9 DEF CalmInv, HeapInv, GivenInv, Initialized, P!NoAdjacentFree

(* A call that returns and leaves chunks and blocks alone. *)
LEMMA ReturnsCalm ==
    ASSUME CalmInv, NEW kind, Returns(kind), UNCHANGED <<chunks, running, given>>
    PROVE  CalmInv'
  <1>1. PlaceInv' /\ at'[running] = User /\ \A t \in Threads \ {running} : at'[t] = User
    BY OwnStep DEF CalmInv, Returns
  <1>2. StepInv'
    BY <1>1 DEF StepInv, InUser, Is, User
  <1> QED
    BY <1>1, <1>2 DEF CalmInv, HeapInv, GivenInv, Initialized, P!NoAdjacentFree

(* The cut of a chunk is the split of ChunkHeap: the rest of the chunk is  *)
(* a size that an unsigned short holds, and the bound of the walk is the   *)
(* end of the shared pages, past every header.                             *)
LEMMA CutIsSplit ==
    ASSUME P!WellFormed(chunks), Found \in DOMAIN chunks, Bound = Upper, Size \in Nat,
           chunks[Found].size - Size > HS
    PROVE  Cut(chunks[Found]) = P!SplitChunk(Found, Size)
  <1> DEFINE h == Found
             n == h + Size + HS
             rest == chunks[h].size - Size - HS
             after == P!FindNextHeader(chunks, h)
  <1>1. /\ h \in Nat /\ chunks[h].size \in 0 .. Upper /\ Upper \in Nat /\ HS \in Nat
        /\ UShorts \in Nat /\ Upper < UShorts
    BY ChunkFacts, Sized, SharedAssumption DEF SharedAssumption
  <1>2. rest \in 0 .. UShorts - 1 /\ rest % UShorts = rest
    BY <1>1
  <1>3. after = n + HS + rest
    BY <1>1 DEF P!FindNextHeader
  <1>4. after \in DOMAIN chunks => after < Bound /\ after < P!UpperBound(Size)
    BY ChunkFacts, FullWalk, Sized
  <1>5. DOMAIN chunks \cup {h, n} = DOMAIN chunks \cup {n}
    OBVIOUS
  <1>6. /\ Found = h /\ Found + Size + HS = n
        /\ (chunks[Found].size - Size - HS) % UShorts = rest
    BY <1>2
  <1>7. P!SplitChunk(h, Size) = [o \in DOMAIN chunks \cup {n} |->
            IF o = h THEN [free |-> FALSE, size |-> Size, prev |-> chunks[h].prev]
            ELSE IF o = n THEN [free |-> TRUE, size |-> rest, prev |-> Size]
            ELSE IF o = after /\ after < P!UpperBound(Size)
                 THEN [chunks[o] EXCEPT !.prev = rest]
            ELSE chunks[o]]
    BY DEF P!SplitChunk, P!Headers
  <1> HIDE DEF n, rest, after
  <1>8. Cut(chunks[h]) = [o \in DOMAIN chunks \cup {n} |->
            IF o = h THEN [free |-> FALSE, size |-> Size, prev |-> chunks[h].prev]
            ELSE IF o = n THEN [free |-> TRUE, size |-> rest, prev |-> Size]
            ELSE IF o = after /\ after < Bound THEN [chunks[o] EXCEPT !.prev = rest]
            ELSE chunks[o]]
    BY <1>3, <1>5, <1>6 DEF Cut
  <1>9. \A o \in DOMAIN chunks \cup {n} : o # n =>
            (o = after /\ after < Bound <=> o = after /\ after < P!UpperBound(Size))
    BY <1>4
  <1> QED
    BY <1>7, <1>8, <1>9

(* Taking a free chunk, cut or whole, leaves a whole heap with that chunk  *)
(* in use and long enough, and the chunks in use as they were.             *)
LEMMA TakenWhole ==
    ASSUME P!WellFormed(chunks), P!NoAdjacentFree, Found \in DOMAIN chunks, chunks[Found].free,
           Bound = Upper, Size \in Nat, chunks[Found].size >= Size
    PROVE  LET taken == Taken(chunks[Found])
           IN  /\ P!WellFormed(taken) /\ \A o \in DOMAIN taken : ~P!AdjacentFree(taken, o)
               /\ DOMAIN chunks \subseteq DOMAIN taken
               /\ ~taken[Found].free /\ taken[Found].size >= Size
               /\ \A o \in DOMAIN chunks \ {Found} : /\ taken[o].size = chunks[o].size
                                                     /\ taken[o].free = chunks[o].free
  <1> DEFINE h == Found
             taken == Taken(chunks[h])
  <1>1. h \in P!Headers(chunks) /\ chunks[h].size \in Nat /\ P!Headers(chunks) = DOMAIN chunks
    BY ChunkFacts DEF P!Headers
  <1>2. CASE chunks[h].size - Size > HS
    <2>1. taken = P!SplitChunk(h, Size)
      BY <1>2, CutIsSplit DEF Taken, Splits
    <2>2. Size + HS < chunks[h].size
      BY <1>1, <1>2, Sized
    <2> DEFINE hp == P!SplitChunk(h, Size)
    <2>3. /\ P!WellFormed(hp) /\ P!Headers(hp) = P!Headers(chunks) \cup {h + Size + HS}
          /\ hp[h].size = Size /\ ~hp[h].free
          /\ \A o \in P!Headers(chunks) \ {h} : /\ hp[o].size = chunks[o].size
                                                /\ hp[o].free = chunks[o].free
      BY <1>1, <2>2, FullWalk, Sized, P!SplitWellFormed
    <2>4. \A o \in P!Headers(hp) : ~P!AdjacentFree(hp, o)
      BY <1>1, <2>2, FullWalk, Sized, P!SplitSeparated
    <2>5. P!Headers(hp) = DOMAIN hp
      BY DEF P!Headers
    <2> HIDE DEF hp
    <2>6. taken = hp
      BY <2>1 DEF hp
    <2> HIDE DEF taken
    <2> QED
      BY <1>1, <2>3, <2>4, <2>5, <2>6 DEF taken
  <1>3. CASE ~(chunks[h].size - Size > HS)
    <2> DEFINE hp == P!Mark(chunks, h, FALSE)
    <2>1. taken = hp
      <3>1. ~Splits(chunks[h])
        BY <1>1, <1>3, Sized DEF Splits
      <3>2. DOMAIN chunks \cup {h} = DOMAIN chunks
        OBVIOUS
      <3>3. chunks = [o \in DOMAIN chunks |-> chunks[o]]
        BY DEF P!WellFormed, P!Headers
      <3> QED
        BY <3>1, <3>2, <3>3 DEF Taken, Marked, P!Mark
    <2>2. /\ P!WellFormed(hp) /\ P!Headers(hp) = P!Headers(chunks) /\ ~hp[h].free
          /\ \A o \in P!Headers(chunks) : /\ hp[o].size = chunks[o].size
                                          /\ o # h => (hp[o].free <=> chunks[o].free)
      BY <1>1, Sized, P!MarkWellFormed
    <2>3. \A o \in P!Headers(hp) : ~P!AdjacentFree(hp, o)
      BY <1>1, Sized, P!MarkSeparated
    <2>4. P!Headers(hp) = DOMAIN hp
      BY DEF P!Headers
    <2>5. \A o \in DOMAIN chunks \ {h} : hp[o] = chunks[o]
      BY DEF P!Mark
    <2> HIDE DEF hp, taken
    <2> QED
      BY <1>1, <2>1, <2>2, <2>3, <2>4, <2>5 DEF taken
  <1> QED
    BY <1>2, <1>3

(* So does a shalloc that takes the chunk it has found. *)
LEMMA TakesCalm ==
    ASSUME CalmInv, Take
    PROVE  CalmInv'
  <1>1. /\ chunks' = Taken(chunks[Found]) /\ Goto("taken", Found, Bound) /\ Is("found")
        /\ UNCHANGED <<flag, pages, running, given>>
    BY DEF Take, control
  <1>2. Is("found") => at[running] # User
    BY DEF Is, User
  <1>3. /\ Initialized /\ flag /\ pages = SharedPages
        /\ Size \in Nat /\ 0 < Size /\ Size <= Upper - HS
        /\ Found \in DOMAIN chunks /\ chunks[Found].free
        /\ chunks[Found].size >= Size /\ Bound = Upper
    BY <1>1, <1>2 DEF CalmInv, StepInv, InUser
  <1>4. P!WellFormed(chunks) /\ P!NoAdjacentFree
    BY <1>3 DEF CalmInv, HeapInv
  <1> DEFINE p == [pc |-> "taken", size |-> Size, head |-> Found, bound |-> Bound]
             h == Found
             taken == Taken(chunks[Found])
  <1>5. /\ p.pc = "taken" /\ p.size = Size /\ p.head = h /\ p # User
        /\ at' = [at EXCEPT ![running] = p]
    BY <1>1 DEF User, Goto
  <1>6. /\ P!WellFormed(taken) /\ \A o \in DOMAIN taken : ~P!AdjacentFree(taken, o)
        /\ DOMAIN chunks \subseteq DOMAIN taken
        /\ ~taken[h].free /\ taken[h].size >= Size
        /\ \A o \in DOMAIN chunks \ {h} : /\ taken[o].size = chunks[o].size
                                          /\ taken[o].free = chunks[o].free
        /\ chunks' = taken
    BY <1>1, <1>3, <1>4, TakenWhole
  <1> HIDE DEF p, h, taken
  <1>7. PlaceInv' /\ at'[running] = p /\ \A t \in Threads \ {running} : at'[t] = User
    BY <1>1, <1>5, OwnStep DEF CalmInv
  <1>8. HeapInv'
    BY <1>1, <1>6 DEF HeapInv, P!NoAdjacentFree, P!AdjacentFree, P!Headers
  <1>9. \A b \in given : b.at - HS \in DOMAIN chunks \ {h}
    BY <1>3 DEF CalmInv, GivenInv, h
  <1>10. GivenInv'
    BY <1>1, <1>6, <1>9 DEF CalmInv, GivenInv
  <1>11. \A b \in given : b.at # h + HS
    <2>1. h \in Int /\ HS \in Int
      BY <1>3, <1>4, ChunkFacts, Sized DEF h
    <2> QED
      BY <1>9, <2>1
  <1>12. StepInv'
    <2>1. h \in DOMAIN chunks
      BY <1>3 DEF h
    <2> QED
      BY <1>1, <1>3, <1>5, <1>6, <1>7, <1>11, <2>1
         DEF StepInv, Initialized, InUser, Is, Size, Found
  <1> QED
    BY <1>7, <1>8, <1>10, <1>12 DEF CalmInv

(* The chunk that a shalloc returns is a block shared with no other. *)
LEMMA GivesDisjoint ==
    ASSUME CalmInv, ReturnShared
    PROVE  CalmInv' /\ Abstract!Next
  <1> DEFINE new == [by |-> running, at |-> Found + HS, len |-> Size]
             nb == [at |-> Found + HS, len |-> Size]
  <1>1. /\ given' = given \cup {new} /\ Is("taken") /\ Returns("shared")
        /\ UNCHANGED <<chunks, running>>
    BY DEF ReturnShared, control
  <1>2. Is("taken") => at[running] # User
    BY DEF Is, User
  <1>3. /\ Initialized /\ Size \in Nat /\ 0 < Size /\ Size <= Upper - HS
        /\ Found \in DOMAIN chunks /\ ~chunks[Found].free /\ chunks[Found].size >= Size
        /\ \A b \in given : b.at # Found + HS
    BY <1>1, <1>2 DEF CalmInv, StepInv, InUser
  <1>4. P!WellFormed(chunks) /\ P!NoAdjacentFree
    BY <1>3 DEF CalmInv, HeapInv
  <1>5. Found \in Nat /\ Found + HS + chunks[Found].size <= Upper /\ chunks[Found].size \in Nat
    BY <1>3, <1>4, ChunkFacts
  <1>6. PlaceInv' /\ at'[running] = User /\ \A t \in Threads \ {running} : at'[t] = User
    BY <1>1, OwnStep DEF CalmInv, Returns
  <1>7. StepInv'
    BY <1>1, <1>6 DEF StepInv, InUser, Is, User
  <1>8. HeapInv'
    BY <1>1, <1>4 DEF HeapInv, P!NoAdjacentFree
  <1>9. /\ new.at = Found + HS /\ new.len = Size /\ new.at - HS = Found /\ new.at \in Int
        /\ nb.at = Found + HS /\ nb.len = Size
    BY <1>5, Sized
  <1>10. Blocks' = Blocks \cup {nb}
    <2>1. {[at |-> b.at, len |-> b.len] : b \in given \cup {new}}
            = {[at |-> b.at, len |-> b.len] : b \in given} \cup {[at |-> new.at, len |-> new.len]}
      OBVIOUS
    <2> QED
      BY <1>1, <1>9, <2>1 DEF Blocks
  <1>11. nb \in Abstract!Blocks
    BY <1>3, <1>5, Sized DEF Abstract!Blocks
  <1> HIDE DEF new, nb
  <1>12. GivenInv'
    BY <1>1, <1>3, <1>9 DEF CalmInv, GivenInv
  <1>13. ASSUME NEW b \in given
         PROVE  b.at # nb.at /\ (nb.at + nb.len <= b.at \/ b.at + b.len <= nb.at)
    <2>1. /\ b.at - HS \in DOMAIN chunks /\ b.at \in Int /\ b.len \in Nat
          /\ b.len <= chunks[b.at - HS].size
      BY DEF CalmInv, GivenInv
    <2> DEFINE x == b.at - HS
    <2>2. x \in Nat /\ x \in DOMAIN chunks /\ b.at = x + HS /\ chunks[x].size \in Nat
      BY <1>4, <2>1, ChunkFacts, Sized
    <2> HIDE DEF x
    <2>3. x # Found
      BY <1>3, <2>2
    <2>4. \/ x + HS + chunks[x].size <= Found + HS
          \/ Found + HS + chunks[Found].size <= x + HS
      BY <1>3, <1>4, <2>2, <2>3, Sized, P!ChunksDisjoint DEF P!Headers
    <2>5. b.len <= chunks[x].size
      BY <2>1 DEF x
    <2> QED
      BY <1>3, <1>5, <1>9, <2>1, <2>2, <2>4, <2>5, Sized
  <1>14. Abstract!Alloc(nb)
    <2>1. \A c \in Blocks : \E b \in given : c.at = b.at /\ c.len = b.len
      BY DEF Blocks
    <2>2. \A c \in Blocks : Abstract!Disjoint(nb, c) /\ c # nb
      BY <1>13, <2>1 DEF Abstract!Disjoint
    <2> QED
      BY <1>10, <2>2 DEF Abstract!Alloc
  <1> QED
    BY <1>6, <1>7, <1>8, <1>11, <1>12, <1>14 DEF CalmInv, Abstract!Next

(* The free of ChunkHeap and its namesake of ChunkHeapProofs. *)
LEMMA FreeIsFree == \A h : FreedChunks(h) = P!FreedBoth(h)
  BY DEF FreedChunks, Heap!FreedBoth, Heap!FreedLeft, Heap!LeftEnd, Heap!Coalesce,
         Heap!CanCoalesce, Heap!Merged, Heap!Freed, Heap!Mark, Heap!FindNextHeader,
         Heap!FindPrevHeader, Heap!Headers, Heap!Upper,
         P!FreedBoth, P!FreedLeft, P!LeftEnd, P!Coalesce, P!CanCoalesce, P!Merged, P!Freed,
         P!Mark, P!FindNextHeader, P!FindPrevHeader, P!Headers, P!Upper

(* A free gives one block back and leaves the others what they were. *)
LEMMA FreesCalm ==
    ASSUME CalmInv, NEW p \in {b.at : b \in given}, Free(p)
    PROVE  CalmInv' /\ Abstract!Next
  <1>1. /\ InUser /\ given' = {b \in given : b.at # p} /\ UNCHANGED <<at, running, flag, pages>>
        /\ chunks' = IF Used(p - HS) THEN FreedChunks(p - HS) ELSE chunks
    BY DEF Free, control
  <1>2. PICK d \in given : d.at = p
    OBVIOUS
  <1> DEFINE h == p - HS
             hp == P!FreedBoth(h)
             nb == [at |-> d.at, len |-> d.len]
  <1>3. /\ h \in DOMAIN chunks /\ ~chunks[h].free /\ p \in Int
        /\ d.len \in Nat /\ d.len <= chunks[h].size
    BY <1>2 DEF CalmInv, GivenInv
  <1>4. P!WellFormed(chunks) /\ P!NoAdjacentFree
    BY <1>3 DEF CalmInv, HeapInv, Initialized
  <1>5. chunks' = hp
    BY <1>1, <1>3, FreeIsFree DEF Used
  <1>6. /\ h \in P!Headers(chunks) /\ h \in Nat
        /\ h + HS + chunks[h].size <= Upper /\ chunks[h].size \in Nat
    BY <1>3, <1>4, ChunkFacts
  <1>7. /\ P!WellFormed(hp)
        /\ \A o \in P!Headers(hp) : ~P!AdjacentFree(hp, o)
        /\ \A o \in P!Headers(chunks) :
              ~chunks[o].free /\ o # h => o \in P!Headers(hp) /\ ~hp[o].free
        /\ \A o \in P!Headers(hp) : ~hp[o].free => hp[o].size = chunks[o].size
    BY <1>3, <1>4, <1>6, Sized, P!FreeWellFormed
  <1> HIDE DEF hp
  <1>8. HeapInv'
    BY <1>5, <1>7 DEF HeapInv, P!NoAdjacentFree, P!AdjacentFree
  <1>9. \A b \in given' : b.at - HS # h
    BY <1>1, <1>3, Sized DEF CalmInv, GivenInv
  <1> HIDE DEF h
  <1>10. GivenInv'
    <2>1. given' \subseteq given
      BY <1>1
    <2>2. ASSUME NEW b \in given'
          PROVE  /\ b.at - HS \in DOMAIN hp /\ ~hp[b.at - HS].free
                 /\ b.at \in Int /\ b.len \in Nat /\ b.len <= hp[b.at - HS].size
      BY <1>7, <1>9, <2>1 DEF CalmInv, GivenInv, P!Headers
    <2>3. \A b, c \in given' : b.at = c.at => b = c
      BY <2>1 DEF CalmInv, GivenInv
    <2> QED
      BY <1>5, <2>2, <2>3 DEF GivenInv
  <1>11. PlaceInv' /\ StepInv'
    BY <1>1 DEF CalmInv, PlaceInv, StepInv, InUser, Is, User
  <1>12. nb \in Blocks /\ Blocks' = Blocks \ {nb}
    <2>1. \A b \in given : b.at = d.at <=> b = d
      BY DEF CalmInv, GivenInv
    <2>2. given' = given \ {d}
      BY <1>1, <1>2, <2>1
    <2>3. \A b \in given : [at |-> b.at, len |-> b.len] = nb <=> b = d
      BY <2>1
    <2> QED
      BY <2>2, <2>3 DEF Blocks
  <1>13. nb \in Abstract!Blocks
    BY <1>2, <1>3, <1>6, Sized DEF Abstract!Blocks, h
  <1> QED
    BY <1>8, <1>10, <1>11, <1>12, <1>13 DEF CalmInv, Abstract!Next, Abstract!Release

(* Whatever changes neither chunks nor blocks, nor the place of a thread   *)
(* inside a shalloc, keeps the calm.                                       *)
LEMMA BetweenCalls ==
    ASSUME CalmInv, InUser, UNCHANGED <<chunks, given, at>>, running' \in Threads
    PROVE  CalmInv'
  <1>1. \A t \in Threads : at[t] = User
    BY DEF CalmInv, StepInv, InUser
  <1> QED
    BY <1>1 DEF CalmInv, PlaceInv, HeapInv, GivenInv, StepInv, Initialized, InUser, Is, User,
                P!NoAdjacentFree

(* The steps of a shalloc, calm: it finds its chunk as it left it.         *)
LEMMA ShallocCalm ==
    ASSUME CalmInv, Shalloc
    PROVE  CalmInv' /\ (Blocks' = Blocks \/ Abstract!Next)
  <1>1. given' = given => Blocks' = Blocks
    BY DEF Blocks
  <1>2. ASSUME NEW size \in Sizes, ShallocRefuses(size)
        PROVE  CalmInv' /\ given' = given
    BY <1>2, ReturnsCalm DEF ShallocRefuses, control
  <1>3. ASSUME NEW size \in Sizes, ShallocStarts(size)
        PROVE  CalmInv' /\ given' = given
    BY <1>3, StartsCalm DEF ShallocStarts
  <1>4. CASE SearchFinds
    BY <1>1, <1>4, FindsCalm DEF SearchFinds
  <1>5. CASE SearchFails
    BY <1>1, <1>5, ReturnsCalm DEF SearchFails, control
  <1>6. CASE Take
    BY <1>1, <1>6, TakesCalm DEF Take
  <1>7. ~TakeWild
    <2>1. Is("found") => Usable
      BY DEF CalmInv, StepInv, Usable
    <2> QED
      BY <2>1 DEF TakeWild
  <1>8. CASE ReturnShared
    BY <1>8, GivesDisjoint
  <1>9. ~ReturnMisplaced
    <2>1. Is("taken") => flag
      BY DEF CalmInv, StepInv, InUser, Is, User
    <2> QED
      BY <2>1 DEF ReturnMisplaced
  <1> QED
    BY <1>1, <1>2, <1>3, <1>4, <1>5, <1>6, <1>7, <1>8, <1>9 DEF Shalloc

(* A step that does not interrupt a shalloc keeps the calm, and is one of  *)
(* an allocator or changes no block.                                       *)
LEMMA CalmStep ==
    ASSUME CalmInv, [Next]_vars, cuts \in Nat, ~interrupted'
    PROVE  CalmInv' /\ (Blocks' = Blocks \/ Abstract!Next)
  <1>1. given' = given => Blocks' = Blocks
    BY DEF Blocks
  <1>2. running \in Threads
    BY DEF CalmInv, PlaceInv
  <1>3. ASSUME NEW n \in Requests, Malloc(n)
        PROVE  CalmInv' /\ given' = given
    BY <1>3, ReturnsCalm DEF Malloc, MallocServed, MallocNoPage, MallocNoChunk, control
  <1>4. CASE StartScheduler
    BY <1>1, <1>2, <1>4, BetweenCalls DEF StartScheduler
  <1>5. ASSUME NEW u \in Threads \ {running}, Switch(u)
        PROVE  CalmInv' /\ given' = given
    <2>1. InUser
      BY <1>5 DEF Switch, interrupted
    <2> QED
      BY <1>5, <2>1, BetweenCalls DEF Switch
  <1>6. CASE UNCHANGED vars
    <2>1. UNCHANGED <<chunks, flag, pages, running, at, given>>
      BY <1>6 DEF vars, control
    <2>2. CalmInv'
      BY <2>1 DEF CalmInv, PlaceInv, HeapInv, GivenInv, StepInv, Initialized, InUser, Is,
                  Size, Found, Bound, P!NoAdjacentFree
    <2> QED
      BY <1>1, <2>1, <2>2
  <1> QED
    BY <1>1, <1>3, <1>4, <1>5, <1>6, ShallocCalm, FreesCalm DEF Next

(* The invariant of Spec: calm until a shalloc is interrupted. *)
SafeInv == cuts \in Nat /\ (~interrupted => CalmInv)

(* No step but a switch touches the count of the interruptions. *)
LEMMA CutsGrow ==
    ASSUME cuts \in Nat, [Next]_vars
    PROVE  cuts' \in Nat /\ (interrupted => interrupted')
  <1>1. ASSUME NEW u, Switch(u)
        PROVE  cuts' \in Nat /\ cuts' >= cuts
    BY <1>1 DEF Switch
  <1>2. CASE Shalloc
    BY <1>2 DEF Shalloc, ShallocRefuses, ShallocStarts, SearchFinds, SearchFails, Take, TakeWild,
                ReturnShared, ReturnMisplaced, control, interrupted
  <1>3. ASSUME NEW n, Malloc(n)
        PROVE  cuts' = cuts
    BY <1>3 DEF Malloc, MallocServed, MallocNoPage, MallocNoChunk, control
  <1>4. ASSUME NEW p, Free(p)
        PROVE  cuts' = cuts
    BY <1>4 DEF Free, control
  <1>5. StartScheduler \/ UNCHANGED vars => cuts' = cuts
    BY DEF StartScheduler, vars, control
  <1> QED
    BY <1>1, <1>2, <1>3, <1>4, <1>5 DEF Next, interrupted

(* Every step keeps the invariant. *)
LEMMA SafeStep ==
    ASSUME SafeInv, [Next]_vars
    PROVE  SafeInv' /\ (interrupted' \/ Blocks' = Blocks \/ Abstract!Next)
  BY CutsGrow, CalmStep DEF SafeInv

(* At the start there is no heap, no block and no call. *)
LEMMA StartsSafe == Init => SafeInv
  BY DEF Init, SafeInv, CalmInv, PlaceInv, HeapInv, GivenInv, StepInv, Initialized, InUser, Is,
         User, Threads

(* The shared pages stay one whole heap until a shalloc is interrupted. *)
THEOREM SharedHeapStaysWhole == Spec => []SharedHeapWhole
  <1>1. SafeInv => SharedHeapWhole
    <2>1. P!Linked(chunks) => Heap!PrevCoherent
      BY DEF P!Linked, P!FindPrevHeader, P!FindNextHeader, P!Headers,
             Heap!PrevCoherent, Heap!Linked, Heap!FindPrevHeader, Heap!FindNextHeader, Heap!Headers
    <2>2. P!NoAdjacentFree => Heap!NoAdjacentFree
      BY DEF P!NoAdjacentFree, P!FindNextHeader, P!Headers,
             Heap!NoAdjacentFree, Heap!FindNextHeader, Heap!Headers
    <2> QED
      BY <2>1, <2>2 DEF SafeInv, CalmInv, HeapInv, P!WellFormed, SharedHeapWhole
  <1>2. SafeInv /\ [Next]_vars => SafeInv'
    BY SafeStep
  <1> QED
    BY <1>1, <1>2, StartsSafe, PTL DEF Spec

(* The blocks that the calls give and take are those of an allocator over  *)
(* the shared pages, until a shalloc is interrupted.                       *)
THEOREM SharedCallsAllocate == Spec => AllocatesDisjoint
  <1>1. SafeInv /\ [Next]_vars => SafeInv'
    BY SafeStep
  <1>2. SafeInv /\ [Next]_vars => [interrupted' \/ Blocks' = Blocks \/ Abstract!Next]_vars
    BY SafeStep
  <1> QED
    BY <1>1, <1>2, StartsSafe, PTL DEF Spec, AllocatesDisjoint

(* A search that ends the call has failed, and has seen every chunk. *)
LEMMA RefusedSeen ==
    ASSUME SafeInv, ~interrupted, [Next]_vars, Is("search"), at'[running] = User
    PROVE  \A h \in DOMAIN chunks : chunks[h].free => chunks[h].size < Size
  <1>1. at[running] # User /\ ~InUser /\ ~Is("found") /\ ~Is("taken")
    BY DEF Is, User, InUser
  <1>2. /\ Initialized /\ pages = SharedPages /\ Size \in Nat /\ CalmInv
    BY <1>1 DEF SafeInv, CalmInv, StepInv
  <1>3. P!WellFormed(chunks) /\ WalkBound = Upper
    BY <1>2 DEF CalmInv, HeapInv, WalkBound, Upper
  <1>4. ~SearchFinds
    <2>1. ASSUME NEW h, Goto("found", h, WalkBound)
          PROVE  FALSE
      <3> DEFINE p == [pc |-> "found", size |-> Size, head |-> h, bound |-> WalkBound]
      <3>1. p # User /\ at' = [at EXCEPT ![running] = p]
        BY <2>1 DEF Goto, User
      <3> HIDE DEF p
      <3> QED
        BY <1>2, <3>1 DEF CalmInv, PlaceInv
    <2> QED
      BY <2>1 DEF SearchFinds
  <1>5. at' # at
    BY <1>1
  <1>6. SearchFails
    BY <1>1, <1>4, <1>5 DEF Next, vars, Shalloc, ShallocRefuses, ShallocStarts, Take, TakeWild,
       ReturnShared, ReturnMisplaced, Malloc, MallocServed, MallocNoPage, MallocNoChunk, Free,
       StartScheduler, Switch
  <1>7. ASSUME NEW h \in DOMAIN chunks, chunks[h].free
        PROVE  chunks[h].size < Size
    <2>1. ~Fits(h)
      BY <1>6 DEF SearchFails
    <2>2. h < WalkBound /\ chunks[h].size \in Nat
      BY <1>3, ChunkFacts, Sized
    <2> QED
      BY <1>2, <1>7, <2>1, <2>2 DEF Fits
  <1> QED
    BY <1>7

(* Until a shalloc is interrupted, one that is refused is for a size that  *)
(* no free chunk of the shared pages has.                                  *)
THEOREM SharedRefusalsAreFull == Spec => RefusesOnlyWhatFitsNowhere
  <1>1. SafeInv /\ [Next]_vars => SafeInv'
    BY SafeStep
  <1>2. SafeInv /\ [Next]_vars
          => [~interrupted /\ Is("search") /\ at'[running] = User
                => \A h \in DOMAIN chunks : chunks[h].free => chunks[h].size < Size]_vars
    BY RefusedSeen
  <1> QED
    BY <1>1, <1>2, StartsSafe, PTL DEF Spec, RefusesOnlyWhatFitsNowhere

-----------------------------------------------------------------------------
(* What the types rest on: a chunk is at a number, and a thread inside a   *)
(* shalloc knows its size.                                                 *)
Places == [pc : Steps \cup {"user", "lost"}, size : Sizes \cup {0}, head : Nat, bound : Nat]
PlacesInv ==
    /\ running \in Threads /\ at \in [Threads -> Places]
    /\ \A t \in Threads : at[t].pc # "user" => at[t].size \in Sizes /\ 0 < at[t].size
GlobalsInv ==
    /\ flag \in BOOLEAN /\ started \in BOOLEAN /\ timer \in BOOLEAN
    /\ pages \in Requests \cup {0, 1, SharedPages} /\ handed \in Kinds
BlocksInv == \A b \in given : b.by \in Threads /\ b.len \in Sizes /\ 0 < b.len
TypeInv == DOMAIN chunks \subseteq Nat /\ PlacesInv /\ GlobalsInv /\ BlocksInv

(* A thread that moves to a place keeps the places typed. *)
LEMMA PlaceTyped ==
    ASSUME PlacesInv, running' = running, NEW p \in Places,
           at' = [at EXCEPT ![running] = p],
           p.pc # "user" => p.size \in Sizes /\ 0 < p.size
    PROVE  PlacesInv'
  <1>1. /\ at' \in [Threads -> Places] /\ at'[running] = p
        /\ \A t \in Threads \ {running} : at'[t] = at[t]
    BY DEF PlacesInv
  <1> QED
    BY <1>1 DEF PlacesInv

(* The place of a thread that is not in a shalloc. *)
LEMMA UserTyped == User \in Places /\ User.pc = "user"
  BY DEF User, Places

(* A call that returns. *)
LEMMA ReturnsTyped ==
    ASSUME PlacesInv, running' = running, NEW kind, Returns(kind)
    PROVE  PlacesInv' /\ handed' = kind
  BY PlaceTyped, UserTyped DEF Returns

(* A step to another place of the shalloc, with the same size. *)
LEMMA GotoTyped ==
    ASSUME PlacesInv, running' = running, at[running].pc # "user",
           NEW pc \in Steps \cup {"lost"}, NEW h \in Nat, NEW b \in Nat, Goto(pc, h, b)
    PROVE  PlacesInv'
  <1> DEFINE p == [pc |-> pc, size |-> Size, head |-> h, bound |-> b]
  <1>1. Size \in Sizes /\ 0 < Size
    BY DEF PlacesInv, Size
  <1>2. p \in Places /\ p.size = Size
    BY <1>1 DEF Places
  <1>3. at' = [at EXCEPT ![running] = p]
    BY DEF Goto
  <1> HIDE DEF p
  <1> QED
    BY <1>1, <1>2, <1>3, PlaceTyped

(* The bound of a walk is a number. *)
LEMMA WalkBounded ==
    ASSUME GlobalsInv
    PROVE  WalkBound \in Nat
  <1>1. PageSize \in Nat /\ pages \in Nat
    BY SharedAssumption DEF SharedAssumption, GlobalsInv
  <1>2. \A k \in Nat : PageSize * k \in Nat
    BY <1>1
  <1> QED
    BY <1>1, <1>2 DEF WalkBound

(* A chunk that is taken leaves headers at numbers. *)
LEMMA TakenPlaced ==
    ASSUME DOMAIN chunks \subseteq Nat, Found \in Nat, Size \in Nat, NEW old
    PROVE  DOMAIN Taken(old) \subseteq Nat
  <1>1. Found + Size + HS \in Nat
    BY Sized
  <1> DEFINE n == Found + Size + HS
  <1>2. DOMAIN Cut(old) = DOMAIN chunks \cup {Found, n}
    BY DEF Cut
  <1>3. DOMAIN Marked(old) = DOMAIN chunks \cup {Found}
    BY DEF Marked
  <1> QED
    BY <1>1, <1>2, <1>3 DEF Taken

(* A free adds no header. *)
LEMMA FreedPlaced ==
    ASSUME NEW h
    PROVE  DOMAIN FreedChunks(h) \subseteq DOMAIN chunks
  <1>1. \A c, l, r : DOMAIN Heap!Coalesce(c, l, r) \subseteq DOMAIN c
    BY DEF Heap!Coalesce, Heap!Merged, Heap!Headers
  <1>2. DOMAIN Heap!Freed(h) = DOMAIN chunks
    BY DEF Heap!Freed, Heap!Mark
  <1>3. DOMAIN Heap!FreedLeft(h) \subseteq DOMAIN chunks
    BY <1>1, <1>2 DEF Heap!FreedLeft
  <1> QED
    BY <1>1, <1>3 DEF FreedChunks, Heap!FreedBoth

(* The steps of a shalloc keep the types, wherever they are interrupted.   *)
LEMMA ShallocTyped ==
    ASSUME TypeInv, Shalloc
    PROVE  TypeInv'
  <1> USE DEF TypeInv
  <1>1. SharedPages \in Requests \cup {0, 1, SharedPages} /\ Sizes \subseteq Nat
    BY SharedAssumption DEF SharedAssumption
  <1>2. ASSUME NEW size \in Sizes, ShallocRefuses(size)
        PROVE  TypeInv'
    <2>1. PlacesInv' /\ handed' = "null"
      BY <1>2, ReturnsTyped DEF ShallocRefuses, control
    <2> QED
      BY <1>1, <1>2, <2>1 DEF ShallocRefuses, control, GlobalsInv, BlocksInv, Kinds
  <1>3. ASSUME NEW size \in Sizes, ShallocStarts(size)
        PROVE  TypeInv'
    <2> DEFINE p == [pc |-> "search", size |-> size, head |-> 0, bound |-> 0]
    <2>1. size \in Nat /\ 0 < size
      BY <1>1, <1>3, Sized DEF ShallocStarts, TooLarge
    <2>2. p \in Places /\ p.pc = "search" /\ p.size = size
      BY DEF Places, Steps
    <2>3. at' = [at EXCEPT ![running] = p] /\ running' = running
      BY <1>3 DEF ShallocStarts, control
    <2> HIDE DEF p
    <2>4. PlacesInv'
      BY <2>1, <2>2, <2>3, PlaceTyped
    <2>5. DOMAIN chunks' \subseteq Nat
      BY <1>3, NewHeap DEF ShallocStarts
    <2>6. GlobalsInv' /\ BlocksInv'
      BY <1>1, <1>3 DEF ShallocStarts, control, GlobalsInv, BlocksInv
    <2> QED
      BY <2>4, <2>5, <2>6
  <1>4. CASE SearchFinds
    <2>1. PICK h \in DOMAIN chunks : Goto("found", h, WalkBound)
      BY <1>4 DEF SearchFinds
    <2>2. h \in Nat /\ WalkBound \in Nat
      BY WalkBounded
    <2>3. PlacesInv'
      BY <1>4, <2>1, <2>2, GotoTyped DEF SearchFinds, control, Is, Steps
    <2> QED
      BY <1>4, <2>3 DEF SearchFinds, control, GlobalsInv, BlocksInv
  <1>5. CASE SearchFails
    <2>1. PlacesInv' /\ handed' = "null"
      BY <1>5, ReturnsTyped DEF SearchFails, control
    <2> QED
      BY <1>5, <2>1 DEF SearchFails, control, GlobalsInv, BlocksInv, Kinds
  <1>6. ASSUME at[running].pc # "user"
        PROVE  Found \in Nat /\ Bound \in Nat /\ Size \in Sizes /\ Size \in Nat /\ 0 < Size
    BY <1>1, <1>6 DEF PlacesInv, Places, Found, Bound, Size
  <1>7. CASE Take
    <2>1. /\ at[running].pc = "found" /\ Goto("taken", Found, Bound)
          /\ chunks' = Taken(chunks[Found])
          /\ UNCHANGED <<flag, pages, timer, started, running, given, handed>>
      BY <1>7 DEF Take, Is, control
    <2>2. Found \in Nat /\ Bound \in Nat /\ Size \in Nat /\ 0 < Size
      BY <1>6, <2>1
    <2>3. PlacesInv'
      BY <2>1, <2>2, GotoTyped DEF Steps
    <2>4. DOMAIN chunks' \subseteq Nat
      BY <2>1, <2>2, TakenPlaced
    <2>5. GlobalsInv' /\ BlocksInv'
      BY <2>1 DEF GlobalsInv, BlocksInv
    <2> QED
      BY <2>3, <2>4, <2>5
  <1>8. CASE TakeWild
    <2>1. at[running].pc = "found" /\ running' = running /\ Goto("lost", Found, Bound)
      BY <1>8 DEF TakeWild, control, Is
    <2>2. Found \in Nat /\ Bound \in Nat /\ Size \in Nat
      BY <1>6, <2>1
    <2>3. PlacesInv'
      BY <2>1, <2>2, GotoTyped
    <2>4. DOMAIN chunks' \subseteq Nat
      BY <1>8, <2>2, TakenPlaced DEF TakeWild
    <2> QED
      BY <1>8, <2>3, <2>4 DEF TakeWild, control, GlobalsInv, BlocksInv
  <1>9. CASE ReturnShared
    <2> DEFINE new == [by |-> running, at |-> Found + HS, len |-> Size]
    <2>1. /\ at[running].pc = "taken" /\ given' = given \cup {new} /\ Returns("shared")
          /\ flag' = FALSE /\ timer' = started /\ UNCHANGED <<chunks, pages, started, running>>
      BY <1>9 DEF ReturnShared, Is, control
    <2>2. Size \in Sizes /\ 0 < Size
      BY <1>6, <2>1
    <2>3. new.by \in Threads /\ new.len \in Sizes /\ 0 < new.len
      BY <2>2 DEF PlacesInv
    <2> HIDE DEF new
    <2>4. BlocksInv'
      BY <2>1, <2>3 DEF BlocksInv
    <2>5. PlacesInv' /\ handed' = "shared"
      BY <2>1, ReturnsTyped
    <2> QED
      BY <2>1, <2>4, <2>5 DEF GlobalsInv, Kinds
  <1>10. CASE ReturnMisplaced
    <2>1. PlacesInv' /\ handed' = "misplaced"
      BY <1>10, ReturnsTyped DEF ReturnMisplaced, control
    <2> QED
      BY <1>10, <2>1 DEF ReturnMisplaced, control, GlobalsInv, BlocksInv, Kinds
  <1> QED
    BY <1>2, <1>3, <1>4, <1>5, <1>7, <1>8, <1>9, <1>10 DEF Shalloc

(* The calls that are one step, and what happens between calls.            *)
LEMMA TypeStep ==
    ASSUME TypeInv, [Next]_vars
    PROVE  TypeInv'
  <1> USE DEF TypeInv
  <1>1. running \in Threads
    BY DEF PlacesInv
  <1>2. ASSUME NEW n \in Requests, Malloc(n)
        PROVE  TypeInv'
    <2>1. PICK kind \in {"raw", "relative", "null"} : Returns(kind)
      BY <1>2 DEF Malloc, MallocServed, MallocNoPage, MallocNoChunk
    <2>2. PlacesInv' /\ handed' \in Kinds
      BY <1>2, <2>1, ReturnsTyped
         DEF Malloc, MallocServed, MallocNoPage, MallocNoChunk, control, Kinds
    <2>3. GlobalsInv'
      BY <1>2, <2>2 DEF Malloc, MallocServed, MallocNoPage, MallocNoChunk, control, GlobalsInv
    <2> QED
      BY <1>2, <2>2, <2>3
         DEF Malloc, MallocServed, MallocNoPage, MallocNoChunk, control, BlocksInv
  <1>3. ASSUME NEW p \in {b.at : b \in given}, Free(p)
        PROVE  TypeInv'
    <2>1. DOMAIN chunks' \subseteq Nat
      BY <1>3, FreedPlaced DEF Free
    <2>2. GlobalsInv' /\ BlocksInv' /\ PlacesInv'
      BY <1>3 DEF Free, control, GlobalsInv, BlocksInv, PlacesInv
    <2> QED
      BY <2>1, <2>2
  <1>4. CASE StartScheduler
    BY <1>4 DEF StartScheduler, GlobalsInv, BlocksInv, PlacesInv
  <1>5. ASSUME NEW u \in Threads \ {running}, Switch(u)
        PROVE  TypeInv'
    BY <1>5 DEF Switch, GlobalsInv, BlocksInv, PlacesInv
  <1>6. CASE UNCHANGED vars
    BY <1>6 DEF vars, control, GlobalsInv, BlocksInv, PlacesInv
  <1> QED
    BY <1>2, <1>3, <1>4, <1>5, <1>6, ShallocTyped DEF Next

(* The state keeps its types wherever the timer expires; until a shalloc   *)
(* is interrupted the chunks tile the shared pages, and the blocks of the  *)
(* threads lie in them.                                                    *)
THEOREM SharedTypeOK == Spec => []TypeOK
  <1>1. Init => TypeInv
    <2>1. Init => DOMAIN chunks \subseteq Nat
      BY DEF Init
    <2>2. Init => PlacesInv
      BY UserTyped DEF Init, PlacesInv, Threads
    <2>3. Init => GlobalsInv /\ BlocksInv
      BY DEF Init, GlobalsInv, BlocksInv, Kinds
    <2> QED
      BY <2>1, <2>2, <2>3 DEF TypeInv
  <1>2. TypeInv /\ [Next]_vars => TypeInv'
    BY TypeStep
  <1>3. SafeInv /\ [Next]_vars => SafeInv'
    BY SafeStep
  <1>4. TypeInv /\ SafeInv => TypeOK
    <2>1. ASSUME TypeInv, SafeInv, Initialized, ~interrupted
          PROVE  /\ Heap!Tiled
                 /\ \A h \in DOMAIN chunks : chunks[h] \in Heap!HeaderFields
                 /\ \A b \in given : b.by \in Threads /\ InShared(b.at) /\ b.len \in Sizes
      <3>1. P!WellFormed(chunks) /\ GivenInv
        BY <2>1 DEF SafeInv, CalmInv, HeapInv
      <3>2. P!Tiles(chunks) => Heap!Tiled
        BY DEF P!Tiles, P!FindNextHeader, P!Headers, P!Upper,
               Heap!Tiled, Heap!Tiles, Heap!FindNextHeader, Heap!Headers, Heap!Upper
      <3>3. \A h \in DOMAIN chunks : chunks[h] \in P!HeaderFields
        BY <3>1 DEF P!WellFormed, P!Headers
      <3>4. P!HeaderFields = Heap!HeaderFields
        BY DEF P!HeaderFields, P!Upper, Heap!HeaderFields, Heap!Upper
      <3>5. ASSUME NEW b \in given
            PROVE  b.by \in Threads /\ InShared(b.at) /\ b.len \in Sizes
        <4> DEFINE h == b.at - HS
        <4>1. /\ h \in DOMAIN chunks /\ b.at \in Int
              /\ b.len \in Nat /\ b.len <= chunks[h].size
          BY <3>1 DEF GivenInv
        <4>2. b.by \in Threads /\ b.len \in Sizes /\ 0 < b.len
          BY <2>1 DEF TypeInv, BlocksInv
        <4>3. h \in Nat /\ h + HS + chunks[h].size <= Upper /\ chunks[h].size \in Nat
          BY <3>1, <4>1, ChunkFacts
        <4> QED
          BY <4>1, <4>2, <4>3, Sized DEF InShared
      <3> QED
        BY <3>1, <3>2, <3>3, <3>4, <3>5 DEF P!WellFormed
    <2> QED
      BY <2>1 DEF TypeOK, TypeInv, PlacesInv, GlobalsInv, Places
  <1> QED
    BY <1>1, <1>2, <1>3, <1>4, StartsSafe, PTL DEF Spec
=============================================================================
