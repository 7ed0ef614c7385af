------------------------------ MODULE ChunkHeap ------------------------------
(***************************************************************************)
(* One heap of umalloc.c: the bytes of a page, or of the pages of one      *)
(* span, cut into chunks by the six-byte headers (header_t) that           *)
(* findFreeChunk places and myfree coalesces.  A header is named by its    *)
(* offset in the heap; the payload, and the pointer the caller holds,      *)
(* start HS bytes after it.  The page's metadata field usage, which        *)
(* findFreePage reads to decide whether a request is sent to this heap,    *)
(* is kept at the width of the C short.                                    *)
(*                                                                         *)
(* A malloc charges the page whose number is Thread_Page_Index, which      *)
(* findFreePage counts in the order of the frames: once pages have moved   *)
(* it may be another page of the thread than the one that was cut.  Here a *)
(* malloc charges this heap or not, and the mallocs that cut other pages   *)
(* may charge it.  (With no page of that number in memory the process      *)
(* ends, and the heap with it.)                                            *)
(*                                                                         *)
(* `heap' maps the offset of every header in use to its fields.  While the *)
(* chunks tile the heap these are the headers that a walk with             *)
(* findNextHeader meets, in increasing order, so "the first chunk of the   *)
(* walk" is the least offset.  A header swallowed by a coalesce leaves the *)
(* map (its bytes stay, but no walk reaches them).                         *)
(***************************************************************************)
EXTENDS Integers

CONSTANTS PageSize,    \* PAGE_SIZE (4096)
          Span,        \* spanOfPages of this heap's pages
          HS,          \* HEADER_SIZE (6), the size of header_t
          PageHS,      \* PAGE_HEADER_SIZE (10), the size of page_header_t
          ShortMax,    \* the largest C short (32767)
          Sizes        \* the sizes callers ask for

Upper == PageSize * Span        \* the bytes of the heap

(* A span of 8 pages or more does not fit the short fields of the headers. *)
ASSUME HeapAssumption ==
    /\ PageSize \in Nat /\ Span \in Nat /\ HS \in Nat /\ PageHS \in Nat
    /\ ShortMax \in Nat
    /\ 0 < HS /\ PageHS < PageSize
    /\ Upper \in Nat /\ HS < Upper /\ Upper <= ShortMax
    /\ Sizes \subseteq Nat \ {0}

VARIABLES heap,      \* header offset -> [free, size, prev] (isFree, sizeOfChunk, prev)
          usage,     \* page_header_t.usage of the heap's first page
          result,    \* what the last call reported
          spilled    \* the allocator has touched the page after this heap

vars == <<heap, usage, result, spilled>>

Headers(hp) == DOMAIN hp

Results == {"none", "block", "outside", "null", "freed", "free_fail", "double_free"}

(* Variant: a field as wide as the arithmetic. *)
ShortUnbounded(n) == n

(* A C int stored into a short keeps its low bits. *)
Short(n) == ((n + ShortMax + 1) % (2 * (ShortMax + 1))) - (ShortMax + 1)

(* PAGES_FOR_MALLOC, and the end of the walk of findFreeChunk. *)
PagesFor(size) == size \div (PageSize - PageHS) + 1
UpperBound(size) == PageSize * PagesFor(size)

FindNextHeader(hp, h) == h + HS + hp[h].size
FindPrevHeader(hp, h) == h - hp[h].prev - HS

(* The chunk h marked free or in use. *)
Mark(hp, h, free) == [hp EXCEPT ![h].free = free]

(* Every request walks the whole heap. *)
FullScan == \A size \in Sizes : UpperBound(size) >= Upper

Init == /\ heap = [h \in {0} |-> [free |-> TRUE, size |-> Upper - HS, prev |-> 0]]
        /\ usage = Short(Upper - HS)
        /\ result = "none"
        /\ spilled = FALSE

-----------------------------------------------------------------------------
(* mymalloc: findFreePage has chosen this heap because its usage admits    *)
(* the request, and findFreeChunk takes the first free chunk that fits.    *)

Selected(size) == size <= usage

(* Variant: a chunk of exactly the size asked for is passed over. *)
FitsStrictly(h, size) == /\ h \in Headers(heap)
                         /\ h < UpperBound(size)
                         /\ heap[h].free
                         /\ heap[h].size > size

Fits(h, size) == /\ h \in Headers(heap)
                 /\ h < UpperBound(size)
                 /\ heap[h].free
                 /\ heap[h].size >= size

FirstFit(h, size) == /\ Fits(h, size)
                     /\ \A g \in Headers(heap) : Fits(g, size) => h <= g

Splits(h, size) == heap[h].size - size > HS

(* The page charged for n bytes is this one or, by its ordinal, another. *)
Charge(n) == usage' \in {usage, Short(usage - n)}

(* Variant: the header after the new one keeps its old prev. *)
SplitChunkNoRelink(h, size) ==
    LET n == h + size + HS
        rest == heap[h].size - size - HS
    IN  [o \in Headers(heap) \cup {n} |->
            IF o = h THEN [free |-> FALSE, size |-> size, prev |-> heap[h].prev]
            ELSE IF o = n THEN [free |-> TRUE, size |-> rest, prev |-> size]
            ELSE heap[o]]

(* Variant: the new header is not counted in what is left of the chunk. *)
SplitChunkLong(h, size) ==
    LET n == h + size + HS
        rest == heap[h].size - size
        after == FindNextHeader(heap, h)
    IN  [o \in Headers(heap) \cup {n} |->
            IF o = h THEN [free |-> FALSE, size |-> size, prev |-> heap[h].prev]
            ELSE IF o = n THEN [free |-> TRUE, size |-> rest, prev |-> size]
            ELSE IF o = after THEN [heap[o] EXCEPT !.prev = rest]
            ELSE heap[o]]

(* The chunk h cut after `size' bytes; its right part, at n, stays free,   *)
(* and the header after it learns its size if it is before the bound of    *)
(* this request.                                                           *)
SplitChunk(h, size) ==
    LET n == h + size + HS
        rest == heap[h].size - size - HS
        after == FindNextHeader(heap, h)
    IN  [o \in Headers(heap) \cup {n} |->
            IF o = h THEN [free |-> FALSE, size |-> size, prev |-> heap[h].prev]
            ELSE IF o = n THEN [free |-> TRUE, size |-> rest, prev |-> size]
            ELSE IF o = after /\ after < UpperBound(size)
                 THEN [heap[o] EXCEPT !.prev = rest]
            ELSE heap[o]]

MallocSplit(h, size) ==
    /\ Selected(size) /\ FirstFit(h, size) /\ Splits(h, size)
    /\ heap' = SplitChunk(h, size)
    /\ Charge(size + HS)
    /\ result' = "block"
    /\ spilled' = (spilled \/ (FindNextHeader(heap, h) = Upper /\ Upper < UpperBound(size)))

MallocWhole(h, size) ==
    /\ Selected(size) /\ FirstFit(h, size) /\ ~Splits(h, size)
    /\ heap' = Mark(heap, h, FALSE)
    /\ Charge(size)
    /\ result' = "block"
    /\ UNCHANGED spilled

(* No chunk before the bound fits: NULL. *)
MallocFails(size) ==
    /\ Selected(size)
    /\ \A h \in Headers(heap) : ~Fits(h, size)
    /\ result' = "null"
    /\ spilled' = (spilled \/ Upper < UpperBound(size))
    /\ UNCHANGED <<heap, usage>>

(* A walk whose bound lies beyond the heap continues into the next frame,  *)
(* and may take a chunk there.                                             *)
MallocOutside(size) ==
    /\ Selected(size) /\ Upper < UpperBound(size)
    /\ \A h \in Headers(heap) : ~Fits(h, size)
    /\ \E n \in {size, size + HS} : Charge(n)
    /\ result' = "outside"
    /\ spilled' = TRUE
    /\ UNCHANGED heap

Malloc(size) == \/ \E h \in Headers(heap) : MallocSplit(h, size) \/ MallocWhole(h, size)
                \/ MallocFails(size) \/ MallocOutside(size)

(* A malloc that cuts a chunk of another page of the thread and charges    *)
(* this one.                                                               *)
MallocElsewhere(size) ==
    /\ \E n \in {size, size + HS} : usage' = Short(usage - n)
    /\ UNCHANGED <<heap, result, spilled>>

-----------------------------------------------------------------------------
(* myfree of the pointer `p' bytes into this heap. *)

(* Variant: the right chunk is merged whether it is free or not. *)
CanCoalesceUnchecked(hp, left, right) ==
    /\ left >= 0 /\ right < Upper
    /\ left \in Headers(hp) /\ right \in Headers(hp)
    /\ hp[left].free

CanCoalesce(hp, left, right) ==
    /\ left >= 0 /\ right < Upper
    /\ left \in Headers(hp) /\ right \in Headers(hp)
    /\ hp[left].free /\ hp[right].free

Merged(hp, left, right) ==
    LET size == hp[left].size + hp[right].size + HS
    IN  [o \in Headers(hp) \ {right} |->
            IF o = left THEN [hp[left] EXCEPT !.size = size]
            ELSE IF o = FindNextHeader(hp, right) THEN [hp[o] EXCEPT !.prev = size]
            ELSE hp[o]]

Coalesce(hp, left, right) ==
    IF CanCoalesce(hp, left, right) THEN Merged(hp, left, right) ELSE hp

Freed(h) == Mark(heap, h, TRUE)
FreedLeft(h) == Coalesce(Freed(h), FindPrevHeader(Freed(h), h), h)

(* The header that stands for chunk h after the left coalesce. *)
LeftEnd(h) == IF h \in Headers(FreedLeft(h)) THEN h ELSE FindPrevHeader(heap, h)

(* Variant: myfree merges with the left neighbour only. *)
FreedLeftOnly(h) == FreedLeft(h)

FreedBoth(h) ==
    Coalesce(FreedLeft(h), LeftEnd(h), FindNextHeader(FreedLeft(h), LeftEnd(h)))

(* The headers that the two coalesce calls gave back to usage. *)
HeadersMerged(h) ==
    (IF h \in Headers(FreedLeft(h)) THEN 0 ELSE 1)
    + (IF FreedBoth(h) = FreedLeft(h) THEN 0 ELSE 1)

FreeChunk(p) ==
    LET h == p - HS
    IN  /\ h \in Headers(heap) /\ ~heap[h].free
        /\ heap' = FreedBoth(h)
        /\ usage' = Short(Short(usage + heap[h].size) + HS * HeadersMerged(h))
        /\ result' = "freed"
        /\ UNCHANGED spilled

FreeTwice(p) ==
    /\ p - HS \in Headers(heap) /\ heap[p - HS].free
    /\ result' = "double_free"
    /\ UNCHANGED <<heap, usage, spilled>>

(* No header is before p in this heap.  (On a page that nobody was given   *)
(* myfree reads a header it has not set, 456; no heap is there.)           *)
FreeInvalid(p) ==
    /\ p - HS \notin Headers(heap)
    /\ result' = "free_fail"
    /\ UNCHANGED <<heap, usage, spilled>>

Free(p) == FreeChunk(p) \/ FreeTwice(p) \/ FreeInvalid(p)

-----------------------------------------------------------------------------
Next == (\E size \in Sizes : Malloc(size) \/ MallocElsewhere(size)) \/ (\E p \in 0 .. Upper : Free(p))

Spec == Init /\ [][Next]_vars

HeaderFields == [free : BOOLEAN, size : 0 .. Upper, prev : 0 .. Upper]

(* The types of the state: headers, sizes and links stay within the heap,  *)
(* usage within a short.                                                   *)
TypeOK == /\ Headers(heap) \subseteq 0 .. Upper - 1
          /\ heap \in [Headers(heap) -> HeaderFields]
          /\ usage \in -(ShortMax + 1) .. ShortMax
          /\ result \in Results
          /\ spilled \in BOOLEAN

Tiles(hp) ==
    /\ 0 \in Headers(hp)
    /\ \A h \in Headers(hp) : \/ FindNextHeader(hp, h) = Upper
                              \/ FindNextHeader(hp, h) \in Headers(hp)
    /\ \A g, h \in Headers(hp) : h < g => FindNextHeader(hp, h) <= g

(* The chunks tile the heap: the chunk of every header ends where the next *)
(* one begins or where the heap does, and no header lies inside a chunk,   *)
(* so no byte belongs to two blocks (the walk of findFreeChunk and of      *)
(* myfree relies on it).                                                   *)
Tiled == Tiles(heap)

Linked(hp) ==
    /\ FindPrevHeader(hp, 0) < 0
    /\ \A h \in Headers(hp) \ {0} : /\ FindPrevHeader(hp, h) \in Headers(hp)
                                    /\ FindNextHeader(hp, FindPrevHeader(hp, h)) = h

(* Every header but the first finds, through its prev field, the header    *)
(* whose chunk ends where it begins; the first finds none (coalesce        *)
(* relies on it to merge with the chunk on the left).                      *)
PrevCoherent == Linked(heap)

(* myfree leaves no two free chunks side by side: what is free is in       *)
(* pieces as large as they can be.                                         *)
NoAdjacentFree ==
    \A h \in Headers(heap) :
        LET next == FindNextHeader(heap, h)
        IN  heap[h].free /\ next \in Headers(heap) => ~heap[next].free

(* The blocks in the hands of callers. *)
Live == {[at |-> h + HS, len |-> heap[h].size] : h \in {g \in Headers(heap) : ~heap[g].free}}

(* The heap implements the abstract allocator over its bytes. *)
Abstract == INSTANCE Allocator WITH Space <- Upper, live <- Live
ImplementsAllocator == Abstract!Spec

(* A request that the heap refuses is one that no chunk of it could hold:  *)
(* findFreeChunk looks at every chunk before it answers NULL.              *)
RefusesOnlyWhatFitsNowhere ==
    [][\A size \in Sizes : MallocFails(size) =>
          \A h \in Headers(heap) : heap[h].free => heap[h].size < size]_vars

(* findFreeChunk stays within the pages of the heap it was given. *)
StaysInHeap == ~spilled
=============================================================================
