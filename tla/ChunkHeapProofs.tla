--------------------------- MODULE ChunkHeapProofs ---------------------------
(***************************************************************************)
(* The heap of ChunkHeap is well formed, and implements the abstract       *)
(* allocator, for every page size, every header size and every set of      *)
(* requests whose walk covers the heap (FullScan).                         *)
(***************************************************************************)
EXTENDS ChunkHeap, TLAPS

(* What the inductive invariant says of a header map: it is well typed,    *)
(* its chunks tile the heap and its prev fields link them.                 *)
WellFormed(hp) == /\ Headers(hp) \subseteq 0 .. Upper - 1
                  /\ hp \in [Headers(hp) -> HeaderFields]
                  /\ Tiles(hp)
                  /\ Linked(hp)

(* A request of any size walks the whole of a heap of one page. *)
LEMMA OnePageFullScan == Span = 1 => FullScan
<1> SUFFICES ASSUME Span = 1, NEW size \in Sizes
             PROVE  UpperBound(size) >= Upper
  BY DEF FullScan
<1>1. size \in Nat /\ PageSize - PageHS \in Nat /\ PageSize - PageHS > 0
  BY HeapAssumption
<1>2. size \div (PageSize - PageHS) \in Nat
  BY <1>1
<1>3. PagesFor(size) \in Nat /\ PagesFor(size) >= 1
  BY <1>2 DEF PagesFor
<1>4. PageSize \in Nat /\ Upper = PageSize
  BY HeapAssumption DEF Upper
<1> DEFINE k == PagesFor(size) - 1
<1>5. k \in Nat /\ UpperBound(size) = PageSize * (k + 1)
  BY <1>3 DEF UpperBound
<1>6. PageSize * (k + 1) = PageSize * k + PageSize /\ PageSize * k \in Nat
  BY <1>4, <1>5
<1>7. QED
  BY <1>4, <1>5, <1>6

(* A value converted to a short is one.                                    *)
LEMMA ShortRange == ASSUME NEW n \in Int
                    PROVE  Short(n) \in -(ShortMax + 1) .. ShortMax
BY HeapAssumption DEF Short

(* Cutting a free chunk in two leaves a well-formed map. *)
LEMMA SplitWellFormed ==
    ASSUME WellFormed(heap), NEW size \in Nat, Upper <= UpperBound(size), UpperBound(size) \in Int,
           NEW h \in Headers(heap), size + HS < heap[h].size
    PROVE  LET n == h + size + HS
               hp == SplitChunk(h, size)
           IN  /\ WellFormed(hp)
               /\ Headers(hp) = Headers(heap) \cup {n} /\ n \notin Headers(heap) /\ n < Upper
               /\ hp[h].size = size /\ ~hp[h].free
               /\ hp[n].free
               /\ FindNextHeader(hp, h) = n
               /\ FindNextHeader(hp, n) = FindNextHeader(heap, h)
               /\ \A o \in Headers(heap) \ {h} :
                     /\ hp[o].size = heap[o].size
                     /\ hp[o].free = heap[o].free
                     /\ FindNextHeader(hp, o) = FindNextHeader(heap, o)
<1> DEFINE n == h + size + HS
           hp == SplitChunk(h, size)
           after == FindNextHeader(heap, h)
<1>1. /\ HS \in Nat /\ 0 < HS /\ Upper \in Nat
      /\ h \in 0 .. Upper - 1 /\ heap[h] \in HeaderFields
  BY HeapAssumption DEF WellFormed
<1>2. /\ h < n /\ n < after /\ after \in 0 .. Upper
      /\ n \in 0 .. Upper - 1 /\ n \notin Headers(heap)
  BY <1>1 DEF WellFormed, Tiles, FindNextHeader, HeaderFields
<1>3. /\ Headers(hp) = Headers(heap) \cup {n}
      /\ hp[h] = [free |-> FALSE, size |-> size, prev |-> heap[h].prev]
      /\ hp[n] = [free |-> TRUE, size |-> heap[h].size - size - HS, prev |-> size]
  BY <1>1, <1>2 DEF SplitChunk, Headers, HeaderFields
<1>4. \A o \in Headers(heap) \ {h} :
         /\ hp[o] \in HeaderFields /\ hp[o].size = heap[o].size /\ hp[o].free = heap[o].free
         /\ o # after => hp[o].prev = heap[o].prev
         /\ o = after => hp[o].prev = heap[h].size - size - HS
  <2> SUFFICES ASSUME NEW o \in Headers(heap) \ {h}
               PROVE  /\ hp[o] \in HeaderFields /\ hp[o].size = heap[o].size
                      /\ hp[o].free = heap[o].free
                      /\ o # after => hp[o].prev = heap[o].prev
                      /\ o = after => hp[o].prev = heap[h].size - size - HS
    OBVIOUS
  <2>1. /\ o # n /\ heap[o] \in HeaderFields /\ o \in 0 .. Upper - 1
        /\ heap[h].size - size - HS \in 0 .. Upper
    BY <1>1, <1>2 DEF WellFormed, HeaderFields
  <2>2. CASE o = after
    <3>1. hp[o] = [heap[o] EXCEPT !.prev = heap[h].size - size - HS]
      BY <2>1, <2>2, <1>1 DEF SplitChunk, Headers
    <3>2. QED
      BY <2>1, <2>2, <3>1 DEF HeaderFields
  <2>3. CASE o # after
    <3>1. hp[o] = heap[o]
      BY <2>1, <2>3 DEF SplitChunk, Headers
    <3>2. QED
      BY <2>1, <2>3, <3>1
  <2>4. QED
    BY <2>2, <2>3
<1>5. hp[h] \in HeaderFields /\ hp[n] \in HeaderFields
  BY <1>1, <1>2, <1>3 DEF HeaderFields, FindNextHeader
<1>6. /\ Headers(hp) \subseteq 0 .. Upper - 1
      /\ hp \in [Headers(hp) -> HeaderFields]
  <2>1. hp = [o \in Headers(hp) |-> hp[o]]
    BY <1>3 DEF SplitChunk, Headers
  <2>2. \A o \in Headers(hp) : hp[o] \in HeaderFields
    BY <1>3, <1>4, <1>5
  <2>3. QED
    BY <1>2, <1>3, <2>1, <2>2 DEF WellFormed
<1>7. /\ FindNextHeader(hp, h) = n
      /\ FindNextHeader(hp, n) = after
      /\ \A o \in Headers(heap) \ {h} : FindNextHeader(hp, o) = FindNextHeader(heap, o)
  BY <1>1, <1>3, <1>4 DEF FindNextHeader, HeaderFields
<1>8. Tiles(hp)
  <2>1. 0 \in Headers(hp)
    BY <1>3 DEF WellFormed, Tiles
  <2>2. \A o \in Headers(hp) : \/ FindNextHeader(hp, o) = Upper
                               \/ FindNextHeader(hp, o) \in Headers(hp)
    BY <1>3, <1>7 DEF WellFormed, Tiles
  <2>3. ASSUME NEW g \in Headers(hp), NEW o \in Headers(hp), o < g
        PROVE  FindNextHeader(hp, o) <= g
    <3>1. \A x \in Headers(heap) : /\ x \in Int /\ FindNextHeader(heap, x) \in Int
                                   /\ h < x => after <= x
                                   /\ x < h => FindNextHeader(heap, x) <= h
      BY <1>1 DEF WellFormed, Tiles, FindNextHeader, HeaderFields
    <3>2. CASE g = n
      BY <1>1, <1>2, <1>3, <1>7, <2>3, <3>1, <3>2
    <3>3. CASE g # n /\ o = h
      BY <1>1, <1>2, <1>3, <1>7, <2>3, <3>1, <3>3
    <3>4. CASE g # n /\ o = n
      BY <1>1, <1>2, <1>3, <1>7, <2>3, <3>1, <3>4
    <3>5. CASE g # n /\ o # n /\ o # h
      BY <1>3, <1>7, <2>3, <3>5 DEF WellFormed, Tiles
    <3>6. QED
      BY <3>2, <3>3, <3>4, <3>5
  <2>4. QED
    BY <2>1, <2>2, <2>3 DEF Tiles
<1>9. Linked(hp)
  <2>1. FindPrevHeader(hp, 0) < 0
    BY <1>1, <1>2, <1>3, <1>4 DEF FindPrevHeader, WellFormed, Linked, Tiles
  <2>2. ASSUME NEW o \in Headers(hp) \ {0}
        PROVE  /\ FindPrevHeader(hp, o) \in Headers(hp)
               /\ FindNextHeader(hp, FindPrevHeader(hp, o)) = o
    <3>1. CASE o = n
      BY <1>1, <1>2, <1>3, <1>7, <3>1 DEF FindPrevHeader
    <3>2. CASE o = after /\ o # n
      <4>1. FindPrevHeader(hp, o) = n
        BY <1>1, <1>2, <1>3, <1>4, <3>2 DEF FindPrevHeader, FindNextHeader, HeaderFields
      <4>2. QED
        BY <1>3, <1>7, <3>2, <4>1
    <3>3. CASE o # after /\ o # n
      <4>1. FindPrevHeader(hp, o) = FindPrevHeader(heap, o)
        BY <1>3, <1>4, <3>3 DEF FindPrevHeader
      <4>2. /\ FindPrevHeader(heap, o) \in Headers(heap)
            /\ FindNextHeader(heap, FindPrevHeader(heap, o)) = o
        BY <1>3, <3>3 DEF WellFormed, Linked
      <4>3. FindPrevHeader(heap, o) # h
        BY <3>3, <4>2
      <4>4. QED
        BY <1>3, <1>7, <4>1, <4>2, <4>3
    <3>4. QED
      BY <3>1, <3>2, <3>3
  <2>3. QED
    BY <2>1, <2>2 DEF Linked
<1>10. WellFormed(hp)
  BY <1>6, <1>8, <1>9 DEF WellFormed
<1>11. hp[h].size = size /\ hp[h].free = FALSE /\ hp[n].free = TRUE
  BY <1>3
<1>12. n < Upper
  BY <1>1, <1>2
<1> HIDE DEF n, hp, after
<1>13. \A o \in Headers(heap) \ {h} : /\ hp[o].size = heap[o].size
                                      /\ hp[o].free = heap[o].free
                                      /\ FindNextHeader(hp, o) = FindNextHeader(heap, o)
  BY <1>4, <1>7
<1>14. QED
  BY <1>2, <1>3, <1>7, <1>10, <1>11, <1>12, <1>13, Zenon DEF n, hp, after

(* Marking a chunk free or in use leaves a well-formed map. *)
LEMMA MarkWellFormed ==
    ASSUME NEW hp, WellFormed(hp), NEW h \in Headers(hp), NEW b \in BOOLEAN
    PROVE  /\ WellFormed(Mark(hp, h, b))
           /\ Headers(Mark(hp, h, b)) = Headers(hp)
           /\ Mark(hp, h, b)[h].free <=> b
           /\ \A o \in Headers(hp) : /\ Mark(hp, h, b)[o].size = hp[o].size
                                     /\ Mark(hp, h, b)[o].prev = hp[o].prev
                                     /\ o # h => (Mark(hp, h, b)[o].free <=> hp[o].free)
<1> DEFINE mp == Mark(hp, h, b)
<1>1. /\ Headers(mp) = Headers(hp)
      /\ mp \in [Headers(hp) -> HeaderFields]
      /\ mp[h].free <=> b
      /\ \A o \in Headers(hp) : /\ mp[o].size = hp[o].size
                                /\ mp[o].prev = hp[o].prev
                                /\ o # h => (mp[o].free <=> hp[o].free)
  BY DEF Mark, WellFormed, Headers, HeaderFields
<1> HIDE DEF mp
<1>2. \A o \in Headers(hp) : /\ FindNextHeader(mp, o) = FindNextHeader(hp, o)
                             /\ FindPrevHeader(mp, o) = FindPrevHeader(hp, o)
  BY <1>1 DEF FindNextHeader, FindPrevHeader
<1>3. Tiles(mp) /\ Linked(mp)
  BY <1>1, <1>2 DEF WellFormed, Tiles, Linked
<1>4. QED
  BY <1>1, <1>3 DEF WellFormed, mp

(* Merging two neighbours leaves a well-formed map. *)
LEMMA MergedWellFormed ==
    ASSUME NEW hp, WellFormed(hp), NEW l \in Headers(hp), NEW r \in Headers(hp),
           FindNextHeader(hp, l) = r
    PROVE  LET mp == Merged(hp, l, r)
           IN  /\ WellFormed(mp)
               /\ Headers(mp) = Headers(hp) \ {r}
               /\ l \in Headers(mp)
               /\ FindNextHeader(mp, l) = FindNextHeader(hp, r)
               /\ \A o \in Headers(mp) :
                     /\ mp[o].free = hp[o].free
                     /\ o # l => /\ mp[o].size = hp[o].size
                                 /\ FindNextHeader(mp, o) = FindNextHeader(hp, o)
<1> DEFINE mp == Merged(hp, l, r)
           next == FindNextHeader(hp, r)
           size == hp[l].size + hp[r].size + HS
<1>1. /\ HS \in Nat /\ 0 < HS /\ Upper \in Nat
      /\ l \in 0 .. Upper - 1 /\ r \in 0 .. Upper - 1
      /\ hp[l] \in HeaderFields /\ hp[r] \in HeaderFields
  BY HeapAssumption DEF WellFormed
<1>2. l < r /\ r < next /\ next <= Upper /\ size \in 0 .. Upper
  BY <1>1 DEF WellFormed, Tiles, FindNextHeader, HeaderFields
<1>3. /\ Headers(mp) = Headers(hp) \ {r}
      /\ l \in Headers(mp)
      /\ mp[l].size = size /\ mp[l].free = hp[l].free /\ mp[l].prev = hp[l].prev
      /\ mp[l] \in HeaderFields
  BY <1>1, <1>2 DEF Merged, Headers, HeaderFields, WellFormed
<1>4. \A o \in Headers(mp) \ {l} :
         /\ mp[o] \in HeaderFields /\ mp[o].size = hp[o].size /\ mp[o].free = hp[o].free
         /\ o # next => mp[o].prev = hp[o].prev
         /\ o = next => mp[o].prev = size
  BY <1>1, <1>2 DEF Merged, WellFormed, HeaderFields, Headers
<1>5. /\ Headers(mp) \subseteq 0 .. Upper - 1
      /\ mp \in [Headers(mp) -> HeaderFields]
  <2>1. mp = [o \in Headers(mp) |-> mp[o]]
    BY <1>3 DEF Merged, Headers
  <2>2. \A o \in Headers(mp) : mp[o] \in HeaderFields
    BY <1>3, <1>4
  <2>3. QED
    BY <1>3, <2>1, <2>2 DEF WellFormed
<1>6. /\ FindNextHeader(mp, l) = next
      /\ \A o \in Headers(mp) \ {l} : FindNextHeader(mp, o) = FindNextHeader(hp, o)
  BY <1>1, <1>3, <1>4 DEF FindNextHeader, HeaderFields
<1>7. \A o \in Headers(hp) \ {l} : FindNextHeader(hp, o) # r
  <2> SUFFICES ASSUME NEW o \in Headers(hp) \ {l}, FindNextHeader(hp, o) = r
               PROVE  FALSE
    OBVIOUS
  <2>1. o \in 0 .. Upper - 1 /\ o < r
    BY <1>1 DEF WellFormed, FindNextHeader, HeaderFields
  <2>2. CASE o < l
    BY <1>1, <1>2, <2>1, <2>2 DEF WellFormed, Tiles
  <2>3. CASE l < o
    BY <1>1, <1>2, <2>1, <2>3 DEF WellFormed, Tiles
  <2>4. QED
    BY <1>1, <2>1, <2>2, <2>3
<1>8. Tiles(mp)
  <2>1. 0 \in Headers(mp)
    BY <1>1, <1>2, <1>3 DEF WellFormed, Tiles
  <2>2. \A o \in Headers(mp) : \/ FindNextHeader(mp, o) = Upper
                               \/ FindNextHeader(mp, o) \in Headers(mp)
    BY <1>1, <1>2, <1>3, <1>6, <1>7 DEF WellFormed, Tiles
  <2>3. ASSUME NEW g \in Headers(mp), NEW o \in Headers(mp), o < g
        PROVE  FindNextHeader(mp, o) <= g
    <3>1. CASE o = l
      <4>1. r <= g /\ g # r /\ g \in Int
        BY <1>1, <1>3, <2>3, <3>1 DEF WellFormed, Tiles
      <4>2. r < g
        BY <1>1, <4>1
      <4>3. QED
        BY <1>3, <1>6, <3>1, <4>2 DEF WellFormed, Tiles
    <3>2. CASE o # l
      BY <1>3, <1>6, <2>3, <3>2 DEF WellFormed, Tiles
    <3>3. QED
      BY <3>1, <3>2
  <2>4. QED
    BY <2>1, <2>2, <2>3 DEF Tiles
<1>9. Linked(mp)
  <2>1. FindPrevHeader(mp, 0) < 0
    BY <1>1, <1>2, <1>3, <1>4 DEF FindPrevHeader, WellFormed, Linked, Tiles
  <2>2. ASSUME NEW o \in Headers(mp) \ {0}
        PROVE  /\ FindPrevHeader(mp, o) \in Headers(mp)
               /\ FindNextHeader(mp, FindPrevHeader(mp, o)) = o
    <3>1. CASE o = next
      <4>1. o # l
        BY <1>1, <1>2, <3>1
      <4>2. FindPrevHeader(mp, o) = l
        BY <1>1, <1>2, <1>3, <1>4, <3>1, <4>1 DEF FindPrevHeader, FindNextHeader, HeaderFields
      <4>3. QED
        BY <1>3, <1>6, <3>1, <4>2
    <3>2. CASE o # next
      <4>1. FindPrevHeader(mp, o) = FindPrevHeader(hp, o)
        BY <1>3, <1>4, <3>2 DEF FindPrevHeader
      <4>2. /\ FindPrevHeader(hp, o) \in Headers(hp)
            /\ FindNextHeader(hp, FindPrevHeader(hp, o)) = o
        BY <1>3 DEF WellFormed, Linked
      <4>3. FindPrevHeader(hp, o) # r /\ FindPrevHeader(hp, o) # l
        BY <1>3, <3>2, <4>2
      <4>4. QED
        BY <1>3, <1>6, <4>1, <4>2, <4>3
    <3>3. QED
      BY <3>1, <3>2
  <2>3. QED
    BY <2>1, <2>2 DEF Linked
<1>10. QED
  BY <1>3, <1>4, <1>5, <1>6, <1>8, <1>9 DEF WellFormed

-----------------------------------------------------------------------------
(* The header o and the one after it are both free. *)
AdjacentFree(hp, o) == /\ hp[o].free
                       /\ FindNextHeader(hp, o) \in Headers(hp)
                       /\ hp[FindNextHeader(hp, o)].free

(* No header but x may have a free chunk of its own before a free chunk. *)
SeparatedBut(hp, x) == \A o \in Headers(hp) \ {x} : ~AdjacentFree(hp, o)

(* Two chunks do not end at the same place. *)
LEMMA NextInjective ==
    ASSUME NEW hp, WellFormed(hp), NEW x \in Headers(hp), NEW y \in Headers(hp),
           FindNextHeader(hp, x) = FindNextHeader(hp, y)
    PROVE  x = y
<1>1. /\ x \in Int /\ y \in Int /\ FindNextHeader(hp, x) \in Int
      /\ x < FindNextHeader(hp, x) /\ y < FindNextHeader(hp, y)
  BY HeapAssumption DEF WellFormed, FindNextHeader, HeaderFields
<1>2. CASE x < y
  BY <1>1, <1>2 DEF WellFormed, Tiles
<1>3. CASE y < x
  BY <1>1, <1>3 DEF WellFormed, Tiles
<1>4. QED
  BY <1>1, <1>2, <1>3

(* What the map says after chunk h was marked free and merged with its     *)
(* left neighbour: only the header that now stands for h may have a free   *)
(* neighbour on its right, and the chunks in use are those of before.      *)
LEMMA LeftMerge ==
    ASSUME WellFormed(heap), NoAdjacentFree, NEW h \in Headers(heap), ~heap[h].free
    PROVE  /\ WellFormed(FreedLeft(h))
           /\ LeftEnd(h) \in Headers(FreedLeft(h))
           /\ FreedLeft(h)[LeftEnd(h)].free
           /\ SeparatedBut(FreedLeft(h), LeftEnd(h))
           /\ Headers(FreedLeft(h)) \subseteq Headers(heap)
           /\ \A o \in Headers(heap) :
                 ~heap[o].free /\ o # h =>
                    /\ o \in Headers(FreedLeft(h))
                    /\ ~FreedLeft(h)[o].free
           /\ \A o \in Headers(FreedLeft(h)) :
                 ~FreedLeft(h)[o].free => /\ ~heap[o].free /\ o # h
                                          /\ FreedLeft(h)[o].size = heap[o].size
<1> DEFINE fp == Freed(h)
           left == FindPrevHeader(fp, h)
           lp == FreedLeft(h)
<1>1. /\ WellFormed(fp) /\ Headers(fp) = Headers(heap) /\ fp[h].free
      /\ \A o \in Headers(heap) : /\ fp[o].size = heap[o].size
                                  /\ fp[o].prev = heap[o].prev
                                  /\ o # h => (fp[o].free <=> heap[o].free)
  BY MarkWellFormed DEF Freed
<1>2. /\ left = FindPrevHeader(heap, h)
      /\ \A o \in Headers(heap) : FindNextHeader(fp, o) = FindNextHeader(heap, o)
  BY <1>1 DEF FindPrevHeader, FindNextHeader
<1>3. CASE CanCoalesce(fp, left, h)
  <2>1. lp = Merged(fp, left, h) /\ left \in Headers(fp)
    BY <1>3 DEF FreedLeft, Coalesce, CanCoalesce
  <2>2. h # 0 /\ FindNextHeader(fp, left) = h /\ left # h
    BY <1>1, <1>3, <2>1, HeapAssumption
       DEF WellFormed, Linked, CanCoalesce, FindPrevHeader, FindNextHeader, HeaderFields
  <2>3. /\ WellFormed(lp)
        /\ Headers(lp) = Headers(fp) \ {h}
        /\ left \in Headers(lp)
        /\ \A o \in Headers(lp) :
              /\ lp[o].free = fp[o].free
              /\ o # left => /\ lp[o].size = fp[o].size
                             /\ FindNextHeader(lp, o) = FindNextHeader(fp, o)
    BY <1>1, <2>1, <2>2, MergedWellFormed
  <2>4. LeftEnd(h) = left /\ lp[left].free
    BY <1>1, <1>2, <1>3, <2>3 DEF LeftEnd, CanCoalesce
  <2>5. SeparatedBut(lp, left)
    BY <1>1, <1>2, <2>3 DEF SeparatedBut, AdjacentFree, NoAdjacentFree
  <2>6. QED
    BY <1>1, <1>3, <2>3, <2>4, <2>5 DEF CanCoalesce
<1>4. CASE ~CanCoalesce(fp, left, h)
  <2>1. lp = fp
    BY <1>4 DEF FreedLeft, Coalesce
  <2>2. LeftEnd(h) = h
    BY <1>1, <2>1 DEF LeftEnd
  <2>3. ASSUME NEW o \in Headers(fp) \ {h}, AdjacentFree(fp, o)
        PROVE  FALSE
    <3>1. FindNextHeader(fp, o) = h
      BY <1>1, <1>2, <2>3 DEF AdjacentFree, NoAdjacentFree
    <3>2. h # 0
      BY <1>1, <3>1, HeapAssumption DEF WellFormed, FindNextHeader, HeaderFields
    <3>3. left \in Headers(fp) /\ FindNextHeader(fp, left) = h
      BY <1>1, <3>2 DEF WellFormed, Linked
    <3>4. left = o
      BY <1>1, <3>1, <3>3, NextInjective
    <3>5. fp[left].free
      BY <2>3, <3>4 DEF AdjacentFree
    <3>6. left >= 0 /\ h < Upper
      BY <1>1, <3>3, HeapAssumption DEF WellFormed
    <3>7. QED
      BY <1>1, <1>4, <3>3, <3>5, <3>6 DEF CanCoalesce
  <2>4. QED
    BY <1>1, <2>1, <2>2, <2>3 DEF SeparatedBut
<1>5. QED
  BY <1>3, <1>4

(* A free leaves a well-formed map without adjacent free chunks, in which  *)
(* exactly the chunk h is in use no more.                                  *)
LEMMA FreeWellFormed ==
    ASSUME WellFormed(heap), NoAdjacentFree, NEW h \in Headers(heap), ~heap[h].free
    PROVE  /\ WellFormed(FreedBoth(h))
           /\ \A o \in Headers(FreedBoth(h)) : ~AdjacentFree(FreedBoth(h), o)
           /\ \A o \in Headers(heap) :
                 ~heap[o].free /\ o # h =>
                    /\ o \in Headers(FreedBoth(h))
                    /\ ~FreedBoth(h)[o].free
           /\ \A o \in Headers(FreedBoth(h)) :
                 ~FreedBoth(h)[o].free => /\ o \in Headers(heap)
                                          /\ ~heap[o].free /\ o # h
                                          /\ FreedBoth(h)[o].size = heap[o].size
<1> DEFINE lp == FreedLeft(h)
           e == LeftEnd(h)
           r == FindNextHeader(lp, e)
           bp == FreedBoth(h)
<1>1. /\ WellFormed(lp) /\ e \in Headers(lp) /\ lp[e].free /\ SeparatedBut(lp, e)
      /\ Headers(lp) \subseteq Headers(heap)
      /\ \A o \in Headers(heap) :
            ~heap[o].free /\ o # h => o \in Headers(lp) /\ ~lp[o].free
      /\ \A o \in Headers(lp) :
            ~lp[o].free => ~heap[o].free /\ o # h /\ lp[o].size = heap[o].size
  BY LeftMerge
<1>2. CASE CanCoalesce(lp, e, r)
  <2>1. bp = Merged(lp, e, r) /\ r \in Headers(lp) /\ lp[r].free
    BY <1>2 DEF FreedBoth, Coalesce, CanCoalesce
  <2>2. /\ WellFormed(bp)
        /\ Headers(bp) = Headers(lp) \ {r}
        /\ e \in Headers(bp)
        /\ FindNextHeader(bp, e) = FindNextHeader(lp, r)
        /\ \A o \in Headers(bp) :
              /\ bp[o].free = lp[o].free
              /\ o # e => /\ bp[o].size = lp[o].size
                          /\ FindNextHeader(bp, o) = FindNextHeader(lp, o)
    BY <1>1, <2>1, MergedWellFormed
  <2>3. \A o \in Headers(bp) : ~AdjacentFree(bp, o)
    BY <1>1, <2>1, <2>2 DEF SeparatedBut, AdjacentFree
  <2>4. QED
    BY <1>1, <2>1, <2>2, <2>3
<1>3. CASE ~CanCoalesce(lp, e, r)
  <2>1. bp = lp
    BY <1>3 DEF FreedBoth, Coalesce
  <2>2. ~AdjacentFree(lp, e)
    BY <1>1, <1>3, HeapAssumption DEF AdjacentFree, CanCoalesce, WellFormed
  <2>3. QED
    BY <1>1, <2>1, <2>2 DEF SeparatedBut
<1>4. QED
  BY <1>2, <1>3

-----------------------------------------------------------------------------
(* The inductive invariant: the type invariant carries the type of the map *)
(* and the two other conjuncts of WellFormed make every coalesce find its  *)
(* real neighbours.                                                        *)
IInv == TypeOK /\ Tiled /\ PrevCoherent /\ NoAdjacentFree

(* The inductive invariant in the terms of the lemmas on maps.             *)
LEMMA IInvWellFormed == IInv => WellFormed(heap) /\ NoAdjacentFree
BY DEF IInv, WellFormed, TypeOK, Tiled, PrevCoherent

(* A new page is one free chunk.                                           *)
LEMMA InitInv == Init => IInv
<1> SUFFICES ASSUME Init PROVE IInv
  OBVIOUS
<1>1. /\ HS \in Nat /\ 0 < HS /\ Upper \in Nat /\ HS < Upper /\ Upper <= ShortMax /\ ShortMax \in Nat
  BY HeapAssumption
<1>2. /\ Headers(heap) = {0}
      /\ heap[0] = [free |-> TRUE, size |-> Upper - HS, prev |-> 0]
      /\ heap \in [{0} -> HeaderFields]
  BY <1>1 DEF Init, Headers, HeaderFields
<1>3. FindNextHeader(heap, 0) = Upper /\ FindPrevHeader(heap, 0) < 0
  BY <1>1, <1>2 DEF FindNextHeader, FindPrevHeader
<1>4. usage \in -(ShortMax + 1) .. ShortMax
  BY <1>1, ShortRange DEF Init
<1>5. TypeOK
  <2>1. heap \in [Headers(heap) -> HeaderFields]
    BY <1>2
  <2>2. Headers(heap) \subseteq 0 .. Upper - 1
    BY <1>1, <1>2
  <2>3. result \in Results /\ spilled \in BOOLEAN
    BY DEF Init, Results
  <2>4. QED
    BY <1>4, <2>1, <2>2, <2>3 DEF TypeOK
<1>6. Tiled /\ PrevCoherent
  BY <1>2, <1>3 DEF Tiled, Tiles, PrevCoherent, Linked
<1>7. NoAdjacentFree
  BY <1>1, <1>2, <1>3 DEF NoAdjacentFree
<1>8. QED
  BY <1>5, <1>6, <1>7 DEF IInv

(* Two chunks of a well-formed map share no byte. *)
LEMMA ChunksDisjoint ==
    ASSUME NEW hp, WellFormed(hp), NEW x \in Headers(hp), NEW y \in Headers(hp), x # y
    PROVE  \/ x + HS + hp[x].size <= y + HS
           \/ y + HS + hp[y].size <= x + HS
<1>1. /\ x \in Int /\ y \in Int /\ HS \in Nat
      /\ hp[x].size \in Int /\ hp[y].size \in Int
  BY HeapAssumption DEF WellFormed, HeaderFields
<1>2. CASE x < y
  BY <1>1, <1>2 DEF WellFormed, Tiles, FindNextHeader
<1>3. CASE y < x
  BY <1>1, <1>3 DEF WellFormed, Tiles, FindNextHeader
<1>4. QED
  BY <1>1, <1>2, <1>3

(* Handing out a chunk that was free is an Alloc of the abstract           *)
(* allocator, when the chunks already in use are left as they were.        *)
LEMMA HandOut ==
    ASSUME WellFormed(heap), WellFormed(heap'), NEW h \in Headers(heap), heap[h].free,
           h \in Headers(heap'), ~heap'[h].free,
           \A o \in Headers(heap') : ~heap'[o].free /\ o # h =>
                /\ o \in Headers(heap) /\ ~heap[o].free /\ heap'[o].size = heap[o].size,
           \A o \in Headers(heap) : ~heap[o].free =>
                /\ o \in Headers(heap') /\ ~heap'[o].free
    PROVE  Abstract!Next
<1> DEFINE b == [at |-> h + HS, len |-> heap'[h].size]
<1>1. /\ h \in 0 .. Upper - 1 /\ heap'[h] \in HeaderFields /\ HS \in Nat /\ Upper \in Nat
      /\ FindNextHeader(heap', h) <= Upper
  BY HeapAssumption DEF WellFormed, Tiles
<1>2. b \in Abstract!Blocks
  BY <1>1 DEF Abstract!Blocks, FindNextHeader, HeaderFields
<1>3. b \notin Live
  <2> SUFFICES ASSUME NEW g \in Headers(heap), ~heap[g].free,
                      b = [at |-> g + HS, len |-> heap[g].size]
               PROVE  FALSE
    BY DEF Live
  <2>1. g # h /\ g \in Int /\ h + HS = g + HS
    BY <1>1 DEF WellFormed
  <2>2. QED
    BY <1>1, <2>1
<1>4. \A c \in Live : Abstract!Disjoint(b, c)
  <2> SUFFICES ASSUME NEW o \in Headers(heap), ~heap[o].free
               PROVE  Abstract!Disjoint(b, [at |-> o + HS, len |-> heap[o].size])
    BY DEF Live
  <2>1. /\ o # h /\ o \in Headers(heap') /\ heap'[o].size = heap[o].size
    OBVIOUS
  <2>2. QED
    BY <1>1, <2>1, ChunksDisjoint, HeapAssumption DEF Abstract!Disjoint, WellFormed, HeaderFields
<1>5. Live' = Live \cup {b}
  BY DEF Live
<1>6. QED
  BY <1>2, <1>3, <1>4, <1>5 DEF Abstract!Next, Abstract!Alloc

(* Cutting a free chunk makes no two free neighbours. *)
LEMMA SplitSeparated ==
    ASSUME WellFormed(heap), NoAdjacentFree, NEW size \in Nat, Upper <= UpperBound(size),
           UpperBound(size) \in Int,
           NEW h \in Headers(heap), heap[h].free, size + HS < heap[h].size
    PROVE  \A o \in Headers(SplitChunk(h, size)) : ~AdjacentFree(SplitChunk(h, size), o)
<1> DEFINE n == h + size + HS
           hp == SplitChunk(h, size)
<1>1. /\ HS \in Nat /\ 0 < HS /\ Upper \in Nat /\ h \in 0 .. Upper - 1
      /\ heap[h] \in HeaderFields
  BY HeapAssumption DEF WellFormed
<1>2. /\ Headers(hp) = Headers(heap) \cup {n} /\ n \notin Headers(heap) /\ n < Upper
      /\ ~hp[h].free
      /\ FindNextHeader(hp, n) = FindNextHeader(heap, h)
      /\ \A o \in Headers(heap) \ {h} :
            /\ hp[o].free = heap[o].free
            /\ FindNextHeader(hp, o) = FindNextHeader(heap, o)
  BY SplitWellFormed
<1> HIDE DEF hp
<1> SUFFICES ASSUME NEW o \in Headers(hp), AdjacentFree(hp, o)
             PROVE  FALSE
  BY DEF hp
<1>3. o # h
  BY <1>2 DEF AdjacentFree
<1>4. CASE o = n
  BY <1>1, <1>2, <1>4 DEF AdjacentFree, NoAdjacentFree, WellFormed, Tiles
<1>5. CASE o # n
  <2>1. o \in Headers(heap) \ {h} /\ heap[o].free
    BY <1>2, <1>3, <1>5 DEF AdjacentFree
  <2>2. FindNextHeader(heap, o) \in Headers(heap)
    BY <1>1, <1>2, <2>1 DEF AdjacentFree, WellFormed, Tiles
  <2>3. QED
    BY <1>2, <2>1, <2>2 DEF AdjacentFree, NoAdjacentFree
<1>6. QED
  BY <1>4, <1>5

(* Nor does handing out a whole one. *)
LEMMA MarkSeparated ==
    ASSUME WellFormed(heap), NoAdjacentFree, NEW h \in Headers(heap)
    PROVE  \A o \in Headers(Mark(heap, h, FALSE)) : ~AdjacentFree(Mark(heap, h, FALSE), o)
<1> DEFINE mp == Mark(heap, h, FALSE)
<1>0. mp = Mark(heap, h, FALSE)
  OBVIOUS
<1> HIDE DEF mp
<1>1. Headers(mp) = Headers(heap) /\ ~mp[h].free
  BY <1>0, MarkWellFormed
<1>2. ASSUME NEW o \in Headers(heap)
      PROVE  mp[o].size = heap[o].size /\ (mp[o].free => heap[o].free)
  <2>1. mp[o].size = heap[o].size
    <3>1. \A b \in BOOLEAN : Mark(heap, h, b)[o].size = heap[o].size
      BY MarkWellFormed
    <3>2. QED
      BY <1>0, <3>1
  <2>2. CASE o = h
    BY <1>1, <2>1, <2>2
  <2>3. CASE o # h
    <3>1. mp[o].free <=> heap[o].free
      BY <1>0, <2>3, MarkWellFormed
    <3>2. QED
      BY <2>1, <3>1
  <2>4. QED
    BY <2>2, <2>3
<1>3. \A o \in Headers(mp) : ~AdjacentFree(mp, o)
  BY <1>1, <1>2 DEF AdjacentFree, NoAdjacentFree, FindNextHeader
<1>4. QED
  BY <1>0, <1>3

(* A split step. *)
LEMMA SplitStep ==
    ASSUME IInv, FullScan, NEW size \in Sizes, NEW h \in Headers(heap), MallocSplit(h, size)
    PROVE  IInv' /\ Abstract!Next
<1> DEFINE n == h + size + HS
<1>1. /\ size \in Nat /\ HS \in Nat /\ 0 < HS /\ Upper \in Nat
      /\ Upper <= UpperBound(size) /\ UpperBound(size) \in Int
      /\ usage \in Int
  BY HeapAssumption DEF FullScan, UpperBound, PagesFor, IInv, TypeOK
<1>2. WellFormed(heap) /\ NoAdjacentFree
  BY IInvWellFormed
<1>3. /\ h \in 0 .. Upper - 1 /\ heap[h] \in HeaderFields /\ heap[h].free
      /\ size + HS < heap[h].size
  BY <1>1, <1>2 DEF MallocSplit, FirstFit, Fits, Splits, WellFormed, HeaderFields
<1>4. heap' = SplitChunk(h, size)
  BY DEF MallocSplit
<1>5. /\ WellFormed(heap')
      /\ Headers(heap') = Headers(heap) \cup {n} /\ n \notin Headers(heap) /\ n < Upper
      /\ heap'[h].size = size /\ ~heap'[h].free
      /\ heap'[n].free
      /\ FindNextHeader(heap', h) = n
      /\ FindNextHeader(heap', n) = FindNextHeader(heap, h)
      /\ \A o \in Headers(heap) \ {h} :
            /\ heap'[o].size = heap[o].size
            /\ heap'[o].free = heap[o].free
            /\ FindNextHeader(heap', o) = FindNextHeader(heap, o)
  BY <1>1, <1>2, <1>3, <1>4, SplitWellFormed
<1>6. NoAdjacentFree'
  BY <1>1, <1>2, <1>3, <1>4, SplitSeparated DEF NoAdjacentFree, AdjacentFree
<1>7. TypeOK'
  <2>1. usage' \in -(ShortMax + 1) .. ShortMax
    <3>1. Short(usage - (size + HS)) \in -(ShortMax + 1) .. ShortMax
      BY <1>1, ShortRange
    <3>2. QED
      BY <3>1 DEF MallocSplit, Charge, IInv, TypeOK
  <2>2. result' \in Results /\ spilled' \in BOOLEAN
    BY DEF MallocSplit, Results, IInv, TypeOK
  <2>3. QED
    BY <1>5, <2>1, <2>2 DEF TypeOK, WellFormed
<1>8. IInv'
  BY <1>5, <1>6, <1>7 DEF IInv, Tiled, PrevCoherent, WellFormed
<1>9. Abstract!Next
  BY <1>2, <1>3, <1>5, HandOut
<1>10. QED
  BY <1>8, <1>9

(* A step that hands out a whole chunk. *)
LEMMA WholeStep ==
    ASSUME IInv, NEW size \in Sizes, NEW h \in Headers(heap), MallocWhole(h, size)
    PROVE  IInv' /\ Abstract!Next
<1>1. WellFormed(heap) /\ NoAdjacentFree
  BY IInvWellFormed
<1>2. heap' = Mark(heap, h, FALSE) /\ heap[h].free
  BY DEF MallocWhole, FirstFit, Fits
<1>3. /\ WellFormed(heap') /\ Headers(heap') = Headers(heap) /\ ~heap'[h].free
      /\ \A o \in Headers(heap) : /\ heap'[o].size = heap[o].size
                                  /\ o # h => (heap'[o].free <=> heap[o].free)
  <2>1. WellFormed(heap') /\ Headers(heap') = Headers(heap) /\ ~heap'[h].free
    BY <1>1, <1>2, MarkWellFormed
  <2>2. ASSUME NEW o \in Headers(heap)
        PROVE  heap'[o].size = heap[o].size
    BY <1>1, <1>2, MarkWellFormed
  <2>3. ASSUME NEW o \in Headers(heap), o # h
        PROVE  heap'[o].free <=> heap[o].free
    BY <1>1, <1>2, <2>3, MarkWellFormed
  <2>4. QED
    BY <2>1, <2>2, <2>3
<1>4. NoAdjacentFree'
  BY <1>1, <1>2, MarkSeparated DEF NoAdjacentFree, AdjacentFree
<1>5. TypeOK'
  <2>1. size \in Int /\ usage \in Int
    BY HeapAssumption DEF IInv, TypeOK
  <2>2. usage' \in -(ShortMax + 1) .. ShortMax
    <3>1. Short(usage - size) \in -(ShortMax + 1) .. ShortMax
      BY <2>1, ShortRange
    <3>2. QED
      BY <3>1 DEF MallocWhole, Charge, IInv, TypeOK
  <2>3. result' \in Results /\ spilled' \in BOOLEAN
    BY DEF MallocWhole, Results, IInv, TypeOK
  <2>4. QED
    BY <1>3, <2>2, <2>3 DEF TypeOK, WellFormed
<1>6. IInv'
  BY <1>3, <1>4, <1>5 DEF IInv, Tiled, PrevCoherent, WellFormed
<1>7. Abstract!Next
  BY <1>1, <1>2, <1>3, HandOut
<1>8. QED
  BY <1>6, <1>7

(* A step that frees a chunk in use. *)
LEMMA FreeStep ==
    ASSUME IInv, NEW p \in 0 .. Upper, FreeChunk(p)
    PROVE  IInv' /\ Abstract!Next
<1> DEFINE h == p - HS
           b == [at |-> h + HS, len |-> heap[h].size]
<1>1. WellFormed(heap) /\ NoAdjacentFree
  BY IInvWellFormed
<1>2. h \in Headers(heap) /\ ~heap[h].free /\ heap' = FreedBoth(h)
  BY DEF FreeChunk
<1>3. /\ WellFormed(heap')
      /\ \A o \in Headers(heap') : ~AdjacentFree(heap', o)
      /\ \A o \in Headers(heap) :
            ~heap[o].free /\ o # h => o \in Headers(heap') /\ ~heap'[o].free
      /\ \A o \in Headers(heap') :
            ~heap'[o].free => /\ o \in Headers(heap)
                              /\ ~heap[o].free /\ o # h
                              /\ heap'[o].size = heap[o].size
  BY <1>1, <1>2, FreeWellFormed
<1>4. /\ h \in 0 .. Upper - 1 /\ heap[h] \in HeaderFields /\ HS \in Nat /\ Upper \in Nat
      /\ FindNextHeader(heap, h) <= Upper /\ usage \in Int
  BY <1>1, <1>2, HeapAssumption DEF WellFormed, Tiles, IInv, TypeOK
<1>5. TypeOK'
  <2>1. /\ HeadersMerged(h) \in {0, 1, 2}
        /\ heap[h].size \in Int
    BY <1>4 DEF HeadersMerged, HeaderFields
  <2>2. Short(usage + heap[h].size) \in Int
    BY <1>4, <2>1, ShortRange, HeapAssumption
  <2>3. usage' \in -(ShortMax + 1) .. ShortMax
    BY <1>4, <2>1, <2>2, ShortRange DEF FreeChunk
  <2>4. result' \in Results /\ spilled' \in BOOLEAN
    BY DEF FreeChunk, Results, IInv, TypeOK
  <2>5. QED
    BY <1>3, <2>3, <2>4 DEF TypeOK, WellFormed
<1>6. IInv'
  <2>1. NoAdjacentFree'
    BY <1>3 DEF NoAdjacentFree, AdjacentFree
  <2>2. QED
    BY <1>3, <1>5, <2>1 DEF IInv, Tiled, PrevCoherent, WellFormed
<1>7. b \in Live
  BY <1>2 DEF Live
<1>8. Live' = Live \ {b}
  <2>1. \A o \in Headers(heap) : o # h => [at |-> o + HS, len |-> heap[o].size] # b
    BY <1>1, <1>4 DEF WellFormed
  <2>2. QED
    BY <1>2, <1>3, <2>1 DEF Live
<1>9. b \in Abstract!Blocks
  BY <1>4 DEF Abstract!Blocks, FindNextHeader, HeaderFields
<1>10. QED
  BY <1>6, <1>7, <1>8, <1>9 DEF Abstract!Next, Abstract!Release

(* A charge leaves usage a short. *)
LEMMA ShortCharged ==
    ASSUME IInv, NEW size \in Sizes, NEW n \in {size, size + HS}
    PROVE  Short(usage - n) \in -(ShortMax + 1) .. ShortMax
<1>1. usage \in Int /\ n \in Int
  BY HeapAssumption DEF IInv, TypeOK
<1>2. QED
  BY <1>1, ShortRange

(* Every step of the heap keeps the inductive invariant and is a step of   *)
(* the abstract allocator or leaves its blocks alone.                      *)
LEMMA HeapStep ==
    ASSUME IInv, FullScan, [Next]_vars
    PROVE  IInv' /\ [Abstract!Next]_Live
<1>1. ASSUME UNCHANGED heap, usage' \in -(ShortMax + 1) .. ShortMax,
             result' \in Results, spilled' \in BOOLEAN
      PROVE  IInv' /\ Live' = Live
  BY <1>1 DEF IInv, TypeOK, Tiled, PrevCoherent, NoAdjacentFree, Live, FindNextHeader
<1>2. ASSUME NEW size \in Sizes, Malloc(size)
      PROVE  IInv' /\ [Abstract!Next]_Live
  <2>1. ASSUME NEW h \in Headers(heap), MallocSplit(h, size)
        PROVE  IInv' /\ [Abstract!Next]_Live
    BY <2>1, SplitStep
  <2>2. ASSUME NEW h \in Headers(heap), MallocWhole(h, size)
        PROVE  IInv' /\ [Abstract!Next]_Live
    BY <2>2, WholeStep
  <2>3. CASE MallocFails(size)
    <3>1. /\ UNCHANGED heap /\ usage' \in -(ShortMax + 1) .. ShortMax
          /\ result' \in Results /\ spilled' \in BOOLEAN
      BY <2>3 DEF MallocFails, Results, IInv, TypeOK
    <3>2. QED
      BY <1>1, <3>1
  <2>4. CASE MallocOutside(size)
    <3>1. /\ UNCHANGED heap /\ result' \in Results /\ spilled' \in BOOLEAN
          /\ \E n \in {size, size + HS} : Charge(n)
      BY <2>4 DEF MallocOutside, Results
    <3>2. usage' \in -(ShortMax + 1) .. ShortMax
      BY <3>1, ShortCharged DEF Charge, IInv, TypeOK
    <3>3. QED
      BY <1>1, <3>1, <3>2
  <2>5. QED
    BY <1>2, <2>1, <2>2, <2>3, <2>4 DEF Malloc
<1>3. ASSUME NEW p \in 0 .. Upper, Free(p)
      PROVE  IInv' /\ [Abstract!Next]_Live
  <2>1. CASE FreeChunk(p)
    BY <2>1, FreeStep
  <2>2. CASE FreeTwice(p) \/ FreeInvalid(p)
    <3>1. /\ UNCHANGED heap /\ usage' \in -(ShortMax + 1) .. ShortMax
          /\ result' \in Results /\ spilled' \in BOOLEAN
      BY <2>2 DEF FreeTwice, FreeInvalid, Results, IInv, TypeOK
    <3>2. QED
      BY <1>1, <3>1
  <2>3. QED
    BY <1>3, <2>1, <2>2 DEF Free
<1>4. CASE UNCHANGED vars
  <2>1. /\ UNCHANGED heap /\ usage' \in -(ShortMax + 1) .. ShortMax
          /\ result' \in Results /\ spilled' \in BOOLEAN
    BY <1>4 DEF vars, IInv, TypeOK
  <2>2. QED
    BY <1>1, <2>1
<1>5. ASSUME NEW size \in Sizes, MallocElsewhere(size)
      PROVE  IInv' /\ [Abstract!Next]_Live
  <2>1. /\ UNCHANGED heap /\ result' \in Results /\ spilled' \in BOOLEAN
        /\ \E n \in {size, size + HS} : usage' = Short(usage - n)
    BY <1>5 DEF MallocElsewhere, IInv, TypeOK
  <2>2. usage' \in -(ShortMax + 1) .. ShortMax
    BY <2>1, ShortCharged
  <2>3. QED
    BY <1>1, <2>1, <2>2
<1>6. QED
  BY <1>2, <1>3, <1>4, <1>5 DEF Next

(* The heap is well typed, its chunks tile it, its prev fields find the    *)
(* left neighbour and free neighbours are merged, after any calls of       *)
(* mymalloc and myfree whose walk covers the heap.                         *)
THEOREM HeapInvariant == FullScan => (Spec => []IInv)
<1> SUFFICES ASSUME FullScan PROVE Spec => []IInv
  OBVIOUS
<1>1. Init => IInv
  BY InitInv
<1>2. IInv /\ [Next]_vars => IInv'
  BY HeapStep
<1>3. QED
  BY <1>1, <1>2, PTL DEF Spec

(* A heap of one page keeps its type, whatever the sizes asked for. *)
THEOREM OnePageTypeOK == Span = 1 => (Spec => []TypeOK)
<1> SUFFICES ASSUME Span = 1 PROVE Spec => []TypeOK
  OBVIOUS
<1>1. Spec => []IInv
  BY HeapInvariant, OnePageFullScan
<1>2. IInv => TypeOK
  BY DEF IInv
<1>3. QED
  BY <1>1, <1>2, PTL

(* The chunks of a heap of one page tile it, whatever the sizes asked for. *)
THEOREM OnePageTiled == Span = 1 => (Spec => []Tiled)
<1> SUFFICES ASSUME Span = 1 PROVE Spec => []Tiled
  OBVIOUS
<1>1. Spec => []IInv
  BY HeapInvariant, OnePageFullScan
<1>2. IInv => Tiled
  BY DEF IInv
<1>3. QED
  BY <1>1, <1>2, PTL

(* In a heap of one page the prev field of every header finds the chunk on *)
(* its left.                                                               *)
THEOREM OnePagePrevCoherent == Span = 1 => (Spec => []PrevCoherent)
<1> SUFFICES ASSUME Span = 1 PROVE Spec => []PrevCoherent
  OBVIOUS
<1>1. Spec => []IInv
  BY HeapInvariant, OnePageFullScan
<1>2. IInv => PrevCoherent
  BY DEF IInv
<1>3. QED
  BY <1>1, <1>2, PTL

(* A heap of one page never holds two free chunks side by side. *)
THEOREM OnePageNoAdjacentFree == Span = 1 => (Spec => []NoAdjacentFree)
<1> SUFFICES ASSUME Span = 1 PROVE Spec => []NoAdjacentFree
  OBVIOUS
<1>1. Spec => []IInv
  BY HeapInvariant, OnePageFullScan
<1>2. IInv => NoAdjacentFree
  BY DEF IInv
<1>3. QED
  BY <1>1, <1>2, PTL

(* A heap whose requests walk all of it implements the abstract allocator: *)
(* no two blocks in use share a byte, and a block keeps its place and its  *)
(* length until it is freed.                                               *)
THEOREM HeapRefinesAllocator == FullScan => (Spec => ImplementsAllocator)
<1> SUFFICES ASSUME FullScan PROVE Spec => ImplementsAllocator
  OBVIOUS
<1>1. Spec => []IInv
  BY HeapInvariant
<1>2. Init => Abstract!Init
  BY DEF Init, Abstract!Init, Live, Headers
<1>3. IInv /\ [Next]_vars => [Abstract!Next]_Live
  BY HeapStep
<1>4. QED
  BY <1>1, <1>2, <1>3, PTL DEF Spec, ImplementsAllocator, Abstract!Spec

(* A heap whose requests walk all of it answers NULL only to a request     *)
(* that none of its free chunks could hold.                                *)
THEOREM RefusesOnlyFull == FullScan => (Spec => RefusesOnlyWhatFitsNowhere)
<1> SUFFICES ASSUME FullScan PROVE Spec => RefusesOnlyWhatFitsNowhere
  OBVIOUS
<1>1. Spec => []IInv
  BY HeapInvariant
<1>2. ASSUME IInv, NEW size \in Sizes, MallocFails(size),
             NEW h \in Headers(heap), heap[h].free
      PROVE  heap[h].size < size
  <2>1. /\ h \in 0 .. Upper - 1 /\ heap[h] \in HeaderFields
        /\ Upper \in Nat /\ size \in Nat
    BY <1>2, HeapAssumption DEF IInv, TypeOK
  <2>2. Upper <= UpperBound(size) /\ UpperBound(size) \in Int
    BY HeapAssumption DEF FullScan, UpperBound, PagesFor
  <2>3. heap[h].size \in Int /\ h < UpperBound(size)
    BY <2>1, <2>2 DEF HeaderFields
  <2>4. ~Fits(h, size)
    BY <1>2 DEF MallocFails
  <2>5. QED
    BY <1>2, <2>1, <2>3, <2>4 DEF Fits
<1>3. IInv => [\A size \in Sizes : MallocFails(size) =>
                  \A h \in Headers(heap) : heap[h].free => heap[h].size < size]_vars
  BY <1>2
<1>4. QED
  BY <1>1, <1>3, PTL DEF RefusesOnlyWhatFitsNowhere
=============================================================================
