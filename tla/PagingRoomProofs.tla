--------------------------- MODULE PagingRoomProofs ---------------------------
(***************************************************************************)
(* Theorems about Paging while a frame is free: no page is lost or         *)
(* doubled, numbers have no gap, and the pages of others are locked.  That *)
(* a frame is always free is proved from the number of frames, the number  *)
(* of threads and the pages each of them may ask for.                      *)
(***************************************************************************)
EXTENDS PagingStepProofs

(* No page is in two frames; the pages given out are the ones in memory,   *)
(* and an owner's are numbered from 1 on.                                  *)
OneEach(m) == \A f, g \in Frames : m[f].tid # NoOwner /\ PageOf(m[f]) = PageOf(m[g]) => f = g
NumbersIn(ps, t) == {n \in Int : <<t, n>> \in ps}
Counted(ps) == \A t \in Owners : \E k \in Nat : NumbersIn(ps, t) = 1 .. k
Once(m, ps) == /\ OneEach(m) /\ ps = Pages(m) /\ ps \subseteq Owners \X Int /\ Counted(ps)

OnceInv == Once(meta, given)
(* A frame is free. *)
Room == FreeFrames(Store) # {}

(* The pages of t that the headers m name. *)
Count(m, t) == Cardinality({f \in Frames : m[f].tid = t})

-----------------------------------------------------------------------------
(* A proper subset of a finite set is smaller. *)
LEMMA SmallerSubset ==
    ASSUME NEW T, IsFiniteSet(T), NEW U \in SUBSET T, U # T
    PROVE  /\ IsFiniteSet(U) /\ Cardinality(U) \in Nat /\ Cardinality(T) \in Nat
           /\ Cardinality(U) < Cardinality(T)
  <1>1. /\ IsFiniteSet(U) /\ Cardinality(U) <= Cardinality(T)
        /\ Cardinality(U) # Cardinality(T)
    BY FS_Subset
  <1>2. Cardinality(U) \in Nat /\ Cardinality(T) \in Nat
    BY <1>1, FS_CardinalityType
  <1> QED
    BY <1>1, <1>2

(* The ranks of the elements of a set of frames are 0, 1, 2, and so on. *)
LEMMA Ranks ==
    ASSUME NEW S \in SUBSET Frames
    PROVE  /\ Cardinality(S) \in Nat
           /\ \A f \in S : Rank(S, f) \in 0 .. Cardinality(S) - 1
           /\ \A f, g \in S : f < g => Rank(S, f) < Rank(S, g)
           /\ \A i \in 0 .. Cardinality(S) - 1 : \E f \in S : Rank(S, f) = i
  <1> DEFINE c == Cardinality(S)
             below(f) == {g \in S : g < f}
             r == [f \in S |-> Rank(S, f)]
  <1>1. IsFiniteSet(S) /\ c \in Nat /\ S \subseteq Int
    BY FrameFacts, FS_Subset, FS_CardinalityType
  <1>2. ASSUME NEW f \in S
        PROVE  /\ Rank(S, f) \in 0 .. c - 1
               /\ IsFiniteSet(below(f)) /\ Rank(S, f) = Cardinality(below(f))
    <2>1. below(f) \in SUBSET S /\ below(f) # S
      BY <1>1
    <2>2. Rank(S, f) = Cardinality(below(f))
      BY DEF Rank
    <2> HIDE DEF below
    <2>3. /\ IsFiniteSet(below(f)) /\ Cardinality(below(f)) \in Nat
          /\ Cardinality(below(f)) < Cardinality(S)
      BY <1>1, <2>1, SmallerSubset
    <2> QED
      BY <1>1, <2>2, <2>3
  <1>3. ASSUME NEW f \in S, NEW g \in S, f < g
        PROVE  Rank(S, f) < Rank(S, g)
    <2>1. f \in Int /\ g \in Int
      BY <1>1
    <2>2. f \in below(g) /\ f \notin below(f)
      BY <1>3, <2>1
    <2>3. below(f) \in SUBSET below(g)
      <3>1. \A h \in S : h < f => h < g
        BY <1>1, <1>3
      <3> QED
        BY <3>1
    <2> HIDE DEF below, c
    <2> QED
      BY <1>2, <2>2, <2>3, SmallerSubset
  <1>4. r \in Injection(S, 0 .. c - 1)
    <2>1. r \in [S -> 0 .. c - 1]
      <3> HIDE DEF c
      <3> QED
        BY <1>2
    <2>2. ASSUME NEW f \in S, NEW g \in S, r[f] = r[g] PROVE f = g
      <3> HIDE DEF c, below
      <3>1. Rank(S, f) = Rank(S, g) /\ Rank(S, f) \in Int /\ Rank(S, g) \in Int
        BY <1>1, <1>2, <2>2
      <3>2. f \in Int /\ g \in Int
        BY <1>1
      <3> QED
        BY <1>3, <3>1, <3>2
    <2> QED
      BY <2>1, <2>2 DEF Injection, IsInjective
  <1>5. IsFiniteSet(0 .. c - 1) /\ Cardinality(0 .. c - 1) = c
    <2> HIDE DEF c
    <2> QED
      BY <1>1, FS_Interval
  <1>6. r \in Surjection(S, 0 .. c - 1)
    <2> HIDE DEF r
    <2> QED
      BY <1>4, <1>5, FS_Injection
  <1> QED
    BY <1>1, <1>2, <1>3, <1>6 DEF Surjection

(* The n lowest have the ranks 0 .. n - 1 among themselves too. *)
LEMMA LowestRanks ==
    ASSUME NEW S \in SUBSET Frames, NEW n \in Nat, n <= Cardinality(S)
    PROVE  /\ Lowest(S, n) \subseteq S
           /\ \A f \in Lowest(S, n) : Rank(Lowest(S, n), f) \in 0 .. n - 1
           /\ \A f, g \in Lowest(S, n) :
                f < g => Rank(Lowest(S, n), f) < Rank(Lowest(S, n), g)
           /\ \A i \in 0 .. n - 1 : \E f \in Lowest(S, n) : Rank(Lowest(S, n), f) = i
           /\ \A f \in Lowest(S, n), g \in S \ Lowest(S, n) : f < g
  <1> DEFINE L == Lowest(S, n)
  <1>1. L = {f \in S : Rank(S, f) < n}
    BY DEF Lowest, Rank
  <1>2. S \subseteq Int
    BY FrameFacts
  <1>3. /\ Cardinality(S) \in Nat
        /\ \A f \in S : Rank(S, f) \in 0 .. Cardinality(S) - 1
        /\ \A f, g \in S : f < g => Rank(S, f) < Rank(S, g)
        /\ \A i \in 0 .. Cardinality(S) - 1 : \E f \in S : Rank(S, f) = i
    BY Ranks
  <1> HIDE DEF L
  <1>4. ASSUME NEW f \in L PROVE Rank(L, f) = Rank(S, f)
    <2>1. \A g \in S : g < f => g \in L
      BY <1>1, <1>3, <1>4
    <2>2. {g \in L : g < f} = {g \in S : g < f}
      BY <1>1, <2>1
    <2> QED
      BY <2>2 DEF Rank
  <1>5. \A i \in 0 .. n - 1 : \E f \in L : Rank(L, f) = i
    BY <1>1, <1>3, <1>4
  <1>6. ASSUME NEW f \in L, NEW g \in S \ L PROVE f < g
    BY <1>1, <1>2, <1>3, <1>6
  <1> QED
    BY <1>1, <1>3, <1>4, <1>5, <1>6 DEF L

-----------------------------------------------------------------------------
(* The headers n after a page of the headers m was loaded into frame `to'  *)
(* and what was there went to the free frame `spare'.                      *)
Carried(m, n, from, to, spare) ==
    /\ from # to /\ m[from].tid # NoOwner
    /\ n[to] = Moved(m[from], to) /\ n[from] = EmptyHeader(from)
    /\ m[to].tid # NoOwner => /\ spare \in Frames \ {from, to} /\ m[spare].tid = NoOwner
                              /\ n[spare] = Moved(m[to], spare)
    /\ m[to].tid = NoOwner => spare = from
    /\ \A f \in Frames \ {from, to, spare} : n[f] = m[f]

(* With a frame free, swapPages puts the page in place and keeps the other *)
(* pages, or does nothing: the page is in place, or it copies through a    *)
(* null pointer because the frame was never filled.                        *)
LEMMA SwapPagesCarries ==
    ASSUME NEW st, GoodStore(st), FreeFrames(st) # {}, "wild" \in DOMAIN st, NEW by,
           NEW from \in Frames, NEW to \in Frames, st.meta[from].tid # NoOwner
    PROVE  LET new == SwapPages(st, from, to, by)
           IN  \/ new = st /\ from = to
               \/ new.meta = st.meta /\ from # to /\ new.wild /\ st.meta[to].tid = NoOwner
               \/ /\ new.wild = st.wild
                  /\ \E spare \in Frames : Carried(st.meta, new.meta, from, to, spare)
  <1> DEFINE new == SwapPages(st, from, to, by)
             spare == SpareFrame(st)
             d == DisplacePage(st, to, spare)
             m == st.meta
             lost == [st EXCEPT !.wild = TRUE]
  <1>1. MakeRoom(st, by) = st
    BY DEF MakeRoom
  <1>2. /\ spare \in Frames /\ m[spare].tid = NoOwner /\ spare # Dedicated
        /\ spare # from /\ (m[to].tid # NoOwner => spare # to)
    BY SpareFrameType, FrameFacts DEF FreeFrames
  <1> HIDE DEF spare
  <1>3. new = IF m[to].loc = from THEN st
              ELSE IF m[to].loc # to THEN lost
              ELSE IF m[to].tid = NoOwner THEN MovePage(st, from, to)
              ELSE MovePage(d, from, to)
    BY <1>1, <1>2 DEF SwapPages, spare
  <1>4. m \in [AllFrames -> Header] /\ m[from].loc = from
        /\ (m[to].loc = to \/ (m[to].loc = 0 /\ m[to].tid = NoOwner))
        /\ from # 0
    BY FrameFacts DEF GoodStore, Good, AllFrames
  <1>5. CASE from = to
    BY <1>3, <1>4, <1>5
  <1>6. CASE from # to /\ m[to].loc # to
    <2>1. new = lost /\ lost.meta = st.meta /\ m[to].tid = NoOwner
      BY <1>3, <1>4, <1>6
    <2>2. new.wild
      BY <2>1
    <2> QED
      BY <1>6, <2>1, <2>2
  <1>7. CASE from # to /\ m[to].loc = to /\ m[to].tid = NoOwner
    <2>1. new = MovePage(st, from, to)
      BY <1>3, <1>7
    <2>2. new.meta = [m EXCEPT ![to] = Moved(m[from], to), ![from] = EmptyHeader(from)]
          /\ new.wild = st.wild
      BY <2>1 DEF MovePage
    <2>3. Carried(m, new.meta, from, to, from)
      <3> HIDE DEF m, new
      <3> QED
        BY <1>4, <1>7, <2>2 DEF Carried, AllFrames, m
    <2> QED
      BY <2>2, <2>3
  <1>8. CASE from # to /\ m[to].loc = to /\ m[to].tid # NoOwner
    <2>1. new = MovePage(d, from, to)
      BY <1>3, <1>4, <1>8
    <2>2. d.meta = [m EXCEPT ![spare] = Moved(m[to], spare)] /\ d.wild = st.wild
      BY DEF DisplacePage
    <2>3. new.meta = [d.meta EXCEPT ![to] = Moved(d.meta[from], to), ![from] = EmptyHeader(from)]
          /\ new.wild = d.wild
      BY <2>1 DEF MovePage
    <2>4. Carried(m, new.meta, from, to, spare)
      <3> HIDE DEF m, new, d
      <3>1. d.meta[from] = m[from]
        BY <1>2, <1>4, <2>2
      <3> QED
        BY <1>2, <1>4, <1>8, <2>2, <2>3, <3>1 DEF Carried, AllFrames, m
    <2> QED
      BY <1>2, <2>2, <2>3, <2>4
  <1> QED
    BY <1>5, <1>6, <1>7, <1>8

(* Carrying a page loses none and doubles none. *)
LEMMA CarriedOnce ==
    ASSUME NEW m \in [AllFrames -> Header], NEW n, NEW from \in Frames, NEW to \in Frames,
           NEW spare \in Frames, Carried(m, n, from, to, spare), OneEach(m)
    PROVE  OneEach(n) /\ Pages(n) = Pages(m)
  <1> DEFINE src(f) == IF f = to THEN from ELSE IF f = spare THEN to ELSE f
  <1>1. m[from] \in Header /\ m[to] \in Header /\ Frames \subseteq Int
    BY FrameFacts DEF AllFrames
  <1>2. n[from].tid = NoOwner
    BY DEF Carried, EmptyHeader
  <1>3. ASSUME NEW f \in Frames, n[f].tid # NoOwner
        PROVE  /\ f # from /\ src(f) \in Frames
               /\ m[src(f)].tid # NoOwner /\ PageOf(n[f]) = PageOf(m[src(f)])
    <2>1. f # from
      BY <1>2, <1>3
    <2>2. CASE f = to
      BY <1>1, <2>1, <2>2, MovedHeader DEF Carried
    <2>3. CASE f # to /\ f = spare
      BY <1>1, <2>1, <2>3, MovedHeader DEF Carried
    <2>4. CASE f # to /\ f # spare
      BY <1>3, <2>1, <2>4 DEF Carried
    <2> QED
      BY <2>1, <2>2, <2>3, <2>4
  <1>4. \A f, g \in Frames \ {from} :
          src(f) = src(g) /\ n[f].tid # NoOwner => f = g \/ n[g].tid = NoOwner
    BY DEF Carried
  <1>5. ASSUME NEW f \in Frames, m[f].tid # NoOwner
        PROVE  \E g \in Frames : n[g].tid # NoOwner /\ PageOf(n[g]) = PageOf(m[f])
    <2>1. CASE f = from
      <3>1. n[to] = Moved(m[from], to) /\ to \in Int
        BY <1>1 DEF Carried
      <3>2. Moved(m[from], to).tid = m[from].tid /\ PageOf(Moved(m[from], to)) = PageOf(m[from])
        BY <1>1, <3>1, MovedHeader, Zenon
      <3> QED
        BY <1>5, <2>1, <3>1, <3>2
    <2>2. CASE f = to
      <3>1. n[spare] = Moved(m[to], spare) /\ spare \in Int
        BY <1>1, <1>5, <2>2 DEF Carried
      <3>2. Moved(m[to], spare).tid = m[to].tid /\ PageOf(Moved(m[to], spare)) = PageOf(m[to])
        BY <1>1, <3>1, MovedHeader, Zenon
      <3> QED
        BY <1>5, <2>2, <3>1, <3>2
    <2>3. CASE f # from /\ f # to
      BY <1>5, <2>3 DEF Carried
    <2> QED
      BY <2>1, <2>2, <2>3
  <1>6. Pages(n) = Pages(m)
    <2> HIDE DEF src
    <2> QED
      BY <1>3, <1>5 DEF Pages
  <1>7. OneEach(n)
    <2> SUFFICES ASSUME NEW f \in Frames, NEW g \in Frames,
                        n[f].tid # NoOwner, PageOf(n[f]) = PageOf(n[g])
                 PROVE  f = g
      BY DEF OneEach
    <2>1. n[g].tid = n[f].tid
      BY DEF PageOf
    <2> HIDE DEF src
    <2>2. src(f) = src(g)
      BY <1>3, <2>1 DEF OneEach
    <2> QED
      BY <1>3, <1>4, <2>1, <2>2
  <1> QED
    BY <1>6, <1>7

(* As long as a frame is free, swapPages loses no page and doubles none. *)
LEMMA SwapPagesOnce ==
    ASSUME NEW st, GoodStore(st), FreeFrames(st) # {}, "wild" \in DOMAIN st, NEW by,
           NEW from \in Frames, NEW to \in Frames, st.meta[from].tid # NoOwner,
           OneEach(st.meta)
    PROVE  OneEach(SwapPages(st, from, to, by).meta)
           /\ Pages(SwapPages(st, from, to, by).meta) = Pages(st.meta)
  <1> DEFINE new == SwapPages(st, from, to, by)
  <1>1. \/ new.meta = st.meta
        \/ \E spare \in Frames : Carried(st.meta, new.meta, from, to, spare)
    BY SwapPagesCarries
  <1>2. st.meta \in [AllFrames -> Header]
    BY DEF GoodStore, Good
  <1> HIDE DEF new
  <1>3. OneEach(new.meta) /\ Pages(new.meta) = Pages(st.meta)
    BY <1>1, <1>2, CarriedOnce
  <1> QED
    BY <1>3 DEF new

(* An owner that has the pages 1 to k has k of them. *)
LEMMA CountIs ==
    ASSUME NEW m \in [AllFrames -> Header], NEW ps, Once(m, ps), NEW t \in Owners, NEW k \in Nat,
           NumbersIn(ps, t) = 1 .. k
    PROVE  /\ Count(m, t) = k
           /\ {m[f].num : f \in {g \in Frames : m[g].tid = t}} = 1 .. k
  <1> DEFINE P == {f \in Frames : m[f].tid = t}
             r == [f \in P |-> m[f].num]
  <1>1. ASSUME NEW f \in P
        PROVE  f \in Frames /\ m[f].num \in Int /\ PageOf(m[f]) = <<t, m[f].num>>
               /\ m[f].tid # NoOwner
    BY OwnerFacts DEF AllFrames, Header, PageOf
  <1>2. ASSUME NEW f \in P PROVE m[f].num \in 1 .. k
    <2> HIDE DEF P
    <2>1. PageOf(m[f]) \in Pages(m)
      BY <1>1 DEF Pages
    <2>2. <<t, m[f].num>> \in ps
      BY <1>1, <2>1 DEF Once
    <2>3. m[f].num \in NumbersIn(ps, t)
      BY <1>1, <2>2 DEF NumbersIn
    <2> QED
      BY <2>3
  <1>3. ASSUME NEW n \in 1 .. k PROVE \E f \in P : m[f].num = n
    <2>1. <<t, n>> \in Pages(m)
      BY DEF NumbersIn, Once
    <2>2. PICK f \in Frames : m[f].tid # NoOwner /\ PageOf(m[f]) = <<t, n>>
      BY <2>1 DEF Pages
    <2> QED
      BY <2>2 DEF PageOf
  <1>4. \A f, g \in P : m[f].num = m[g].num => f = g
    BY <1>1 DEF Once, OneEach
  <1> HIDE DEF P
  <1>5. r \in Injection(P, 1 .. k) /\ r \in Surjection(P, 1 .. k)
    BY <1>2, <1>3, <1>4 DEF Injection, IsInjective, Surjection
  <1>6. IsFiniteSet(1 .. k) /\ Cardinality(1 .. k) = k
    BY FS_Interval
  <1> HIDE DEF r
  <1>7. Cardinality(P) = k
    BY <1>5, <1>6, FS_Injection
  <1>8. {m[f].num : f \in P} = 1 .. k
    BY <1>2, <1>3
  <1> QED
    BY <1>7, <1>8 DEF P, Count

-----------------------------------------------------------------------------
(* The n pages after the k-th, in the order of the frames they are given.  *)
Claimed(m, new, t, n, k, taken) ==
    /\ taken \in SUBSET {f \in Frames : m[f].tid = NoOwner}
    /\ \A f \in taken : /\ new[f].tid = t /\ new[f].num \in k + 1 .. k + n /\ new[f].loc = f
                        /\ new[f].span = n /\ (new[f].aux <=> new[f].num > k + 1)
    /\ \A f, g \in taken : f < g => new[f].num < new[g].num
    /\ \A i \in k + 1 .. k + n : \E f \in taken : new[f].num = i
    /\ \A f \in taken, g \in Frames \ taken : m[g].tid = NoOwner => f < g
    /\ \A f \in AllFrames \ taken : new[f] = m[f]

(* While a frame is free, findFreePage takes the lowest free frames and    *)
(* numbers them on from the pages the owner has, and fails otherwise.      *)
LEMMA ClaimTakes ==
    ASSUME IInv, OnceInv, Room, Claim,
           NEW k \in Nat, NumbersIn(given, Head(todo).tid) = 1 .. k
    PROVE  LET t == Head(todo).tid
               n == Head(todo).n
           IN  /\ t \in Owners /\ n \in Nat \ {0} /\ n <= Cardinality(FreeFrames(Store))
               /\ given' = given \cup {<<t, i>> : i \in k + 1 .. k + n}
               /\ \E taken \in SUBSET Frames :
                     /\ Claimed(meta, meta', t, n, k, taken)
                     /\ taken # {}
                     /\ todo' = IF n = 1 THEN Tail(todo)
                                ELSE <<LoadSpan(Min(taken), meta'[Min(taken)])>> \o Tail(todo)
  <1> DEFINE t == Head(todo).tid
             n == Head(todo).n
             free == FreeFrames(Store)
             taken == Lowest(free, n)
             num(f) == NextNumber(Store, t) + Rank(taken, f)
  <1>1. t \in Owners /\ n \in Nat \ {0}
    <2>1. Head(todo) \in Claims
      BY DEF Claim
    <2> QED
      BY <2>1 DEF Claims
  <1>2. /\ free = {f \in Frames : meta[f].tid = NoOwner} /\ free \in SUBSET Frames
        /\ IsFiniteSet(free) /\ Cardinality(free) \in Nat /\ Cardinality(free) # 0
    <2>1. free = {f \in Frames : meta[f].tid = NoOwner}
      BY DEF FreeFrames, Store
    <2>2. IsFiniteSet(free) /\ free # {}
      BY <2>1, FrameFacts, FS_Subset DEF Room
    <2> HIDE DEF free
    <2> QED
      BY <2>1, <2>2, FS_CardinalityType, FS_EmptySet
  <1>3. n <= Cardinality(free)
    <2> HIDE DEF free, n, t
    <2> QED
      BY <1>1, <1>2 DEF Claim, free, n, t
  <1>4. ClaimIn(Store, t, n)
    BY <1>1, <1>2, <1>3 DEF Claim
  <1>5. NextNumber(Store, t) = k + 1
    <2>1. Count(meta, t) = k
      BY <1>1, CountIs DEF OnceInv, IInv, Good
    <2> QED
      BY <2>1 DEF Count, NextNumber, PageCount, Store
  <1>6. /\ taken \subseteq free
        /\ \A f \in taken : Rank(taken, f) \in 0 .. n - 1
        /\ \A f, g \in taken : f < g => Rank(taken, f) < Rank(taken, g)
        /\ \A i \in 0 .. n - 1 : \E f \in taken : Rank(taken, f) = i
        /\ \A f \in taken, g \in free \ taken : f < g
    <2> HIDE DEF free, n
    <2> QED
      BY <1>1, <1>2, <1>3, LowestRanks
  <1>7. /\ meta' = [f \in AllFrames |->
                      IF f \in taken THEN [tid |-> t, num |-> num(f), loc |-> f, span |-> n,
                                           aux |-> Rank(taken, f) > 0]
                      ELSE meta[f]]
        /\ given' = given \cup {<<t, num(f)>> : f \in taken}
        /\ todo' = IF n = 1 THEN Tail(todo)
                   ELSE <<LoadSpan(Min(taken), meta'[Min(taken)])>> \o Tail(todo)
    <2>1. DOMAIN meta = AllFrames
      BY DEF IInv, Good
    <2> HIDE DEF t, n
    <2> QED
      BY <1>4, <2>1 DEF ClaimIn, Store
  <1> HIDE DEF taken, t, n
  <1>8. taken # {}
    <2>1. 0 \in 0 .. n - 1
      BY <1>1
    <2> QED
      BY <1>6, <2>1
  <1>9. \A f \in taken : num(f) = k + 1 + Rank(taken, f)
    BY <1>5
  <1>10. Claimed(meta, meta', t, n, k, taken)
    <2> HIDE DEF free, num
    <2>1. ASSUME NEW f \in taken
          PROVE  /\ meta'[f].tid = t /\ meta'[f].num = k + 1 + Rank(taken, f) /\ meta'[f].loc = f
                 /\ meta'[f].span = n /\ (meta'[f].aux <=> Rank(taken, f) > 0)
                 /\ Rank(taken, f) \in Int /\ 0 <= Rank(taken, f) /\ Rank(taken, f) <= n - 1
      <3>1. f \in AllFrames
        BY <1>2, <1>6 DEF AllFrames
      <3> DEFINE later == Rank(taken, f) > 0
      <3>2. meta'[f] = [tid |-> t, num |-> num(f), loc |-> f, span |-> n, aux |-> later]
        BY <1>7, <3>1
      <3>3. num(f) = k + 1 + Rank(taken, f) /\ Rank(taken, f) \in 0 .. n - 1
        BY <1>6, <1>9
      <3>4. meta'[f].aux <=> later
        <4> HIDE DEF later
        <4>1. meta'[f].aux = later
          BY <3>2
        <4> QED
          BY <4>1, Zenon
      <3> QED
        BY <1>1, <3>2, <3>3, <3>4
    <2>2. ASSUME NEW i \in k + 1 .. k + n PROVE \E f \in taken : meta'[f].num = i
      <3>1. PICK f \in taken : Rank(taken, f) = i - (k + 1)
        BY <1>1, <1>6
      <3> QED
        BY <2>1, <3>1
    <2>3. \A f \in AllFrames \ taken : meta'[f] = meta[f]
      BY <1>7
    <2>4. \A f, g \in taken : f < g => meta'[f].num < meta'[g].num
      BY <1>6, <2>1
    <2>5. \A f \in taken : meta'[f].num \in k + 1 .. k + n
      <3> SUFFICES ASSUME NEW f \in taken PROVE meta'[f].num \in k + 1 .. k + n
        OBVIOUS
      <3> DEFINE r == Rank(taken, f)
      <3>1. r \in Int /\ 0 <= r /\ r <= n - 1 /\ meta'[f].num = k + 1 + r
        BY <2>1
      <3> HIDE DEF r
      <3> QED
        BY <1>1, <3>1
    <2>6. \A f \in taken : meta'[f].aux <=> meta'[f].num > k + 1
      BY <2>1
    <2> QED
      BY <1>2, <1>6, <2>1, <2>2, <2>3, <2>4, <2>5, <2>6 DEF Claimed
  <1>11. given' = given \cup {<<t, i>> : i \in k + 1 .. k + n}
    <2>1. {<<t, num(f)>> : f \in taken} = {<<t, i>> : i \in k + 1 .. k + n}
      <3>1. ASSUME NEW f \in taken PROVE num(f) \in k + 1 .. k + n
        BY <1>1, <1>6, <1>9
      <3>2. ASSUME NEW i \in k + 1 .. k + n PROVE \E f \in taken : num(f) = i
        <4>1. PICK f \in taken : Rank(taken, f) = i - (k + 1)
          BY <1>1, <1>6
        <4> QED
          BY <1>9, <4>1
      <3> HIDE DEF num
      <3> QED
        BY <3>1, <3>2
    <2> QED
      BY <1>7, <2>1
  <1> QED
    BY <1>1, <1>2, <1>3, <1>6, <1>7, <1>8, <1>10, <1>11 DEF t, n

(* New pages get names that no page has, and leave no gap.                 *)
LEMMA ClaimOnce ==
    ASSUME IInv, OnceInv, Room, Claim
    PROVE  OnceInv'
  <1> DEFINE t == Head(todo).tid
             n == Head(todo).n
  <1>1. t \in Owners
    <2>1. Head(todo) \in Claims
      BY DEF Claim
    <2> QED
      BY <2>1 DEF Claims
  <1>2. PICK k \in Nat : NumbersIn(given, t) = 1 .. k
    BY <1>1 DEF OnceInv, Once, Counted
  <1>3. n \in Nat \ {0} /\ given' = given \cup {<<t, i>> : i \in k + 1 .. k + n}
    BY <1>2, ClaimTakes
  <1>4. PICK taken \in SUBSET Frames : Claimed(meta, meta', t, n, k, taken)
    BY <1>2, ClaimTakes
  <1> HIDE DEF t, n
  <1>5. \A i \in Int : <<t, i>> \in given <=> i \in 1 .. k
    BY <1>2 DEF NumbersIn
  <1>6. meta \in [AllFrames -> Header] /\ given = Pages(meta) /\ OneEach(meta)
    BY DEF IInv, Good, OnceInv, Once
  <1>7. \A f \in Frames \ taken : meta'[f] = meta[f]
    BY <1>4 DEF Claimed, AllFrames
  <1>8. \A f \in taken : meta'[f].num \in k + 1 .. k + n /\ PageOf(meta'[f]) = <<t, meta'[f].num>>
                        /\ meta'[f].tid = t /\ t # NoOwner /\ meta[f].tid = NoOwner
    BY <1>1, <1>4, OwnerFacts DEF Claimed, PageOf
  <1>9. OneEach(meta')
    <2> SUFFICES ASSUME NEW f \in Frames, NEW g \in Frames,
                        meta'[f].tid # NoOwner, PageOf(meta'[f]) = PageOf(meta'[g])
                 PROVE  f = g
      BY DEF OneEach
    <2>1. CASE f \in taken /\ g \in taken
      <3>1. f \in Int /\ g \in Int /\ meta'[f].num = meta'[g].num
        BY <1>8, <2>1, FrameFacts
      <3>2. meta'[f].num \in Int /\ meta'[g].num \in Int
        BY <1>8, <2>1
      <3> QED
        BY <1>4, <2>1, <3>1, <3>2 DEF Claimed
    <2>2. ASSUME NEW a \in taken, NEW b \in Frames \ taken,
                 PageOf(meta'[a]) = PageOf(meta'[b])
          PROVE  FALSE
      <3>1. PageOf(meta[b]) = <<t, meta'[a].num>> /\ meta[b].tid = t
        BY <1>7, <1>8, <2>2 DEF PageOf
      <3>2. PageOf(meta[b]) \in Pages(meta)
        BY <1>8, <3>1 DEF Pages
      <3> QED
        BY <1>5, <1>6, <1>8, <3>1, <3>2
    <2>3. CASE f \notin taken /\ g \notin taken
      BY <1>6, <1>7, <2>3 DEF OneEach
    <2> QED
      BY <2>1, <2>2, <2>3
  <1>10. Pages(meta') = given'
    <2>1. ASSUME NEW f \in Frames, meta'[f].tid # NoOwner PROVE PageOf(meta'[f]) \in given'
      <3>1. CASE f \in taken
        BY <1>3, <1>8, <3>1
      <3>2. CASE f \notin taken
        BY <1>3, <1>6, <1>7, <2>1, <3>2 DEF Pages
      <3> QED
        BY <3>1, <3>2
    <2>2. ASSUME NEW p \in given
          PROVE  \E f \in Frames : meta'[f].tid # NoOwner /\ PageOf(meta'[f]) = p
      <3>1. PICK f \in Frames : meta[f].tid # NoOwner /\ PageOf(meta[f]) = p
        BY <1>6 DEF Pages
      <3>2. f \notin taken
        BY <1>8, <3>1
      <3> QED
        BY <1>7, <3>1, <3>2
    <2>3. ASSUME NEW i \in k + 1 .. k + n
          PROVE  \E f \in Frames : meta'[f].tid # NoOwner /\ PageOf(meta'[f]) = <<t, i>>
      <3>1. PICK f \in taken : meta'[f].num = i
        BY <1>4 DEF Claimed
      <3> QED
        BY <1>8, <3>1
    <2> QED
      BY <1>3, <2>1, <2>2, <2>3 DEF Pages
  <1>11. given' \subseteq Owners \X Int
    BY <1>1, <1>3 DEF OnceInv, Once
  <1>12. Counted(given')
    <2> SUFFICES ASSUME NEW u \in Owners PROVE \E j \in Nat : NumbersIn(given', u) = 1 .. j
      BY DEF Counted
    <2>1. CASE u = t
      <3>1. \A i \in Int : <<t, i>> \in given' <=> i \in 1 .. k \/ i \in k + 1 .. k + n
        BY <1>3, <1>5
      <3>2. \A i \in Int : i \in 1 .. k \/ i \in k + 1 .. k + n <=> i \in 1 .. (k + n)
        BY <1>3
      <3>3. NumbersIn(given', u) = 1 .. (k + n)
        BY <2>1, <3>1, <3>2 DEF NumbersIn
      <3>4. k + n \in Nat
        BY <1>3
      <3> QED
        BY <3>3, <3>4
    <2>2. CASE u # t
      <3>1. NumbersIn(given', u) = NumbersIn(given, u)
        BY <1>3, <2>2 DEF NumbersIn
      <3> QED
        BY <3>1 DEF OnceInv, Once, Counted
    <2> QED
      BY <2>1, <2>2
  <1> QED
    BY <1>9, <1>10, <1>11, <1>12 DEF OnceInv, Once

(* The memory just set up has no pages.                                    *)
LEMMA InitOnce == Init => OnceInv
  <1> SUFFICES ASSUME Init PROVE OnceInv
    OBVIOUS
  <1>1. \A f \in Frames : meta[f] = EmptyHeader(0)
    BY FrameFacts DEF Init
  <1>2. \A f \in Frames : meta[f].tid = NoOwner
    BY <1>1 DEF EmptyHeader
  <1>3. OneEach(meta) /\ Pages(meta) = {} /\ given = {}
    BY <1>2 DEF OneEach, Pages, Init
  <1>4. Counted({})
    <2>1. \A t : NumbersIn({}, t) = 1 .. 0
      BY DEF NumbersIn
    <2> QED
      BY <2>1 DEF Counted
  <1> QED
    BY <1>3, <1>4 DEF OnceInv, Once

(* A step that leaves the headers and the pages given out alone.           *)
LEMMA OnceUnchanged ==
    ASSUME OnceInv, UNCHANGED <<meta, given>>
    PROVE  OnceInv'
  BY DEF OnceInv, Once, OneEach, Pages, Counted, NumbersIn, PageOf

(* A step to the store that swapPages makes.                               *)
LEMMA SwapOnce ==
    ASSUME IInv, OnceInv, Room, NEW by, NEW from \in Frames, NEW to \in Frames,
           meta[from].tid # NoOwner, Become(SwapPages(Store, from, to, by)), given' = given
    PROVE  OnceInv'
  <1> DEFINE new == SwapPages(Store, from, to, by)
  <1>1. GoodStore(Store) /\ FreeFrames(Store) # {} /\ Store.meta = meta
        /\ "wild" \in DOMAIN Store
    BY StoreIsGood DEF Room, Store
  <1>2. OneEach(new.meta) /\ Pages(new.meta) = Pages(meta)
    <2> HIDE DEF new
    <2> QED
      BY <1>1, SwapPagesOnce DEF OnceInv, Once, new
  <1>3. meta' = new.meta
    BY DEF Become
  <1> HIDE DEF new
  <1> QED
    BY <1>2, <1>3 DEF OnceInv, Once

(* What a loader moves is a page of its owner, in another frame than the   *)
(* one it goes to.                                                         *)
LEMMA LoaderHits ==
    ASSUME CallInv, todo # <<>>, Loader, LoaderSwap(Head(todo)),
           NEW from, from = Min(ToMove(Head(todo)) \cup InPlace(Head(todo)))
    PROVE  /\ Head(todo) \in Loaders
           /\ from \in Frames /\ Head(todo).pos \in Frames /\ from # Head(todo).pos
           /\ from # Head(todo).lead
           /\ PageOf(meta[from]) = <<Head(todo).tid, Head(todo).want>>
           /\ meta[from].tid = Head(todo).tid /\ meta[from].tid # NoOwner
  <1>1. Head(todo) \in Loaders
    BY LoaderJob DEF CallInv, Loader
  <1>2. from \in ToMove(Head(todo)) /\ from \in Frames
    BY LoaderMoves DEF LoaderSwap
  <1>3. Head(todo).tid \in Owners
    BY <1>1 DEF Loaders
  <1> QED
    BY <1>1, <1>2, <1>3, OwnerFacts DEF ToMove, PageOf

(* Every step made while a frame is free keeps the pages.                  *)
LEMMA StepOnce == IInv /\ CallInv /\ OnceInv /\ Room /\ [Next]_vars => OnceInv'
  <1> SUFFICES ASSUME IInv, CallInv, OnceInv, Room, [Next]_vars PROVE OnceInv'
    OBVIOUS
  <1>1. CASE Library /\ Loader
    <2> DEFINE job == Head(todo)
    <2>1. CASE LoaderSwap(job)
      <3> DEFINE from == Min(ToMove(job) \cup InPlace(job))
      <3>1. from \in Frames /\ job.pos \in Frames /\ meta[from].tid # NoOwner
        BY <1>1, <2>1, LoaderHits DEF Library
      <3>2. Become(SwapPages(Store, from, job.pos, job.by)) /\ given' = given
        BY <2>1 DEF LoaderSwap
      <3> HIDE DEF from, job
      <3> QED
        BY <3>1, <3>2, SwapOnce
    <2>2. CASE LoaderSkip(job) \/ LoaderEnds(job)
      BY <2>2, OnceUnchanged DEF LoaderSkip, LoaderEnds
    <2> QED
      BY <1>1, <2>1, <2>2 DEF Loader
  <1>2. CASE Library /\ Claim
    BY <1>2, ClaimOnce
  <1>3. CASE Library /\ (Lock \/ ClaimFails)
    BY <1>3, OnceUnchanged DEF Lock, ClaimFails
  <1>4. ASSUME NEW v \in 1 .. MaxPages, Fault(v) PROVE OnceInv'
    <2> DEFINE homes == {f \in Frames : PageOf(meta[f]) = <<running, v>>}
    <2>1. given' = given
      BY <1>4 DEF Fault
    <2>2. CASE meta' = meta
      BY <2>1, <2>2, OnceUnchanged
    <2>3. CASE \E from \in Lowest(homes, 1) :
                 Become(SwapPages(Store, from, FrameOf(v), running))
      <3>1. PICK from \in Lowest(homes, 1) :
               Become(SwapPages(Store, from, FrameOf(v), running))
        BY <2>3
      <3>2. from \in Frames /\ meta[from].tid # NoOwner
        <4>1. running \in Owners
          BY OwnerFacts DEF IInv
        <4> QED
          BY <4>1, OwnerFacts DEF Lowest, PageOf
      <3>3. FrameOf(v) \in Frames
        BY <1>4 DEF Fault, IInv
      <3> QED
        BY <2>1, <3>1, <3>2, <3>3, SwapOnce
    <2> QED
      BY <1>4, <2>2, <2>3 DEF Fault
  <1>5. CASE UNCHANGED <<meta, given>>
    BY <1>5, OnceUnchanged
  <1>6. CASE UNCHANGED vars
    BY <1>5, <1>6 DEF vars
  <1>7. CASE \/ \E n \in Requests : Malloc(n)
             \/ \E f \in Frames, n \in Requests : MallocIn(f, n)
             \/ \E v \in 1 .. MaxPages : Free(v)
             \/ \E u \in Threads : Create(u) \/ Dispatch(u)
    BY <1>5, <1>7 DEF Malloc, MallocIn, Free, Create, Dispatch
  <1> QED
    BY <1>1, <1>2, <1>3, <1>4, <1>6, <1>7 DEF Next, Library

(* While the pages in the frames are numbered without a gap and none is    *)
(* twice there, the two properties hold.                                   *)
LEMMA OnceImplies == IInv /\ OnceInv => EachPageOnce /\ Numbered
  <1> SUFFICES ASSUME IInv, OnceInv PROVE EachPageOnce /\ Numbered
    OBVIOUS
  <1>1. ASSUME NEW p \in given PROVE Cardinality({f \in Frames : PageOf(meta[f]) = p}) = 1
    <2>1. PICK f \in Frames : meta[f].tid # NoOwner /\ PageOf(meta[f]) = p
      BY DEF OnceInv, Once, Pages
    <2>2. {g \in Frames : PageOf(meta[g]) = p} = {f}
      BY <2>1 DEF OnceInv, Once, OneEach
    <2> QED
      BY <2>2, FS_Singleton
  <1>2. ASSUME NEW t \in Owners
        PROVE  {meta[f].num : f \in PagesOf(t)} = 1 .. Cardinality(PagesOf(t))
    <2>1. PICK k \in Nat : NumbersIn(given, t) = 1 .. k
      BY DEF OnceInv, Once, Counted
    <2>2. Count(meta, t) = k /\ {meta[f].num : f \in {g \in Frames : meta[g].tid = t}} = 1 .. k
      BY <2>1, CountIs DEF IInv, Good, OnceInv
    <2> QED
      BY <2>2 DEF Count, PagesOf
  <1> QED
    BY <1>1, <1>2 DEF EachPageOnce, Numbered

(* As long as a frame is free, whatever the number of frames and threads:  *)
(* every page given out is in one frame, and the pages of an owner are     *)
(* numbered without a gap.                                                 *)
THEOREM PagesStayWhileRoom == Spec /\ []Room => [](IInv /\ CallInv /\ OnceInv)
  BY InitOnce, StepOnce, StoresStayGood, QueueStaysTyped, PTL DEF Spec

-----------------------------------------------------------------------------
(* The pages an owner may come to have, and enough frames for all of them  *)
(* and one more: the library's page is one, and a load needs a spare frame *)
(* for the page in its way.                                                *)
Most == IF MaxPages < StackPages THEN StackPages ELSE MaxPages
Cap(t) == IF t = Lib THEN 1 ELSE Most
Roomy == IsFiniteSet(Others) /\ Cardinality(Threads) * Most + 1 < Cardinality(Frames)

(* The requests for pages of t that are queued in q, none, or for at most  *)
(* n pages in all: a call queues two of them for a thread, or one.         *)
ClaimsOf(q, t) == {i \in DOMAIN q : q[i].op = "claim" /\ q[i].tid = t}
Silent(q, t) == ClaimsOf(q, t) = {}
Asks(q, t, n) ==
    /\ \A i \in ClaimsOf(q, t) : q[i].n <= n
    /\ \A i, j \in ClaimsOf(q, t) : i # j => q[i].n + q[j].n <= n
    /\ \A i, j, k \in ClaimsOf(q, t) : i = j \/ j = k \/ i = k

(* What t may still get: the stack of main is kept for the first create.   *)
Reserve(t) == IF created = {} /\ t = Main THEN StackPages ELSE 0
Rest(t) == Cap(t) - Count(meta, t) - Reserve(t)

(* What is queued is within what its owner may still get; a thread that    *)
(* was not created has no page, and the library none before the first one. *)
BudgetInv ==
    /\ \A t \in Owners : Rest(t) \in Nat /\ Asks(todo, t, Rest(t))
    /\ running \in created \cup {Main} /\ (created # {} => Main \in created)
    /\ \A t \in Others \ created : Count(meta, t) = 0 /\ Silent(todo, t)
    /\ created = {} => Count(meta, Lib) = 0 /\ Silent(todo, Lib)

(* What two queues ask for, one after the other.                           *)
LEMMA AsksConcat ==
    ASSUME NEW q \in Seq(Jobs), NEW r \in Seq(Jobs), NEW t
    PROVE  /\ Silent(q, t) /\ Silent(r, t) => Silent(q \o r, t)
           /\ \A n : Silent(q, t) /\ Asks(r, t, n) => Asks(q \o r, t, n)
           /\ \A n : Asks(q, t, n) /\ Silent(r, t) => Asks(q \o r, t, n)
  <1> DEFINE s == q \o r
  <1>1. /\ Len(q) \in Nat /\ Len(r) \in Nat /\ DOMAIN q = 1 .. Len(q) /\ DOMAIN r = 1 .. Len(r)
        /\ s \in Seq(Jobs) /\ Len(s) = Len(q) + Len(r) /\ DOMAIN s = 1 .. Len(q) + Len(r)
        /\ \A i \in 1 .. Len(q) + Len(r) : s[i] = IF i <= Len(q) THEN q[i] ELSE r[i - Len(q)]
    BY ConcatProperties, LenProperties
  <1> HIDE DEF s
  <1>2. ASSUME NEW i \in ClaimsOf(s, t)
        PROVE  \/ i \in ClaimsOf(q, t) /\ s[i] = q[i]
               \/ i - Len(q) \in ClaimsOf(r, t) /\ s[i] = r[i - Len(q)]
    BY <1>1 DEF ClaimsOf
  <1>3. ASSUME Silent(q, t) PROVE \A i \in ClaimsOf(s, t) :
                                    i - Len(q) \in ClaimsOf(r, t) /\ s[i] = r[i - Len(q)]
    BY <1>2, <1>3 DEF Silent
  <1>4. ASSUME Silent(r, t) PROVE \A i \in ClaimsOf(s, t) : i \in ClaimsOf(q, t) /\ s[i] = q[i]
    BY <1>2, <1>4 DEF Silent
  <1>5. ClaimsOf(s, t) \subseteq Int
    BY <1>1 DEF ClaimsOf
  <1>6. ASSUME NEW n, Silent(q, t), Asks(r, t, n) PROVE Asks(s, t, n)
    <2>1. \A i, j \in ClaimsOf(s, t) : i # j => i - Len(q) # j - Len(q)
      BY <1>1, <1>5
    <2> QED
      BY <1>3, <1>6, <2>1 DEF Asks
  <1>7. ASSUME NEW n, Asks(q, t, n), Silent(r, t) PROVE Asks(s, t, n)
    BY <1>4, <1>7 DEF Asks
  <1>8. Silent(q, t) /\ Silent(r, t) => Silent(s, t)
    BY <1>3 DEF Silent
  <1> QED
    BY <1>6, <1>7, <1>8 DEF s

(* What a queue asks for when its first job is done.                       *)
LEMMA AsksTail ==
    ASSUME NEW q \in Seq(Jobs), q # <<>>, NEW t
    PROVE  /\ Silent(q, t) => Silent(Tail(q), t)
           /\ \A n : Asks(q, t, n) => Asks(Tail(q), t, n)
           /\ Head(q).op = "claim" /\ Head(q).tid = t
                => /\ ~Silent(q, t)
                   /\ \A n \in Int : Asks(q, t, n) =>
                                     Head(q).n <= n /\ Asks(Tail(q), t, n - Head(q).n)
  <1> DEFINE r == Tail(q)
  <1>1. /\ Len(q) \in Nat /\ Len(q) # 0 /\ DOMAIN q = 1 .. Len(q) /\ Head(q) = q[1]
        /\ r \in Seq(Jobs) /\ Len(r) = Len(q) - 1 /\ DOMAIN r = 1 .. Len(q) - 1
        /\ \A i \in 1 .. Len(q) - 1 : r[i] = q[i + 1]
    BY HeadTailProperties, LenProperties, EmptySeq
  <1> HIDE DEF r
  <1>2. ASSUME NEW i \in ClaimsOf(r, t)
        PROVE  i + 1 \in ClaimsOf(q, t) /\ r[i] = q[i + 1] /\ i \in Nat /\ i # 0
    BY <1>1 DEF ClaimsOf
  <1>3. Silent(q, t) => Silent(r, t)
    BY <1>2 DEF Silent
  <1>4. ASSUME NEW n, Asks(q, t, n) PROVE Asks(r, t, n)
    <2>1. \A i, j \in ClaimsOf(r, t) : i # j => i + 1 # j + 1
      BY <1>2
    <2> QED
      BY <1>2, <1>4, <2>1 DEF Asks
  <1>5. ASSUME Head(q).op = "claim", Head(q).tid = t
        PROVE  1 \in ClaimsOf(q, t)
    BY <1>1, <1>5 DEF ClaimsOf
  <1>6. ASSUME Head(q).op = "claim", Head(q).tid = t, NEW n \in Int, Asks(q, t, n)
        PROVE  Head(q).n <= n /\ Asks(r, t, n - Head(q).n)
    <2>1. Head(q).n <= n
      BY <1>1, <1>5, <1>6 DEF Asks
    <2>2. \A i \in ClaimsOf(q, t) : q[i].n \in Int
      BY <1>1 DEF ClaimsOf, Jobs, Loaders, Claims, Locks
    <2>3. ASSUME NEW i \in ClaimsOf(r, t) PROVE r[i].n <= n - Head(q).n
      <3>1. i + 1 # 1 /\ q[1].n + q[i + 1].n <= n
        BY <1>2, <1>5, <1>6 DEF Asks
      <3>2. r[i] = q[i + 1] /\ Head(q) = q[1]
        BY <1>1, <1>2
      <3>3. q[1].n \in Int /\ q[i + 1].n \in Int
        BY <1>2, <1>5, <1>6, <2>2
      <3>4. q[i + 1].n <= n - q[1].n
        BY <1>6, <3>1, <3>3
      <3> QED
        BY <3>2, <3>4
    <2>4. ASSUME NEW i \in ClaimsOf(r, t), NEW j \in ClaimsOf(r, t) PROVE i = j
      <3>1. i + 1 # 1 /\ j + 1 # 1 /\ i + 1 \in ClaimsOf(q, t) /\ j + 1 \in ClaimsOf(q, t)
        BY <1>2
      <3>2. i + 1 = j + 1
        BY <1>5, <1>6, <3>1 DEF Asks
      <3> QED
        BY <1>2, <3>2
    <2> QED
      BY <2>1, <2>3, <2>4 DEF Asks
  <1>7. Head(q).op = "claim" /\ Head(q).tid = t => ~Silent(q, t)
    BY <1>5 DEF Silent
  <1> QED
    BY <1>3, <1>4, <1>6, <1>7 DEF r

(* What is asked for by single jobs and by the pieces calls are made of.   *)
LEMMA AsksOfJobs ==
    /\ \A q, t, n : Silent(q, t) => Asks(q, t, n)
    /\ \A t : Silent(<<>>, t)
    /\ \A a \in Loaders \cup Locks : \A t : Silent(<<a>>, t)
    /\ \A u : \A n, m \in Int : n <= m => Asks(<<NewPages(u, n)>>, u, m)
    /\ \A t, u, n : t # u => Silent(<<NewPages(u, n)>>, t)
  <1>1. \A t : Silent(<<>>, t)
    BY DEF Silent, ClaimsOf
  <1>2. ASSUME NEW a, NEW t
        PROVE  /\ ClaimsOf(<<a>>, t) \subseteq {1}
               /\ a.op # "claim" \/ a.tid # t => Silent(<<a>>, t)
    BY DEF ClaimsOf, Silent
  <1>3. ASSUME NEW u, NEW n \in Int, NEW m \in Int, n <= m
        PROVE  Asks(<<NewPages(u, n)>>, u, m)
    <2>1. <<NewPages(u, n)>>[1].n = n
      BY DEF NewPages
    <2> QED
      BY <1>2, <1>3, <2>1 DEF Asks
  <1>4. \A a \in Loaders \cup Locks : a.op # "claim"
    BY DEF Loaders, Locks
  <1>5. \A u, n : NewPages(u, n).tid = u
    BY DEF NewPages
  <1> QED
    BY <1>1, <1>2, <1>3, <1>4, <1>5 DEF Asks, Silent

(* The two requests for a new stack. *)
LEMMA NewStackAsks ==
    ASSUME NEW u \in Owners
    PROVE  /\ NewStack(u) \in Seq(Jobs)
           /\ \A n \in Int : StackPages <= n => Asks(NewStack(u), u, n)
           /\ \A t : t # u => Silent(NewStack(u), t)
  <1> DEFINE a == NewPages(u, StackPages - 1)
             b == NewPages(u, 1)
             c == LoadAll(u, u)
             q == <<a, b, c>>
  <1>1. /\ a \in Jobs /\ b \in Jobs /\ c \in Jobs
        /\ a.n = StackPages - 1 /\ b.n = 1 /\ StackPages \in Nat
        /\ a.op = "claim" /\ b.op = "claim" /\ c.op # "claim" /\ a.tid = u /\ b.tid = u
    <2>1. StackPages - 1 \in Nat \ {0} /\ 1 \in Nat \ {0} /\ StackPages \in Nat
      BY PagingAssumption
    <2>2. a \in Claims /\ b \in Claims /\ c \in Loaders
      <3> HIDE DEF c
      <3>1. c \in Loaders
        BY JobTypes DEF c
      <3> QED
        BY <2>1, <3>1, JobTypes
    <2> QED
      BY <2>1, <2>2 DEF Jobs, NewPages, LoadAll
  <1>2. NewStack(u) = q
    BY DEF NewStack
  <1> HIDE DEF a, b, c
  <1>3. q \in Seq(Jobs)
    BY <1>1
  <1>4. \A t : ClaimsOf(q, t) \subseteq {1, 2} /\ (t # u => ClaimsOf(q, t) = {})
    BY <1>1 DEF ClaimsOf
  <1>5. q[1] = a /\ q[2] = b
    OBVIOUS
  <1> HIDE DEF q
  <1>6. ASSUME NEW n \in Int, StackPages <= n PROVE Asks(q, u, n)
    <2>1. \A i \in ClaimsOf(q, u) : i = 1 \/ i = 2
      BY <1>4
    <2>2. q[1].n = StackPages - 1 /\ q[2].n = 1 /\ StackPages >= 2 /\ StackPages \in Int
      BY <1>1, <1>5, PagingAssumption
    <2> QED
      BY <1>6, <2>1, <2>2 DEF Asks
  <1> QED
    BY <1>2, <1>3, <1>4, <1>6 DEF Silent

(* What the first create asks for main is a new stack at most.             *)
LEMMA MainStackAsks ==
    ASSUME NEW q \in MainStacks
    PROVE  /\ q \in Seq(Jobs)
           /\ \A n \in Int : StackPages <= n => Asks(q, Main, n)
           /\ \A t : t # Main => Silent(q, t)
  <1>1. CASE q = NewStack(Main)
    BY <1>1, OwnerFacts, NewStackAsks
  <1>2. CASE q = <<NewPages(Main, StackPages - 1), LoadAll(Main, Main)>>
    <2> DEFINE a == <<NewPages(Main, StackPages - 1)>>
               b == <<LoadAll(Main, Main)>>
    <2>1. /\ Main \in Owners /\ StackPages - 1 \in Nat \ {0}
          /\ StackPages - 1 \in Int /\ StackPages \in Int
      BY OwnerFacts, PagingAssumption
    <2>2. LoadAll(Main, Main) \in Loaders
      BY <2>1, JobTypes
    <2>3. a \in Seq(Jobs) /\ b \in Seq(Jobs)
      BY <2>1, <2>2, JobQueues
    <2>4. \A n \in Int : StackPages <= n => StackPages - 1 <= n
      BY <2>1
    <2>5. /\ \A n \in Int : StackPages <= n => Asks(a, Main, n)
          /\ \A t : t # Main => Silent(a, t)
          /\ \A t : Silent(b, t)
      BY <2>1, <2>2, <2>4, AsksOfJobs
    <2>6. q = a \o b
      BY <1>2
    <2> HIDE DEF a, b
    <2> QED
      BY <2>3, <2>5, <2>6, AsksConcat, Queues
  <1> QED
    BY <1>1, <1>2 DEF MainStacks

(* The counts of pages only depend on the pages given out.                 *)
LEMMA CountsKnown == IInv /\ OnceInv => \A t \in Owners : /\ Count(meta, t) \in Nat
                                                        /\ NumbersIn(given, t) = 1 .. Count(meta, t)
  <1> SUFFICES ASSUME IInv, OnceInv, NEW t \in Owners
               PROVE  Count(meta, t) \in Nat /\ NumbersIn(given, t) = 1 .. Count(meta, t)
    OBVIOUS
  <1>1. PICK k \in Nat : NumbersIn(given, t) = 1 .. k
    BY DEF OnceInv, Once, Counted
  <1>2. Count(meta, t) = k
    BY <1>1, CountIs DEF IInv, Good, OnceInv
  <1> QED
    BY <1>1, <1>2

(* Both states of a step keep every page once.                             *)
Grows == IInv /\ OnceInv /\ IInv' /\ OnceInv'

(* A step that gives out no page leaves everybody as many pages.           *)
LEMMA CountsSame ==
    ASSUME Grows, given' = given
    PROVE  \A t \in Owners : Count(meta', t) = Count(meta, t)
  <1> SUFFICES ASSUME NEW t \in Owners PROVE Count(meta', t) = Count(meta, t)
    OBVIOUS
  <1>1. Count(meta, t) \in Nat /\ NumbersIn(given', t) = 1 .. Count(meta, t)
    BY CountsKnown DEF Grows
  <1> QED
    BY <1>1, CountIs DEF IInv, Good, OnceInv, Grows

(* A step that gives out no page and queues no new request. *)
LEMMA BudgetKept ==
    ASSUME Grows, BudgetInv, given' = given, created' = created,
           running' \in created \cup {Main},
           \A t \in Owners : /\ Silent(todo, t) => Silent(todo', t)
                             /\ \A n : Asks(todo, t, n) => Asks(todo', t, n)
    PROVE  BudgetInv'
  <1>1. \A t \in Owners : Count(meta', t) = Count(meta, t)
    BY CountsSame
  <1>2. \A t \in Owners : Rest(t)' = Rest(t)
    BY <1>1 DEF Rest, Reserve
  <1>3. Others \subseteq Owners /\ Lib \in Owners
    BY DEF Owners, Threads
  <1> QED
    BY <1>1, <1>2, <1>3 DEF BudgetInv

(* A claim is within what its owner may still get. *)
LEMMA BudgetClaim ==
    ASSUME Grows, CallInv, BudgetInv, Room, todo # <<>>, Claim
    PROVE  BudgetInv'
  <1> DEFINE u == Head(todo).tid
             n == Head(todo).n
  <1>1. u \in Owners /\ Head(todo).op = "claim"
    <2>1. Head(todo) \in Claims
      BY DEF Claim
    <2> QED
      BY <2>1 DEF Claims
  <1>2. \A t \in Owners : Count(meta, t) \in Nat /\ NumbersIn(given, t) = 1 .. Count(meta, t)
    BY CountsKnown DEF Grows
  <1> DEFINE k == Count(meta, u)
  <1>3. k \in Nat /\ NumbersIn(given, u) = 1 .. k
    BY <1>1, <1>2
  <1>4. /\ n \in Nat \ {0}
        /\ given' = given \cup {<<u, i>> : i \in k + 1 .. k + n}
        /\ \E taken \in SUBSET Frames :
              /\ taken # {} /\ Claimed(meta, meta', u, n, k, taken)
              /\ todo' = IF n = 1 THEN Tail(todo)
                         ELSE <<LoadSpan(Min(taken), meta'[Min(taken)])>> \o Tail(todo)
    <2> HIDE DEF k
    <2> QED
      BY <1>3, ClaimTakes DEF Grows
  <1> HIDE DEF k
  <1>5. todo' = Tail(todo) \/ \E a \in Loaders : todo' = <<a>> \o Tail(todo)
    <2>1. PICK taken \in SUBSET Frames :
              /\ taken # {} /\ Claimed(meta, meta', u, n, k, taken)
              /\ todo' = IF n = 1 THEN Tail(todo)
                         ELSE <<LoadSpan(Min(taken), meta'[Min(taken)])>> \o Tail(todo)
      BY <1>4
    <2> DEFINE f == Min(taken)
    <2>2. f \in taken /\ f \in Frames
      <3>1. taken \subseteq Nat
        BY PagingAssumption DEF Frames
      <3> QED
        BY <2>1, <3>1, MinExists
    <2> HIDE DEF f
    <2>3. meta'[f].tid \in Owners /\ meta'[f] \in Header
      BY <1>1, <2>1, <2>2 DEF Claimed, Grows, IInv, Good, AllFrames
    <2>4. LoadSpan(f, meta'[f]) \in Loaders
      BY <2>2, <2>3, JobTypes
    <2> QED
      BY <2>1, <2>4 DEF f
  <1>6. todo \in Seq(Jobs) /\ Tail(todo) \in Seq(Jobs)
    BY LoaderJob DEF CallInv
  <1>7. ASSUME NEW t \in Owners
        PROVE  /\ Silent(Tail(todo), t) => Silent(todo', t)
               /\ \A m : Asks(Tail(todo), t, m) => Asks(todo', t, m)
    <2>1. CASE todo' = Tail(todo)
      BY <2>1
    <2>2. ASSUME NEW a \in Loaders, todo' = <<a>> \o Tail(todo)
          PROVE  /\ Silent(Tail(todo), t) => Silent(todo', t)
                 /\ \A m : Asks(Tail(todo), t, m) => Asks(todo', t, m)
      <3>1. <<a>> \in Seq(Jobs) /\ Silent(<<a>>, t)
        BY AsksOfJobs DEF Jobs
      <3> QED
        BY <1>6, <2>2, <3>1, AsksConcat
    <2> QED
      BY <1>5, <2>1, <2>2
  <1>8. /\ Asks(todo, u, Rest(u)) /\ Rest(u) \in Nat
        /\ n <= Rest(u) /\ Asks(Tail(todo), u, Rest(u) - n) /\ ~Silent(todo, u)
    <2>1. Asks(todo, u, Rest(u)) /\ Rest(u) \in Nat
      BY <1>1 DEF BudgetInv
    <2> QED
      BY <1>1, <1>6, <2>1, AsksTail
  <1>9. UNCHANGED <<created, running>>
    BY DEF Claim, threads
  <1> HIDE DEF u, n
  <1>10. Count(meta', u) = k + n
    <2>1. NumbersIn(given', u) = 1 .. (k + n)
      <3>3. \A i \in Int : <<u, i>> \in given <=> i \in 1 .. k
        BY <1>3 DEF NumbersIn
      <3>1. \A i \in Int : <<u, i>> \in given' <=> i \in 1 .. k \/ i \in k + 1 .. k + n
        BY <1>4, <3>3
      <3>2. \A i \in Int : i \in 1 .. k \/ i \in k + 1 .. k + n <=> i \in 1 .. (k + n)
        BY <1>3, <1>4
      <3> QED
        BY <3>1, <3>2 DEF NumbersIn
    <2>2. k + n \in Nat
      BY <1>3, <1>4
    <2>3. meta' \in [AllFrames -> Header] /\ Once(meta', given')
      BY DEF Grows, OnceInv, IInv, Good
    <2> QED
      BY <1>1, <2>1, <2>2, <2>3, CountIs
  <1>11. ASSUME NEW t \in Owners, t # u PROVE Count(meta', t) = Count(meta, t)
    <2>1. NumbersIn(given', t) = NumbersIn(given, t)
      BY <1>4, <1>11 DEF NumbersIn
    <2> QED
      BY <1>2, <2>1, CountIs DEF Grows, OnceInv, IInv, Good
  <1>12. ASSUME NEW t \in Owners PROVE Rest(t)' \in Nat /\ Asks(todo', t, Rest(t)')
    <2>1. CASE t = u
      <3>1. Reserve(t)' = Reserve(t)
        BY <1>9 DEF Reserve
      <3>2. Rest(t) = Cap(t) - k - Reserve(t) /\ Rest(t)' = Cap(t) - (k + n) - Reserve(t)
        BY <1>10, <2>1, <3>1 DEF Rest, k
      <3>3. Cap(t) \in Int /\ Reserve(t) \in Int
        BY PagingAssumption DEF Cap, Reserve, Most
      <3>4. Rest(t)' = Rest(t) - n
        BY <1>3, <1>4, <3>2, <3>3
      <3> QED
        BY <1>4, <1>7, <1>8, <2>1, <3>4
    <2>2. CASE t # u
      <3>1. Rest(t)' = Rest(t)
        BY <1>9, <1>11, <2>2 DEF Rest, Reserve
      <3>2. Rest(t) \in Nat /\ Asks(Tail(todo), t, Rest(t))
        BY <1>6, AsksTail DEF BudgetInv
      <3> QED
        BY <1>7, <3>1, <3>2
    <2> QED
      BY <2>1, <2>2
  <1>13. ASSUME NEW t \in Owners, Silent(todo, t), Count(meta, t) = 0
         PROVE  Silent(todo', t) /\ Count(meta', t) = 0
    <2>1. t # u /\ Silent(Tail(todo), t)
      BY <1>6, <1>8, <1>13, AsksTail
    <2> QED
      BY <1>7, <1>11, <1>13, <2>1
  <1>14. Others \subseteq Owners /\ Lib \in Owners
    BY DEF Owners, Threads
  <1> QED
    BY <1>9, <1>12, <1>13, <1>14 DEF BudgetInv

(* A call that starts with nothing left to do and asks for no page.        *)
LEMMA BudgetSilent ==
    ASSUME Grows, BudgetInv, given' = given, created' = created, running' \in created \cup {Main},
           \A t \in Owners : Silent(todo', t)
    PROVE  BudgetInv'
  BY BudgetKept, AsksOfJobs

(* A malloc asks for no more than its bound leaves it.                     *)
LEMMA BudgetMalloc ==
    ASSUME Grows, CallInv, BudgetInv, NEW n \in Requests, Malloc(n)
    PROVE  BudgetInv'
  <1>1. running \in Threads /\ running \in Owners /\ running # Lib /\ n \in Nat \ {0}
        /\ MaxPages \in Int /\ StackPages \in Int
    BY PagingAssumption, OwnerFacts DEF IInv, Grows
  <1>2. /\ todo' = <<NewPages(running, n)>> \o Relock(running)
        /\ UNCHANGED <<created, running, given>>
        /\ Count(meta, running) + n + (IF created = {} THEN StackPages ELSE 0) <= MaxPages
    BY DEF Malloc, threads, PagesOf, Count
  <1>3. /\ <<NewPages(running, n)>> \in Seq(Jobs) /\ Relock(running) \in Seq(Jobs)
        /\ \A t : Silent(Relock(running), t)
    <2>1. <<LockAllBut(running)>> \in Seq(Jobs) /\ LockAllBut(running) \in Locks
      BY <1>1, JobTypes, JobQueues
    <2> QED
      BY <1>1, <2>1, JobQueues, Queues, AsksOfJobs DEF Relock
  <1>4. ASSUME NEW m \in Int, n <= m PROVE Asks(todo', running, m)
    <2>1. Asks(<<NewPages(running, n)>>, running, m)
      BY <1>1, <1>4, AsksOfJobs
    <2> QED
      BY <1>2, <1>3, <2>1, AsksConcat
  <1>5. ASSUME NEW t, t # running PROVE Silent(todo', t)
    BY <1>2, <1>3, <1>5, AsksOfJobs, AsksConcat
  <1>6. \A t \in Owners : Count(meta', t) = Count(meta, t) /\ Count(meta, t) \in Nat
    BY <1>2, CountsSame, CountsKnown DEF Grows
  <1>7. \A t \in Owners : Rest(t)' = Rest(t)
    BY <1>2, <1>6 DEF Rest, Reserve
  <1>8. n <= Rest(running)
    <2>1. created = {} => running = Main
      BY DEF BudgetInv
    <2> QED
      BY <1>1, <1>2, <1>6, <2>1 DEF Rest, Reserve, Cap, Most
  <1>9. ASSUME NEW t \in Owners PROVE Rest(t)' \in Nat /\ Asks(todo', t, Rest(t)')
    <2>1. Rest(t)' \in Nat
      BY <1>7 DEF BudgetInv
    <2>2. CASE t # running
      BY <1>5, <2>1, <2>2, AsksOfJobs
    <2>3. CASE t = running
      <3>1. Rest(t)' = Rest(running) /\ Rest(t)' \in Int
        BY <1>7, <2>1, <2>3
      <3> QED
        BY <1>4, <1>8, <2>1, <2>3, <3>1
    <2> QED
      BY <2>1, <2>2, <2>3
  <1>10. \A t \in Others \ created : t # running /\ t \in Owners
    BY PagingAssumption DEF BudgetInv, Owners, Threads
  <1>11. Lib \in Owners /\ Lib # running
    BY <1>1, OwnerFacts
  <1> QED
    BY <1>2, <1>5, <1>6, <1>9, <1>10, <1>11 DEF BudgetInv

(* Six queues one after the other ask for what one of them asks for, if    *)
(* the others ask for nothing.                                             *)
LEMMA SixQueues ==
    ASSUME NEW a \in Seq(Jobs), NEW b \in Seq(Jobs), NEW c \in Seq(Jobs),
           NEW d \in Seq(Jobs), NEW e \in Seq(Jobs), NEW f \in Seq(Jobs), NEW t,
           Silent(b, t), Silent(d, t), Silent(f, t)
    PROVE  LET q == a \o b \o c \o d \o e \o f
           IN  /\ Silent(a, t) /\ Silent(c, t) /\ Silent(e, t) => Silent(q, t)
               /\ \A n : Asks(a, t, n) /\ Silent(c, t) /\ Silent(e, t) => Asks(q, t, n)
               /\ \A n : Silent(a, t) /\ Asks(c, t, n) /\ Silent(e, t) => Asks(q, t, n)
               /\ \A n : Silent(a, t) /\ Silent(c, t) /\ Asks(e, t, n) => Asks(q, t, n)
  <1>1. /\ a \o b \in Seq(Jobs) /\ (Silent(a, t) => Silent(a \o b, t))
        /\ \A n : Asks(a, t, n) => Asks(a \o b, t, n)
    BY AsksConcat, Queues
  <1> DEFINE ab == a \o b
  <1> HIDE DEF ab
  <1>2. /\ ab \o c \in Seq(Jobs) /\ (Silent(ab, t) /\ Silent(c, t) => Silent(ab \o c, t))
        /\ \A n : Asks(ab, t, n) /\ Silent(c, t) => Asks(ab \o c, t, n)
        /\ \A n : Silent(ab, t) /\ Asks(c, t, n) => Asks(ab \o c, t, n)
    BY <1>1, AsksConcat, Queues DEF ab
  <1> DEFINE abc == ab \o c
  <1> HIDE DEF abc
  <1>3. /\ abc \o d \in Seq(Jobs) /\ (Silent(abc, t) => Silent(abc \o d, t))
        /\ \A n : Asks(abc, t, n) => Asks(abc \o d, t, n)
    BY <1>2, AsksConcat, Queues DEF abc
  <1> DEFINE abcd == abc \o d
  <1> HIDE DEF abcd
  <1>4. /\ abcd \o e \in Seq(Jobs) /\ (Silent(abcd, t) /\ Silent(e, t) => Silent(abcd \o e, t))
        /\ \A n : Asks(abcd, t, n) /\ Silent(e, t) => Asks(abcd \o e, t, n)
        /\ \A n : Silent(abcd, t) /\ Asks(e, t, n) => Asks(abcd \o e, t, n)
    BY <1>3, AsksConcat, Queues DEF abcd
  <1> DEFINE abcde == abcd \o e
  <1> HIDE DEF abcde
  <1>5. /\ Silent(abcde, t) => Silent(abcde \o f, t)
        /\ \A n : Asks(abcde, t, n) => Asks(abcde \o f, t, n)
    BY <1>4, AsksConcat, Queues DEF abcde
  <1> QED
    BY <1>1, <1>2, <1>3, <1>4, <1>5 DEF ab, abc, abcd, abcde

(* The queue of mypthread_create asks for the stack of the new thread, the *)
(* first time for the one of main, and for the library's page.             *)
LEMMA CreateAsks ==
    ASSUME IInv, CallInv, NEW u \in Threads, Create(u)
    PROVE  /\ u \in Others /\ u \in Owners /\ u # Main /\ u # Lib
           /\ \A n \in Int : StackPages <= n => Asks(todo', u, n)
           /\ IF created = {} THEN \A n \in Int : StackPages <= n => Asks(todo', Main, n)
                              ELSE Silent(todo', Main)
           /\ IF PagesOf(Lib) = {} THEN Asks(todo', Lib, 1) ELSE Silent(todo', Lib)
           /\ \A t \in Owners \ {u, Main, Lib} : Silent(todo', t)
  <1>0. PICK stack \in MainStacks : CreateWith(u, stack)
    BY DEF Create
  <1> DEFINE a == LibraryMalloc
             b == <<LoadAll(Lib, u)>>
             c == NewStack(u)
             l == <<LoadAll(Lib, Lib), LoadAll(Main, Main), LoadAll(Lib, Main)>>
             e == IF created = {} THEN stack \o l ELSE b
             f == <<LoadStack(running), LockAllBut(running)>>
  <1>1. /\ u \in Others /\ u \in Owners /\ u # Main /\ u # Lib /\ Main # Lib
        /\ Main \in Owners /\ Lib \in Owners /\ running \in Threads
    BY PagingAssumption, OwnerFacts DEF Create, IInv
  <1>2. todo' = a \o b \o c \o b \o e \o f
    BY <1>0 DEF CreateWith
  <1>3. /\ a \in Seq(Jobs) /\ \A t : t # Lib => Silent(a, t)
        /\ IF PagesOf(Lib) = {} THEN Asks(a, Lib, 1) ELSE Silent(a, Lib)
    <2>1. 1 \in Nat \ {0}
      OBVIOUS
    <2>2. <<NewPages(Lib, 1)>> \in Seq(Jobs)
      BY <1>1, <2>1, JobQueues
    <2> QED
      BY <2>2, Queues, AsksOfJobs DEF LibraryMalloc
  <1>4. b \in Seq(Jobs) /\ \A t : Silent(b, t)
    <2>1. LoadAll(Lib, u) \in Loaders
      BY <1>1, JobTypes
    <2> QED
      BY <1>1, <2>1, JobQueues, AsksOfJobs
  <1>5. /\ c \in Seq(Jobs) /\ \A t : t # u => Silent(c, t)
        /\ \A n \in Int : StackPages <= n => Asks(c, u, n)
    BY <1>1, NewStackAsks
  <1>6. ASSUME NEW x \in Loaders, NEW y \in Loaders \cup Locks
        PROVE  <<x, y>> \in Seq(Jobs) /\ \A t : Silent(<<x, y>>, t)
    <2>1. x.op # "claim" /\ y.op # "claim"
      BY DEF Loaders, Locks
    <2>2. <<x, y>> \in Seq(Jobs)
      <3>1. x \in Jobs /\ y \in Jobs
        BY DEF Jobs
      <3> QED
        BY <3>1
    <2>3. \A i \in DOMAIN <<x, y>> : <<x, y>>[i] = x \/ <<x, y>>[i] = y
      OBVIOUS
    <2> QED
      BY <2>1, <2>2, <2>3 DEF Silent, ClaimsOf
  <1>7. l \in Seq(Jobs) /\ \A t : Silent(l, t)
    <2> DEFINE x == LoadAll(Lib, Lib)
               y == LoadAll(Main, Main)
               z == LoadAll(Lib, Main)
    <2>1. x \in Loaders /\ y \in Loaders /\ z \in Loaders
      BY <1>1, JobTypes
    <2> HIDE DEF x, y, z
    <2>2. x.op # "claim" /\ y.op # "claim" /\ z.op # "claim"
          /\ x \in Jobs /\ y \in Jobs /\ z \in Jobs
      BY <2>1 DEF Loaders, Jobs
    <2>3. <<x, y, z>> \in Seq(Jobs)
      BY <2>2
    <2>4. \A i \in DOMAIN <<x, y, z>> : \/ <<x, y, z>>[i] = x \/ <<x, y, z>>[i] = y
                                        \/ <<x, y, z>>[i] = z
      OBVIOUS
    <2>5. \A t : Silent(<<x, y, z>>, t)
      BY <2>2, <2>4 DEF Silent, ClaimsOf
    <2> QED
      BY <2>3, <2>5 DEF x, y, z
  <1>8. f \in Seq(Jobs) /\ \A t : Silent(f, t)
    <2>1. LoadStack(running) \in Loaders /\ LockAllBut(running) \in Locks
      BY <1>1, JobTypes
    <2> QED
      BY <1>6, <2>1
  <1> HIDE DEF a, b, c, l, f
  <1>9. /\ e \in Seq(Jobs) /\ \A t : t # Main => Silent(e, t)
        /\ IF created = {} THEN \A n \in Int : StackPages <= n => Asks(e, Main, n)
                           ELSE Silent(e, Main)
    <2>1. /\ stack \in Seq(Jobs) /\ \A t : t # Main => Silent(stack, t)
          /\ \A n \in Int : StackPages <= n => Asks(stack, Main, n)
      BY MainStackAsks
    <2>2. /\ stack \o l \in Seq(Jobs)
          /\ \A t : t # Main => Silent(stack \o l, t)
          /\ \A n \in Int : StackPages <= n => Asks(stack \o l, Main, n)
      BY <1>7, <2>1, AsksConcat, Queues
    <2> QED
      BY <1>4, <2>2
  <1> HIDE DEF e
  <1>10. ASSUME NEW t
         PROVE  /\ Silent(a, t) /\ Silent(c, t) /\ Silent(e, t) => Silent(todo', t)
                /\ \A n : Asks(a, t, n) /\ Silent(c, t) /\ Silent(e, t) => Asks(todo', t, n)
                /\ \A n : Silent(a, t) /\ Asks(c, t, n) /\ Silent(e, t) => Asks(todo', t, n)
                /\ \A n : Silent(a, t) /\ Silent(c, t) /\ Asks(e, t, n) => Asks(todo', t, n)
    <2>1. a \in Seq(Jobs) /\ b \in Seq(Jobs) /\ c \in Seq(Jobs) /\ e \in Seq(Jobs)
          /\ f \in Seq(Jobs) /\ Silent(b, t) /\ Silent(f, t)
      BY <1>3, <1>4, <1>5, <1>8, <1>9
    <2> QED
      BY <1>2, <2>1, SixQueues
  <1>11. \A n \in Int : StackPages <= n => Asks(todo', u, n)
    BY <1>1, <1>3, <1>5, <1>9, <1>10
  <1>12. IF created = {} THEN \A n \in Int : StackPages <= n => Asks(todo', Main, n)
                         ELSE Silent(todo', Main)
    BY <1>1, <1>3, <1>5, <1>9, <1>10
  <1>13. IF PagesOf(Lib) = {} THEN Asks(todo', Lib, 1) ELSE Silent(todo', Lib)
    BY <1>1, <1>3, <1>5, <1>9, <1>10
  <1>14. \A t \in Owners \ {u, Main, Lib} : Silent(todo', t)
    BY <1>1, <1>3, <1>5, <1>9, <1>10
  <1> QED
    BY <1>1, <1>11, <1>12, <1>13, <1>14

(* mypthread_create asks for the stacks that were kept in reserve.         *)
LEMMA BudgetCreate ==
    ASSUME Grows, CallInv, BudgetInv, NEW u \in Threads, Create(u)
    PROVE  BudgetInv'
  <1>1. /\ u \in Others /\ u \in Owners /\ u # Main /\ u # Lib
        /\ \A n \in Int : StackPages <= n => Asks(todo', u, n)
        /\ IF created = {} THEN \A n \in Int : StackPages <= n => Asks(todo', Main, n)
                           ELSE Silent(todo', Main)
        /\ IF PagesOf(Lib) = {} THEN Asks(todo', Lib, 1) ELSE Silent(todo', Lib)
        /\ \A t \in Owners \ {u, Main, Lib} : Silent(todo', t)
    BY CreateAsks DEF Grows
  <1>2. /\ UNCHANGED <<running, given>> /\ created' = created \cup {u, Main}
        /\ u \notin created
    BY DEF Create
  <1>3. \A t \in Owners : Count(meta', t) = Count(meta, t) /\ Count(meta, t) \in Nat
    BY <1>2, CountsSame, CountsKnown DEF Grows
  <1>4. StackPages \in Nat /\ StackPages <= Most /\ Most \in Nat /\ Lib # Main
        /\ Main \notin Others /\ Others \subseteq Owners /\ Main \in Owners /\ Lib \in Owners
    BY PagingAssumption DEF Most, Owners, Threads
  <1>5. \A t \in Owners : Rest(t)' = Cap(t) - Count(meta, t)
    BY <1>2, <1>3, <1>4 DEF Rest, Reserve, Cap
  <1>6. ASSUME NEW t \in Owners
        PROVE  /\ Rest(t) = Cap(t) - Count(meta, t) - Reserve(t) /\ Rest(t) \in Nat
               /\ Cap(t) \in Nat /\ Reserve(t) \in Nat
               /\ Reserve(t) = (IF created = {} /\ t = Main THEN StackPages ELSE 0)
    BY <1>4 DEF BudgetInv, Rest, Cap, Reserve
  <1>7. ASSUME NEW t \in Owners PROVE Rest(t)' \in Nat /\ Asks(todo', t, Rest(t)')
    <2>1. Rest(t)' \in Nat /\ Rest(t)' = Rest(t) + Reserve(t)
      BY <1>3, <1>5, <1>6
    <2>2. CASE t = u
      <3>1. Count(meta, u) = 0
        BY <1>1, <1>2 DEF BudgetInv
      <3>2. Rest(t)' = Most
        BY <1>1, <1>4, <1>5, <2>2, <3>1 DEF Cap
      <3> QED
        BY <1>1, <1>4, <2>1, <2>2, <3>2
    <2>3. CASE t = Main /\ created = {}
      BY <1>1, <1>4, <1>6, <2>1, <2>3
    <2>4. CASE t = Lib /\ PagesOf(Lib) = {}
      <3>1. Count(meta, Lib) = 0
        BY <2>4, FS_EmptySet DEF Count, PagesOf
      <3>2. Rest(t)' = 1
        BY <1>5, <2>4, <3>1 DEF Cap
      <3> QED
        BY <1>1, <2>1, <2>4, <3>2
    <2>5. CASE Silent(todo', t)
      BY <2>1, <2>5, AsksOfJobs
    <2> QED
      BY <1>1, <2>2, <2>3, <2>4, <2>5
  <1>8. \A t \in Others \ created' : Silent(todo', t) /\ t \in Others \ created
    BY <1>1, <1>2, <1>4, PagingAssumption DEF Threads
  <1>9. Main \in created' /\ running' \in created' \cup {Main} /\ created' # {}
    BY <1>2 DEF BudgetInv
  <1> QED
    BY <1>3, <1>4, <1>7, <1>8, <1>9 DEF BudgetInv

(* Every step keeps the budget.                                            *)
LEMMA StepBudget == Grows /\ CallInv /\ BudgetInv /\ Room /\ [Next]_vars => BudgetInv'
  <1> SUFFICES ASSUME Grows, CallInv, BudgetInv, Room, [Next]_vars PROVE BudgetInv'
    OBVIOUS
  <1> DEFINE Quieter(q) == \A t \in Owners : /\ Silent(todo, t) => Silent(q, t)
                                           /\ \A n : Asks(todo, t, n) => Asks(q, t, n)
  <1>1. running \in created \cup {Main} /\ running \in Owners /\ running \in Threads
    BY OwnerFacts DEF BudgetInv, Grows, IInv
  <1>2. ASSUME Library PROVE BudgetInv'
    <2>1. todo # <<>> /\ todo \in Seq(Jobs) /\ Tail(todo) \in Seq(Jobs)
      BY <1>2, LoaderJob DEF Library, CallInv
    <2>2. Quieter(Tail(todo)) /\ Quieter(<<>>)
      BY <2>1, AsksTail, AsksOfJobs
    <2>3. ASSUME NEW j \in Loaders PROVE Quieter(<<j>> \o Tail(todo))
      <3>1. <<j>> \in Seq(Jobs) /\ \A t : Silent(<<j>>, t)
        BY AsksOfJobs, Queues DEF Jobs
      <3> QED
        BY <2>1, <2>2, <3>1, AsksConcat
    <2> HIDE DEF Quieter
    <2>4. CASE Loader
      <3> DEFINE job == Head(todo)
      <3>1. job \in Loaders
        BY <2>1, <2>4, LoaderJob DEF Loader
      <3>2. UNCHANGED <<created, running, given>>
        BY <2>4 DEF Loader, LoaderSwap, LoaderSkip, LoaderEnds, threads
      <3>3. todo' = Tail(todo) \/ (todo' = <<NextWant(job)>> \o Tail(todo) /\ job.pos \in Frames)
        <4>1. CASE LoaderSwap(job)
          BY <4>1, LoaderMoves DEF LoaderSwap, Continue
        <4>2. CASE LoaderSkip(job)
          <5>1. Min(ToMove(job) \cup InPlace(job)) \in InPlace(job)
            BY <4>2 DEF LoaderSkip
          <5>2. job.pos \in Pass(job) /\ Pass(job) \subseteq Frames
            BY <5>1, PagingAssumption DEF InPlace, Pass, Frames
          <5> QED
            BY <4>2, <5>2 DEF LoaderSkip
        <4>3. CASE LoaderEnds(job)
          BY <4>3 DEF LoaderEnds
        <4> QED
          BY <2>4, <4>1, <4>2, <4>3 DEF Loader
      <3>4. Quieter(todo')
        BY <2>2, <2>3, <3>1, <3>3, NextWantType
      <3> QED
        BY <1>1, <3>2, <3>4, BudgetKept DEF Quieter
    <2>5. CASE Claim
      BY <2>1, <2>5, BudgetClaim
    <2>6. CASE Lock \/ ClaimFails
      <3>1. Quieter(todo') /\ UNCHANGED <<created, running, given>>
        BY <2>2, <2>6 DEF Lock, ClaimFails, threads
      <3> QED
        BY <1>1, <3>1, BudgetKept DEF Quieter
    <2> QED
      BY <1>2, <2>4, <2>5, <2>6 DEF Library
  <1>3. ASSUME NEW n \in Requests, Malloc(n) PROVE BudgetInv'
    BY <1>3, BudgetMalloc
  <1>4. ASSUME NEW f \in Frames, NEW n \in Requests, MallocIn(f, n) PROVE BudgetInv'
    <2> DEFINE q == <<LoadSpan(f, meta[f])>>
               l == <<LockAllBut(running)>>
    <2>1. l \in Seq(Jobs) /\ \A t : Silent(l, t)
      BY <1>1, JobTypes, JobQueues, AsksOfJobs
    <2>2. q \in Seq(Jobs) /\ \A t : Silent(q, t)
      <3>1. meta[f] \in Header /\ meta[f].tid \in Owners
        BY <1>1, <1>4 DEF MallocIn, Grows, IInv, Good, AllFrames
      <3>2. LoadSpan(f, meta[f]) \in Loaders
        BY <3>1, JobTypes
      <3> QED
        BY <3>1, <3>2, JobQueues, AsksOfJobs
    <2>3. todo' = (IF n = 1 THEN <<>> ELSE q) \o l
      BY <1>4 DEF MallocIn
    <2> HIDE DEF q, l
    <2>4. \A t \in Owners : Silent(todo', t)
      BY <2>1, <2>2, <2>3, AsksConcat, AsksOfJobs, Queues
    <2> QED
      BY <1>1, <1>4, <2>4, BudgetSilent DEF MallocIn, threads
  <1>5. ASSUME NEW v \in 1 .. MaxPages, Fault(v) PROVE BudgetInv'
    <2>1. \A t : Silent(<<LockAllBut(running)>>, t)
      BY <1>1, JobTypes, AsksOfJobs
    <2>2. todo' = todo \/ todo' = <<LockAllBut(running)>>
      BY <1>5 DEF Fault
    <2>3. todo = <<>> /\ UNCHANGED <<created, running, given>>
      BY <1>5 DEF Fault, InThread, threads
    <2> QED
      BY <1>1, <2>1, <2>2, <2>3, BudgetSilent, AsksOfJobs
  <1>6. ASSUME NEW v \in 1 .. MaxPages, Free(v) PROVE BudgetInv'
    <2>1. \A t : Silent(<<LoadAll(running, running)>>, t)
      BY <1>1, JobTypes, AsksOfJobs
    <2> QED
      BY <1>1, <1>6, <2>1, BudgetSilent DEF Free, threads
  <1>7. ASSUME NEW u \in Threads, Create(u) PROVE BudgetInv'
    BY <1>7, BudgetCreate
  <1>8. ASSUME NEW u \in Threads, Dispatch(u) PROVE BudgetInv'
    <2> DEFINE a == IF switched THEN <<LoadAll(Lib, running)>> ELSE <<>>
               b == <<LoadStack(running), LoadAll(Lib, running), LoadStack(u), LockAllBut(u)>>
    <2>1. a \in Seq(Jobs) /\ \A t : Silent(a, t)
      <3>1. LoadAll(Lib, running) \in Loaders
        BY <1>1, JobTypes, OwnerFacts
      <3> QED
        BY <3>1, Queues, AsksOfJobs DEF Jobs
    <2>2. b \in Seq(Jobs) /\ \A t : Silent(b, t)
      <3> DEFINE w == LoadStack(running)
                 x == LoadAll(Lib, running)
                 y == LoadStack(u)
                 z == LockAllBut(u)
      <3>1. w \in Loaders /\ x \in Loaders /\ y \in Loaders /\ z \in Locks
        BY <1>1, JobTypes, OwnerFacts
      <3> HIDE DEF w, x, y, z
      <3>2. \A j \in {w, x, y, z} : j \in Jobs /\ j.op # "claim"
        BY <3>1 DEF Loaders, Locks, Jobs
      <3>3. <<w, x, y, z>> \in Seq(Jobs)
        BY <3>2
      <3>4. \A i \in DOMAIN <<w, x, y, z>> : <<w, x, y, z>>[i] \in {w, x, y, z}
        OBVIOUS
      <3>5. \A t : Silent(<<w, x, y, z>>, t)
        BY <3>2, <3>4 DEF Silent, ClaimsOf
      <3> QED
        BY <3>3, <3>5 DEF w, x, y, z
    <2>3. todo' = a \o b /\ UNCHANGED <<created, given>> /\ running' \in created
      BY <1>8 DEF Dispatch, Switch
    <2> HIDE DEF a, b
    <2>4. \A t \in Owners : Silent(todo', t)
      BY <2>1, <2>2, <2>3, AsksConcat
    <2> QED
      BY <2>3, <2>4, BudgetSilent
  <1>9. CASE UNCHANGED vars
    BY <1>1, <1>9, BudgetKept DEF vars, threads
  <1> QED
    BY <1>2, <1>3, <1>4, <1>5, <1>6, <1>7, <1>8, <1>9 DEF Next

(* At first every thread has its whole budget.                             *)
LEMMA InitBudget == Init => BudgetInv
  <1> SUFFICES ASSUME Init PROVE BudgetInv
    OBVIOUS
  <1>1. \A f \in Frames : meta[f].tid = NoOwner
    <2>1. \A f \in Frames : meta[f] = EmptyHeader(0)
      BY FrameFacts DEF Init
    <2> QED
      BY <2>1 DEF EmptyHeader
  <1>2. ASSUME NEW t \in Owners PROVE Count(meta, t) = 0
    <2>1. {f \in Frames : meta[f].tid = t} = {}
      BY <1>1, OwnerFacts
    <2> QED
      BY <2>1, FS_EmptySet DEF Count
  <1>3. created = {} /\ running = Main /\ \A t : Silent(todo, t)
    BY AsksOfJobs DEF Init
  <1>4. ASSUME NEW t \in Owners PROVE Rest(t) \in Nat
    BY <1>2, <1>3, PagingAssumption DEF Rest, Reserve, Cap, Most, Threads
  <1>5. Others \subseteq Owners /\ Lib \in Owners
    BY DEF Owners, Threads
  <1> QED
    BY <1>2, <1>3, <1>4, <1>5, AsksOfJobs DEF BudgetInv

(* A map that keeps elements apart keeps their number.                     *)
LEMMA InjectedCount ==
    ASSUME NEW S, NEW T, IsFiniteSet(T), NEW f \in [S -> T],
           \A x, y \in S : f[x] = f[y] => x = y
    PROVE  IsFiniteSet(S) /\ Cardinality(S) <= Cardinality(T)
  <1>1. f \in Injection(S, T)
    BY DEF Injection, IsInjective
  <1> QED
    BY <1>1, FS_Injection

(* However the pages are spread, a thread that asks for what its budget    *)
(* leaves it finds the frames for them, and one more is free.              *)
LEMMA BudgetFits ==
    ASSUME Roomy, IInv, OnceInv, BudgetInv, NEW t \in Owners, NEW n \in Nat, n <= Rest(t)
    PROVE  n < Cardinality(FreeFrames(Store))
  <1> DEFINE k == Count(meta, t)
             Box == (Threads \X (1 .. Most)) \cup {<<Lib, 1>>}
             extra == {<<t, i>> : i \in k + 1 .. k + n}
             all == given \cup extra
             free == FreeFrames(Store)
             used == Frames \ free
  <1>1. /\ IsFiniteSet(Threads) /\ Cardinality(Threads) \in Nat
        /\ Most \in Nat /\ 1 <= Most /\ IsFiniteSet(1 .. Most) /\ Cardinality(1 .. Most) = Most
    <2>1. IsFiniteSet(Threads)
      BY FS_Singleton, FS_Union DEF Roomy, Threads
    <2>2. Most \in Nat /\ 1 <= Most
      BY PagingAssumption DEF Most
    <2>3. Cardinality(Threads) \in Nat
      BY <2>1, FS_CardinalityType
    <2> HIDE DEF Most
    <2>4. IsFiniteSet(1 .. Most) /\ Cardinality(1 .. Most) = Most
      BY <2>2, FS_Interval
    <2> QED
      BY <2>1, <2>2, <2>3, <2>4
  <1>2. IsFiniteSet(Box) /\ Cardinality(Box) <= Cardinality(Threads) * Most + 1
    <2> DEFINE P == Threads \X (1 .. Most)
               L == {<<Lib, 1>>}
    <2>1. IsFiniteSet(P) /\ Cardinality(P) = Cardinality(Threads) * Most
      BY <1>1, FS_Product
    <2>2. IsFiniteSet(L) /\ Cardinality(L) = 1
      BY FS_Singleton
    <2> HIDE DEF P, L
    <2>3. /\ IsFiniteSet(P \cup L) /\ IsFiniteSet(P \cap L)
          /\ Cardinality(P \cup L) = Cardinality(P) + Cardinality(L) - Cardinality(P \cap L)
      BY <2>1, <2>2, FS_Union, FS_Intersection
    <2>4. Cardinality(P) \in Nat /\ Cardinality(P \cap L) \in Nat
      BY <2>1, <2>3, FS_CardinalityType
    <2>5. Cardinality(P \cup L) <= Cardinality(P) + 1
      BY <2>2, <2>3, <2>4
    <2> QED
      BY <2>1, <2>3, <2>5 DEF P, L
  <1>3. ASSUME NEW o \in Owners
        PROVE  /\ Count(meta, o) \in Nat /\ Count(meta, o) + Rest(o) <= Cap(o)
               /\ \A i \in Int : <<o, i>> \in given <=> i \in 1 .. Count(meta, o)
               /\ \A i \in 1 .. Cap(o) : <<o, i>> \in Box
    <2>1. Count(meta, o) \in Nat /\ NumbersIn(given, o) = 1 .. Count(meta, o)
      BY CountsKnown
    <2>2. Cap(o) \in Nat /\ Reserve(o) \in Nat
      BY PagingAssumption DEF Cap, Most, Reserve
    <2>3. Count(meta, o) + Rest(o) <= Cap(o)
      BY <2>1, <2>2 DEF Rest
    <2>4. \A i \in 1 .. Cap(o) : <<o, i>> \in Box
      BY DEF Cap, Owners
    <2>5. \A i \in Int : <<o, i>> \in given <=> i \in 1 .. Count(meta, o)
      BY <2>1 DEF NumbersIn
    <2> QED
      BY <2>1, <2>3, <2>4, <2>5
  <1>4. k \in Nat /\ k + n <= Cap(t) /\ Rest(t) \in Nat /\ Cap(t) \in Nat
    <2>1. Cap(t) \in Nat
      BY <1>1 DEF Cap
    <2> QED
      BY <1>3, <2>1 DEF BudgetInv
  <1> HIDE DEF k, Box
  <1>5. all \subseteq Box
    <2>1. ASSUME NEW p \in given PROVE p \in Box
      <3>1. PICK o \in Owners, i \in Int : p = <<o, i>>
        BY DEF OnceInv, Once
      <3>2. i \in 1 .. Count(meta, o) /\ Rest(o) \in Nat /\ Cap(o) \in Nat
        BY <1>1, <1>3, <3>1 DEF BudgetInv, Cap
      <3>3. i \in 1 .. Cap(o)
        BY <1>3, <3>2
      <3> QED
        BY <1>3, <3>1, <3>3
    <2>2. ASSUME NEW i \in k + 1 .. k + n PROVE <<t, i>> \in Box
      <3>1. i \in 1 .. Cap(t)
        BY <1>4
      <3> QED
        BY <1>3, <3>1
    <2> QED
      BY <2>1, <2>2
  <1>6. IsFiniteSet(given) /\ IsFiniteSet(extra) /\ given \cap extra = {} /\ IsFiniteSet(all)
        /\ Cardinality(all) <= Cardinality(Box)
    <2>1. given \cap extra = {}
      <3>1. ASSUME NEW i \in k + 1 .. k + n PROVE <<t, i>> \notin given
        BY <1>3, <1>4 DEF k
      <3> QED
        BY <3>1
    <2> HIDE DEF extra
    <2>2. given \in SUBSET all /\ extra \in SUBSET all
      OBVIOUS
    <2> HIDE DEF all
    <2> QED
      BY <1>2, <1>5, <2>1, <2>2, FS_Subset
  <1>7. Cardinality(extra) = n
    <2> DEFINE I == k + 1 .. k + n
               r == [i \in I |-> <<t, i>>]
    <2>1. r \in Bijection(I, extra)
      BY DEF Bijection, Injection, Surjection, IsInjective
    <2>2. IsFiniteSet(I) /\ Cardinality(I) = n
      BY <1>4, FS_Interval
    <2> HIDE DEF I, r, extra
    <2> QED
      BY <2>1, <2>2, FS_Bijection DEF ExistsBijection
  <1>8. Cardinality(all) = Cardinality(given) + n /\ Cardinality(given) \in Nat
    <2> HIDE DEF extra
    <2> QED
      BY <1>6, <1>7, FS_Union, FS_EmptySet, FS_CardinalityType
  <1>9. Cardinality(used) <= Cardinality(given)
    <2> DEFINE r == [f \in used |-> PageOf(meta[f])]
    <2>1. \A f \in used : f \in Frames /\ meta[f].tid # NoOwner
      BY DEF FreeFrames, Store
    <2>2. \A f \in used : PageOf(meta[f]) \in given
      BY <2>1 DEF OnceInv, Once, Pages
    <2>3. \A f, g \in used : PageOf(meta[f]) = PageOf(meta[g]) => f = g
      BY <2>1 DEF OnceInv, Once, OneEach
    <2> HIDE DEF used
    <2>4. r \in [used -> given] /\ \A f, g \in used : r[f] = r[g] => f = g
      BY <2>2, <2>3
    <2> HIDE DEF r
    <2> QED
      BY <1>6, <2>4, InjectedCount
  <1>10. /\ Cardinality(Frames) = Cardinality(used) + Cardinality(free)
         /\ Cardinality(used) \in Nat /\ Cardinality(free) \in Nat
    <2>1. free \in SUBSET Frames /\ used \cap free = {} /\ used \cup free = Frames
      BY DEF FreeFrames
    <2>2. IsFiniteSet(free) /\ IsFiniteSet(used)
      BY <2>1, FrameFacts, FS_Subset
    <2> HIDE DEF free, used
    <2>3. Cardinality(used) \in Nat /\ Cardinality(free) \in Nat
      BY <2>2, FS_CardinalityType
    <2>4. Cardinality(used \cap free) = 0
      BY <2>1, FS_EmptySet
    <2>5. Cardinality(used \cup free)
            = Cardinality(used) + Cardinality(free) - Cardinality(used \cap free)
      BY <2>2, FS_Union, Zenon
    <2>6. Cardinality(used \cup free) = Cardinality(Frames)
      BY <2>1, Zenon
    <2> QED
      BY <2>3, <2>4, <2>5, <2>6
  <1>11. Cardinality(Box) < Cardinality(Frames)
    <2>1. Cardinality(Box) \in Nat /\ Cardinality(Frames) \in Nat
          /\ Cardinality(Threads) * Most \in Nat
      BY <1>1, <1>2, FrameFacts, FS_CardinalityType
    <2> QED
      BY <1>2, <2>1 DEF Roomy
  <1>12. Cardinality(Box) \in Nat /\ Cardinality(Frames) \in Nat
    BY <1>2, FrameFacts, FS_CardinalityType
  <1> HIDE DEF used, free, all
  <1> QED
    BY <1>6, <1>8, <1>9, <1>10, <1>11, <1>12 DEF free

(* With room for all, a frame is free.                                     *)
LEMMA BudgetRoom ==
    ASSUME Roomy
    PROVE  IInv /\ OnceInv /\ BudgetInv => Room
  <1> SUFFICES ASSUME IInv, OnceInv, BudgetInv PROVE Room
    OBVIOUS
  <1>1. 0 <= Rest(Main) /\ Main \in Owners
    BY OwnerFacts DEF BudgetInv
  <1>2. 0 < Cardinality(FreeFrames(Store))
    BY <1>1, BudgetFits
  <1> QED
    BY <1>2, FS_EmptySet DEF Room

(* While there are frames for what every thread may ask for, no load and   *)
(* no request ever finds the frames full: nothing is evicted and nothing   *)
(* goes through the dedicated frame.                                       *)
THEOREM RoomForAll ==
    ASSUME Roomy
    PROVE  Spec => [](IInv /\ CallInv /\ OnceInv /\ BudgetInv /\ Room)
  <1>1. Init => OnceInv /\ BudgetInv
    BY InitOnce, InitBudget
  <1>2. /\ IInv /\ CallInv /\ OnceInv /\ BudgetInv
        /\ IInv' /\ [Next]_vars
        => OnceInv' /\ BudgetInv'
    <2> SUFFICES ASSUME IInv, CallInv, OnceInv, BudgetInv, IInv', [Next]_vars
                 PROVE  OnceInv' /\ BudgetInv'
      OBVIOUS
    <2>1. Room
      BY BudgetRoom
    <2>2. OnceInv'
      <3> HIDE DEF IInv, CallInv, OnceInv, Room
      <3> QED
        BY <2>1, StepOnce, Zenon
    <2> QED
      BY <2>1, <2>2, StepBudget DEF Grows
  <1>3. IInv /\ OnceInv /\ BudgetInv => Room
    BY BudgetRoom
  <1> QED
    BY <1>1, <1>2, <1>3, StoresStayGood, QueueStaysTyped, PTL DEF Spec

(* No sequence of loads and faults loses a page or leaves two copies of    *)
(* it, as long as memory is large enough for all.                          *)
THEOREM NoPageLostOrDoubled ==
    ASSUME Roomy
    PROVE  Spec => []EachPageOnce
  <1>1. IInv /\ OnceInv => EachPageOnce
    BY OnceImplies
  <1> QED
    BY <1>1, RoomForAll, PTL

(* The page numbers of an owner have no gap, as long as memory is large    *)
(* enough for all: a thread's addresses are contiguous.                    *)
THEOREM NumbersHaveNoGap ==
    ASSUME Roomy
    PROVE  Spec => []Numbered
  <1>1. IInv /\ OnceInv => Numbered
    BY OnceImplies
  <1> QED
    BY <1>1, RoomForAll, PTL

-----------------------------------------------------------------------------
(* With room for all, a page that was given out is in memory when its      *)
(* thread touches it: the fault handler ends no thread.                    *)
THEOREM NobodyKilledWithRoom ==
    ASSUME Roomy
    PROVE  Spec => []Survives
  <1>1. Init => Survives
    BY DEF Init, Survives
  <1>2. IInv /\ OnceInv /\ Survives /\ [Next]_vars => Survives'
    <2> SUFFICES ASSUME IInv, OnceInv, Survives, [Next]_vars PROVE Survives'
      OBVIOUS
    <2>1. \A st : Become(st) => Survives'
      BY DEF Become, Survives
    <2>2. ASSUME NEW v, Fault(v) PROVE Survives'
      <3>1. PICK g \in Frames : PageOf(meta[g]) = <<running, v>>
        BY <2>2 DEF Fault, OnceInv, Once, Pages
      <3>2. {f \in Frames : PageOf(meta[f]) = <<running, v>>} # {}
        BY <3>1
      <3> QED
        BY <2>1, <2>2, <3>2 DEF Fault
    <2>3. CASE Library
      <3>1. CASE Loader
        BY <2>1, <3>1 DEF Loader, LoaderSwap, LoaderSkip, LoaderEnds, Survives
      <3>2. CASE Lock \/ Claim \/ ClaimFails
        BY <3>2 DEF Lock, Claim, ClaimFails, Survives
      <3> QED
        BY <2>3, <3>1, <3>2 DEF Library
    <2>4. CASE status' = status
      BY <2>4 DEF Survives
    <2> QED
      BY <2>2, <2>3, <2>4 DEF Next, Malloc, MallocIn, Free, Create, Dispatch, vars
  <1> QED
    BY <1>1, <1>2, RoomForAll, PTL DEF Spec

-----------------------------------------------------------------------------
(* What a call that has started leaves to do ends with locking the pages   *)
(* of others, unless only main has pages.                                  *)
LastIsLock == todo[Len(todo)] = LockAllBut(running)
IsolatedInv ==
    /\ todo = <<>> => \A f \in Frames \ locked : meta[f].tid \in {running, NoOwner}
    /\ created # {} /\ todo # <<>> => LastIsLock

(* A queue has its last job also when the first is replaced or done.       *)
LEMMA LastStays ==
    ASSUME NEW q \in Seq(Jobs), q # <<>>
    PROVE  /\ Tail(q) # <<>> => Tail(q)[Len(Tail(q))] = q[Len(q)]
           /\ Tail(q) = <<>> => Len(q) = 1 /\ q[Len(q)] = Head(q)
           /\ \A a \in Jobs : LET r == <<a>> \o Tail(q)
                             IN  r # <<>> /\ (Tail(q) # <<>> => r[Len(r)] = q[Len(q)])
  <1> DEFINE s == Tail(q)
  <1>1. /\ Len(q) \in Nat /\ Len(q) # 0 /\ Head(q) = q[1]
        /\ s \in Seq(Jobs) /\ Len(s) = Len(q) - 1
        /\ \A i \in 1 .. Len(q) - 1 : s[i] = q[i + 1]
    BY HeadTailProperties, LenProperties, EmptySeq
  <1> HIDE DEF s
  <1>2. s = <<>> <=> Len(s) = 0
    BY <1>1, EmptySeq
  <1>3. ASSUME NEW a \in Jobs
        PROVE  <<a>> \o s # <<>> /\ (s # <<>> => (<<a>> \o s)[Len(<<a>> \o s)] = q[Len(q)])
    <2> DEFINE h == <<a>>
               r == h \o s
    <2>1. h \in Seq(Jobs)
      OBVIOUS
    <2>2. Len(h) = 1
      OBVIOUS
    <2> HIDE DEF h
    <2>3. s \in Seq(Jobs)
      BY <1>1
    <2>4. /\ Len(r) = Len(h) + Len(s) /\ r \in Seq(Jobs)
          /\ \A i \in 1 .. Len(h) + Len(s) : r[i] = IF i <= Len(h) THEN h[i] ELSE s[i - Len(h)]
      BY <2>1, <2>3, ConcatProperties
    <2> HIDE DEF r
    <2>5. r # <<>>
      <3>1. Len(r) # 0
        BY <1>1, <2>2, <2>4
      <3> QED
        BY <2>4, <3>1, EmptySeq
    <2>6. ASSUME s # <<>> PROVE r[Len(r)] = q[Len(q)]
      <3>1. Len(s) \in Nat /\ Len(s) # 0 /\ Len(r) = Len(s) + 1
        BY <1>1, <1>2, <2>2, <2>4, <2>6
      <3>2. r[Len(r)] = s[Len(s)]
        BY <2>2, <2>4, <3>1
      <3> QED
        BY <1>1, <3>1, <3>2
    <2> QED
      BY <2>5, <2>6 DEF r, h
  <1>4. ASSUME s # <<>> PROVE s[Len(s)] = q[Len(q)]
    <2>1. Len(s) \in 1 .. Len(q) - 1 /\ Len(s) + 1 = Len(q)
      BY <1>1, <1>2, <1>4
    <2> QED
      BY <1>1, <2>1
  <1>5. ASSUME s = <<>> PROVE Len(q) = 1 /\ q[Len(q)] = Head(q)
    <2>1. Len(q) = 1
      <3>1. Len(s) = 0
        BY <1>5
      <3> QED
        BY <1>1, <3>1
    <2> QED
      BY <1>1, <2>1
  <1> QED
    BY <1>3, <1>4, <1>5 DEF s

(* Two queues one behind the other end with the last job of the second.    *)
LEMMA LastOfConcat ==
    ASSUME NEW q \in Seq(Jobs), NEW r \in Seq(Jobs), r # <<>>
    PROVE  (q \o r) # <<>> /\ (q \o r)[Len(q \o r)] = r[Len(r)]
  <1> DEFINE s == q \o r
  <1>1. Len(q) \in Nat /\ Len(r) \in Nat /\ Len(r) # 0
    BY LenProperties, EmptySeq
  <1>2. /\ s \in Seq(Jobs) /\ Len(s) = Len(q) + Len(r)
        /\ \A i \in 1 .. Len(q) + Len(r) : s[i] = IF i <= Len(q) THEN q[i] ELSE r[i - Len(q)]
    BY ConcatProperties
  <1> HIDE DEF s
  <1>3. s[Len(s)] = r[Len(r)] /\ Len(s) # 0
    <2>1. Len(s) \in 1 .. Len(q) + Len(r) /\ ~(Len(s) <= Len(q)) /\ Len(s) - Len(q) = Len(r)
      BY <1>1, <1>2
    <2> QED
      BY <1>1, <1>2, <2>1
  <1> QED
    BY <1>2, <1>3, EmptySeq DEF s

(* While no thread was created, the pages are main's.                      *)
LEMMA OnlyMain ==
    IInv /\ OnceInv /\ BudgetInv /\ created = {}
      => running = Main /\ \A f \in Frames : meta[f].tid \in {Main, NoOwner}
  <1> SUFFICES ASSUME IInv, OnceInv, BudgetInv, created = {}, NEW f \in Frames,
                      meta[f].tid # NoOwner
               PROVE  running = Main /\ meta[f].tid = Main
    BY DEF BudgetInv
  <1> DEFINE t == meta[f].tid
  <1>1. t \in Owners
    <2>1. PageOf(meta[f]) \in given /\ given \subseteq Owners \X Int
      BY DEF OnceInv, Once, Pages
    <2>2. <<t, meta[f].num>> \in Owners \X Int
      BY <2>1 DEF PageOf
    <2> HIDE DEF t
    <2> QED
      BY <2>2
  <1>2. Count(meta, t) # 0
    <2> DEFINE P == {g \in Frames : meta[g].tid = t}
    <2>1. f \in P /\ IsFiniteSet(P)
      BY FrameFacts, FS_Subset
    <2> HIDE DEF P
    <2>2. Cardinality(P) # 0
      BY <2>1, FS_EmptySet
    <2> QED
      BY <2>2 DEF P, Count
  <1> HIDE DEF t
  <1>3. t = Main
    BY <1>1, <1>2 DEF BudgetInv, Owners, Threads
  <1> QED
    BY <1>3 DEF BudgetInv, t

(* What no request can meet with room for all: findFreePage finds frames.  *)
LEMMA ClaimsServed ==
    ASSUME Roomy, IInv, CallInv, OnceInv, BudgetInv, todo # <<>>, ClaimFails
    PROVE  FALSE
  <1> DEFINE t == Head(todo).tid
             n == Head(todo).n
  <1>1. t \in Owners /\ n \in Nat /\ Head(todo).op = "claim"
        /\ Cardinality(FreeFrames(Store)) < n
    <2>1. Head(todo) \in Claims /\ Cardinality(FreeFrames(Store)) < n
      BY DEF ClaimFails
    <2> QED
      BY <2>1 DEF Claims
  <1>2. Asks(todo, t, Rest(t)) /\ Rest(t) \in Nat /\ todo \in Seq(Jobs)
    BY <1>1 DEF BudgetInv, CallInv
  <1> HIDE DEF t, n
  <1>3. n <= Rest(t)
    BY <1>1, <1>2, AsksTail DEF t, n
  <1>4. n < Cardinality(FreeFrames(Store))
    BY <1>1, <1>3, BudgetFits
  <1>5. Cardinality(FreeFrames(Store)) \in Nat
    BY FrameFacts, FS_Subset, FS_CardinalityType DEF FreeFrames
  <1> QED
    BY <1>1, <1>4, <1>5

(* The job a step of the library does leaves the last one in its place.    *)
LEMMA LibraryLast ==
    ASSUME Roomy, IInv, CallInv, OnceInv, BudgetInv, Library, LastIsLock
    PROVE  /\ UNCHANGED <<created, running>>
           /\ todo' # <<>> => LastIsLock'
           /\ todo' = <<>> => locked' = LockedFor(running) /\ UNCHANGED meta
  <1>1. todo # <<>> /\ todo \in Seq(Jobs) /\ Tail(todo) \in Seq(Jobs)
    BY LoaderJob DEF Library, CallInv
  <1>2. UNCHANGED <<created, running>>
    BY DEF Library, Loader, LoaderSwap, LoaderSkip, LoaderEnds, Lock, Claim, ClaimFails, threads
  <1>3. Tail(todo) = <<>> => Head(todo).op = "lock" /\ Head(todo).tid = running
    BY <1>1, LastStays DEF LastIsLock, LockAllBut
  <1>4. CASE Head(todo).op = "lock"
    <2>1. Lock
      <3>1. Head(todo) \notin Claims /\ Head(todo).op \notin {"all", "stack", "span"}
        BY <1>4 DEF Claims
      <3> QED
        BY <3>1 DEF Library, Loader, Claim, ClaimFails
    <2>2. todo' = Tail(todo) /\ locked' = LockedFor(Head(todo).tid) /\ UNCHANGED meta
      BY <2>1 DEF Lock
    <2> QED
      BY <1>1, <1>2, <1>3, <2>2, LastStays DEF LastIsLock
  <1>5. CASE Head(todo).op # "lock"
    <2>1. Tail(todo) # <<>>
      BY <1>3, <1>5
    <2>2. todo' = Tail(todo) \/ \E a \in Jobs : todo' = <<a>> \o Tail(todo)
      <3>1. CallInv'
        BY LibraryCalls
      <3>2. todo' = Tail(todo) \/ \E a : todo' = <<a>> \o Tail(todo)
        <4>1. ~ClaimFails
          BY <1>1, ClaimsServed
        <4> QED
          BY <1>5, <4>1 DEF Library, Loader, LoaderSwap, LoaderSkip, LoaderEnds, Continue,
                            Claim, ClaimIn, Lock
      <3>3. ASSUME NEW a, todo' = <<a>> \o Tail(todo) PROVE a \in Jobs
        <4>1. <<a>> \o Tail(todo) \in Seq(Jobs)
          BY <3>1, <3>3 DEF CallInv
        <4> QED
          BY <1>1, <4>1
      <3> QED
        BY <3>2, <3>3
    <2> QED
      BY <1>1, <1>2, <2>1, <2>2, LastStays DEF LastIsLock
  <1> QED
    BY <1>2, <1>4, <1>5

(* After a step, too, the pages are main's while no thread was created.    *)
LEMMA OnlyMainNext ==
    (IInv /\ OnceInv /\ BudgetInv /\ created = {}
      => running = Main /\ \A f \in Frames : meta[f].tid \in {Main, NoOwner})'
  BY OnlyMain, PTL

(* Every call but the free of a chunk ends with a lock.                    *)
LEMMA StepIsolated ==
    ASSUME Roomy, Freed = {}
    PROVE  /\ IInv /\ CallInv /\ OnceInv /\ BudgetInv /\ IsolatedInv
           /\ IInv' /\ OnceInv' /\ BudgetInv' /\ [Next]_vars
           => IsolatedInv'
  <1> SUFFICES ASSUME IInv, CallInv, OnceInv, BudgetInv, IsolatedInv,
                      IInv', OnceInv', BudgetInv', [Next]_vars
               PROVE  IsolatedInv'
    OBVIOUS
  <1>1. running \in Threads /\ running \in Owners
    BY OwnerFacts DEF IInv
  <1>2. ASSUME created' = {} PROVE IsolatedInv'
    BY <1>2, OnlyMainNext DEF IsolatedInv
  <1>3. ASSUME Library, created' # {} PROVE IsolatedInv'
    <2>1. UNCHANGED <<created, running>> /\ todo # <<>>
      BY <1>3 DEF Library, Loader, LoaderSwap, LoaderSkip, LoaderEnds, Lock, Claim, ClaimFails,
                  threads
    <2>2. LastIsLock
      BY <1>3, <2>1 DEF IsolatedInv
    <2>3. /\ todo' # <<>> => LastIsLock'
          /\ todo' = <<>> => locked' = LockedFor(running) /\ UNCHANGED meta
      BY <1>3, <2>2, LibraryLast
    <2> QED
      BY <2>1, <2>3 DEF IsolatedInv, LockedFor
  <1>4. ASSUME NEW q \in Seq(Jobs), NEW r \in Seq(Jobs), r # <<>>,
               r[Len(r)] = LockAllBut(running'), todo' = q \o r
        PROVE  IsolatedInv'
    BY <1>4, LastOfConcat DEF IsolatedInv, LastIsLock, LockAllBut
  <1>5. ASSUME NEW t \in Threads
        PROVE  LET l == <<LockAllBut(t)>>
               IN  l \in Seq(Jobs) /\ l # <<>> /\ l[Len(l)] = LockAllBut(t)
    <2> DEFINE a == LockAllBut(t)
    <2>1. a \in Jobs
      BY JobTypes DEF Jobs
    <2> HIDE DEF a
    <2>2. <<a>> \in Seq(Jobs) /\ <<a>> # <<>> /\ <<a>>[Len(<<a>>)] = a
      BY <2>1, Queues
    <2> QED
      BY <2>2 DEF a
  <1>6. ASSUME NEW n \in Requests, Malloc(n), created' # {} PROVE IsolatedInv'
    <2> DEFINE q == <<NewPages(running, n)>>
               r == <<LockAllBut(running)>>
    <2>1. q \in Seq(Jobs)
      <3>1. n \in Nat \ {0}
        BY PagingAssumption
      <3> QED
        BY <1>1, <3>1, JobQueues
    <2>2. todo' = q \o r /\ running' = running
      BY <1>6 DEF Malloc, Relock, threads
    <2>3. r \in Seq(Jobs) /\ r # <<>> /\ r[Len(r)] = LockAllBut(running)
      BY <1>1, <1>5
    <2> HIDE DEF q, r
    <2> QED
      BY <1>4, <2>1, <2>2, <2>3
  <1>7. ASSUME NEW f \in Frames, NEW n \in Requests, MallocIn(f, n) PROVE IsolatedInv'
    <2> DEFINE q == IF n = 1 THEN <<>> ELSE <<LoadSpan(f, meta[f])>>
               r == <<LockAllBut(running)>>
    <2>1. q \in Seq(Jobs)
      <3>1. meta[f] \in Header /\ meta[f].tid \in Owners
        BY <1>1, <1>7 DEF MallocIn, IInv, Good, AllFrames
      <3> QED
        BY <3>1, JobQueues, Queues
    <2>2. todo' = q \o r /\ running' = running
      BY <1>7 DEF MallocIn, threads
    <2>3. r \in Seq(Jobs) /\ r # <<>> /\ r[Len(r)] = LockAllBut(running)
      BY <1>1, <1>5
    <2> HIDE DEF q, r
    <2> QED
      BY <1>4, <2>1, <2>2, <2>3
  <1>8. ASSUME NEW v \in 1 .. MaxPages, Fault(v) PROVE IsolatedInv'
    <2> DEFINE r == <<LockAllBut(running)>>
    <2>1. todo = <<>> /\ running' = running
      BY <1>8 DEF Fault, InThread, threads
    <2>2. CASE UNCHANGED <<meta, locked, todo>>
      BY <2>1, <2>2 DEF IsolatedInv
    <2>3. CASE todo' = r
      <3>1. r \in Seq(Jobs) /\ r # <<>> /\ r[Len(r)] = LockAllBut(running)
        BY <1>1, <1>5
      <3> HIDE DEF r
      <3> QED
        BY <2>1, <2>3, <3>1 DEF IsolatedInv, LastIsLock, LockAllBut
    <2> QED
      BY <1>8, <2>2, <2>3 DEF Fault
  <1>9. ASSUME NEW u \in Threads, Create(u) PROVE IsolatedInv'
    <2>0. PICK stack \in MainStacks : CreateWith(u, stack)
      BY <1>9 DEF Create
    <2> DEFINE a == LibraryMalloc \o <<LoadAll(Lib, u)>> \o NewStack(u) \o <<LoadAll(Lib, u)>>
               l == <<LoadAll(Lib, Lib), LoadAll(Main, Main), LoadAll(Lib, Main)>>
               b == IF created = {} THEN stack \o l ELSE <<LoadAll(Lib, u)>>
               r == <<LoadStack(running), LockAllBut(running)>>
    <2>1. u \in Owners /\ Main \in Owners /\ Lib \in Owners
      BY OwnerFacts
    <2>2. a \in Seq(Jobs)
      <3>1. 1 \in Nat \ {0}
        OBVIOUS
      <3>2. <<LoadAll(Lib, u)>> \in Seq(Jobs) /\ NewStack(u) \in Seq(Jobs)
        BY <2>1, JobQueues, NewStackAsks
      <3>3. LibraryMalloc \in Seq(Jobs)
        BY <2>1, <3>1, JobQueues, Queues DEF LibraryMalloc
      <3> QED
        BY <3>2, <3>3, Queues
    <2>3. l \in Seq(Jobs)
      <3> DEFINE x == LoadAll(Lib, Lib)
                 y == LoadAll(Main, Main)
                 z == LoadAll(Lib, Main)
      <3>1. x \in Jobs /\ y \in Jobs /\ z \in Jobs
        BY <2>1, JobTypes DEF Jobs
      <3> HIDE DEF x, y, z
      <3>2. <<x, y, z>> \in Seq(Jobs)
        BY <3>1
      <3> QED
        BY <3>2 DEF x, y, z
    <2> HIDE DEF l
    <2>4. b \in Seq(Jobs)
      <3>1. stack \in Seq(Jobs) /\ <<LoadAll(Lib, u)>> \in Seq(Jobs)
        BY <2>1, JobQueues, MainStackAsks
      <3> QED
        BY <2>3, <3>1, Queues
    <2>5. r \in Seq(Jobs) /\ r # <<>> /\ r[Len(r)] = LockAllBut(running)
      <3> DEFINE x == LoadStack(running)
                 y == LockAllBut(running)
      <3>1. x \in Jobs /\ y \in Jobs
        BY <1>1, JobTypes DEF Jobs
      <3> HIDE DEF x, y
      <3>2. <<x, y>> \in Seq(Jobs) /\ <<x, y>> # <<>> /\ <<x, y>>[Len(<<x, y>>)] = y
        BY <3>1
      <3> QED
        BY <3>2 DEF x, y
    <2>6. todo' = a \o b \o r /\ running' = running
      BY <1>9, <2>0 DEF Create, CreateWith, l
    <2> HIDE DEF a, b, r
    <2>7. a \o b \in Seq(Jobs)
      BY <2>2, <2>4, Queues
    <2> QED
      BY <1>4, <2>5, <2>6, <2>7
  <1>10. ASSUME NEW u \in Threads, Dispatch(u) PROVE IsolatedInv'
    <2> DEFINE a == IF switched THEN <<LoadAll(Lib, running)>> ELSE <<>>
               r == <<LoadStack(running), LoadAll(Lib, running), LoadStack(u), LockAllBut(u)>>
    <2>1. a \in Seq(Jobs)
      BY <1>1, OwnerFacts, JobQueues, Queues
    <2>2. r \in Seq(Jobs) /\ r # <<>> /\ r[Len(r)] = LockAllBut(u)
      <3> DEFINE w == LoadStack(running)
                 x == LoadAll(Lib, running)
                 y == LoadStack(u)
                 z == LockAllBut(u)
      <3>1. w \in Jobs /\ x \in Jobs /\ y \in Jobs /\ z \in Jobs
        BY <1>1, JobTypes, OwnerFacts DEF Jobs
      <3> HIDE DEF w, x, y, z
      <3>2. <<w, x, y, z>> \in Seq(Jobs) /\ <<w, x, y, z>> # <<>>
            /\ <<w, x, y, z>>[Len(<<w, x, y, z>>)] = z
        BY <3>1
      <3> QED
        BY <3>2 DEF w, x, y, z
    <2>3. todo' = a \o r /\ running' = u
      BY <1>10 DEF Dispatch, Switch
    <2> HIDE DEF a, r
    <2> QED
      BY <1>4, <2>1, <2>2, <2>3
  <1>11. \A v : ~Free(v)
    BY DEF Free
  <1>12. CASE UNCHANGED vars
    BY <1>12 DEF IsolatedInv, LastIsLock, vars, threads
  <1> QED
    BY <1>2, <1>3, <1>6, <1>7, <1>8, <1>9, <1>10, <1>11, <1>12 DEF Next

(* With room for all, and as long as no chunk is freed, a thread runs with *)
(* the pages of every other thread and of the library locked: myfree       *)
(* returns without locking them again, and so does a malloc without a      *)
(* page, which room for all excludes.                                      *)
THEOREM OthersAreLocked ==
    ASSUME Roomy, Freed = {}
    PROVE  Spec => []Isolated
  <1>1. Init => IsolatedInv
    <2>1. ASSUME Init, NEW f \in Frames PROVE meta[f].tid = NoOwner
      <3>1. meta[f] = EmptyHeader(0)
        BY <2>1, FrameFacts DEF Init
      <3> QED
        BY <3>1 DEF EmptyHeader
    <2> QED
      BY <2>1 DEF Init, IsolatedInv
  <1>2. /\ IInv /\ CallInv /\ OnceInv /\ BudgetInv /\ IsolatedInv
        /\ IInv' /\ OnceInv' /\ BudgetInv' /\ [Next]_vars
        => IsolatedInv'
    BY StepIsolated
  <1>3. IsolatedInv => Isolated
    BY DEF IsolatedInv, Isolated
  <1> QED
    BY <1>1, <1>2, <1>3, RoomForAll, PTL DEF Spec

=============================================================================
