-------------------------- MODULE ThreadsListProofs --------------------------
(***************************************************************************)
(* Lemmas about the lists of Threads: a set of places has a first one, and  *)
(* what inserting an element, removing one and sorting a thread into the    *)
(* run queue do to the elements of a list.                                  *)
(***************************************************************************)
EXTENDS Threads, SequenceTheorems, WellFoundedInduction, TLAPS

(* A set of numbers that is not empty has a least one.                     *)
LEMMA MinExists ==
  ASSUME NEW S, S \subseteq Nat, S # {}
  PROVE  Min(S) \in S /\ \A x \in S : Min(S) <= x
  <1> DEFINE R == OpToRel(<, Nat)
  <1>1. IsWellFoundedOn(R, Nat)
    BY NatLessThanWellFounded
  <1>2. \A x, y \in Nat : y < x => <<y, x>> \in R
    BY DEF OpToRel
  <1> HIDE DEF R
  <1>3. PICK m \in S : \A y \in S : ~ (<<y, m>> \in R)
    BY <1>1, WFMin
  <1>4. ASSUME NEW y \in S PROVE m <= y
    <2>1. y \in Nat /\ m \in Nat
      OBVIOUS
    <2>2. ~ (y < m)
      BY <1>2, <1>3, <2>1, Zenon
    <2> QED
      BY <2>1, <2>2
  <1> QED
    BY <1>3, <1>4 DEF Min

NoTwice(q) == \A i, j \in DOMAIN q : q[i] = q[j] => i = j

(* r is q with t put at place p. *)
IsInserted(r, q, t, p) ==
  /\ Len(r) = Len(q) + 1
  /\ \A i \in 1 .. Len(q) + 1 : r[i] = IF i < p THEN q[i] ELSE IF i = p THEN t ELSE q[i - 1]

(* A list with one element inserted has the elements it had, and that      *)
(* one.                                                                    *)
LEMMA Inserted ==
  ASSUME NEW S, NEW q \in Seq(S), NEW r \in Seq(S), NEW t \in S, NEW p \in 1 .. Len(q) + 1,
         IsInserted(r, q, t, p)
  PROVE  /\ Range(r) = Range(q) \cup {t}
         /\ NoTwice(q) /\ t \notin Range(q) => NoTwice(r)
  <1>1. Len(q) \in Nat /\ DOMAIN q = 1 .. Len(q) /\ DOMAIN r = 1 .. Len(q) + 1
    BY LenProperties DEF IsInserted
  <1>2. Range(r) \subseteq Range(q) \cup {t}
    <2> SUFFICES ASSUME NEW i \in 1 .. Len(q) + 1 PROVE r[i] \in Range(q) \cup {t}
      BY <1>1 DEF Range
    <2>1. CASE i < p
      BY <1>1, <2>1 DEF IsInserted, Range
    <2>2. CASE i = p
      BY <1>1, <2>2 DEF IsInserted
    <2>3. CASE i > p
      <3>1. i - 1 \in DOMAIN q /\ r[i] = q[i - 1]
        BY <1>1, <2>3 DEF IsInserted
      <3> QED
        BY <3>1 DEF Range
    <2> QED
      BY <1>1, <2>1, <2>2, <2>3
  <1>3. Range(q) \cup {t} \subseteq Range(r)
    <2>1. r[p] = t
      BY <1>1 DEF IsInserted
    <2>2. ASSUME NEW i \in 1 .. Len(q) PROVE q[i] \in Range(r)
      <3>1. CASE i < p
        <4>1. i \in DOMAIN r /\ r[i] = q[i]
          BY <1>1, <3>1 DEF IsInserted
        <4> QED
          BY <4>1 DEF Range
      <3>2. CASE ~(i < p)
        <4>1. i + 1 \in DOMAIN r /\ r[i + 1] = q[i]
          BY <1>1, <3>2 DEF IsInserted
        <4> QED
          BY <4>1 DEF Range
      <3> QED
        BY <3>1, <3>2
    <2> QED
      BY <1>1, <2>1, <2>2 DEF Range
  <1>4. ASSUME NoTwice(q), t \notin Range(q) PROVE NoTwice(r)
    <2>1. \A i \in 1 .. Len(q) : q[i] # t
      BY <1>1, <1>4 DEF Range
    <2> SUFFICES ASSUME NEW i \in 1 .. Len(q) + 1, NEW j \in 1 .. Len(q) + 1, r[i] = r[j]
                 PROVE  i = j
      BY <1>1 DEF NoTwice
    <2> DEFINE back(k) == IF k < p THEN k ELSE k - 1
    <2>2. \A k \in 1 .. Len(q) + 1 : k # p => back(k) \in 1 .. Len(q) /\ r[k] = q[back(k)]
      BY <1>1 DEF IsInserted
    <2>3. r[p] = t
      BY <1>1 DEF IsInserted
    <2>4. CASE i = p \/ j = p
      BY <2>1, <2>2, <2>3, <2>4
    <2>5. CASE i # p /\ j # p
      <3>1. back(i) = back(j)
        BY <1>1, <1>4, <2>2, <2>5 DEF NoTwice
      <3> QED
        BY <3>1, <2>5, <1>1
    <2> QED
      BY <2>4, <2>5
  <1> QED
    BY <1>2, <1>3, <1>4

(* InsertAt inserts.                                                       *)
LEMMA InsertAtIs ==
  ASSUME NEW S, NEW q \in Seq(S), NEW t \in S, NEW p \in 1 .. Len(q) + 1
  PROVE  InsertAt(q, p, t) \in Seq(S) /\ IsInserted(InsertAt(q, p, t), q, t, p)
  <1> DEFINE a == SubSeq(q, 1, p - 1)  b == SubSeq(q, p, Len(q))
  <1>1. Len(q) \in Nat /\ p \in Int /\ p - 1 \in Int
        /\ \A i \in 1 .. Len(q) : q[i] \in S
    BY LenProperties
  <1>2. /\ a \in Seq(S) /\ Len(a) = p - 1
        /\ \A i \in 1 .. p - 1 : a[i] = q[i]
    <2>1. \A i \in 1 .. p - 1 : q[i] \in S
      BY <1>1
    <2> QED
      BY <1>1, <2>1, SubSeqProperties
  <1>3. /\ b \in Seq(S) /\ Len(b) = Len(q) - p + 1
        /\ \A i \in 1 .. Len(q) - p + 1 : b[i] = q[p + i - 1]
    <2>1. \A i \in p .. Len(q) : q[i] \in S
      BY <1>1
    <2> QED
      BY <1>1, <2>1, SubSeqProperties
  <1>4. <<t>> \in Seq(S) /\ Len(<<t>>) = 1 /\ <<t>>[1] = t
    OBVIOUS
  <1> HIDE DEF a, b
  <1> DEFINE c == a \o <<t>>
  <1>5. /\ c \in Seq(S) /\ Len(c) = p
        /\ \A i \in 1 .. p : c[i] = IF i < p THEN q[i] ELSE t
    BY <1>1, <1>2, <1>4, ConcatProperties
  <1> HIDE DEF c
  <1>6. /\ c \o b \in Seq(S) /\ Len(c \o b) = Len(q) + 1
        /\ \A i \in 1 .. Len(q) + 1 : (c \o b)[i] = IF i <= p THEN c[i] ELSE b[i - p]
    <2>1. /\ c \o b \in Seq(S) /\ Len(c \o b) = Len(c) + Len(b)
          /\ \A i \in 1 .. Len(c) + Len(b) :
               (c \o b)[i] = IF i <= Len(c) THEN c[i] ELSE b[i - Len(c)]
      BY <1>3, <1>5, ConcatProperties
    <2>2. Len(c) = p /\ Len(c) + Len(b) = Len(q) + 1
      BY <1>1, <1>3, <1>5
    <2> QED
      BY <2>1, <2>2
  <1>7. InsertAt(q, p, t) = c \o b
    BY DEF InsertAt, a, b, c
  <1>8. \A i \in 1 .. Len(q) + 1 : (c \o b)[i] = IF i < p THEN q[i] ELSE IF i = p THEN t ELSE q[i - 1]
    <2> SUFFICES ASSUME NEW i \in 1 .. Len(q) + 1
                 PROVE  (c \o b)[i] = IF i < p THEN q[i] ELSE IF i = p THEN t ELSE q[i - 1]
      OBVIOUS
    <2>1. CASE i <= p
      BY <1>1, <1>5, <1>6, <2>1
    <2>2. CASE i > p
      <3>1. i - p \in 1 .. Len(q) - p + 1 /\ p + (i - p) - 1 = i - 1
        BY <1>1, <2>2
      <3>2. b[i - p] = q[i - 1]
        BY <1>3, <3>1
      <3> QED
        BY <1>1, <1>6, <2>2, <3>2
    <2>3. i <= p \/ i > p
      BY <1>1
    <2> QED
      BY <2>1, <2>2, <2>3
  <1> QED
    BY <1>6, <1>7, <1>8 DEF IsInserted

(* The run queue with a thread sorted into it. *)
LEMMA SortedIn ==
  ASSUME NEW q \in Seq(Threads), NEW t \in Threads, NEW quantum \in [Threads -> Nat],
         NoTwice(q), t \notin Range(q)
  PROVE  LET r == InsertSorted(q, t, quantum) IN
         /\ r \in Seq(Threads) /\ Len(r) = Len(q) + 1 /\ NoTwice(r) /\ Range(r) = Range(q) \cup {t}
         /\ q # <<>> => Head(r) = Head(q)
  <1> DEFINE r == InsertSorted(q, t, quantum)
             larger == {i \in DOMAIN q : quantum[q[i]] > quantum[t]}
             place == IF larger = {} THEN Len(q) + 1 ELSE Min(larger)
             Placed == /\ r \in Seq(Threads)
                       /\ \E p \in 1 .. Len(q) + 1 : IsInserted(r, q, t, p) /\ (q # <<>> => p # 1)
  <1>1. Len(q) \in Nat /\ DOMAIN q = 1 .. Len(q)
    BY LenProperties
  <1>2. ASSUME q = <<>> PROVE Placed
    <2>1. r = <<t>>
      BY <1>2 DEF InsertSorted
    <2>2. r = InsertAt(q, 1, t)
      BY <1>2, <2>1 DEF InsertAt
    <2>3. 1 \in 1 .. Len(q) + 1
      BY <1>1
    <2>4. r \in Seq(Threads) /\ IsInserted(r, q, t, 1)
      BY <2>2, <2>3, InsertAtIs
    <2> QED
      BY <1>2, <2>3, <2>4
  <1>3. ASSUME q # <<>>, quantum[t] <= quantum[Head(q)] PROVE Placed
    <2>1. r = <<Head(q), t>> \o Tail(q)
      BY <1>3 DEF InsertSorted
    <2>2. Head(q) \in Threads /\ Head(q) = q[1] /\ Tail(q) \in Seq(Threads)
          /\ Len(Tail(q)) = Len(q) - 1 /\ \A i \in 1 .. Len(q) - 1 : Tail(q)[i] = q[i + 1]
      BY <1>1, <1>3, HeadTailProperties
    <2> DEFINE a == <<Head(q), t>>
    <2>3. a \in Seq(Threads) /\ Len(a) = 2 /\ a[1] = q[1] /\ a[2] = t
      BY <2>2
    <2> HIDE DEF a
    <2>4. /\ a \o Tail(q) \in Seq(Threads) /\ Len(a \o Tail(q)) = Len(q) + 1
          /\ \A i \in 1 .. Len(q) + 1 :
               (a \o Tail(q))[i] = IF i <= 2 THEN a[i] ELSE Tail(q)[i - 2]
      <3>1. /\ a \o Tail(q) \in Seq(Threads) /\ Len(a \o Tail(q)) = Len(a) + Len(Tail(q))
            /\ \A i \in 1 .. Len(a) + Len(Tail(q)) :
                 (a \o Tail(q))[i] = IF i <= Len(a) THEN a[i] ELSE Tail(q)[i - Len(a)]
        BY <2>2, <2>3, ConcatProperties
      <3>2. Len(a) = 2 /\ Len(a) + Len(Tail(q)) = Len(q) + 1
        BY <1>1, <2>2, <2>3
      <3> QED
        BY <3>1, <3>2
    <2>5. 1 <= Len(q)
      BY <1>1, <1>3, EmptySeq
    <2>6. ASSUME NEW i \in 1 .. Len(q) + 1
          PROVE  (a \o Tail(q))[i] = IF i < 2 THEN q[i] ELSE IF i = 2 THEN t ELSE q[i - 1]
      <3>1. CASE i <= 2
        <4>1. (a \o Tail(q))[i] = a[i]
          BY <2>4, <3>1
        <4>2. CASE i = 1
          <5>1. a[i] = q[i]
            BY <2>3, <4>2, Zenon
          <5>2. i < 2
            BY <4>2
          <5> QED
            BY <4>1, <5>1, <5>2
        <4>3. CASE i = 2
          <5>1. a[i] = t
            BY <2>3, <4>3, Zenon
          <5>2. ~(i < 2)
            BY <4>3
          <5> QED
            BY <4>1, <4>3, <5>1, <5>2, Zenon
        <4>4. i = 1 \/ i = 2
          BY <1>1, <3>1
        <4> QED
          BY <4>2, <4>3, <4>4
      <3>2. CASE i > 2
        <4>1. i - 2 \in 1 .. Len(q) - 1 /\ (i - 2) + 1 = i - 1
          BY <1>1, <3>2
        <4> QED
          BY <2>2, <2>4, <3>2, <4>1
      <3>3. i <= 2 \/ i > 2
        BY <1>1
      <3> QED
        BY <3>1, <3>2, <3>3
    <2>7. r \in Seq(Threads) /\ IsInserted(r, q, t, 2)
      BY <2>1, <2>4, <2>6 DEF IsInserted, a
    <2> QED
      BY <2>5, <2>7, <1>1
  <1>4. ASSUME q # <<>>, ~(quantum[t] <= quantum[Head(q)]) PROVE Placed
    <2>1. r = InsertAt(q, place, t)
      BY <1>4 DEF InsertSorted
    <2>2. place \in 2 .. Len(q) + 1
      <3>1. larger \subseteq 2 .. Len(q) /\ 1 <= Len(q)
        <4>1. Head(q) = q[1] /\ 1 <= Len(q)
          BY <1>1, <1>4, EmptySeq
        <4>2. \A i \in DOMAIN q : quantum[q[i]] \in Nat
          BY <1>1
        <4>3. 1 \notin larger
          BY <1>1, <1>4, <4>1, <4>2
        <4> QED
          BY <1>1, <4>1, <4>3
      <3>2. CASE larger = {}
        BY <1>1, <3>1, <3>2
      <3>3. CASE larger # {}
        <4>1. larger \subseteq Nat
          BY <1>1, <3>1
        <4>2. Min(larger) \in larger
          BY <3>3, <4>1, MinExists
        <4> QED
          BY <1>1, <3>1, <3>3, <4>2
      <3> QED
        BY <3>2, <3>3
    <2> HIDE DEF place
    <2>3. place \in 1 .. Len(q) + 1 /\ place # 1
      BY <1>1, <2>2
    <2>4. r \in Seq(Threads) /\ IsInserted(r, q, t, place)
      BY <2>1, <2>3, InsertAtIs
    <2> QED
      BY <2>3, <2>4
  <1> HIDE DEF r
  <1>5. r \in Seq(Threads) /\ \E p \in 1 .. Len(q) + 1 : IsInserted(r, q, t, p) /\ (q # <<>> => p # 1)
    BY <1>2, <1>3, <1>4
  <1>6. PICK p \in 1 .. Len(q) + 1 : IsInserted(r, q, t, p) /\ (q # <<>> => p # 1)
    BY <1>5
  <1>7. Range(r) = Range(q) \cup {t} /\ NoTwice(r)
    BY <1>5, <1>6, Inserted
  <1>8. Len(r) = Len(q) + 1
    BY <1>6 DEF IsInserted
  <1>9. ASSUME q # <<>> PROVE Head(r) = Head(q)
    <2>1. r[1] = q[1]
      BY <1>1, <1>6, <1>9 DEF IsInserted
    <2>2. r # <<>>
      BY <1>1, <1>8
    <2> QED
      BY <1>9, <2>1, <2>2
  <1> QED
    BY <1>5, <1>7, <1>8, <1>9 DEF r

(* r is s without the element at place p. *)
IsRemoved(r, s, p) ==
  /\ Len(r) = Len(s) - 1
  /\ \A i \in 1 .. Len(s) - 1 : r[i] = IF i < p THEN s[i] ELSE s[i + 1]

(* A list with one place removed.                                          *)
LEMMA Removed ==
  ASSUME NEW S, NEW s \in Seq(S), NEW r \in Seq(S), NEW p \in 1 .. Len(s), IsRemoved(r, s, p)
  PROVE  /\ Range(r) \subseteq Range(s)
         /\ NoTwice(s) => NoTwice(r)
         /\ \A i \in DOMAIN s : i # p => s[i] \in Range(r)
         /\ NoTwice(s) => Range(r) = Range(s) \ {s[p]}
  <1>1. Len(s) \in Nat /\ DOMAIN s = 1 .. Len(s) /\ DOMAIN r = 1 .. Len(s) - 1
    BY LenProperties DEF IsRemoved
  <1> DEFINE to(i) == IF i < p THEN i ELSE i + 1
  <1>2. \A i \in DOMAIN r : to(i) \in DOMAIN s /\ to(i) # p /\ r[i] = s[to(i)]
    BY <1>1 DEF IsRemoved
  <1>3. Range(r) \subseteq Range(s)
    BY <1>2 DEF Range
  <1>4. NoTwice(s) => NoTwice(r)
    <2> SUFFICES ASSUME NoTwice(s), NEW i \in DOMAIN r, NEW j \in DOMAIN r, r[i] = r[j]
                 PROVE  i = j
      BY DEF NoTwice
    <2>1. to(i) = to(j)
      BY <1>2 DEF NoTwice
    <2> QED
      BY <1>1, <2>1
  <1>5. ASSUME NEW i \in DOMAIN s, i # p PROVE s[i] \in Range(r)
    <2>1. CASE i < p
      <3>1. i \in DOMAIN r /\ r[i] = s[i]
        BY <1>1, <2>1 DEF IsRemoved
      <3> QED
        BY <3>1 DEF Range
    <2>2. CASE i > p
      <3>1. i - 1 \in DOMAIN r /\ r[i - 1] = s[i]
        BY <1>1, <2>2 DEF IsRemoved
      <3> QED
        BY <3>1 DEF Range
    <2> QED
      BY <1>1, <1>5, <2>1, <2>2
  <1>6. ASSUME NoTwice(s) PROVE Range(r) = Range(s) \ {s[p]}
    <2>1. s[p] \notin Range(r)
      <3> SUFFICES ASSUME NEW i \in DOMAIN r, r[i] = s[p] PROVE FALSE
        BY DEF Range
      <3> QED
        BY <1>1, <1>2, <1>6 DEF NoTwice
    <2>2. Range(s) \ {s[p]} \subseteq Range(r)
      BY <1>5 DEF Range
    <2> QED
      BY <1>3, <2>1, <2>2
  <1> QED
    BY <1>3, <1>4, <1>5, <1>6

(* RemoveAt removes.                                                       *)
LEMMA RemoveAtIs ==
  ASSUME NEW S, NEW s \in Seq(S), NEW p \in 1 .. Len(s)
  PROVE  RemoveAt(s, p) \in Seq(S) /\ IsRemoved(RemoveAt(s, p), s, p)
  <1> DEFINE a == SubSeq(s, 1, p - 1)  b == SubSeq(s, p + 1, Len(s))
  <1>1. Len(s) \in Nat /\ p \in Int /\ p - 1 \in Int /\ p + 1 \in Int
        /\ \A i \in 1 .. Len(s) : s[i] \in S
    BY LenProperties
  <1>2. /\ a \in Seq(S) /\ Len(a) = p - 1
        /\ \A i \in 1 .. p - 1 : a[i] = s[i]
    <2>1. \A i \in 1 .. p - 1 : s[i] \in S
      BY <1>1
    <2> QED
      BY <1>1, <2>1, SubSeqProperties
  <1>3. /\ b \in Seq(S) /\ Len(b) = Len(s) - p
        /\ \A i \in 1 .. Len(s) - p : b[i] = s[p + i]
    <2>1. \A i \in p + 1 .. Len(s) : s[i] \in S
      BY <1>1
    <2>2. /\ b \in Seq(S)
          /\ Len(b) = IF p + 1 <= Len(s) THEN Len(s) - (p + 1) + 1 ELSE 0
          /\ \A i \in 1 .. Len(s) - (p + 1) + 1 : b[i] = s[(p + 1) + i - 1]
      BY <1>1, <2>1, SubSeqProperties
    <2>3. \A i \in 1 .. Len(s) - p : (p + 1) + i - 1 = p + i
      BY <1>1
    <2>4. Len(s) - (p + 1) + 1 = Len(s) - p
      BY <1>1
    <2>5. Len(b) = Len(s) - p
      BY <1>1, <2>2
    <2> HIDE DEF b
    <2>6. \A i \in 1 .. Len(s) - p : b[i] = s[p + i]
      BY <2>2, <2>3, <2>4
    <2> QED
      BY <2>2, <2>5, <2>6
  <1> HIDE DEF a, b
  <1>4. /\ a \o b \in Seq(S) /\ Len(a \o b) = Len(s) - 1
        /\ \A i \in 1 .. Len(s) - 1 : (a \o b)[i] = IF i <= p - 1 THEN a[i] ELSE b[i - (p - 1)]
    <2>1. /\ a \o b \in Seq(S) /\ Len(a \o b) = Len(a) + Len(b)
          /\ \A i \in 1 .. Len(a) + Len(b) :
               (a \o b)[i] = IF i <= Len(a) THEN a[i] ELSE b[i - Len(a)]
      BY <1>2, <1>3, ConcatProperties
    <2>2. Len(a) = p - 1 /\ Len(a) + Len(b) = Len(s) - 1
      BY <1>1, <1>2, <1>3
    <2> QED
      BY <2>1, <2>2
  <1>5. \A i \in 1 .. Len(s) - 1 : (a \o b)[i] = IF i < p THEN s[i] ELSE s[i + 1]
    <2> SUFFICES ASSUME NEW i \in 1 .. Len(s) - 1
                 PROVE  (a \o b)[i] = IF i < p THEN s[i] ELSE s[i + 1]
      OBVIOUS
    <2>1. CASE i < p
      BY <1>1, <1>2, <1>4, <2>1
    <2>2. CASE ~(i < p)
      <3>1. i - (p - 1) \in 1 .. Len(s) - p /\ p + (i - (p - 1)) = i + 1 /\ ~(i <= p - 1)
        BY <1>1, <2>2
      <3>2. b[i - (p - 1)] = s[i + 1]
        BY <1>3, <3>1
      <3> QED
        BY <1>4, <2>2, <3>1, <3>2
    <2> QED
      BY <2>1, <2>2
  <1>6. RemoveAt(s, p) = a \o b
    BY DEF RemoveAt, a, b
  <1> QED
    BY <1>4, <1>5, <1>6 DEF IsRemoved

(* Tail removes the first place.                                           *)
LEMMA TailIs ==
  ASSUME NEW S, NEW s \in Seq(S), s # <<>>
  PROVE  /\ Tail(s) \in Seq(S) /\ IsRemoved(Tail(s), s, 1)
         /\ 1 \in DOMAIN s /\ s[1] = Head(s) /\ Head(s) \in Range(s)
         /\ Range(s) \subseteq S
  <1>1. Len(s) \in Nat /\ DOMAIN s = 1 .. Len(s) /\ 1 <= Len(s)
    BY LenProperties, EmptySeq
  <1>2. Tail(s) \in Seq(S) /\ Len(Tail(s)) = Len(s) - 1
        /\ \A i \in 1 .. Len(Tail(s)) : Tail(s)[i] = s[i + 1]
    BY HeadTailProperties
  <1>3. IsRemoved(Tail(s), s, 1)
    BY <1>1, <1>2 DEF IsRemoved
  <1>4. 1 \in DOMAIN s /\ s[1] = Head(s)
    BY <1>1
  <1>5. \A i \in 1 .. Len(s) : s[i] \in S
    BY LenProperties
  <1> QED
    BY <1>1, <1>2, <1>3, <1>4, <1>5 DEF Range

(* Append adds an element at the end.                                      *)
LEMMA AppendIs ==
  ASSUME NEW S, NEW s \in Seq(S), NEW e \in S
  PROVE  /\ Append(s, e) \in Seq(S) /\ Range(Append(s, e)) = Range(s) \cup {e}
         /\ DOMAIN Append(s, e) = 1 .. Len(s) + 1
         /\ \A i \in 1 .. Len(s) : Append(s, e)[i] = s[i]
         /\ Append(s, e)[Len(s) + 1] = e
  <1>1. Len(s) \in Nat /\ DOMAIN s = 1 .. Len(s)
    BY LenProperties
  <1>2. /\ Append(s, e) \in Seq(S) /\ Len(Append(s, e)) = Len(s) + 1
        /\ \A i \in 1 .. Len(s) : Append(s, e)[i] = s[i]
        /\ Append(s, e)[Len(s) + 1] = e
    BY AppendProperties
  <1>3. DOMAIN Append(s, e) = 1 .. Len(s) + 1
    BY <1>2, LenProperties
  <1> DEFINE r == Append(s, e)
  <1> HIDE DEF r
  <1>4. DOMAIN r = 1 .. Len(s) + 1 /\ r[Len(s) + 1] = e /\ \A i \in 1 .. Len(s) : r[i] = s[i]
    BY <1>2, <1>3 DEF r
  <1>5. Range(r) = Range(s) \cup {e}
    <2>1. \A i \in 1 .. Len(s) + 1 : i = Len(s) + 1 \/ i \in 1 .. Len(s)
      BY <1>1
    <2>2. \A i \in 1 .. Len(s) : i \in 1 .. Len(s) + 1
      BY <1>1
    <2>3. Len(s) + 1 \in 1 .. Len(s) + 1
      BY <1>1
    <2> QED
      BY <1>1, <1>4, <2>1, <2>2, <2>3, Zenon DEF Range
  <1> QED
    BY <1>2, <1>3, <1>5 DEF r
=============================================================================
