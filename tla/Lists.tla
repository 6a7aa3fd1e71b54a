--------------------------------- MODULE Lists ---------------------------------
(***************************************************************************)
(* The kernel's linked lists (include/rk/list.h) as sequences of distinct  *)
(* elements: what adding at the tail, taking off the head, unlinking a     *)
(* node and inserting before one do to the elements and to their order;    *)
(* and its rings, whose slots are numbered by remainders.  The proofs      *)
(* about the modules that keep lists and rings cite these lemmas.          *)
(***************************************************************************)
EXTENDS Integers, Sequences, SequencesExt, FiniteSetsExt, WellFoundedInduction, TLAPS

(* A list in the order of a key of its elements.                            *)
Ordered(s, key) == \A i, j \in 1..Len(s) : i <= j => key[s[i]] <= key[s[j]]
-----------------------------------------------------------------------------
(* A new element at the tail.                                               *)
LEMMA AppendOnce ==
  ASSUME NEW S, NEW s \in Seq(S), IsInjective(s), NEW e \in S, ~Contains(s, e)
  PROVE  /\ Append(s, e) \in Seq(S) /\ IsInjective(Append(s, e))
         /\ \A x : Contains(Append(s, e), x) <=> Contains(s, x) \/ x = e
<1>1. /\ Append(s, e) \in Seq(S) /\ Len(Append(s, e)) = Len(s) + 1
      /\ Append(s, e)[Len(s) + 1] = e
      /\ \A i \in 1..Len(s) : Append(s, e)[i] = s[i]
  OBVIOUS
<1> QED BY <1>1 DEF Contains, IsInjective

(* The first element taken off.                                             *)
LEMMA TailOnce ==
  ASSUME NEW S, NEW s \in Seq(S), s # <<>>, IsInjective(s)
  PROVE  /\ Tail(s) \in Seq(S) /\ IsInjective(Tail(s)) /\ Head(s) \in S
         /\ \A x : Contains(Tail(s), x) <=> Contains(s, x) /\ x # Head(s)
         /\ Contains(s, Head(s))
<1>1. /\ Tail(s) \in Seq(S) /\ Len(Tail(s)) = Len(s) - 1 /\ Len(s) >= 1
      /\ Head(s) = s[1] /\ s[1] \in S
      /\ \A i \in 1..(Len(s) - 1) : Tail(s)[i] = s[i + 1]
  OBVIOUS
<1>2. ASSUME NEW x, Contains(s, x), x # Head(s) PROVE Contains(Tail(s), x)
  <2>1. PICK i \in 1..Len(s) : s[i] = x
    BY <1>2 DEF Contains
  <2>2. i - 1 \in 1..(Len(s) - 1) /\ Tail(s)[i - 1] = s[i]
    BY <1>1, <1>2, <2>1
  <2> QED BY <1>1, <2>1, <2>2 DEF Contains
<1>3. ASSUME NEW x, Contains(Tail(s), x) PROVE Contains(s, x) /\ x # Head(s)
  <2>1. PICK i \in 1..(Len(s) - 1) : Tail(s)[i] = x
    BY <1>1, <1>3 DEF Contains
  <2>2. i + 1 \in 1..Len(s) /\ s[i + 1] = x /\ 1 \in 1..Len(s) /\ i + 1 # 1
    BY <1>1, <2>1
  <2> QED BY <1>1, <2>2 DEF Contains, IsInjective
<1>4. IsInjective(Tail(s))
  BY <1>1 DEF IsInjective
<1>5. Contains(s, Head(s))
  BY <1>1 DEF Contains
<1> QED BY <1>1, <1>2, <1>3, <1>4, <1>5

(* Where the elements stand once the one at i was unlinked.                 *)
LEMMA Removed ==
  ASSUME NEW S, NEW s \in Seq(S), IsInjective(s), NEW i \in 1..Len(s)
  PROVE  LET r == RemoveFirst(s, s[i]) IN
           /\ r \in Seq(S) /\ Len(r) = Len(s) - 1
           /\ \A k \in 1..Len(r) : r[k] = IF k < i THEN s[k] ELSE s[k + 1]
<1> DEFINE n == Len(s)
           u == SubSeq(s, 1, i - 1)
           v == SubSeq(s, i + 1, n)
           r == u \o v
<1>1. n \in Nat /\ i \in Int /\ 1 <= i /\ i <= n
  OBVIOUS
<1>2. RemoveFirst(s, s[i]) = r
  <2>1. {k \in 1..Len(s) : s[k] = s[i]} = {i}
    BY DEF IsInjective
  <2>2. Min({i}) = i
    BY DEF Min
  <2> QED BY <2>1, <2>2 DEF RemoveFirst, RemoveAt, SelectInSeq
<1>3. u \in Seq(S) /\ Len(u) = i - 1 /\ \A k \in 1..(i - 1) : u[k] = s[k]
  BY <1>1
<1>4. v \in Seq(S) /\ Len(v) = n - i /\ \A k \in 1..(n - i) : v[k] = s[i + k]
  BY <1>1
<1> HIDE DEF n, u, v
<1>5. /\ r \in Seq(S) /\ Len(r) = n - 1
      /\ \A k \in 1..(n - 1) : k < i => r[k] = u[k]
      /\ \A k \in 1..(n - 1) : k >= i => r[k] = v[k - (i - 1)]
  BY <1>1, <1>3, <1>4
<1>6. ASSUME NEW k \in 1..(n - 1), k < i PROVE r[k] = s[k]
  BY <1>1, <1>3, <1>5, <1>6
<1>7. ASSUME NEW k \in 1..(n - 1), k >= i PROVE r[k] = s[k + 1]
  <2> DEFINE m == k - (i - 1)
  <2>1. m \in 1..(n - i) /\ i + m = k + 1
    BY <1>1, <1>7
  <2> HIDE DEF m
  <2>2. v[m] = s[k + 1]
    BY <2>1, <1>4
  <2> QED BY <2>2, <1>5, <1>7 DEF m
<1> HIDE DEF r
<1>8. \A k \in 1..(n - 1) : r[k] = IF k < i THEN s[k] ELSE s[k + 1]
  <2> TAKE k \in 1..(n - 1)
  <2>1. CASE k < i
    BY <2>1, <1>6
  <2>2. CASE k >= i
    <3>1. ~ (k < i)
      BY <2>2, <1>1
    <3> QED BY <2>2, <3>1, <1>7
  <2> QED BY <2>1, <2>2, <1>1
<1> QED BY <1>2, <1>5, <1>8 DEF n

(* list_del of a node that is linked once takes it off and nothing else.    *)
LEMMA RemoveOnce ==
  ASSUME NEW S, NEW s \in Seq(S), IsInjective(s), NEW e
  PROVE  /\ RemoveFirst(s, e) \in Seq(S) /\ IsInjective(RemoveFirst(s, e))
         /\ \A x : Contains(RemoveFirst(s, e), x) <=> Contains(s, x) /\ x # e
<1>1. CASE ~Contains(s, e)
  BY <1>1 DEF RemoveFirst, Contains
<1>2. CASE Contains(s, e)
  <2>1. PICK i \in 1..Len(s) : s[i] = e
    BY <1>2 DEF Contains
  <2> DEFINE r == RemoveFirst(s, e)
  <2>5. /\ r \in Seq(S) /\ Len(r) = Len(s) - 1
        /\ \A k \in 1..Len(r) : r[k] = IF k < i THEN s[k] ELSE s[k + 1]
    BY <2>1, Removed
  <2> HIDE DEF r
  <2>6. IsInjective(r)
    <3>1. DOMAIN r = 1..Len(r) /\ DOMAIN s = 1..Len(s)
      BY <2>5
    <3>2. SUFFICES ASSUME NEW j \in 1..Len(r), NEW k \in 1..Len(r), r[j] = r[k]
                   PROVE  j = k
      BY <3>1 DEF IsInjective
    <3> DEFINE at(m) == IF m < i THEN m ELSE m + 1
    <3>3. at(j) \in 1..Len(s) /\ at(k) \in 1..Len(s) /\ s[at(j)] = s[at(k)]
      BY <2>5, <3>2
    <3>4. at(j) = at(k)
      BY <3>1, <3>3 DEF IsInjective
    <3> QED BY <3>4
  <2>7. ASSUME NEW x PROVE Contains(r, x) <=> Contains(s, x) /\ x # e
    <3>1. ASSUME Contains(r, x) PROVE Contains(s, x) /\ x # e
      <4>1. PICK k \in 1..Len(r) : r[k] = x
        BY <3>1 DEF Contains
      <4>2. PICK m \in 1..Len(s) : m # i /\ s[m] = x
        <5>1. CASE k < i
          BY <2>5, <4>1, <5>1
        <5>2. CASE k >= i
          BY <2>5, <4>1, <5>2
        <5> QED BY <5>1, <5>2
      <4>3. s[m] # e
        BY <2>1, <4>2 DEF IsInjective
      <4> QED BY <4>2, <4>3 DEF Contains
    <3>2. ASSUME Contains(s, x), x # e PROVE Contains(r, x)
      <4>1. PICK k \in 1..Len(s) : s[k] = x
        BY <3>2 DEF Contains
      <4>2. k # i
        BY <4>1, <3>2, <2>1
      <4>3. CASE k < i
        BY <4>1, <4>3, <2>5, <2>1 DEF Contains
      <4>4. CASE k > i
        <5>1. k - 1 \in 1..Len(r) /\ r[k - 1] = x
          BY <4>1, <4>4, <2>5, <2>1
        <5> QED BY <5>1 DEF Contains
      <4> QED BY <4>2, <4>3, <4>4, <2>1, <4>1
    <3> QED BY <3>1, <3>2
  <2> QED BY <2>5, <2>6, <2>7 DEF r
<1> QED BY <1>1, <1>2
-----------------------------------------------------------------------------
(* A nonempty set of positions has a first one.                             *)
LEMMA FirstPosition ==
  ASSUME NEW P \in SUBSET Nat, P # {}
  PROVE  Min(P) \in P /\ \A i \in P : Min(P) <= i
<1> DEFINE R == OpToRel(<, Nat)
<1>1. IsWellFoundedOn(R, Nat)
  BY NatLessThanWellFounded
<1>2. \A x, y \in Nat : x < y => <<x, y>> \in R
  BY DEF OpToRel
<1> HIDE DEF R
<1>3. PICK m \in P : \A i \in P : ~ (<<i, m>> \in R)
  BY <1>1, WFMin
<1>4. \A i \in P : m <= i
  <2> TAKE i \in P
  <2>1. i \in Nat /\ m \in Nat
    OBVIOUS
  <2>2. ~ (i < m)
    BY <1>2, <1>3, <2>1, Zenon
  <2> QED BY <2>1, <2>2
<1> QED BY <1>4 DEF Min

(* A bounded set of positions that is not empty has a last.                 *)
LEMMA LastPosition ==
  ASSUME NEW n \in Nat, NEW P \in SUBSET (0..(n - 1)), P # {}
  PROVE  \E i \in P : \A j \in P : j <= i
<1> DEFINE Q == {n - 1 - i : i \in P}
<1>1. Q \in SUBSET Nat /\ Q # {}
  <2>1. \A i \in P : i \in Int /\ n - 1 - i \in Nat
    OBVIOUS
  <2> QED BY <2>1
<1>2. Min(Q) \in Q /\ \A k \in Q : Min(Q) <= k
  BY <1>1, FirstPosition
<1>3. PICK i \in P : Min(Q) = n - 1 - i
  BY <1>2
<1>4. \A j \in P : n - 1 - i <= n - 1 - j
  BY <1>2, <1>3
<1> QED BY <1>4

(* Where the elements stand once e was added before the one at i, or at the *)
(* tail.                                                                    *)
LEMMA Inserted ==
  ASSUME NEW S, NEW s \in Seq(S), NEW e \in S, NEW i \in 1..(Len(s) + 1)
  PROVE  LET r == InsertAt(s, i, e) IN
           /\ r \in Seq(S) /\ Len(r) = Len(s) + 1 /\ r[i] = e
           /\ \A k \in 1..Len(s) : r[IF k < i THEN k ELSE k + 1] = s[k]
           /\ \A k \in 1..Len(r) : k # i => r[k] = s[IF k < i THEN k ELSE k - 1]
<1> DEFINE n == Len(s)
           u == SubSeq(s, 1, i - 1)
           v == SubSeq(s, i, n)
           r == u \o <<e>> \o v
<1>1. n \in Nat /\ i \in Int /\ 1 <= i /\ i <= n + 1
  OBVIOUS
<1>2. u \in Seq(S) /\ Len(u) = i - 1 /\ \A k \in 1..(i - 1) : u[k] = s[k]
  BY <1>1
<1>3. v \in Seq(S) /\ Len(v) = n - i + 1 /\ \A k \in 1..(n - i + 1) : v[k] = s[k + i - 1]
  BY <1>1
<1> HIDE DEF n, u, v
<1> DEFINE w == u \o <<e>>
<1>4. /\ w \in Seq(S) /\ Len(w) = i /\ w[i] = e
      /\ \A k \in 1..(i - 1) : w[k] = u[k]
  BY <1>1, <1>2
<1> HIDE DEF w
<1> DEFINE q == w \o v
<1>5. /\ q \in Seq(S) /\ Len(q) = n + 1
      /\ \A k \in 1..i : q[k] = w[k]
      /\ \A k \in (i + 1)..(n + 1) : q[k] = v[k - i]
  <2>1. i \in Nat /\ n - i + 1 \in Nat /\ n \in Nat
    BY <1>1
  <2>2. q \in Seq(S) /\ Len(q) = Len(w) + Len(v)
    BY <1>3, <1>4
  <2>3. \A k \in 1..i : q[k] = w[k]
    BY <1>3, <1>4, <2>1
  <2>4. \A k \in (i + 1)..(n + 1) : q[k] = v[k - i]
    BY <1>3, <1>4, <2>1
  <2>5. Len(w) + Len(v) = n + 1
    BY <1>1, <1>3, <1>4
  <2> HIDE DEF q
  <2> QED BY <2>2, <2>3, <2>4, <2>5
<1> HIDE DEF q
<1>6. \A k \in 1..(i - 1) : q[k] = s[k]
  BY <1>1, <1>2, <1>4, <1>5
<1>7. \A k \in (i + 1)..(n + 1) : q[k] = s[k - 1]
  <2> TAKE k \in (i + 1)..(n + 1)
  <2> DEFINE m == k - i
  <2>1. m \in 1..(n - i + 1) /\ m + i - 1 = k - 1
    BY <1>1
  <2>2. q[k] = v[m]
    BY <1>5
  <2> HIDE DEF m
  <2> QED BY <1>3, <2>1, <2>2
<1>8. q[i] = e
  BY <1>1, <1>4, <1>5
<1>9. \A k \in 1..n : q[IF k < i THEN k ELSE k + 1] = s[k]
  <2> TAKE k \in 1..n
  <2>1. CASE k < i
    BY <1>1, <1>6, <2>1
  <2>2. CASE ~ (k < i)
    <3>1. k + 1 \in (i + 1)..(n + 1) /\ (k + 1) - 1 = k
      BY <1>1, <2>2
    <3>2. q[k + 1] = s[(k + 1) - 1]
      BY <1>7, <3>1
    <3> QED BY <2>2, <3>1, <3>2
  <2> QED BY <2>1, <2>2
<1>10. \A k \in 1..(n + 1) : k # i => q[k] = s[IF k < i THEN k ELSE k - 1]
  <2> SUFFICES ASSUME NEW k \in 1..(n + 1), k # i PROVE q[k] = s[IF k < i THEN k ELSE k - 1]
    OBVIOUS
  <2>1. CASE k < i
    BY <1>1, <1>6, <2>1
  <2>2. CASE k > i
    BY <1>1, <1>7, <2>2
  <2> QED BY <1>1, <2>1, <2>2
<1>11. InsertAt(s, i, e) = q
  BY DEF InsertAt, q, w, u, v, n
<1> QED BY <1>5, <1>8, <1>9, <1>10, <1>11 DEF n

(* A new element put before the one at i.                                   *)
LEMMA InsertOnce ==
  ASSUME NEW S, NEW s \in Seq(S), IsInjective(s), NEW e \in S, ~Contains(s, e), NEW i \in 1..(Len(s) + 1)
  PROVE  /\ InsertAt(s, i, e) \in Seq(S) /\ IsInjective(InsertAt(s, i, e))
         /\ \A x : Contains(InsertAt(s, i, e), x) <=> Contains(s, x) \/ x = e
<1> DEFINE r == InsertAt(s, i, e)
           at(k) == IF k < i THEN k ELSE k - 1
<1>1. /\ r \in Seq(S) /\ Len(r) = Len(s) + 1 /\ r[i] = e
      /\ \A k \in 1..Len(s) : r[IF k < i THEN k ELSE k + 1] = s[k]
      /\ \A k \in 1..Len(r) : k # i => r[k] = s[at(k)]
  BY Inserted
<1> HIDE DEF r
<1>2. \A k \in 1..Len(r) : k # i => at(k) \in 1..Len(s) /\ r[k] = s[at(k)] /\ r[k] # e
  BY <1>1 DEF Contains
<1>3. ASSUME NEW j \in 1..Len(r), NEW k \in 1..Len(r), r[j] = r[k] PROVE j = k
  <2>1. CASE j = i \/ k = i
    BY <1>1, <1>2, <1>3, <2>1
  <2>2. CASE j # i /\ k # i
    <3>1. /\ at(j) \in 1..Len(s) /\ r[j] = s[at(j)]
          /\ at(k) \in 1..Len(s) /\ r[k] = s[at(k)]
      BY <1>2, <2>2
    <3>2. \A a, b \in 1..Len(s) : s[a] = s[b] => a = b
      BY DEF IsInjective
    <3>3. at(j) = at(k)
      <4> HIDE DEF at
      <4> QED BY <1>3, <3>1, <3>2
    <3> QED BY <2>2, <3>3
  <2> QED BY <2>1, <2>2
<1>4. IsInjective(r)
  BY <1>1, <1>3 DEF IsInjective
<1>5. ASSUME NEW x, Contains(r, x) PROVE Contains(s, x) \/ x = e
  <2>1. PICK k \in 1..Len(r) : r[k] = x
    BY <1>5 DEF Contains
  <2> QED BY <1>1, <1>2, <2>1 DEF Contains
<1>6. ASSUME NEW x, Contains(s, x) \/ x = e PROVE Contains(r, x)
  <2>1. CASE x = e
    BY <1>1, <2>1 DEF Contains
  <2>2. CASE Contains(s, x)
    <3>1. PICK k \in 1..Len(s) : s[k] = x
      BY <2>2 DEF Contains
    <3>2. CASE k < i
      BY <1>1, <3>1, <3>2 DEF Contains
    <3>3. CASE ~ (k < i)
      <4>1. k + 1 \in 1..Len(r) /\ r[k + 1] = x
        BY <1>1, <3>1, <3>3
      <4> QED BY <4>1 DEF Contains
    <3> QED BY <3>2, <3>3
  <2> QED BY <1>6, <2>1, <2>2
<1> QED BY <1>1, <1>4, <1>5, <1>6 DEF r
-----------------------------------------------------------------------------
(* The order survives the head and any other element being taken off.      *)
LEMMA TailOrdered ==
  ASSUME NEW S, NEW s \in Seq(S), s # <<>>, NEW key \in [S -> Int], Ordered(s, key)
  PROVE  Ordered(Tail(s), key)
<1>1. /\ Len(Tail(s)) = Len(s) - 1 /\ Len(s) \in Nat
      /\ \A i \in 1..(Len(s) - 1) : Tail(s)[i] = s[i + 1]
  OBVIOUS
<1>2. SUFFICES ASSUME NEW i \in 1..(Len(s) - 1), NEW j \in 1..(Len(s) - 1), i <= j
               PROVE  key[Tail(s)[i]] <= key[Tail(s)[j]]
  BY <1>1 DEF Ordered
<1>3. i + 1 \in 1..Len(s) /\ j + 1 \in 1..Len(s) /\ i + 1 <= j + 1
  BY <1>1, <1>2
<1>4. key[s[i + 1]] <= key[s[j + 1]]
  BY <1>3 DEF Ordered
<1> QED BY <1>1, <1>4

(* The order survives an element being unlinked.                            *)
LEMMA RemoveOrdered ==
  ASSUME NEW S, NEW s \in Seq(S), IsInjective(s), NEW key \in [S -> Int], Ordered(s, key), NEW e
  PROVE  Ordered(RemoveFirst(s, e), key)
<1>1. CASE ~Contains(s, e)
  BY <1>1 DEF RemoveFirst, Contains
<1>2. CASE Contains(s, e)
  <2>1. PICK i \in 1..Len(s) : s[i] = e
    BY <1>2 DEF Contains
  <2> DEFINE r == RemoveFirst(s, e)
             at(k) == IF k < i THEN k ELSE k + 1
  <2>2. Len(r) = Len(s) - 1 /\ \A k \in 1..Len(r) : r[k] = s[at(k)]
    BY <2>1, Removed
  <2> HIDE DEF r
  <2>3. SUFFICES ASSUME NEW j \in 1..Len(r), NEW k \in 1..Len(r), j <= k
                 PROVE  key[r[j]] <= key[r[k]]
    BY DEF Ordered, r
  <2>4. at(j) \in 1..Len(s) /\ at(k) \in 1..Len(s) /\ at(j) <= at(k)
    BY <2>2, <2>3
  <2> HIDE DEF at
  <2> QED BY <2>2, <2>4 DEF Ordered
<1> QED BY <1>1, <1>2

(* The order survives an element put where its key belongs.                 *)
LEMMA InsertOrdered ==
  ASSUME NEW S, NEW s \in Seq(S), NEW key \in [S -> Int], Ordered(s, key),
         NEW e \in S, NEW i \in 1..(Len(s) + 1),
         \A k \in 1..Len(s) : IF k < i THEN key[s[k]] <= key[e] ELSE key[e] <= key[s[k]]
  PROVE  Ordered(InsertAt(s, i, e), key)
<1> DEFINE r == InsertAt(s, i, e)
           at(k) == IF k < i THEN k ELSE k - 1
<1>1. /\ r \in Seq(S) /\ Len(r) = Len(s) + 1 /\ r[i] = e
      /\ \A k \in 1..Len(r) : k # i => r[k] = s[at(k)]
  BY Inserted
<1> HIDE DEF r
<1>2. SUFFICES ASSUME NEW j \in 1..Len(r), NEW k \in 1..Len(r), j <= k
               PROVE  key[r[j]] <= key[r[k]]
  BY DEF Ordered, r
<1>3. CASE j = i /\ k = i
  BY <1>1, <1>3
<1>4. CASE j = i /\ k # i
  <2>1. at(k) \in 1..Len(s) /\ ~ (at(k) < i)
    BY <1>1, <1>2, <1>4
  <2> HIDE DEF at
  <2> QED BY <1>1, <1>4, <2>1
<1>5. CASE j # i /\ k = i
  <2>1. at(j) \in 1..Len(s) /\ at(j) < i
    BY <1>1, <1>2, <1>5
  <2> HIDE DEF at
  <2> QED BY <1>1, <1>5, <2>1
<1>6. CASE j # i /\ k # i
  <2>1. at(j) \in 1..Len(s) /\ at(k) \in 1..Len(s) /\ at(j) <= at(k)
    <3>1. Len(s) \in Nat /\ j \in Int /\ k \in Int /\ i \in Int
      BY <1>1
    <3>2. at(j) \in 1..Len(s)
      BY <1>1, <1>6, <3>1
    <3>3. at(k) \in 1..Len(s)
      BY <1>1, <1>6, <3>1
    <3>4. at(j) <= at(k)
      BY <1>2, <1>6, <3>1
    <3> QED BY <3>2, <3>3, <3>4
  <2> HIDE DEF at
  <2> QED BY <1>1, <1>6, <2>1 DEF Ordered
<1> QED BY <1>3, <1>4, <1>5, <1>6
-----------------------------------------------------------------------------
(* Rings: the slot of a position is its remainder by the capacity.         *)

(* Division with remainder, with the quotient named.                       *)
LEMMA Divides ==
  ASSUME NEW C \in Int, C > 0, NEW p \in Int, NEW k \in Int, k = p \div C
  PROVE  (p % C) + C * k = p
OBVIOUS

(* A number is its remainder and a multiple of the divisor.                *)
LEMMA Remainder ==
  ASSUME NEW C \in Int, C > 0, NEW p \in Int
  PROVE  p % C \in 0..C - 1 /\ \E k \in Int : p = (p % C) + C * k
<1> DEFINE k == p \div C
<1>1. k \in Int /\ p % C \in 0..C - 1
  OBVIOUS
<1>2. (p % C) + C * k = p
  <2>1. k = p \div C
    OBVIOUS
  <2> HIDE DEF k
  <2> QED BY <1>1, <2>1, Divides
<1> HIDE DEF k
<1> QED BY <1>1, <1>2

(* Positions less than a lap apart have different slots.                   *)
LEMMA SlotsApart ==
  ASSUME NEW C \in Int, C > 0, NEW p \in Int, NEW q \in Int, p < q, q < p + C
  PROVE  p % C # q % C
<1> SUFFICES ASSUME p % C = q % C PROVE FALSE
  OBVIOUS
<1>1. PICK k \in Int : p = (p % C) + C * k
  BY Remainder
<1>2. PICK j \in Int : q = (q % C) + C * j
  BY Remainder
<1>3. q - p = C * j - C * k
  <2> DEFINE x == p % C
             y == q % C
             a == C * k
             b == C * j
  <2>1. x \in Int /\ y \in Int /\ a \in Int /\ b \in Int /\ x = y /\ p = x + a /\ q = y + b
    BY <1>1, <1>2
  <2> HIDE DEF x, y, a, b
  <2>2. q - p = b - a
    BY <2>1
  <2> QED BY <2>2 DEF a, b
<1>4. C * j - C * k = C * (j - k)
  OBVIOUS
<1>5. j - k >= 1 \/ j - k <= 0
  OBVIOUS
<1>6. CASE j - k >= 1
  <2>1. C * (j - k) >= C
    BY <1>6
  <2> QED BY <2>1, <1>3, <1>4
<1>7. CASE j - k <= 0
  <2>1. C * (j - k) <= 0
    BY <1>7
  <2> QED BY <2>1, <1>3, <1>4
<1> QED BY <1>5, <1>6, <1>7
=============================================================================
