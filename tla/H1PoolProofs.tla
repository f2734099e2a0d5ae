---------------------------- MODULE H1PoolProofs ----------------------------
(***************************************************************************)
(* The slots of the HTTP/1 pool are sound for any number of threads and    *)
(* origins, any limit and any size of the idle lists: an origin has as     *)
(* many slots taken as there are permits for it, in requests, in idle      *)
(* lists and in connections being dropped, and never more than the limit.  *)
(*                                                                         *)
(* Permits are counted thread by thread.  A step changes what one thread   *)
(* holds, so it is enough to know by how much.                             *)
(***************************************************************************)
EXTENDS H1Pool, FiniteSetTheorems, TLAPS

(***************************************************************************)
(* What retaining some elements of a sequence keeps.                       *)
(***************************************************************************)

\* The numbers from one to n are n.
LEMMA OneTo ==
    ASSUME NEW n \in Nat
    PROVE  IsFiniteSet(1..n) /\ Cardinality(1..n) = n
<1>1. 1 \in Int /\ n \in Int
  OBVIOUS
<1>2. IsFiniteSet(1..n) /\ Cardinality(1..n) = IF 1 > n THEN 0 ELSE n - 1 + 1
  BY <1>1, FS_Interval
<1> QED
  BY <1>2

\* The ranks of the elements that stay are the numbers up to their number, in order.
LEMMA Ranks ==
    ASSUME NEW X, NEW seq \in Seq(X), NEW S
    PROVE  LET N == Cardinality(Places(seq, S))
           IN  /\ IsFiniteSet(Places(seq, S)) /\ N \in 0..Len(seq)
               /\ \A i \in Places(seq, S) : Rank(seq, S, i) \in 1..N
               /\ \A i, j \in Places(seq, S) : i < j => Rank(seq, S, i) < Rank(seq, S, j)
               /\ \A n \in 1..N : \E i \in Places(seq, S) : Rank(seq, S, i) = n
<1> DEFINE P == Places(seq, S)
           N == Cardinality(P)
           upto(i) == { j \in P : j <= i }
<1>1. Len(seq) \in Nat /\ P \subseteq 1..Len(seq) /\ P \subseteq Nat
  BY DEF Places
<1>2. IsFiniteSet(1..Len(seq)) /\ Cardinality(1..Len(seq)) = Len(seq)
  BY <1>1, OneTo
<1> HIDE DEF P
<1>3. IsFiniteSet(P) /\ N \in Nat /\ N <= Len(seq)
  BY <1>1, <1>2, FS_Subset, FS_CardinalityType
<1>4. ASSUME NEW i \in P PROVE IsFiniteSet(upto(i)) /\ Cardinality(upto(i)) \in 1..N
  <2>1. upto(i) \subseteq P /\ i \in upto(i)
    BY <1>1
  <2>2. IsFiniteSet(upto(i)) /\ Cardinality(upto(i)) <= N /\ Cardinality(upto(i)) \in Nat
    BY <1>3, <2>1, FS_Subset, FS_CardinalityType
  <2>3. Cardinality(upto(i)) # 0
    BY <2>1, <2>2, FS_EmptySet
  <2> QED
    BY <1>3, <2>2, <2>3
<1>5. ASSUME NEW i \in P, NEW j \in P, i < j PROVE Cardinality(upto(i)) < Cardinality(upto(j))
  <2>1. upto(i) \subseteq upto(j) /\ j \in upto(j) /\ j \notin upto(i)
    <3>1. i \in Nat /\ j \in Nat /\ \A x \in P : x \in Nat
      BY <1>1
    <3>2. \A x, y : x \in upto(y) <=> x \in P /\ x <= y
      OBVIOUS
    <3> HIDE DEF upto
    <3>3. ASSUME NEW x \in upto(i) PROVE x \in upto(j)
      <4>1. x \in P /\ x <= i /\ x \in Nat
        BY <3>1, <3>2
      <4>2. x <= j
        BY <1>5, <3>1, <4>1
      <4> QED
        BY <3>2, <4>1, <4>2
    <3>4. j <= j /\ ~(j <= i)
      BY <1>5, <3>1
    <3> QED
      BY <3>2, <3>3, <3>4
  <2>2. /\ Cardinality(upto(i)) <= Cardinality(upto(j))
        /\ Cardinality(upto(j)) = Cardinality(upto(i)) => upto(j) = upto(i)
    BY <1>4, <2>1, FS_Subset
  <2>3. Cardinality(upto(i)) \in 1..N /\ Cardinality(upto(j)) \in 1..N
    BY <1>4
  <2> QED
    BY <1>3, <2>1, <2>2, <2>3
<1> DEFINE f == [i \in P |-> Cardinality(upto(i))]
<1>6. f \in Injection(P, 1..N)
  <2>1. f \in [P -> 1..N]
    BY <1>4
  <2>2. ASSUME NEW i \in P, NEW j \in P, f[i] = f[j] PROVE i = j
    <3>1. i \in Nat /\ j \in Nat
      BY <1>1
    <3>2. f[i] = Cardinality(upto(i)) /\ f[j] = Cardinality(upto(j))
      OBVIOUS
    <3>3. Cardinality(upto(i)) \in 1..N /\ Cardinality(upto(j)) \in 1..N
      BY <1>4
    <3>3b. Cardinality(upto(i)) = Cardinality(upto(j))
      BY <2>2, <3>2
    <3> HIDE DEF upto, f
    <3>3a. PICK n : n = Cardinality(upto(i)) /\ n = Cardinality(upto(j)) /\ n \in Nat
      <4>1. Cardinality(upto(i)) \in Nat
        BY <1>3, <3>3
      <4> QED
        BY <3>3b, <4>1
    <3>4. ~(i < j)
      <4>1. i < j => n < n
        BY <1>5, <3>3a
      <4> QED
        BY <3>3a, <4>1
    <3>5. ~(j < i)
      <4>1. j < i => n < n
        BY <1>5, <3>3a
      <4> QED
        BY <3>3a, <4>1
    <3> QED
      BY <3>1, <3>4, <3>5
  <2> QED
    BY <2>1, <2>2 DEF Injection, IsInjective
<1>7. IsFiniteSet(1..N) /\ Cardinality(1..N) = N
  BY <1>3, OneTo
<1>8. f \in Surjection(P, 1..N)
  BY <1>6, <1>7, FS_Injection
<1>9. \A n \in 1..N : \E i \in P : f[i] = n
  BY <1>8 DEF Surjection
<1>10. \A i : Rank(seq, S, i) = Cardinality(upto(i))
  BY DEF Rank, P
<1>11. \A n \in 1..N : \E i \in P : Rank(seq, S, i) = n
  BY <1>9, <1>10
<1> HIDE DEF upto
<1>12. /\ N \in 0..Len(seq)
       /\ \A i \in P : Rank(seq, S, i) \in 1..N
       /\ \A i, j \in P : i < j => Rank(seq, S, i) < Rank(seq, S, j)
  BY <1>1, <1>3, <1>4, <1>5, <1>10
<1> QED
  BY <1>3, <1>11, <1>12 DEF P

\* What retain leaves: the elements of the set, each from its place, in their order.
LEMMA RetainFacts ==
    ASSUME NEW X, NEW seq \in Seq(X), NEW S
    PROVE  LET r == Retain(seq, S)
           IN  /\ r \in Seq(X) /\ Len(r) <= Len(seq)
               /\ \A n \in 1..Len(r) :
                      /\ Place(seq, S, n) \in 1..Len(seq)
                      /\ r[n] = seq[Place(seq, S, n)] /\ r[n] \in S
               /\ \A m, n \in 1..Len(r) : m < n => Place(seq, S, m) < Place(seq, S, n)
               /\ \A i \in 1..Len(seq) : seq[i] \in S =>
                      \E n \in 1..Len(r) : Place(seq, S, n) = i
<1> DEFINE P == Places(seq, S)
           N == Cardinality(P)
           r == Retain(seq, S)
<1>1. /\ N \in 0..Len(seq)
      /\ \A i \in P : Rank(seq, S, i) \in 1..N
      /\ \A i, j \in P : i < j => Rank(seq, S, i) < Rank(seq, S, j)
      /\ \A n \in 1..N : \E i \in P : Rank(seq, S, i) = n
  BY Ranks
<1>2. /\ P \subseteq 1..Len(seq) /\ P \subseteq Nat
      /\ \A i \in P : seq[i] \in S /\ seq[i] \in X
  BY DEF Places
<1>2a. \A i \in 1..Len(seq) : seq[i] \in S => i \in P
  BY DEF Places
<1>3. ASSUME NEW n \in 1..N
      PROVE  Place(seq, S, n) \in P /\ Rank(seq, S, Place(seq, S, n)) = n
  BY <1>1 DEF Place
<1>4. r = [n \in 1..N |-> seq[Place(seq, S, n)]]
  BY DEF Retain
<1> HIDE DEF r, P, N
<1>5. \A n \in 1..N : seq[Place(seq, S, n)] \in X
  BY <1>2, <1>3
<1>6. r \in Seq(X) /\ Len(r) = N /\ \A n \in 1..N : r[n] = seq[Place(seq, S, n)]
  BY <1>1, <1>4, <1>5
<1>7. ASSUME NEW m \in 1..N, NEW n \in 1..N, m < n PROVE Place(seq, S, m) < Place(seq, S, n)
  <2> DEFINE a == Place(seq, S, m)
             b == Place(seq, S, n)
  <2>1. a \in P /\ b \in P /\ Rank(seq, S, a) = m /\ Rank(seq, S, b) = n
    BY <1>3
  <2> HIDE DEF a, b
  <2>2. a \in Nat /\ b \in Nat
    BY <1>2, <2>1
  <2>3. ~(b < a) /\ a # b
    BY <1>1, <1>7, <2>1
  <2> QED
    BY <2>2, <2>3 DEF a, b
<1>8. ASSUME NEW i \in P PROVE \E n \in 1..N : Place(seq, S, n) = i
  <2>1. PICK n \in 1..N : n = Rank(seq, S, i)
    BY <1>1
  <2>2. Place(seq, S, n) \in P /\ Rank(seq, S, Place(seq, S, n)) = n
    BY <1>3
  <2>3. i \in Nat /\ Place(seq, S, n) \in Nat
    BY <1>2, <2>2
  <2>4. ~(i < Place(seq, S, n)) /\ ~(Place(seq, S, n) < i)
    BY <1>1, <2>1, <2>2
  <2> QED
    BY <2>3, <2>4
<1>9. Len(r) <= Len(seq)
  BY <1>1, <1>6
<1> QED
  BY <1>2, <1>2a, <1>3, <1>6, <1>7, <1>8, <1>9 DEF r

-----------------------------------------------------------------------------
(***************************************************************************)
(* How often an origin is in a list of connections.                        *)
(***************************************************************************)
Count(seq, k) == Cardinality(Places(seq, {k}))

\* A list holds an origin a natural number of times, none if it is empty.
LEMMA CountType ==
    ASSUME NEW seq \in Seq(Keys), NEW k
    PROVE  /\ IsFiniteSet(Places(seq, {k})) /\ Count(seq, k) \in Nat
           /\ Len(seq) = 0 => Count(seq, k) = 0
<1> DEFINE N == Cardinality(Places(seq, {k}))
<1>1. IsFiniteSet(Places(seq, {k})) /\ N \in 0..Len(seq)
  BY Ranks
<1> HIDE DEF N
<1>2. Len(seq) \in Nat
  OBVIOUS
<1>3. N \in Nat /\ (Len(seq) = 0 => N = 0)
  BY <1>1, <1>2
<1> QED
  BY <1>1, <1>3 DEF N, Count

\* c is a followed by b.
Parts(a, b, c) ==
    /\ Len(c) = Len(a) + Len(b)
    /\ \A i \in 1..Len(a) : c[i] = a[i]
    /\ \A i \in 1..Len(b) : c[Len(a) + i] = b[i]

\* A list in two parts holds what its parts hold.
LEMMA CountSplit ==
    ASSUME NEW a \in Seq(Keys), NEW b \in Seq(Keys), NEW c \in Seq(Keys), NEW k,
           Parts(a, b, c)
    PROVE  Count(c, k) = Count(a, k) + Count(b, k)
<1> DEFINE A == Places(a, {k})
           B == Places(b, {k})
           C == Places(c, {k})
           D == { i \in C : i > Len(a) }
           f == [i \in B |-> Len(a) + i]
<1>1. Len(a) \in Nat /\ Len(b) \in Nat /\ Len(c) \in Nat
  OBVIOUS
<1>2a. /\ Len(c) = Len(a) + Len(b)
       /\ \A i \in 1..Len(a) : c[i] = a[i]
       /\ \A i \in 1..Len(b) : c[Len(a) + i] = b[i]
  BY DEF Parts
<1>2. /\ \A i : i \in A <=> i \in 1..Len(a) /\ a[i] = k
      /\ \A i : i \in B <=> i \in 1..Len(b) /\ b[i] = k
      /\ \A i : i \in C <=> i \in 1..Len(c) /\ c[i] = k
  BY DEF Places
<1>3. IsFiniteSet(A) /\ IsFiniteSet(B) /\ IsFiniteSet(C)
  BY CountType
<1> HIDE DEF A, B, C
<1>4. C = A \cup D /\ A \cap D = {}
  <2>1. ASSUME NEW i \in A PROVE i \in C /\ ~(i > Len(a))
    BY <1>1, <1>2a, <1>2
  <2>2. ASSUME NEW i \in C, ~(i > Len(a)) PROVE i \in A
    BY <1>1, <1>2a, <1>2, <2>2
  <2> QED
    BY <2>1, <2>2
<1>5. f \in Bijection(B, D)
  <2>1. ASSUME NEW i \in B PROVE Len(a) + i \in D
    <3>1. i \in 1..Len(b) /\ b[i] = k /\ i \in Nat
      BY <1>1, <1>2a, <1>2
    <3>2. Len(a) + i \in 1..Len(c) /\ Len(a) + i > Len(a)
      BY <1>1, <1>2a, <3>1
    <3>3. c[Len(a) + i] = k
      <4>1. c[Len(a) + i] = b[i]
        BY <1>2a, <3>1
      <4> QED
        BY <3>1, <4>1
    <3> QED
      BY <1>2, <3>2, <3>3
  <2>2. ASSUME NEW i \in D PROVE i - Len(a) \in B /\ Len(a) + (i - Len(a)) = i
    <3>1. i \in 1..Len(c) /\ c[i] = k /\ i > Len(a) /\ i \in Nat
      BY <1>1, <1>2a, <1>2
    <3>2. PICK j \in 1..Len(b) : j = i - Len(a) /\ Len(a) + j = i
      BY <1>1, <1>2a, <3>1
    <3>3. b[j] = k
      <4>1. c[Len(a) + j] = b[j]
        BY <1>2a, <3>2
      <4> QED
        BY <3>1, <3>2, <4>1
    <3> QED
      BY <1>2, <3>2, <3>3
  <2>3. \A i \in B : i \in Nat
    BY <1>1, <1>2a, <1>2
  <2> HIDE DEF D
  <2>4. f \in [B -> D]
    BY <2>1
  <2>5. \A i, j \in B : f[i] = f[j] => i = j
    BY <1>1, <2>3
  <2>6. \A i \in D : \E j \in B : f[j] = i
    BY <2>2
  <2> QED
    BY <2>4, <2>5, <2>6 DEF Bijection, Injection, IsInjective, Surjection
<1>6. IsFiniteSet(D) /\ Cardinality(D) = Cardinality(B)
  BY <1>3, <1>5, FS_Bijection DEF ExistsBijection
<1>7. Cardinality(A \cap D) = 0
  BY <1>4, FS_EmptySet
<1> HIDE DEF D
<1>8. Cardinality(C) = Cardinality(A) + Cardinality(D) - Cardinality(A \cap D)
  BY <1>3, <1>4, <1>6, FS_Union
<1>9. Cardinality(A) \in Nat /\ Cardinality(B) \in Nat
  BY <1>3, FS_CardinalityType
<1> QED
  BY <1>6, <1>7, <1>8, <1>9 DEF Count, A, B, C

\* Putting lists together.
LEMMA CountConcat ==
    ASSUME NEW a \in Seq(Keys), NEW b \in Seq(Keys), NEW k
    PROVE  a \o b \in Seq(Keys) /\ Count(a \o b, k) = Count(a, k) + Count(b, k)
<1> DEFINE c == a \o b
<1>1. c \in Seq(Keys) /\ Len(c) = Len(a) + Len(b)
  OBVIOUS
<1>2. \A i \in 1..Len(a) : c[i] = a[i]
  OBVIOUS
<1>3. \A i \in 1..Len(b) : c[Len(a) + i] = b[i]
  OBVIOUS
<1> HIDE DEF c
<1>4. Count(c, k) = Count(a, k) + Count(b, k)
  <2>1. Parts(a, b, c)
    BY <1>1, <1>2, <1>3 DEF Parts
  <2> QED
    BY <1>1, <2>1, CountSplit
<1> QED
  BY <1>1, <1>4 DEF c

One(x, k) == IF x = k THEN 1 ELSE 0

\* A list of one connection.
LEMMA CountOne ==
    ASSUME NEW x \in Keys, NEW k
    PROVE  << x >> \in Seq(Keys) /\ Len(<< x >>) = 1 /\ Count(<< x >>, k) = One(x, k)
<1> DEFINE s == << x >>
<1>1. s \in Seq(Keys) /\ Len(s) = 1 /\ s[1] = x
  OBVIOUS
<1> HIDE DEF s
<1>2. CASE x = k
  <2>1. Places(s, {k}) = {1}
    BY <1>1, <1>2 DEF Places
  <2> QED
    BY <1>1, <1>2, <2>1, FS_Singleton DEF Count, One, s
<1>3. CASE x # k
  <2>1. Places(s, {k}) = {}
    BY <1>1, <1>3 DEF Places
  <2> QED
    BY <1>1, <1>3, <2>1, FS_EmptySet DEF Count, One, s
<1> QED
  BY <1>2, <1>3

\* The first connection of a list and the rest.
LEMMA CountTail ==
    ASSUME NEW seq \in Seq(Keys), NEW k, seq # << >>
    PROVE  /\ Head(seq) \in Keys /\ Tail(seq) \in Seq(Keys)
           /\ Count(seq, k) = One(Head(seq), k) + Count(Tail(seq), k)
<1> DEFINE h == << Head(seq) >>
           r == Tail(seq)
<1>1. Head(seq) \in Keys /\ r \in Seq(Keys) /\ Len(seq) = 1 + Len(r)
  OBVIOUS
<1>2. seq[1] = Head(seq) /\ \A i \in 1..Len(r) : seq[1 + i] = r[i]
  OBVIOUS
<1>3. h \in Seq(Keys) /\ Len(h) = 1 /\ Count(h, k) = One(Head(seq), k) /\ h[1] = Head(seq)
  BY <1>1, CountOne
<1> HIDE DEF h, r
<1>4. Count(seq, k) = Count(h, k) + Count(r, k)
  <2>1. \A i \in 1..Len(h) : seq[i] = h[i]
    BY <1>2, <1>3
  <2>2. Len(seq) = Len(h) + Len(r) /\ \A i \in 1..Len(r) : seq[Len(h) + i] = r[i]
    BY <1>1, <1>2, <1>3
  <2>3. Parts(h, r, seq)
    BY <2>1, <2>2 DEF Parts
  <2> QED
    BY <1>1, <1>3, <2>3, CountSplit
<1> QED
  BY <1>1, <1>3, <1>4 DEF r

\* A list cut after n connections.
LEMMA CountCut ==
    ASSUME NEW seq \in Seq(Keys), NEW k, NEW n \in 0..Len(seq)
    PROVE  /\ SubSeq(seq, 1, n) \in Seq(Keys) /\ SubSeq(seq, n + 1, Len(seq)) \in Seq(Keys)
           /\ Len(SubSeq(seq, 1, n)) = n /\ Len(SubSeq(seq, n + 1, Len(seq))) = Len(seq) - n
           /\ Count(seq, k) = Count(SubSeq(seq, 1, n), k)
                              + Count(SubSeq(seq, n + 1, Len(seq)), k)
<1> DEFINE a == SubSeq(seq, 1, n)
           b == SubSeq(seq, n + 1, Len(seq))
<1>1. Len(seq) \in Nat /\ n \in Nat /\ n <= Len(seq)
  OBVIOUS
<1>2. a \in Seq(Keys) /\ Len(a) = n /\ \A i \in 1..n : a[i] = seq[i]
  BY <1>1
<1>3. b \in Seq(Keys) /\ Len(b) = Len(seq) - n /\ \A i \in 1..Len(b) : b[i] = seq[n + i]
  BY <1>1
<1> HIDE DEF a, b
<1>4. Count(seq, k) = Count(a, k) + Count(b, k)
  <2>1. /\ Len(seq) = Len(a) + Len(b)
        /\ \A i \in 1..Len(a) : seq[i] = a[i]
        /\ \A i \in 1..Len(b) : seq[Len(a) + i] = b[i]
    BY <1>1, <1>2, <1>3
  <2>2. Parts(a, b, seq)
    BY <2>1 DEF Parts
  <2> QED
    BY <1>2, <1>3, <2>2, CountSplit
<1> QED
  BY <1>2, <1>3, <1>4 DEF a, b

\* What retain leaves of one origin: all of it, if the origin is one of those that stay.
LEMMA CountRetain ==
    ASSUME NEW seq \in Seq(Keys), NEW S, NEW k
    PROVE  /\ Retain(seq, S) \in Seq(Keys) /\ Len(Retain(seq, S)) <= Len(seq)
           /\ Count(Retain(seq, S), k) = IF k \in S THEN Count(seq, k) ELSE 0
<1> DEFINE r == Retain(seq, S)
           A == Places(r, {k})
           B == Places(seq, {k})
           f == [n \in A |-> Place(seq, S, n)]
<1>1. /\ r \in Seq(Keys) /\ Len(r) <= Len(seq)
      /\ \A n \in 1..Len(r) : /\ Place(seq, S, n) \in 1..Len(seq)
                              /\ r[n] = seq[Place(seq, S, n)] /\ r[n] \in S
      /\ \A m, n \in 1..Len(r) : m < n => Place(seq, S, m) < Place(seq, S, n)
      /\ \A i \in 1..Len(seq) : seq[i] \in S => \E n \in 1..Len(r) : Place(seq, S, n) = i
  BY RetainFacts
<1> HIDE DEF r
<1>2. /\ \A n : n \in A <=> n \in 1..Len(r) /\ r[n] = k
      /\ \A i : i \in B <=> i \in 1..Len(seq) /\ seq[i] = k
  BY DEF Places
<1> HIDE DEF A, B
<1>3. CASE k \notin S
  <2>1. A = {}
    BY <1>1, <1>2, <1>3
  <2> QED
    BY <1>1, <1>3, <2>1, FS_EmptySet DEF Count, A, r
<1>4. CASE k \in S
  <2>1. \A n \in A : Place(seq, S, n) \in B
    BY <1>1, <1>2
  <2>2. ASSUME NEW i \in B PROVE \E n \in A : Place(seq, S, n) = i
    <3>1. i \in 1..Len(seq) /\ seq[i] = k
      BY <1>2
    <3>2. PICK n \in 1..Len(r) : Place(seq, S, n) = i
      BY <1>1, <1>4, <3>1
    <3>3. r[n] = k
      BY <1>1, <3>1, <3>2
    <3> QED
      BY <1>2, <3>2, <3>3
  <2>3. ASSUME NEW m \in A, NEW n \in A, Place(seq, S, m) = Place(seq, S, n) PROVE m = n
    <3>1. Len(r) \in Nat /\ Len(seq) \in Nat
      BY <1>1
    <3>2. m \in 1..Len(r) /\ n \in 1..Len(r) /\ m \in Nat /\ n \in Nat
      BY <1>2, <3>1
    <3>3. PICK p \in Nat : p = Place(seq, S, m) /\ p = Place(seq, S, n)
      BY <1>1, <2>3, <3>1, <3>2
    <3>4. (m < n => p < p) /\ (n < m => p < p)
      BY <1>1, <3>2, <3>3
    <3> QED
      BY <3>2, <3>4
  <2>4. f \in [A -> B] /\ \A n \in A : f[n] = Place(seq, S, n)
    BY <2>1
  <2> HIDE DEF f
  <2>5. f \in Bijection(A, B)
    BY <2>2, <2>3, <2>4 DEF Bijection, Injection, IsInjective, Surjection
  <2>6. IsFiniteSet(A)
    BY <1>1, CountType DEF A
  <2>7. Cardinality(B) = Cardinality(A)
    BY <2>5, <2>6, FS_Bijection DEF ExistsBijection
  <2> QED
    BY <1>1, <1>4, <2>7 DEF Count, A, B, r
<1> QED
  BY <1>3, <1>4

\* Taking the first connection to an origin out of a list.
LEMMA CountRemove ==
    ASSUME NEW seq \in Seq(Keys), NEW x \in ToSet(seq), NEW k
    PROVE  LET r == RemoveAt(seq, Place(seq, {x}, 1))
           IN  /\ x \in Keys /\ r \in Seq(Keys) /\ Len(r) <= Len(seq)
               /\ Count(seq, k) = Count(r, k) + One(x, k)
<1> DEFINE P == Places(seq, {x})
           N == Cardinality(P)
           at == Place(seq, {x}, 1)
<1>1. PICK j \in 1..Len(seq) : seq[j] = x
  BY DEF ToSet
<1>2. x \in Keys /\ Len(seq) \in Nat
  BY <1>1
<1>3. at \in 1..Len(seq) /\ seq[at] = x
  <2>1. /\ N \in 0..Len(seq) /\ \A i \in P : Rank(seq, {x}, i) \in 1..N
        /\ \A n \in 1..N : \E i \in P : Rank(seq, {x}, i) = n
    BY Ranks
  <2>2. j \in P
    BY <1>1 DEF Places
  <2>2a. Rank(seq, {x}, j) \in 1..N
    BY <2>1, <2>2
  <2> HIDE DEF N
  <2>3. 1 \in 1..N
    BY <1>2, <2>1, <2>2a
  <2>4. \E i \in P : Rank(seq, {x}, i) = 1
    BY <2>1, <2>3
  <2>5. at \in P
    BY <2>4 DEF Place
  <2> QED
    BY <2>5 DEF Places
<1> HIDE DEF P, N, at
<1>4. PICK n \in 0..Len(seq) : n + 1 = at /\ n = at - 1
  BY <1>2, <1>3
<1> DEFINE a == SubSeq(seq, 1, at - 1)
           b == SubSeq(seq, at, Len(seq))
           c == SubSeq(seq, at + 1, Len(seq))
           h == << x >>
<1>5. /\ a \in Seq(Keys) /\ b \in Seq(Keys) /\ Len(a) = n /\ Len(b) = Len(seq) - n
      /\ Count(seq, k) = Count(a, k) + Count(b, k)
  <2>1. a = SubSeq(seq, 1, n) /\ b = SubSeq(seq, n + 1, Len(seq))
    BY <1>4
  <2> HIDE DEF a, b
  <2> QED
    BY <2>1, CountCut
<1>6. /\ c \in Seq(Keys) /\ Len(c) = Len(seq) - at
      /\ \A i \in 1..Len(c) : c[i] = seq[at + i]
  BY <1>2, <1>3
<1>7. /\ b[1] = x /\ \A i \in 1..Len(c) : b[1 + i] = c[i]
  BY <1>2, <1>3
<1>8. h \in Seq(Keys) /\ Len(h) = 1 /\ Count(h, k) = One(x, k) /\ h[1] = x
  BY <1>2, CountOne
<1>9. RemoveAt(seq, at) = a \o c
  BY DEF RemoveAt
<1> HIDE DEF a, b, c, h
<1>10. Count(b, k) = Count(h, k) + Count(c, k)
  <2>1. Len(b) = Len(h) + Len(c)
    BY <1>2, <1>3, <1>4, <1>5, <1>6, <1>8
  <2>2. \A i \in 1..Len(h) : b[i] = h[i]
    BY <1>7, <1>8
  <2>3. \A i \in 1..Len(c) : b[Len(h) + i] = c[i]
    BY <1>7, <1>8
  <2>4. Parts(h, c, b)
    BY <2>1, <2>2, <2>3 DEF Parts
  <2> QED
    BY <1>5, <1>6, <1>8, <2>4, CountSplit
<1>11. a \o c \in Seq(Keys) /\ Count(a \o c, k) = Count(a, k) + Count(c, k)
  BY <1>5, <1>6, CountConcat
<1>12. Len(a \o c) <= Len(seq)
  <2>0. a \in Seq(Keys) /\ c \in Seq(Keys)
    BY <1>5, <1>6
  <2>1. Len(a \o c) = Len(a) + Len(c)
    BY <2>0
  <2> QED
    BY <1>2, <1>3, <1>4, <1>5, <1>6, <2>1
<1>13. Count(a, k) \in Nat /\ Count(c, k) \in Nat /\ One(x, k) \in Nat
  BY <1>5, <1>6, CountType DEF One
<1>14. Count(seq, k) = Count(a \o c, k) + One(x, k)
  BY <1>5, <1>8, <1>10, <1>11, <1>13
<1> QED
  BY <1>2, <1>9, <1>11, <1>12, <1>14 DEF at

-----------------------------------------------------------------------------
(***************************************************************************)
(* How many permits of an origin one thread has, and all threads together. *)
(***************************************************************************)
Tagged(t, tag, S) == { << t, tag, i >> : i \in S }

\* What a thread has, as PermitsOf, of given requests, origins, idle and dropping lists.
Hands(h, ky, id, dr, t, k) ==
    {<<t, "request", 1>> : r \in {u \in {t} : h[u] /\ ky[u] = k}}
    \cup {<<t, "idle", i>> : i \in {j \in DOMAIN id[t] : id[t][j] = k}}
    \cup {<<t, "drop", i>> : i \in {j \in DOMAIN dr[t] : dr[t][j] = k}}

OfRequest(h, ky, t, k) == IF h[t] /\ ky[t] = k THEN 1 ELSE 0
HandsCount(h, ky, id, dr, t, k) ==
    OfRequest(h, ky, t, k) + Count(id[t], k) + Count(dr[t], k)

\* Tagging things does not change their number.
LEMMA TaggedCount ==
    ASSUME NEW t, NEW tag, NEW S, IsFiniteSet(S)
    PROVE  IsFiniteSet(Tagged(t, tag, S)) /\ Cardinality(Tagged(t, tag, S)) = Cardinality(S)
<1> DEFINE T == Tagged(t, tag, S)
           f == [i \in S |-> << t, tag, i >>]
<1>1. f \in [S -> T]
  BY DEF Tagged
<1>2. \A i, j \in S : f[i] = f[j] => i = j
  OBVIOUS
<1>3. \A x \in T : \E i \in S : f[i] = x
  BY DEF Tagged
<1>4. f \in Bijection(S, T)
  BY <1>1, <1>2, <1>3 DEF Bijection, Injection, IsInjective, Surjection
<1> QED
  BY <1>4, FS_Bijection DEF ExistsBijection

\* The permits of a thread: those of its request, of its idle list and of its drops.
LEMMA HandsCounted ==
    ASSUME NEW h, NEW ky, NEW id, NEW dr, NEW t, NEW k,
           id[t] \in Seq(Keys), dr[t] \in Seq(Keys)
    PROVE  /\ IsFiniteSet(Hands(h, ky, id, dr, t, k))
           /\ Cardinality(Hands(h, ky, id, dr, t, k)) = HandsCount(h, ky, id, dr, t, k)
           /\ HandsCount(h, ky, id, dr, t, k) \in Nat
           /\ \A x \in Hands(h, ky, id, dr, t, k) : x[1] = t
<1> DEFINE n == OfRequest(h, ky, t, k)
           A == Tagged(t, "request", 1..n)
           B == Tagged(t, "idle", Places(id[t], {k}))
           C == Tagged(t, "drop", Places(dr[t], {k}))
<1>1. n \in {0, 1} /\ n \in Nat
  BY DEF OfRequest
<1>2. Hands(h, ky, id, dr, t, k) = A \cup B \cup C
  <2>1. {<<t, "request", 1>> : r \in {u \in {t} : h[u] /\ ky[u] = k}} = A
    <3>1. CASE h[t] /\ ky[t] = k
      <4>1. 1..n = {1}
        BY <3>1 DEF OfRequest
      <4>2. A = {<<t, "request", 1>>}
        BY <4>1 DEF Tagged
      <4> HIDE DEF A
      <4> QED
        BY <3>1, <4>2
    <3>2. CASE ~(h[t] /\ ky[t] = k)
      <4>1. 1..n = {}
        BY <3>2 DEF OfRequest
      <4>2. A = {}
        BY <4>1 DEF Tagged
      <4> HIDE DEF A
      <4> QED
        BY <3>2, <4>2
    <3> QED
      BY <3>1, <3>2
  <2>2. /\ {j \in DOMAIN id[t] : id[t][j] = k} = Places(id[t], {k})
        /\ {j \in DOMAIN dr[t] : dr[t][j] = k} = Places(dr[t], {k})
    BY DEF Places
  <2>3. /\ {<<t, "idle", i>> : i \in {j \in DOMAIN id[t] : id[t][j] = k}} = B
        /\ {<<t, "drop", i>> : i \in {j \in DOMAIN dr[t] : dr[t][j] = k}} = C
    BY <2>2 DEF Tagged
  <2> HIDE DEF A, B, C
  <2> QED
    BY <2>1, <2>3 DEF Hands
<1>3. /\ \A x \in A : x[1] = t /\ x[2] = "request"
      /\ \A x \in B : x[1] = t /\ x[2] = "idle"
      /\ \A x \in C : x[1] = t /\ x[2] = "drop"
  BY DEF Tagged
<1>4. IsFiniteSet(A) /\ Cardinality(A) = n
  <2>1. IsFiniteSet(1..n) /\ Cardinality(1..n) = n
    BY <1>1, OneTo
  <2> QED
    BY <2>1, TaggedCount
<1>5. /\ IsFiniteSet(Places(id[t], {k})) /\ Count(id[t], k) \in Nat
      /\ IsFiniteSet(Places(dr[t], {k})) /\ Count(dr[t], k) \in Nat
  BY CountType
<1>6. IsFiniteSet(B) /\ Cardinality(B) = Count(id[t], k)
  BY <1>5, TaggedCount DEF Count
<1>7. IsFiniteSet(C) /\ Cardinality(C) = Count(dr[t], k)
  BY <1>5, TaggedCount DEF Count
<1> HIDE DEF n, A, B, C
<1>8. A \cap B = {} /\ (A \cup B) \cap C = {}
  BY <1>3
<1>9. Cardinality(A \cap B) = 0 /\ Cardinality((A \cup B) \cap C) = 0
  BY <1>8, FS_EmptySet
<1>10. IsFiniteSet(A \cup B) /\ Cardinality(A \cup B) = n + Count(id[t], k)
  <2>1. Cardinality(A \cup B) = Cardinality(A) + Cardinality(B) - Cardinality(A \cap B)
    BY <1>4, <1>6, FS_Union
  <2>2. Cardinality(A \cup B) = n + Count(id[t], k)
    BY <1>1, <1>4, <1>5, <1>6, <1>9, <2>1
  <2> QED
    BY <1>4, <1>6, <2>2, FS_Union
<1> DEFINE D == A \cup B
<1>11. IsFiniteSet(D \cup C)
       /\ Cardinality(D \cup C) = Cardinality(D) + Cardinality(C) - Cardinality(D \cap C)
  <2> HIDE DEF D
  <2> QED
    BY <1>7, <1>10, FS_Union DEF D
<1>12. Cardinality(D \cup C) = n + Count(id[t], k) + Count(dr[t], k)
  <2>1. Cardinality(D \cap C) = 0 /\ Cardinality(D) = n + Count(id[t], k)
    BY <1>9, <1>10
  <2> HIDE DEF D
  <2> QED
    BY <1>1, <1>5, <1>7, <1>11, <2>1
<1>13. HandsCount(h, ky, id, dr, t, k) = n + Count(id[t], k) + Count(dr[t], k)
  BY DEF HandsCount, n
<1>14. n + Count(id[t], k) + Count(dr[t], k) \in Nat
  BY <1>1, <1>5
<1>15. Hands(h, ky, id, dr, t, k) = D \cup C
  BY <1>2
<1>16. \A x \in D \cup C : x[1] = t
  BY <1>3
<1> HIDE DEF D
<1> QED
  BY <1>11, <1>12, <1>13, <1>14, <1>15, <1>16

\* A set in two parts that have nothing in common.
Apart(P, R, A) == P = R \cup A /\ R \cap A = {}

\* Exchanging one part of a finite set for another.
LEMMA Exchange ==
    ASSUME NEW P, NEW Q, NEW R, NEW A, NEW B, Apart(P, R, A), Apart(Q, R, B),
           IsFiniteSet(P), IsFiniteSet(A), IsFiniteSet(B)
    PROVE  /\ IsFiniteSet(Q) /\ Cardinality(P) \in Nat /\ Cardinality(Q) \in Nat
           /\ Cardinality(Q) + Cardinality(A) = Cardinality(P) + Cardinality(B)
           /\ Cardinality(A) <= Cardinality(P)
<1>0. /\ P = R \cup A /\ Q = R \cup B /\ R \cap A = {} /\ R \cap B = {}
      /\ R \in SUBSET P /\ A \in SUBSET P
  BY DEF Apart
<1>2. IsFiniteSet(R) /\ Cardinality(A) <= Cardinality(P)
  BY <1>0, FS_Subset
<1>3. Cardinality(R) \in Nat /\ Cardinality(A) \in Nat /\ Cardinality(B) \in Nat
  BY <1>2, FS_CardinalityType
<1>4. Cardinality(R \cap A) = 0 /\ Cardinality(R \cap B) = 0
  BY <1>0, FS_EmptySet
<1>5. Cardinality(P) = Cardinality(R) + Cardinality(A) - Cardinality(R \cap A)
  BY <1>0, <1>2, FS_Union
<1>6. /\ IsFiniteSet(Q)
      /\ Cardinality(Q) = Cardinality(R) + Cardinality(B) - Cardinality(R \cap B)
  BY <1>0, <1>2, FS_Union
<1> QED
  BY <1>2, <1>3, <1>4, <1>5, <1>6

Mine(t, k) == HandsCount(held, key, idle, drops, t, k)

\* The step of a thread leaves what the others have alone.
Alone(t) ==
    \A u \in Threads \ {t} : /\ held'[u] = held[u] /\ key'[u] = key[u]
                             /\ idle'[u] = idle[u] /\ drops'[u] = drops[u]

\* What the other threads have does not change, so the permits of an origin change by what
\* the thread that takes the step gains or gives away.
LEMMA PermitsChange ==
    ASSUME NEW t \in Threads, NEW k, IsFiniteSet(Permits(k)),
           idle \in [Threads -> Seq(Keys)], idle' \in [Threads -> Seq(Keys)],
           drops \in [Threads -> Seq(Keys)], drops' \in [Threads -> Seq(Keys)],
           Alone(t)
    PROVE  /\ IsFiniteSet(Permits(k)')
           /\ Cardinality(Permits(k)) \in Nat /\ Cardinality(Permits(k)') \in Nat
           /\ Mine(t, k) \in Nat /\ Mine(t, k)' \in Nat
           /\ Mine(t, k) <= Cardinality(Permits(k))
           /\ Cardinality(Permits(k)') + Mine(t, k) = Cardinality(Permits(k)) + Mine(t, k)'
<1> DEFINE R == UNION {PermitsOf(u, k) : u \in Threads \ {t}}
           A == PermitsOf(t, k)
           B == PermitsOf(t, k)'
<1>1. \A u : PermitsOf(u, k) = Hands(held, key, idle, drops, u, k)
  BY DEF PermitsOf, Hands
<1>2. \A u : PermitsOf(u, k)' = Hands(held', key', idle', drops', u, k)
  BY DEF PermitsOf, Hands
<1>3. ASSUME NEW u \in Threads \ {t} PROVE PermitsOf(u, k)' = PermitsOf(u, k)
  BY DEF PermitsOf, Alone
<1>4. \A u \in Threads : idle[u] \in Seq(Keys) /\ drops[u] \in Seq(Keys)
  OBVIOUS
<1>5. idle'[t] \in Seq(Keys) /\ drops'[t] \in Seq(Keys)
  OBVIOUS
<1>6. \A u \in Threads : \A x \in PermitsOf(u, k) : x[1] = u
  BY <1>1, <1>4, HandsCounted
<1>7. IsFiniteSet(A) /\ Cardinality(A) = Mine(t, k) /\ Mine(t, k) \in Nat
  BY <1>1, <1>4, HandsCounted DEF Mine
<1>8. /\ IsFiniteSet(B) /\ Cardinality(B) = Mine(t, k)' /\ Mine(t, k)' \in Nat
      /\ \A x \in B : x[1] = t
  BY <1>2, <1>5, HandsCounted DEF Mine
<1>9. Permits(k) = R \cup A
  BY DEF Permits
<1>10. Permits(k)' = R \cup B
  <2>1. Permits(k)' = UNION {PermitsOf(u, k)' : u \in Threads}
    BY DEF Permits
  <2>2. R = UNION {PermitsOf(u, k)' : u \in Threads \ {t}}
    BY <1>3
  <2> HIDE DEF R
  <2> QED
    BY <2>1, <2>2
<1>11. R \cap A = {} /\ R \cap B = {}
  <2>1. \A x \in R : x[1] # t
    BY <1>6
  <2>2. \A x \in A : x[1] = t
    BY <1>6
  <2> HIDE DEF R, A, B
  <2> QED
    BY <1>8, <2>1, <2>2
<1> HIDE DEF R, A, B
<1>12. Apart(Permits(k), R, A) /\ Apart(Permits(k)', R, B)
  BY <1>9, <1>10, <1>11 DEF Apart
<1>13. IsFiniteSet(A) /\ IsFiniteSet(B)
  BY <1>7, <1>8
<1> DEFINE P == Permits(k)
           Q == Permits(k)'
<1>14. Apart(P, R, A) /\ Apart(Q, R, B) /\ IsFiniteSet(P)
  BY <1>12
<1> HIDE DEF P, Q
<1>15. /\ IsFiniteSet(Q) /\ Cardinality(P) \in Nat /\ Cardinality(Q) \in Nat
       /\ Cardinality(Q) + Cardinality(A) = Cardinality(P) + Cardinality(B)
       /\ Cardinality(A) <= Cardinality(P)
  BY <1>13, <1>14, Exchange
<1> QED
  BY <1>7, <1>8, <1>15 DEF P, Q

-----------------------------------------------------------------------------
(***************************************************************************)
(* The inductive invariant: a thread has a permit for its request from the *)
(* slot or the idle connection it gets until it gives the connection up,   *)
(* and every origin counts its permits, which are at most the limit.       *)
(***************************************************************************)
Holding == {"connect", "send", "respond"}

Phases ==
    \A t \in Threads :
        /\ pc[t] \in Holding => held[t] = TRUE
        /\ pc[t] \notin Holding => held[t] = FALSE
        /\ pc[t] # "idle" => key[t] \in Keys

Slots ==
    \A k \in Keys : /\ IsFiniteSet(Permits(k)) /\ active[k] = Cardinality(Permits(k))
                    /\ active[k] <= Limit

PoolInv == TypeOK /\ Phases /\ Slots

\* The limit is kept, and what is counted changes by what the thread gains or gives away.
Counted(t) ==
    \A k \in Keys : active'[k] <= Limit /\ active'[k] + Mine(t, k) = active[k] + Mine(t, k)'

\* The slots stay sound when the counts follow the thread that takes the step.
LEMMA SlotsKept ==
    ASSUME PoolInv, NEW t \in Threads, TypeOK', Alone(t), Counted(t)
    PROVE  Slots'
<1> SUFFICES ASSUME NEW k \in Keys
             PROVE  /\ IsFiniteSet(Permits(k)') /\ active'[k] = Cardinality(Permits(k)')
                    /\ active'[k] <= Limit
  BY DEF Slots
<1>1. /\ idle \in [Threads -> Seq(Keys)] /\ idle' \in [Threads -> Seq(Keys)]
      /\ drops \in [Threads -> Seq(Keys)] /\ drops' \in [Threads -> Seq(Keys)]
  BY DEF PoolInv, TypeOK
<1>2. active[k] \in Nat /\ active'[k] \in Nat
  BY DEF PoolInv, TypeOK, SlotsTypeOK
<1>3. IsFiniteSet(Permits(k)) /\ active[k] = Cardinality(Permits(k))
  BY DEF PoolInv, Slots
<1> DEFINE c == Cardinality(Permits(k))
           d == Cardinality(Permits(k)')
           m == Mine(t, k)
           n == Mine(t, k)'
<1>4. IsFiniteSet(Permits(k)') /\ c \in Nat /\ d \in Nat /\ m \in Nat /\ n \in Nat
      /\ d + m = c + n
  BY <1>1, <1>3, PermitsChange
<1>5. active'[k] <= Limit /\ active'[k] + m = active[k] + n
  BY DEF Counted
<1> HIDE DEF c, d, m, n
<1>6. active'[k] = d
  BY <1>2, <1>3, <1>4, <1>5 DEF c
<1> QED
  BY <1>4, <1>5, <1>6 DEF d

\* A fresh pool counts nothing.
LEMMA InitInv == Init => PoolInv
<1> SUFFICES ASSUME Init PROVE PoolInv
  OBVIOUS
<1>0. IdleCapacity \in Nat /\ Limit \in Nat
  BY IdleAssumption, SlotsAssumption
<1>1. TypeOK
  <2>1. << >> \in Seq(Keys) /\ Len(<< >>) = 0
    OBVIOUS
  <2>2. SlotsTypeOK
    BY DEF Init, SlotsInit, SlotsTypeOK
  <2> QED
    BY <1>0, <2>1, <2>2 DEF Init, TypeOK
<1>2. Phases
  BY DEF Init, Phases, Holding
<1>3. Slots
  <2> SUFFICES ASSUME NEW k \in Keys
               PROVE  /\ IsFiniteSet(Permits(k)) /\ active[k] = Cardinality(Permits(k))
                      /\ active[k] <= Limit
    BY DEF Slots
  <2>1. \A t \in Threads : PermitsOf(t, k) = {}
    BY DEF Init, PermitsOf
  <2>2. Permits(k) = {}
    BY <2>1 DEF Permits
  <2>3. active[k] = 0
    BY DEF Init, SlotsInit
  <2> QED
    BY <1>0, <2>2, <2>3, FS_EmptySet
<1> QED
  BY <1>1, <1>2, <1>3 DEF PoolInv

-----------------------------------------------------------------------------
(***************************************************************************)
(* Steps.                                                                  *)
(***************************************************************************)

\* What a thread has, by the parts of it.
LEMMA MineParts ==
    ASSUME PoolInv, NEW t \in Threads, NEW k
    PROVE  /\ Mine(t, k) = OfRequest(held, key, t, k) + Count(idle[t], k) + Count(drops[t], k)
           /\ Mine(t, k)' = OfRequest(held', key', t, k) + Count(idle'[t], k)
                            + Count(drops'[t], k)
           /\ OfRequest(held, key, t, k) \in {0, 1} /\ OfRequest(held', key', t, k) \in {0, 1}
           /\ Count(idle[t], k) \in Nat /\ Count(drops[t], k) \in Nat
           /\ idle[t] \in Seq(Keys) /\ drops[t] \in Seq(Keys) /\ active \in [Keys -> Nat]
           /\ \A j \in Keys : active[j] \in Nat /\ active[j] <= Limit
<1>1. idle[t] \in Seq(Keys) /\ drops[t] \in Seq(Keys) /\ active \in [Keys -> Nat]
  BY DEF PoolInv, TypeOK, SlotsTypeOK
<1>2. Count(idle[t], k) \in Nat /\ Count(drops[t], k) \in Nat
  BY <1>1, CountType
<1>3. \A j \in Keys : active[j] \in Nat /\ active[j] <= Limit
  BY <1>1 DEF PoolInv, Slots
<1>4. OfRequest(held, key, t, k) \in {0, 1} /\ OfRequest(held', key', t, k) \in {0, 1}
  BY DEF OfRequest
<1> QED
  BY <1>1, <1>2, <1>3, <1>4 DEF Mine, HandsCount

\* Steps that leave permits, lists and counts alone; a request without a permit may begin,
\* end or change.
LEMMA QuietStep ==
    ASSUME PoolInv, NEW t \in Threads, UNCHANGED <<active, held, idle, drops>>,
           TypeOK', Phases', \A u \in Threads \ {t} : key'[u] = key[u],
           key'[t] = key[t] \/ held[t] = FALSE
    PROVE  PoolInv'
<1>1. Alone(t)
  BY DEF Alone
<1>2. Counted(t)
  <2> SUFFICES ASSUME NEW k \in Keys
               PROVE  active'[k] <= Limit /\ active'[k] + Mine(t, k) = active[k] + Mine(t, k)'
    BY DEF Counted
  <2>1. OfRequest(held', key', t, k) = OfRequest(held, key, t, k)
    BY DEF OfRequest
  <2>2. Mine(t, k)' = Mine(t, k)
    BY <2>1, MineParts
  <2> QED
    BY <2>2, MineParts
<1> QED
  BY <1>1, <1>2, SlotsKept DEF PoolInv

\* What the thread itself gains or gives away, in the steps that move a permit.
Moves(t, k) ==
    active'[k] + OfRequest(held, key, t, k) + Count(idle[t], k) + Count(drops[t], k)
    = active[k] + OfRequest(held', key', t, k) + Count(idle'[t], k) + Count(drops'[t], k)

\* A step that moves permits of one thread and keeps the limit.
LEMMA MovingStep ==
    ASSUME PoolInv, NEW t \in Threads, TypeOK', Phases', Alone(t),
           \A k \in Keys : active'[k] <= Limit /\ Moves(t, k)
    PROVE  PoolInv'
<1>1. Counted(t)
  <2> SUFFICES ASSUME NEW k \in Keys
               PROVE  active'[k] <= Limit /\ active'[k] + Mine(t, k) = active[k] + Mine(t, k)'
    BY DEF Counted
  <2>1. active[k] \in Nat /\ active'[k] \in Nat /\ idle'[t] \in Seq(Keys) /\ drops'[t] \in Seq(Keys)
    BY DEF PoolInv, TypeOK, SlotsTypeOK
  <2>2. Count(idle'[t], k) \in Nat /\ Count(drops'[t], k) \in Nat
    BY <2>1, CountType
  <2> DEFINE o1 == OfRequest(held, key, t, k)
             o2 == OfRequest(held', key', t, k)
             i1 == Count(idle[t], k)
             i2 == Count(idle'[t], k)
             d1 == Count(drops[t], k)
             d2 == Count(drops'[t], k)
  <2>3. /\ Mine(t, k) = o1 + i1 + d1 /\ Mine(t, k)' = o2 + i2 + d2
        /\ o1 \in {0, 1} /\ o2 \in {0, 1} /\ i1 \in Nat /\ d1 \in Nat
    BY MineParts
  <2>4. active'[k] + o1 + i1 + d1 = active[k] + o2 + i2 + d2
    BY DEF Moves
  <2>5. i2 \in Nat /\ d2 \in Nat
    BY <2>2
  <2> HIDE DEF o1, o2, i1, i2, d1, d2
  <2>6. active'[k] + (o1 + i1 + d1) = active[k] + (o2 + i2 + d2)
    BY <2>1, <2>3, <2>4, <2>5
  <2> QED
    BY <2>3, <2>6
<1> QED
  BY <1>1, SlotsKept DEF PoolInv

\* The permit of a request, if it has one, is for its origin.
LEMMA OfRequestFacts ==
    ASSUME NEW h, NEW ky, NEW t, NEW k
    PROVE  /\ h[t] = FALSE => OfRequest(h, ky, t, k) = 0
           /\ h[t] = TRUE => OfRequest(h, ky, t, k) = One(ky[t], k)
           /\ One(ky[t], k) \in {0, 1}
BY DEF OfRequest, One

\* try_pooled and the clock between the steps that move a permit.
LEMMA QuietSteps ==
    ASSUME PoolInv, NEW t \in Threads,
           \/ Request(t) \/ CheckoutMiss(t) \/ Budget(t) \/ DeadlinePassed(t) \/ Sleep(t)
           \/ AcquireTimesOut(t) \/ Connected(t) \/ SendOk(t) \/ Notify(t) \/ Clock(t)
           \/ Spurious(t)
    PROVE  PoolInv'
<1> USE DEF slotVars, threadVars
<1>1. UNCHANGED <<active, held, idle, drops>> /\ reused' = reused
  BY DEF Request, CheckoutMiss, Budget, DeadlinePassed, Sleep, AcquireTimesOut, Connected,
         SendOk, Notify, Clock, Spurious, WaitForSlot, SlotTimesOut, TimePasses, WaitReturns,
         SpuriousWake
<1>2. asleep' \subseteq Threads /\ elapsed' \subseteq Threads
  <2>1. asleep \subseteq Threads /\ elapsed \subseteq Threads
    BY DEF PoolInv, TypeOK, SlotsTypeOK
  <2>2. CASE Notify(t)
    BY <2>1, <2>2 DEF Notify, NotifyOne
  <2>3. CASE ~Notify(t)
    BY <2>1, <2>3 DEF Request, CheckoutMiss, Budget, DeadlinePassed, Sleep, AcquireTimesOut,
         Connected, SendOk, Clock, Spurious, WaitForSlot, SlotTimesOut, TimePasses,
         WaitReturns, SpuriousWake
  <2> QED
    BY <2>2, <2>3
<1>3. owes' \in [Threads -> BOOLEAN]
  <2>1. owes \in [Threads -> BOOLEAN]
    BY DEF PoolInv, TypeOK
  <2> QED
    BY <2>1 DEF Request, CheckoutMiss, Budget, DeadlinePassed, Sleep, AcquireTimesOut,
         Connected, SendOk, Notify, Clock, Spurious
<1> DEFINE at == {"idle", "checkout", "budget", "acquire", "connect", "send", "respond"}
<1>4. /\ \/ pc' = pc
         \/ \E to \in {"checkout", "budget", "acquire", "idle"} :
               pc' = [pc EXCEPT ![t] = to] /\ pc[t] \notin Holding
         \/ \E to \in Holding : pc' = [pc EXCEPT ![t] = to] /\ pc[t] \in Holding
      /\ \/ key' = key /\ (pc' = pc \/ pc[t] # "idle")
         \/ \E k \in Keys : key' = [key EXCEPT ![t] = k] /\ pc[t] \notin Holding
         \/ key' = [key EXCEPT ![t] = NoKey] /\ pc[t] \notin Holding
            /\ pc' = [pc EXCEPT ![t] = "idle"]
  BY DEF Request, CheckoutMiss, Budget, DeadlinePassed, Sleep, AcquireTimesOut, Connected,
         SendOk, Notify, Clock, Spurious, Ends, Goto, Holding
<1>5. /\ pc \in [Threads -> at] /\ key \in [Threads -> Keys \cup {NoKey}]
      /\ pc' \in [Threads -> at] /\ key' \in [Threads -> Keys \cup {NoKey}]
  <2>1. pc \in [Threads -> at] /\ key \in [Threads -> Keys \cup {NoKey}]
    BY DEF PoolInv, TypeOK
  <2> QED
    BY <1>4, <2>1 DEF Holding
<1>6. TypeOK'
  BY <1>1, <1>2, <1>3, <1>5 DEF PoolInv, TypeOK, SlotsTypeOK
<1>7. Phases'
  <2> SUFFICES ASSUME NEW u \in Threads
               PROVE  /\ pc'[u] \in Holding => held'[u] = TRUE
                      /\ pc'[u] \notin Holding => held'[u] = FALSE
                      /\ pc'[u] # "idle" => key'[u] \in Keys
    BY DEF Phases
  <2>1. /\ pc[u] \in Holding => held[u] = TRUE
        /\ pc[u] \notin Holding => held[u] = FALSE
        /\ pc[u] # "idle" => key[u] \in Keys
    BY DEF PoolInv, Phases
  <2> QED
    BY <1>1, <1>4, <1>5, <2>1 DEF Holding
<1>8. /\ \A u \in Threads \ {t} : key'[u] = key[u]
      /\ key'[t] = key[t] \/ held[t] = FALSE
  BY <1>4, <1>5 DEF PoolInv, Phases
<1> QED
  BY <1>1, <1>6, <1>7, <1>8, QuietStep

\* What the types say of one thread.
LEMMA ThreadTypes ==
    ASSUME PoolInv, NEW t \in Threads
    PROVE  /\ idle[t] \in Seq(Keys) /\ drops[t] \in Seq(Keys) /\ Len(idle[t]) <= IdleCapacity
           /\ pc[t] \in Holding => held[t] = TRUE
           /\ pc[t] \notin Holding => held[t] = FALSE
           /\ pc[t] # "idle" => key[t] \in Keys
BY DEF PoolInv, TypeOK, Phases

\* A step of one thread: where it goes, its origin, whether it has a permit for its request,
\* its idle list and its drops.
Writes(t, at, k, h, id, dr) ==
    /\ pc' = [pc EXCEPT ![t] = at] /\ key' = [key EXCEPT ![t] = k]
    /\ held' = [held EXCEPT ![t] = h]
    /\ idle' = [idle EXCEPT ![t] = id] /\ drops' = [drops EXCEPT ![t] = dr]
    /\ reused' \in [Threads -> BOOLEAN] /\ owes' \in [Threads -> BOOLEAN]
    /\ active' \in [Keys -> Nat] /\ asleep' = asleep /\ elapsed' \subseteq elapsed

Fits(at, k, h, id, dr) ==
    /\ at \in {"idle", "checkout", "budget", "acquire", "connect", "send", "respond"}
    /\ k \in Keys \cup {NoKey} /\ h \in BOOLEAN
    /\ id \in Seq(Keys) /\ dr \in Seq(Keys) /\ Len(id) <= IdleCapacity
    /\ (at \in Holding => h = TRUE) /\ (at \notin Holding => h = FALSE)
    /\ (at # "idle" => k \in Keys)

\* A step of one thread keeps the types and phases, if what it writes fits.
LEMMA TypesKept ==
    ASSUME PoolInv, NEW t \in Threads, NEW at, NEW k, NEW h, NEW id, NEW dr,
           Writes(t, at, k, h, id, dr), Fits(at, k, h, id, dr)
    PROVE  /\ TypeOK' /\ Phases' /\ Alone(t)
           /\ held'[t] = h /\ key'[t] = k /\ idle'[t] = id /\ drops'[t] = dr
<1> USE DEF Writes, Fits
<1>1. TypeOK
  BY DEF PoolInv
<1>2. SlotsTypeOK'
  BY <1>1 DEF TypeOK, SlotsTypeOK
<1>3. TypeOK'
  <2>1. pc' \in [Threads -> {"idle", "checkout", "budget", "acquire", "connect", "send",
                             "respond"}]
    BY <1>1 DEF TypeOK
  <2>2. /\ key' \in [Threads -> Keys \cup {NoKey}] /\ held' \in [Threads -> BOOLEAN]
        /\ reused' \in [Threads -> BOOLEAN] /\ owes' \in [Threads -> BOOLEAN]
    BY <1>1 DEF TypeOK
  <2>3. idle' \in [Threads -> Seq(Keys)] /\ drops' \in [Threads -> Seq(Keys)]
    BY <1>1 DEF TypeOK
  <2>4. \A u \in Threads : Len(idle'[u]) <= IdleCapacity
    BY <1>1 DEF TypeOK
  <2> QED
    BY <1>2, <2>1, <2>2, <2>3, <2>4 DEF TypeOK
<1>4. /\ DOMAIN pc = Threads /\ DOMAIN key = Threads /\ DOMAIN held = Threads
      /\ DOMAIN idle = Threads /\ DOMAIN drops = Threads
  BY <1>1 DEF TypeOK
<1>5. /\ pc'[t] = at /\ held'[t] = h /\ key'[t] = k /\ idle'[t] = id /\ drops'[t] = dr
      /\ \A u \in Threads \ {t} : /\ pc'[u] = pc[u] /\ held'[u] = held[u] /\ key'[u] = key[u]
                                  /\ idle'[u] = idle[u] /\ drops'[u] = drops[u]
  BY <1>4
<1>6. Phases'
  <2> SUFFICES ASSUME NEW u \in Threads
               PROVE  /\ pc'[u] \in Holding => held'[u] = TRUE
                      /\ pc'[u] \notin Holding => held'[u] = FALSE
                      /\ pc'[u] # "idle" => key'[u] \in Keys
    BY DEF Phases
  <2>1. CASE u = t
    BY <1>5, <2>1
  <2>2. CASE u # t
    BY <1>5, <2>2, ThreadTypes
  <2> QED
    BY <2>1, <2>2
<1> QED
  BY <1>3, <1>5, <1>6 DEF Alone

Balance(t, k, h, id, dr) ==
    \A j \in Keys :
        /\ active'[j] <= Limit
        /\ active'[j] + (IF held[t] THEN One(key[t], j) ELSE 0) + Count(idle[t], j)
              + Count(drops[t], j)
           = active[j] + (IF h = TRUE THEN One(k, j) ELSE 0) + Count(id, j)
             + Count(dr, j)

\* A step of one thread keeps the invariant, if for every origin the count changes by what
\* the thread gains or gives away.
LEMMA ThreadStep ==
    ASSUME PoolInv, NEW t \in Threads, NEW at, NEW k, NEW h, NEW id, NEW dr,
           Writes(t, at, k, h, id, dr), Fits(at, k, h, id, dr),
           Balance(t, k, h, id, dr)
    PROVE  PoolInv'
<1>1. /\ TypeOK' /\ Phases' /\ Alone(t)
      /\ held'[t] = h /\ key'[t] = k /\ idle'[t] = id /\ drops'[t] = dr
  BY TypesKept
<1>2. ASSUME NEW j \in Keys PROVE active'[j] <= Limit /\ Moves(t, j)
  <2>1. OfRequest(held, key, t, j) = IF held[t] THEN One(key[t], j) ELSE 0
    BY DEF OfRequest, One
  <2>2. OfRequest(held', key', t, j) = IF h THEN One(k, j) ELSE 0
    BY <1>1 DEF OfRequest, One
  <2> QED
    BY <1>1, <2>1, <2>2 DEF Moves, Balance
<1> QED
  BY <1>1, <1>2, MovingStep

\* A connection from the idle list, alive or expired.
LEMMA CheckoutSteps ==
    ASSUME PoolInv, NEW t \in Threads, CheckoutHit(t) \/ CheckoutExpired(t)
    PROVE  PoolInv'
<1> USE DEF slotVars
<1> DEFINE x == key[t]
           id == RemoveAt(idle[t], Place(idle[t], {x}, 1))
           dr == drops[t] \o << x >>
<1>1. /\ idle[t] \in Seq(Keys) /\ drops[t] \in Seq(Keys) /\ Len(idle[t]) <= IdleCapacity
      /\ held[t] = FALSE /\ x \in Keys /\ x \in ToSet(idle[t])
  BY ThreadTypes DEF CheckoutHit, CheckoutExpired, IdleTo, Holding
<1>2. /\ id \in Seq(Keys) /\ Len(id) <= Len(idle[t])
      /\ \A j : Count(idle[t], j) = Count(id, j) + One(x, j)
  BY <1>1, CountRemove
<1>3. Len(id) <= IdleCapacity
  <2>1. Len(id) \in Nat /\ Len(idle[t]) \in Nat /\ IdleCapacity \in Nat
    BY <1>1, <1>2, IdleAssumption
  <2> HIDE DEF id
  <2> QED
    BY <1>1, <1>2, <2>1
<1>4. dr \in Seq(Keys) /\ \A j : Count(dr, j) = Count(drops[t], j) + One(x, j)
  <2> DEFINE one == << x >>
  <2>1. one \in Seq(Keys) /\ \A j : Count(one, j) = One(x, j)
    BY <1>1, CountOne
  <2> HIDE DEF one
  <2>2. drops[t] \o one \in Seq(Keys)
        /\ \A j : Count(drops[t] \o one, j) = Count(drops[t], j) + Count(one, j)
    BY <1>1, <2>1, CountConcat
  <2> QED
    BY <2>1, <2>2 DEF one
<1>5. idle' = [idle EXCEPT ![t] = id]
  BY DEF CheckoutHit, CheckoutExpired, TakenFromIdle
<1>6. \A j \in Keys : active[j] \in Nat /\ active[j] <= Limit
  BY MineParts
<1>7. \A j : /\ One(x, j) \in {0, 1} /\ Count(drops[t], j) \in Nat /\ Count(idle[t], j) \in Nat
             /\ Count(id, j) \in Nat
  BY <1>1, <1>2, CountType DEF One
<1>8. /\ reused \in [Threads -> BOOLEAN] /\ owes \in [Threads -> BOOLEAN]
      /\ key \in [Threads -> Keys \cup {NoKey}] /\ held \in [Threads -> BOOLEAN]
      /\ drops \in [Threads -> Seq(Keys)] /\ active \in [Keys -> Nat]
  BY DEF PoolInv, TypeOK, SlotsTypeOK
<1>9. CASE CheckoutHit(t)
  <2>1. Writes(t, "send", x, TRUE, id, drops[t])
    BY <1>5, <1>8, <1>9 DEF CheckoutHit, Writes, Goto
  <2>2. Fits("send", x, TRUE, id, drops[t])
    BY <1>1, <1>2, <1>3 DEF Fits, Holding
  <2>3. active' = active
    BY <1>9 DEF CheckoutHit
  <2> HIDE DEF x, id, dr
  <2>4. Balance(t, x, TRUE, id, drops[t])
    <3>1. ASSUME NEW j \in Keys
          PROVE  active[j] + 0 + Count(idle[t], j) + Count(drops[t], j)
                 = active[j] + One(x, j) + Count(id, j) + Count(drops[t], j)
      <4>1. /\ active[j] \in Nat /\ One(x, j) \in {0, 1} /\ Count(id, j) \in Nat
            /\ Count(drops[t], j) \in Nat /\ Count(idle[t], j) = Count(id, j) + One(x, j)
        BY <1>2, <1>6, <1>7
      <4> QED
        BY <4>1
    <3>2. \A j : (IF held[t] THEN One(key[t], j) ELSE 0) = 0
                 /\ (IF TRUE = TRUE THEN One(x, j) ELSE 0) = One(x, j)
      BY <1>1
    <3>3. \A j \in Keys : active'[j] <= Limit /\ active'[j] = active[j]
      BY <1>6, <2>3
    <3> QED
      BY <3>1, <3>2, <3>3 DEF Balance
  <2> QED
    BY <2>1, <2>2, <2>4, ThreadStep
<1>10. CASE CheckoutExpired(t)
  <2>1. Writes(t, "budget", x, FALSE, id, dr)
    BY <1>1, <1>5, <1>8, <1>10 DEF CheckoutExpired, Writes, Goto, Dropped
  <2>2. Fits("budget", x, FALSE, id, dr)
    BY <1>1, <1>2, <1>3, <1>4 DEF Fits, Holding
  <2>3. active' = active
    BY <1>10 DEF CheckoutExpired
  <2> HIDE DEF x, id, dr
  <2>4. Balance(t, x, FALSE, id, dr)
    <3>1. ASSUME NEW j \in Keys
          PROVE  active[j] + 0 + Count(idle[t], j) + Count(drops[t], j)
                 = active[j] + 0 + Count(id, j) + Count(dr, j)
      BY <1>2, <1>4, <1>6, <1>7
    <3> QED
      BY <1>1, <1>6, <2>3, <3>1 DEF Balance
  <2> QED
    BY <2>1, <2>2, <2>4, ThreadStep
<1> QED
  BY <1>9, <1>10

\* Everything has its type.
LEMMA Typed ==
    ASSUME PoolInv
    PROVE  /\ active \in [Keys -> Nat] /\ DOMAIN pc = Threads
           /\ key \in [Threads -> Keys \cup {NoKey}] /\ held \in [Threads -> BOOLEAN]
           /\ reused \in [Threads -> BOOLEAN] /\ owes \in [Threads -> BOOLEAN]
           /\ idle \in [Threads -> Seq(Keys)] /\ drops \in [Threads -> Seq(Keys)]
BY DEF PoolInv, TypeOK, SlotsTypeOK

\* A list with one connection more.
LEMMA OneMore ==
    ASSUME NEW seq \in Seq(Keys), NEW x \in Keys
    PROVE  /\ seq \o << x >> \in Seq(Keys)
           /\ \A j : Count(seq \o << x >>, j) = Count(seq, j) + One(x, j)
<1> DEFINE one == << x >>
<1>1. one \in Seq(Keys) /\ \A j : Count(one, j) = One(x, j)
  BY CountOne
<1> HIDE DEF one
<1>2. seq \o one \in Seq(Keys) /\ \A j : Count(seq \o one, j) = Count(seq, j) + Count(one, j)
  BY <1>1, CountConcat
<1> QED
  BY <1>1, <1>2 DEF one

\* A slot is taken only below the limit.
LEMMA AcquireStep ==
    ASSUME PoolInv, NEW t \in Threads, Acquire(t)
    PROVE  PoolInv'
<1> DEFINE x == key[t]
<1>1. /\ idle[t] \in Seq(Keys) /\ drops[t] \in Seq(Keys) /\ Len(idle[t]) <= IdleCapacity
      /\ held[t] = FALSE /\ x \in Keys
  BY ThreadTypes DEF Acquire, Holding
<1>2. \A j \in Keys : active[j] \in Nat /\ active[j] <= Limit
  BY MineParts
<1>3. active' = [active EXCEPT ![x] = active[x] + 1] /\ active[x] < Limit
  BY DEF Acquire, TakeSlot, ReserveSlot, SlotFree
<1>4. Writes(t, "connect", x, TRUE, idle[t], drops[t])
  <2>1. active' \in [Keys -> Nat]
    BY <1>1, <1>2, <1>3, Typed
  <2>2. /\ asleep' = asleep /\ elapsed' \subseteq elapsed
        /\ pc' = [pc EXCEPT ![t] = "connect"] /\ held' = [held EXCEPT ![t] = TRUE]
        /\ UNCHANGED <<key, reused, idle, drops, owes>>
    BY DEF Acquire, TakeSlot, Goto
  <2> QED
    BY <2>1, <2>2, Typed DEF Writes
<1>5. Fits("connect", x, TRUE, idle[t], drops[t])
  BY <1>1 DEF Fits, Holding
<1>6. Balance(t, x, TRUE, idle[t], drops[t])
  <2> SUFFICES ASSUME NEW j \in Keys
               PROVE  /\ active'[j] <= Limit
                      /\ active'[j] + 0 + Count(idle[t], j) + Count(drops[t], j)
                         = active[j] + One(x, j) + Count(idle[t], j) + Count(drops[t], j)
    <3>1. \A j : (IF held[t] THEN One(key[t], j) ELSE 0) = 0
                 /\ (IF TRUE = TRUE THEN One(x, j) ELSE 0) = One(x, j)
      BY <1>1
    <3> HIDE DEF x
    <3> QED
      BY <3>1 DEF Balance
  <2>1. active[j] \in Nat /\ Count(idle[t], j) \in Nat /\ Count(drops[t], j) \in Nat
        /\ Limit \in Nat /\ active[j] <= Limit
    BY <1>1, <1>2, CountType, SlotsAssumption
  <2> HIDE DEF x
  <2>2. active'[j] = active[j] + One(x, j)
    BY <1>1, <1>2, <1>3, Typed DEF One
  <2>3. One(x, j) \in {0, 1} /\ (One(x, j) = 1 => active[j] < Limit)
    BY <1>3 DEF One
  <2> QED
    BY <2>1, <2>2, <2>3
<1> QED
  BY <1>4, <1>5, <1>6, ThreadStep

\* A request that loses its connection leaves the permit to the connection being dropped.
LEMMA LosingSteps ==
    ASSUME PoolInv, NEW t \in Threads,
           ConnectFails(t) \/ Retry(t) \/ SendFails(t) \/ Discard(t)
    PROVE  PoolInv'
<1> USE DEF slotVars
<1> DEFINE x == key[t]
           dr == drops[t] \o << x >>
<1>1. /\ idle[t] \in Seq(Keys) /\ drops[t] \in Seq(Keys) /\ Len(idle[t]) <= IdleCapacity
      /\ held[t] = TRUE /\ x \in Keys
  BY ThreadTypes DEF ConnectFails, Retry, SendFails, Discard, Holding
<1>2. \A j \in Keys : active[j] \in Nat /\ active[j] <= Limit
  BY MineParts
<1>3. dr \in Seq(Keys) /\ \A j : Count(dr, j) = Count(drops[t], j) + One(x, j)
  BY <1>1, OneMore
<1>4. LosesConnection(t)
  BY DEF ConnectFails, Retry, SendFails, Discard
<1>5. /\ drops' = [drops EXCEPT ![t] = dr] /\ held' = [held EXCEPT ![t] = FALSE]
      /\ reused' = [reused EXCEPT ![t] = FALSE]
      /\ UNCHANGED <<active, asleep, elapsed, idle, owes>>
  BY <1>4 DEF LosesConnection, Dropped
<1>6. \/ pc' = [pc EXCEPT ![t] = "idle"] /\ key' = [key EXCEPT ![t] = NoKey]
      \/ pc' = [pc EXCEPT ![t] = "budget"] /\ key' = key
  BY DEF ConnectFails, Retry, SendFails, Discard, Ends, Goto
<1> HIDE DEF dr
<1>7. \/ Writes(t, "idle", NoKey, FALSE, idle[t], dr)
      \/ Writes(t, "budget", x, FALSE, idle[t], dr)
  BY <1>5, <1>6, Typed DEF Writes
<1>8. /\ Fits("idle", NoKey, FALSE, idle[t], dr)
      /\ Fits("budget", x, FALSE, idle[t], dr)
  BY <1>1, <1>3 DEF Fits, Holding
<1>9. ASSUME NEW k PROVE Balance(t, k, FALSE, idle[t], dr)
  <2> SUFFICES ASSUME NEW j \in Keys
               PROVE  /\ active'[j] <= Limit
                      /\ active'[j] + One(x, j) + Count(idle[t], j) + Count(drops[t], j)
                         = active[j] + 0 + Count(idle[t], j) + Count(dr, j)
    <3>1. \A j : (IF held[t] THEN One(key[t], j) ELSE 0) = One(x, j)
                 /\ (IF FALSE = TRUE THEN One(k, j) ELSE 0) = 0
      BY <1>1
    <3> HIDE DEF x
    <3> QED
      BY <3>1 DEF Balance
  <2>1. active[j] \in Nat /\ Count(idle[t], j) \in Nat /\ Count(drops[t], j) \in Nat
    BY <1>1, <1>2, CountType
  <2>2. active'[j] = active[j] /\ active[j] <= Limit
    BY <1>2, <1>5
  <2> HIDE DEF x
  <2>3. One(x, j) \in {0, 1} /\ Count(dr, j) = Count(drops[t], j) + One(x, j)
    BY <1>3 DEF One
  <2> QED
    BY <2>1, <2>2, <2>3
<1> HIDE DEF x
<1>10. CASE Writes(t, "idle", NoKey, FALSE, idle[t], dr)
  BY <1>8, <1>9, <1>10, ThreadStep
<1>11. CASE Writes(t, "budget", x, FALSE, idle[t], dr)
  BY <1>8, <1>9, <1>11, ThreadStep
<1> QED
  BY <1>7, <1>10, <1>11

\* A connection put at the end of a list.
LEMMA CountAppend ==
    ASSUME NEW seq \in Seq(Keys), NEW x \in Keys
    PROVE  /\ Append(seq, x) \in Seq(Keys) /\ Len(Append(seq, x)) = Len(seq) + 1
           /\ \A j : Count(Append(seq, x), j) = Count(seq, j) + One(x, j)
<1> DEFINE one == << x >>
           c == Append(seq, x)
<1>1. one \in Seq(Keys) /\ Len(one) = 1 /\ one[1] = x /\ \A j : Count(one, j) = One(x, j)
  BY CountOne
<1>2. /\ c \in Seq(Keys) /\ Len(c) = Len(seq) + 1 /\ c[Len(seq) + 1] = x
      /\ \A i \in 1..Len(seq) : c[i] = seq[i]
  OBVIOUS
<1> HIDE DEF one, c
<1>3. \A i \in 1..Len(one) : c[Len(seq) + i] = one[i]
  BY <1>1, <1>2
<1>4. Parts(seq, one, c)
  BY <1>1, <1>2, <1>3 DEF Parts
<1>5. \A j : Count(c, j) = Count(seq, j) + Count(one, j)
  BY <1>1, <1>2, <1>4, CountSplit
<1> QED
  BY <1>1, <1>2, <1>5 DEF c

\* What checkin makes of the idle list: the connections to other origins, the oldest of them
\* displaced when the list is full, and the connection that is given back.
LEMMA CheckinLists ==
    ASSUME NEW seq \in Seq(Keys), NEW x \in Keys, NEW old \in Seq(Keys)
    PROVE  LET others == Retain(seq, Keys \ {x})
               same   == Retain(seq, {x})
               excess == Excess(Len(others))
               id     == Append(SubSeq(others, excess + 1, Len(others)), x)
               dr     == old \o (same \o SubSeq(others, 1, excess))
           IN  /\ id \in Seq(Keys) /\ dr \in Seq(Keys) /\ Len(id) <= IdleCapacity
               /\ \A j \in Keys : Count(id, j) + Count(dr, j)
                                  = Count(seq, j) + Count(old, j) + One(x, j)
<1> DEFINE others == Retain(seq, Keys \ {x})
           same   == Retain(seq, {x})
           excess == Excess(Len(others))
           stay   == SubSeq(others, excess + 1, Len(others))
           gone   == SubSeq(others, 1, excess)
           id     == Append(stay, x)
           dr     == old \o (same \o gone)
<1>1. /\ others \in Seq(Keys) /\ same \in Seq(Keys)
      /\ \A j : Count(others, j) = IF j \in Keys \ {x} THEN Count(seq, j) ELSE 0
      /\ \A j : Count(same, j) = IF j \in {x} THEN Count(seq, j) ELSE 0
  <2>1. ASSUME NEW S
        PROVE  /\ Retain(seq, S) \in Seq(Keys)
               /\ \A j : Count(Retain(seq, S), j) = IF j \in S THEN Count(seq, j) ELSE 0
    BY CountRetain
  <2> QED
    BY <2>1, Zenon
<1> HIDE DEF others, same
<1>2. PICK n \in Nat : n = Len(others)
  BY <1>1
<1>3. IdleCapacity \in Nat \ {0}
  BY IdleAssumption
<1>4. excess \in 0..Len(others) /\ Len(others) - excess + 1 <= IdleCapacity
  <2>1. excess = IF n < IdleCapacity THEN 0 ELSE n - IdleCapacity + 1
    BY <1>2 DEF Excess
  <2> HIDE DEF excess
  <2>2. excess \in Nat /\ excess <= n /\ n - excess + 1 <= IdleCapacity
    BY <1>3, <2>1
  <2> QED
    BY <1>2, <2>2
<1> HIDE DEF excess
<1>5. /\ stay \in Seq(Keys) /\ gone \in Seq(Keys) /\ Len(stay) = Len(others) - excess
      /\ \A j : Count(others, j) = Count(gone, j) + Count(stay, j)
  BY <1>1, <1>4, CountCut
<1> HIDE DEF stay, gone
<1>6. /\ id \in Seq(Keys) /\ Len(id) = Len(stay) + 1
      /\ \A j : Count(id, j) = Count(stay, j) + One(x, j)
  BY <1>5, CountAppend
<1> DEFINE both == same \o gone
<1>7. both \in Seq(Keys) /\ \A j : Count(both, j) = Count(same, j) + Count(gone, j)
  BY <1>1, <1>5, CountConcat
<1> HIDE DEF both
<1>8. /\ old \o both \in Seq(Keys)
      /\ \A j : Count(old \o both, j) = Count(old, j) + Count(both, j)
  BY <1>7, CountConcat
<1>9. dr = old \o both
  BY DEF both
<1> HIDE DEF id, dr
<1>10. Len(id) <= IdleCapacity
  BY <1>2, <1>3, <1>4, <1>5, <1>6
<1>11. ASSUME NEW j \in Keys
       PROVE  Count(id, j) + Count(dr, j) = Count(seq, j) + Count(old, j) + One(x, j)
  <2>1. /\ Count(stay, j) \in Nat /\ Count(gone, j) \in Nat /\ Count(same, j) \in Nat
        /\ Count(old, j) \in Nat /\ Count(seq, j) \in Nat
    BY <1>1, <1>5, CountType
  <2>2. /\ Count(id, j) = Count(stay, j) + One(x, j) /\ One(x, j) \in {0, 1}
        /\ Count(dr, j) = Count(old, j) + Count(both, j)
        /\ Count(both, j) = Count(same, j) + Count(gone, j)
    BY <1>6, <1>7, <1>8, <1>9 DEF One
  <2>3. Count(seq, j) = Count(same, j) + Count(gone, j) + Count(stay, j)
    <3>1. Count(others, j) = Count(gone, j) + Count(stay, j)
      BY <1>5
    <3>2. CASE j = x
      <4>1. Count(others, j) = 0 /\ Count(same, j) = Count(seq, j)
        BY <1>1, <3>2
      <4> QED
        BY <2>1, <3>1, <4>1
    <3>3. CASE j # x
      <4>1. Count(others, j) = Count(seq, j) /\ Count(same, j) = 0
        BY <1>1, <3>3
      <4> QED
        BY <2>1, <3>1, <4>1
    <3> QED
      BY <3>2, <3>3
  <2> QED
    BY <2>1, <2>2, <2>3
<1>12. /\ id \in Seq(Keys) /\ dr \in Seq(Keys)
  BY <1>6, <1>8, <1>9
<1> QED
  BY <1>10, <1>11, <1>12 DEF id, dr, stay, gone, excess, others, same

\* The connection goes back to the idle list, and what it displaces is dropped.
LEMMA CheckinStep ==
    ASSUME PoolInv, NEW t \in Threads, Checkin(t)
    PROVE  PoolInv'
<1> USE DEF slotVars
<1> DEFINE x == key[t]
           others == Retain(idle[t], Keys \ {x})
           same   == Retain(idle[t], {x})
           excess == Excess(Len(others))
           id     == Append(SubSeq(others, excess + 1, Len(others)), x)
           dr     == drops[t] \o (same \o SubSeq(others, 1, excess))
<1>1. /\ idle[t] \in Seq(Keys) /\ drops[t] \in Seq(Keys) /\ held[t] = TRUE /\ x \in Keys
  BY ThreadTypes DEF Checkin, Holding
<1>2. \A j \in Keys : active[j] \in Nat /\ active[j] <= Limit
  BY MineParts
<1>3. /\ id \in Seq(Keys) /\ dr \in Seq(Keys) /\ Len(id) <= IdleCapacity
      /\ \A j \in Keys : Count(id, j) + Count(dr, j)
                         = Count(idle[t], j) + Count(drops[t], j) + One(x, j)
  BY <1>1, CheckinLists
<1>4. /\ idle' = [idle EXCEPT ![t] = id] /\ drops' = [drops EXCEPT ![t] = dr]
      /\ held' = [held EXCEPT ![t] = FALSE] /\ reused' = [reused EXCEPT ![t] = FALSE]
      /\ pc' = [pc EXCEPT ![t] = "idle"] /\ key' = [key EXCEPT ![t] = NoKey]
      /\ UNCHANGED <<active, asleep, elapsed, owes>>
  BY DEF Checkin, Dropped, Ends, Goto
<1> HIDE DEF id, dr
<1>5. Writes(t, "idle", NoKey, FALSE, id, dr)
  BY <1>4, Typed DEF Writes
<1>6. Fits("idle", NoKey, FALSE, id, dr)
  BY <1>3 DEF Fits, Holding
<1>7. Balance(t, NoKey, FALSE, id, dr)
  <2> SUFFICES ASSUME NEW j \in Keys
               PROVE  /\ active'[j] <= Limit
                      /\ active'[j] + One(x, j) + Count(idle[t], j) + Count(drops[t], j)
                         = active[j] + 0 + Count(id, j) + Count(dr, j)
    <3>1. \A j : (IF held[t] THEN One(key[t], j) ELSE 0) = One(x, j)
                 /\ (IF FALSE = TRUE THEN One(NoKey, j) ELSE 0) = 0
      BY <1>1
    <3> HIDE DEF x
    <3> QED
      BY <3>1 DEF Balance
  <2> HIDE DEF x
  <2>1. /\ active[j] \in Nat /\ Count(idle[t], j) \in Nat /\ Count(drops[t], j) \in Nat
        /\ Count(id, j) \in Nat /\ Count(dr, j) \in Nat
    BY <1>1, <1>2, <1>3, CountType
  <2>2. active'[j] = active[j] /\ active[j] <= Limit
    BY <1>2, <1>4
  <2>3. /\ One(x, j) \in {0, 1}
        /\ Count(id, j) + Count(dr, j) = Count(idle[t], j) + Count(drops[t], j) + One(x, j)
    BY <1>3 DEF One
  <2> QED
    BY <2>1, <2>2, <2>3
<1> QED
  BY <1>5, <1>6, <1>7, ThreadStep

\* A permit that is released was counted, so the count goes down by one.
LEMMA ReleaseStep ==
    ASSUME PoolInv, NEW t \in Threads, Release(t)
    PROVE  PoolInv'
<1> DEFINE x == Head(drops[t])
           dr == Tail(drops[t])
<1>1. /\ idle[t] \in Seq(Keys) /\ drops[t] \in Seq(Keys) /\ Len(idle[t]) <= IdleCapacity
      /\ drops[t] # << >>
  BY ThreadTypes DEF Release
<1>2. /\ x \in Keys /\ dr \in Seq(Keys)
      /\ \A j : Count(drops[t], j) = One(x, j) + Count(dr, j)
  BY <1>1, CountTail
<1>3. /\ active' = [active EXCEPT ![x] = IF active[x] = 0 THEN 0 ELSE active[x] - 1]
      /\ drops' = [drops EXCEPT ![t] = dr] /\ owes' = [owes EXCEPT ![t] = TRUE]
      /\ UNCHANGED <<asleep, elapsed, pc, key, held, reused, idle>>
  BY DEF Release, ReleaseSlot
<1> HIDE DEF x, dr
<1>4. \A j \in Keys : active[j] \in Nat /\ active[j] <= Limit
  BY MineParts
<1>5. active[x] # 0
  <2>1. IsFiniteSet(Permits(x)) /\ active[x] = Cardinality(Permits(x))
    BY <1>2 DEF PoolInv, Slots
  <2>2. Hands(held, key, idle, drops, t, x) \in SUBSET Permits(x)
    BY DEF Permits, PermitsOf, Hands
  <2>3. /\ Cardinality(Hands(held, key, idle, drops, t, x)) = HandsCount(held, key, idle, drops, t, x)
        /\ HandsCount(held, key, idle, drops, t, x) \in Nat
    BY <1>1, HandsCounted
  <2>4. Cardinality(Hands(held, key, idle, drops, t, x)) <= Cardinality(Permits(x))
    BY <2>1, <2>2, FS_Subset
  <2>5. /\ Mine(t, x) = OfRequest(held, key, t, x) + Count(idle[t], x) + Count(drops[t], x)
        /\ OfRequest(held, key, t, x) \in {0, 1} /\ Count(idle[t], x) \in Nat
    BY MineParts
  <2>6. Count(drops[t], x) = 1 + Count(dr, x) /\ Count(dr, x) \in Nat
    BY <1>2, CountType DEF One
  <2>7. Mine(t, x) >= 1 /\ Mine(t, x) \in Nat
    BY <2>5, <2>6
  <2>8. active[x] \in Nat /\ Mine(t, x) <= active[x]
    BY <1>2, <1>4, <2>1, <2>3, <2>4 DEF Mine
  <2> QED
    BY <2>7, <2>8
<1>6. PICK at, k, h : /\ at = pc[t] /\ k = key[t] /\ h = held[t]
  OBVIOUS
<1>7. Writes(t, at, k, h, idle[t], dr)
  <2>1. active' \in [Keys -> Nat]
    <3>1. active[x] - 1 \in Nat
      BY <1>2, <1>4, <1>5
    <3> QED
      BY <1>2, <1>3, <1>5, <3>1, Typed
  <2>2. /\ pc' = [pc EXCEPT ![t] = at] /\ key' = [key EXCEPT ![t] = k]
        /\ held' = [held EXCEPT ![t] = h] /\ idle' = [idle EXCEPT ![t] = idle[t]]
    BY <1>3, <1>6, Typed DEF PoolInv, TypeOK
  <2> QED
    BY <1>3, <2>1, <2>2, Typed DEF Writes
<1>8. Fits(at, k, h, idle[t], dr)
  BY <1>1, <1>2, <1>6, ThreadTypes DEF Fits, PoolInv, TypeOK
<1>9. Balance(t, k, h, idle[t], dr)
  <2> SUFFICES ASSUME NEW j \in Keys
               PROVE  /\ active'[j] <= Limit
                      /\ active'[j] + (IF held[t] THEN One(key[t], j) ELSE 0)
                            + Count(idle[t], j) + Count(drops[t], j)
                         = active[j] + (IF h = TRUE THEN One(k, j) ELSE 0)
                            + Count(idle[t], j) + Count(dr, j)
    BY DEF Balance
  <2> DEFINE o == IF h = TRUE THEN One(k, j) ELSE 0
  <2>1. (IF held[t] THEN One(key[t], j) ELSE 0) = o /\ o \in {0, 1}
    BY <1>6, Typed DEF One
  <2> HIDE DEF o
  <2>2. /\ active[j] \in Nat /\ Count(idle[t], j) \in Nat /\ Count(dr, j) \in Nat
        /\ Limit \in Nat /\ active[j] <= Limit
    BY <1>1, <1>2, <1>4, CountType, SlotsAssumption
  <2>3. Count(drops[t], j) = One(x, j) + Count(dr, j) /\ One(x, j) \in {0, 1}
    BY <1>2 DEF One
  <2>4. active'[j] + One(x, j) = active[j] /\ active'[j] \in Nat
    <3>1. CASE j = x
      <4>1. active'[j] = active[j] - 1 /\ active[j] - 1 \in Nat
        BY <1>2, <1>3, <1>4, <1>5, <3>1, Typed
      <4> QED
        BY <2>2, <3>1, <4>1 DEF One
    <3>2. CASE j # x
      <4>1. active'[j] = active[j]
        BY <1>2, <1>3, <3>2, Typed
      <4> QED
        BY <2>2, <3>2, <4>1 DEF One
    <3> QED
      BY <3>1, <3>2
  <2>5. active'[j] <= Limit
    BY <2>2, <2>3, <2>4
  <2>6. active'[j] + o + Count(idle[t], j) + Count(drops[t], j)
        = active[j] + o + Count(idle[t], j) + Count(dr, j)
    BY <2>1, <2>2, <2>3, <2>4
  <2> QED
    BY <2>1, <2>5, <2>6 DEF o
<1> QED
  BY <1>7, <1>8, <1>9, ThreadStep

\* A thread that ends drops its idle connections.
LEMMA ExitStep ==
    ASSUME PoolInv, NEW t \in Threads, ThreadExit(t)
    PROVE  PoolInv'
<1> USE DEF slotVars
<1> DEFINE id == << >>
           dr == drops[t] \o idle[t]
<1>1. /\ idle[t] \in Seq(Keys) /\ drops[t] \in Seq(Keys) /\ held[t] = FALSE
      /\ pc[t] = "idle"
  BY ThreadTypes DEF ThreadExit, Holding
<1>2. dr \in Seq(Keys) /\ \A j : Count(dr, j) = Count(drops[t], j) + Count(idle[t], j)
  BY <1>1, CountConcat
<1>3. id \in Seq(Keys) /\ Len(id) = 0
  OBVIOUS
<1>4. /\ drops' = [drops EXCEPT ![t] = dr] /\ idle' = [idle EXCEPT ![t] = id]
      /\ UNCHANGED <<active, asleep, elapsed, pc, key, held, reused, owes>>
  BY DEF ThreadExit, Dropped
<1> HIDE DEF id, dr
<1>5. \A j : Count(id, j) = 0
  BY <1>3, CountType
<1>6. PICK k : k = key[t]
  OBVIOUS
<1>7. Writes(t, "idle", k, FALSE, id, dr)
  <2>1. /\ pc' = [pc EXCEPT ![t] = "idle"] /\ key' = [key EXCEPT ![t] = k]
        /\ held' = [held EXCEPT ![t] = FALSE]
    BY <1>1, <1>4, <1>6, Typed DEF PoolInv, TypeOK
  <2> QED
    BY <1>4, <2>1, Typed DEF Writes
<1>8. Fits("idle", k, FALSE, id, dr)
  BY <1>2, <1>3, <1>6, Typed, IdleAssumption DEF Fits, Holding
<1>9. Balance(t, k, FALSE, id, dr)
  <2> SUFFICES ASSUME NEW j \in Keys
               PROVE  /\ active'[j] <= Limit
                      /\ active'[j] + 0 + Count(idle[t], j) + Count(drops[t], j)
                         = active[j] + 0 + Count(id, j) + Count(dr, j)
    <3>1. \A j : (IF held[t] THEN One(key[t], j) ELSE 0) = 0
                 /\ (IF FALSE = TRUE THEN One(k, j) ELSE 0) = 0
      BY <1>1
    <3> QED
      BY <3>1 DEF Balance
  <2>1. active[j] \in Nat /\ active[j] <= Limit /\ active'[j] = active[j]
    BY <1>4, MineParts
  <2>2. Count(idle[t], j) \in Nat /\ Count(drops[t], j) \in Nat
    BY <1>1, CountType
  <2>3. Count(id, j) = 0 /\ Count(dr, j) = Count(drops[t], j) + Count(idle[t], j)
    BY <1>2, <1>5
  <2> QED
    BY <2>1, <2>2, <2>3
<1> QED
  BY <1>7, <1>8, <1>9, ThreadStep

-----------------------------------------------------------------------------
\* Every step of the pool keeps the invariant.
LEMMA NextInv == PoolInv /\ [Next]_vars => PoolInv'
<1> SUFFICES ASSUME PoolInv, [Next]_vars PROVE PoolInv'
  OBVIOUS
<1>1. CASE UNCHANGED vars
  <2>1. UNCHANGED <<active, asleep, elapsed, pc, key, held, reused, idle, drops, owes>>
    BY <1>1 DEF vars, slotVars, threadVars
  <2>2. TypeOK' /\ Phases'
    BY <2>1 DEF PoolInv, TypeOK, SlotsTypeOK, Phases
  <2>3. Slots'
    <3>1. \A t, k : PermitsOf(t, k)' = PermitsOf(t, k)
      BY <2>1 DEF PermitsOf
    <3>2. \A k : Permits(k)' = Permits(k)
      BY <3>1 DEF Permits
    <3> QED
      BY <2>1, <3>2 DEF PoolInv, Slots
  <2> QED
    BY <2>2, <2>3 DEF PoolInv
<1>2. CASE Next
  <2>1. PICK t \in Threads :
            Request(t) \/ Work(t) \/ ThreadExit(t) \/ Clock(t) \/ Spurious(t)
    BY <1>2 DEF Next
  <2>2. CASE \/ Request(t) \/ CheckoutMiss(t) \/ Budget(t) \/ DeadlinePassed(t) \/ Sleep(t)
             \/ AcquireTimesOut(t) \/ Connected(t) \/ SendOk(t) \/ Notify(t) \/ Clock(t)
             \/ Spurious(t)
    BY <2>2, QuietSteps
  <2>3. CASE CheckoutHit(t) \/ CheckoutExpired(t)
    BY <2>3, CheckoutSteps
  <2>4. CASE ConnectFails(t) \/ Retry(t) \/ SendFails(t) \/ Discard(t)
    BY <2>4, LosingSteps
  <2>5. CASE Acquire(t)
    BY <2>5, AcquireStep
  <2>6. CASE Checkin(t)
    BY <2>6, CheckinStep
  <2>7. CASE Release(t)
    BY <2>7, ReleaseStep
  <2>8. CASE ThreadExit(t)
    BY <2>8, ExitStep
  <2> QED
    BY <2>1, <2>2, <2>3, <2>4, <2>5, <2>6, <2>7, <2>8 DEF Work
<1> QED
  BY <1>1, <1>2

\* The inductive invariant of the pool: the types, the permits of requests by phase, and the
\* counts of all origins.
THEOREM PoolInvariant == Spec => []PoolInv
<1> QED
  BY InitInv, NextInv, PTL DEF Spec

\* The slots of every origin are sound: retries, expired and displaced idle connections,
\* failed connects and threads that end neither leak a permit nor give one back twice, and
\* no origin ever has more connections than the limit (try_pooled, checkin, acquire_slot,
\* Drop for FastPermit).
THEOREM SlotsAreSound == Spec => []SlotsSound
<1>1. PoolInv => SlotsSound
  BY DEF PoolInv, Slots, SlotsSound, PermitsCounted, LimitHeld
<1> QED
  BY <1>1, PoolInvariant, PTL
=============================================================================
