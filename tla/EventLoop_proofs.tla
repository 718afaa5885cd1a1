-------------------------- MODULE EventLoop_proofs --------------------------
(***************************************************************************)
(* Proofs about EventLoop: every event has one place, timers are neither    *)
(* late nor early, a thread that sleeps is woken, and a cancelled event is  *)
(* not called; and what check_ready relies on: the list that an event is put *)
(* in says how far off it is, and the bits of the bucket number that did not *)
(* change say which lists need not be looked at.                            *)
(***************************************************************************)
EXTENDS EventLoop, FiniteSetTheorems, WellFoundedInduction, TLAPS
-----------------------------------------------------------------------------
(* Numbers *)
\* Every set of numbers has a least one: induction, in the form the provers can use.
LEMMA Least ==
  ASSUME NEW T \in SUBSET Nat, T # {}
  PROVE  \E x \in T : \A y \in T : x <= y
<1>1. IsWellFoundedOn(OpToRel(<, Nat), Nat)
  BY Zenon, NatLessThanWellFounded
<1>2. OpToRel(<, Nat) = {p \in Nat \X Nat : p[1] < p[2]}
  BY Zenon DEF OpToRel
<1>3. \A S \in SUBSET Nat : S # {} => \E x \in S : \A y \in S : ~(<<y, x>> \in {p \in Nat \X Nat : p[1] < p[2]})
  BY ZenonT(30), <1>1, <1>2, WFMin
<1>4. PICK x \in T : \A y \in T : ~(<<y, x>> \in {p \in Nat \X Nat : p[1] < p[2]})
  BY Zenon, <1>3
<1>5. \A y \in T : x \in Nat /\ y \in Nat /\ ~(y < x)
  BY Zenon, <1>4
<1>6. QED BY <1>5

LEMMA MinLeast ==
  ASSUME NEW T \in SUBSET Nat, T # {}
  PROVE  Min(T) \in T /\ \A y \in T : Min(T) <= y
<1>1. PICK x \in T : \A y \in T : x <= y
  BY Zenon, Least
<1>2. QED BY Zenon, <1>1 DEF Min

LEMMA MinOfTwo ==
  ASSUME NEW a \in Int, NEW b \in Int
  PROVE  Min({a, b}) = IF a <= b THEN a ELSE b
<1>1. PICK m \in {a, b} : \A y \in {a, b} : m <= y
  <2>1. CASE a <= b
    BY <2>1
  <2>2. CASE ~(a <= b)
    BY <2>2
  <2>3. QED BY Zenon, <2>1, <2>2
<1>2. Min({a, b}) \in {a, b} /\ \A y \in {a, b} : Min({a, b}) <= y
  BY Zenon, <1>1 DEF Min
<1>3. QED BY <1>2

LEMMA MaxOfTwo ==
  ASSUME NEW a \in Int, NEW b \in Int
  PROVE  Max({a, b}) = IF a >= b THEN a ELSE b
<1>1. PICK m \in {a, b} : \A y \in {a, b} : m >= y
  <2>1. CASE a >= b
    BY <2>1
  <2>2. CASE ~(a >= b)
    BY <2>2
  <2>3. QED BY Zenon, <2>1, <2>2
<1>2. Max({a, b}) \in {a, b} /\ \A y \in {a, b} : Max({a, b}) >= y
  BY Zenon, <1>1 DEF Max
<1>3. QED BY <1>2

LEMMA Division ==
  ASSUME NEW x \in Int, NEW d \in Nat \ {0}
  PROVE  /\ x \div d \in Int /\ x % d \in 0 .. d - 1
         /\ x = d * (x \div d) + (x % d)
OBVIOUS
-----------------------------------------------------------------------------
(* Powers of two, counted as subsets *)
LEMMA PowerNat ==
  ASSUME NEW n \in Nat
  PROVE  2 ^ n \in Nat \ {0}
<1>1. IsFiniteSet(1 .. n) /\ Cardinality(1 .. n) = n
  BY FS_Interval
<1>2. IsFiniteSet(SUBSET (1 .. n)) /\ Cardinality(SUBSET (1 .. n)) = 2 ^ n
  BY Zenon, <1>1, FS_SUBSET
<1>3. Cardinality(SUBSET (1 .. n)) \in Nat /\ Cardinality(SUBSET (1 .. n)) # 0
  BY Zenon, <1>2, FS_CardinalityType, FS_EmptySet
<1>4. QED BY Zenon, <1>2, <1>3

\* Half of the subsets of 1 .. n + 1 have n + 1.
LEMMA PowerNext ==
  ASSUME NEW n \in Nat
  PROVE  2 ^ (n + 1) = 2 * 2 ^ n
<1> DEFINE S == SUBSET (1 .. n)
           All == SUBSET (1 .. n + 1)
           T == All \ S
           f == [x \in S |-> x \union {n + 1}]
<1>1. IsFiniteSet(1 .. n) /\ Cardinality(1 .. n) = n /\ IsFiniteSet(1 .. n + 1) /\ Cardinality(1 .. n + 1) = n + 1
  BY FS_Interval
<1>2. /\ IsFiniteSet(S) /\ Cardinality(S) = 2 ^ n
      /\ IsFiniteSet(All) /\ Cardinality(All) = 2 ^ (n + 1)
  BY Zenon, <1>1, FS_SUBSET
<1>3. f \in Bijection(S, T)
  <2>1. ASSUME NEW x \in S
        PROVE  f[x] \in T
    <3>1. x \union {n + 1} \in All
      OBVIOUS
    <3>2. n + 1 \in x \union {n + 1} /\ n + 1 \notin 1 .. n
      OBVIOUS
    <3>3. QED BY Zenon, <3>1, <3>2
  <2>2. ASSUME NEW x \in S, NEW y \in S, f[x] = f[y]
        PROVE  x = y
    <3>1. n + 1 \notin x /\ n + 1 \notin y
      OBVIOUS
    <3>2. QED BY <2>2, <3>1
  <2>3. ASSUME NEW z \in T
        PROVE  \E x \in S : f[x] = z
    <3>1. n + 1 \in z
      OBVIOUS
    <3>2. z \ {n + 1} \in S
      OBVIOUS
    <3>3. f[z \ {n + 1}] = z
      BY Zenon, <3>1, <3>2
    <3>4. QED BY Zenon, <3>2, <3>3
  <2>4. QED BY Zenon, <2>1, <2>2, <2>3 DEF Bijection, Injection, Surjection, IsInjective
<1>4. IsFiniteSet(T) /\ Cardinality(T) = 2 ^ n
  <2>1. ExistsBijection(S, T)
    BY Zenon, <1>3 DEF ExistsBijection
  <2>2. QED BY Zenon, <1>2, <2>1, FS_Bijection
<1>5. S \in SUBSET All
  OBVIOUS
<1>6. Cardinality(T) = Cardinality(All) - Cardinality(All \intersect S)
  BY Zenon, <1>2, FS_Difference
<1>7. All \intersect S = S
  BY Zenon, <1>5
<1>8. 2 ^ n = 2 ^ (n + 1) - 2 ^ n
  BY Zenon, <1>2, <1>4, <1>6, <1>7
<1>9. QED BY <1>8, PowerNat

LEMMA PowerDivides ==
  ASSUME NEW j \in Nat, NEW k \in Nat, j <= k
  PROVE  \E m \in Nat \ {0} : 2 ^ k = m * 2 ^ j
<1> DEFINE Missed == {d \in Nat : ~ \E m \in Nat \ {0} : 2 ^ (j + d) = m * 2 ^ j}
<1>1. ASSUME Missed # {}
      PROVE  FALSE
  <2>1. PICK d \in Missed : \A e \in Missed : d <= e
    BY Zenon, <1>1, Least
  <2>2. d # 0
    <3>1. 2 ^ (j + 0) = 1 * 2 ^ j
      BY PowerNat
    <3>2. QED BY <3>1
  <2>3. PICK m \in Nat \ {0} : 2 ^ (j + (d - 1)) = m * 2 ^ j
    BY <2>1, <2>2
  <2>4. 2 ^ ((j + (d - 1)) + 1) = 2 * 2 ^ (j + (d - 1))
    BY <2>2, PowerNext
  <2>5. (j + (d - 1)) + 1 = j + d
    BY <2>2
  <2>6. 2 ^ (j + d) = (2 * m) * 2 ^ j /\ 2 * m \in Nat \ {0}
    BY <2>3, <2>4, <2>5, PowerNat
  <2>7. QED BY Zenon, <2>6
<1>2. k - j \in Nat /\ j + (k - j) = k
  OBVIOUS
<1>3. QED BY Zenon, <1>1, <1>2
-----------------------------------------------------------------------------
(* The lists *)
LEMMA BucketTimes ==
  ASSUME NEW i \in Nat
  PROVE  PQ_BUCKET_TIME(i) \in Nat \ {0}
<1>1. 2 ^ i \in Nat \ {0} /\ BucketTime \in Nat \ {0}
  BY Zenon, PowerNat, ListsAssumption
<1>2. QED BY <1>1 DEF PQ_BUCKET_TIME

\* An event above the lowest list is further off than the bucket time of the list below;
\* one that comes to the lowest list is due within a bucket.
LEMMA ListForFits ==
  ASSUME NEW i \in Nat, NEW t \in Int
  PROVE  /\ ListFor(i, t) \in 0 .. i
         /\ ListFor(i, t) > 0 => t > PQ_BUCKET_TIME(ListFor(i, t) - 1)
         /\ ListFor(i, t) = 0 /\ i > 0 => t <= PQ_BUCKET_TIME(0)
<1> DEFINE S == {i} \union {j \in 0 .. i : t <= PQ_BUCKET_TIME(j)}
<1>1. S \in SUBSET Nat /\ S # {}
  OBVIOUS
<1>2. ListFor(i, t) \in S /\ \A y \in S : ListFor(i, t) <= y
  BY Zenon, <1>1, MinLeast DEF ListFor
<1>3. ListFor(i, t) \in 0 .. i
  BY <1>2
<1>4. ASSUME ListFor(i, t) > 0
      PROVE  t > PQ_BUCKET_TIME(ListFor(i, t) - 1)
  <2>1. ListFor(i, t) - 1 \in 0 .. i /\ ListFor(i, t) - 1 \notin S
    BY <1>2, <1>3, <1>4
  <2>2. PQ_BUCKET_TIME(ListFor(i, t) - 1) \in Nat
    BY <2>1, BucketTimes
  <2>3. QED BY <2>1, <2>2
<1>5. ListFor(i, t) = 0 /\ i > 0 => t <= PQ_BUCKET_TIME(0)
  BY <1>2
<1>6. QED BY Zenon, <1>3, <1>4, <1>5

\* The bits above Changed(a, b) agree.
LEMMA ChangedAgrees ==
  ASSUME NEW a \in Int, NEW b \in Int
  PROVE  /\ Changed(a, b) \in Lists
         /\ (a % 2 ^ (N_PQ_LIST - 1)) \div 2 ^ Changed(a, b) = (b % 2 ^ (N_PQ_LIST - 1)) \div 2 ^ Changed(a, b)
<1> DEFINE mask == 2 ^ (N_PQ_LIST - 1)
           S == {k \in Lists : (a % mask) \div 2 ^ k = (b % mask) \div 2 ^ k}
<1>1. N_PQ_LIST - 1 \in Lists /\ Lists \in SUBSET Nat
  BY ListsAssumption DEF Lists
<1>2. mask \in Nat \ {0}
  BY Zenon, <1>1, PowerNat
<1>3. ASSUME NEW x \in Int
      PROVE  (x % mask) \div mask = 0
  <2>1. x % mask \in 0 .. mask - 1
    BY Zenon, <1>2, Division
  <2>2. HIDE DEF mask
  <2>3. QED BY <1>2, <2>1
<1>4. S # {}
  BY Zenon, <1>1, <1>3
<1>5. Min(S) \in S
  BY Zenon, <1>1, <1>4, MinLeast
<1>6. QED BY Zenon, <1>5 DEF Changed

\* A bucket number that did not go further than half of what the mask can tell apart did
\* not pass a multiple of 2^(i - 1) when its bits from i - 1 on are unchanged.
LEMMA SameBlock ==
  ASSUME NEW a \in Int, NEW b \in Int, b <= a, a - b <= 2 ^ (N_PQ_LIST - 2),
         NEW i \in Lists \ {0}, Changed(a, b) < i, NEW q \in Int
  PROVE  ~(b < q * 2 ^ (i - 1) /\ q * 2 ^ (i - 1) <= a)
<1> DEFINE c == Changed(a, b)
           K == 2 ^ c
           H == 2 ^ (N_PQ_LIST - 2)
           M == 2 ^ (N_PQ_LIST - 1)
           D == 2 ^ (i - 1)
<1>1. /\ c \in Nat /\ c <= i - 1 /\ i - 1 \in Nat
      /\ c <= N_PQ_LIST - 2 /\ N_PQ_LIST - 2 \in Nat /\ N_PQ_LIST - 1 \in Nat
  <2>1. c \in Lists
    BY Zenon, ChangedAgrees
  <2>2. N_PQ_LIST \in Nat \ {0, 1} /\ i \in 1 .. N_PQ_LIST - 1 /\ c \in 0 .. N_PQ_LIST - 1
    BY <2>1, ListsAssumption DEF Lists
  <2>3. QED BY <2>2
<1>2. K \in Nat \ {0} /\ H \in Nat \ {0} /\ M \in Nat \ {0} /\ D \in Nat \ {0}
  BY Zenon, <1>1, PowerNat
<1>3. M = 2 * H
  <2>1. (N_PQ_LIST - 2) + 1 = N_PQ_LIST - 1
    BY ListsAssumption
  <2>2. QED BY Zenon, <1>1, <2>1, PowerNext
<1>4. PICK h \in Nat \ {0} : H = h * K
  BY Zenon, <1>1, PowerDivides
<1>5. PICK d \in Nat \ {0} : D = d * K
  BY Zenon, <1>1, PowerDivides
<1>6. (a % M) \div K = (b % M) \div K
  BY Zenon, ChangedAgrees
<1> HIDE DEF c, K, H, M, D
<1>7. PICK qa \in Int, ra \in Int : a = M * qa + ra /\ ra = a % M
  <2>1. a \div M \in Int /\ a % M \in Int /\ a = M * (a \div M) + (a % M)
    BY <1>2, Division
  <2>2. QED BY Zenon, <2>1
<1>8. PICK qb \in Int, rb \in Int : b = M * qb + rb /\ rb = b % M
  <2>1. b \div M \in Int /\ b % M \in Int /\ b = M * (b \div M) + (b % M)
    BY <1>2, Division
  <2>2. QED BY Zenon, <2>1
<1>9. PICK s \in Int, u \in 0 .. K - 1, v \in 0 .. K - 1 : ra = K * s + u /\ rb = K * s + v
  <2>1. ra \div K \in Int /\ ra % K \in 0 .. K - 1 /\ ra = K * (ra \div K) + (ra % K)
    BY Zenon, <1>2, Division
  <2>2. rb \div K \in Int /\ rb % K \in 0 .. K - 1 /\ rb = K * (rb \div K) + (rb % K)
    BY Zenon, <1>2, Division
  <2>3. ra \div K = rb \div K
    BY Zenon, <1>6, <1>7, <1>8
  <2>4. QED BY Zenon, <2>1, <2>2, <2>3
<1>10. K <= H
  BY <1>2, <1>4
<1>11. qa = qb
  <2>1. a - b = M * (qa - qb) + (u - v)
    <3>1. M * (qa - qb) = M * qa - M * qb /\ M * qa \in Int /\ M * qb \in Int /\ K * s \in Int
      BY <1>2
    <3>2. a = M * qa + (K * s + u) /\ b = M * qb + (K * s + v)
      BY Zenon, <1>7, <1>8, <1>9
    <3>3. QED BY <3>1, <3>2
  <2>2. a - b <= H
    BY Zenon DEF H
  <2>3. CASE qa - qb >= 1
    <3>1. M * (qa - qb) >= M
      BY <1>2, <2>3
    <3>2. QED BY <1>2, <1>3, <1>9, <1>10, <2>1, <2>2, <3>1
  <2>4. CASE qa - qb <= 0 - 1
    <3>1. M * (qa - qb) <= 0 - M
      BY <1>2, <2>4
    <3>2. QED BY <1>2, <1>3, <1>9, <1>10, <2>1, <3>1
  <2>5. QED BY <2>3, <2>4
<1>12. PICK x \in Int : a = K * x + u /\ b = K * x + v
  <2>1. M * qa = K * ((2 * h) * qa)
    BY <1>2, <1>3, <1>4
  <2>2. a = K * ((2 * h) * qa + s) + u /\ b = K * ((2 * h) * qa + s) + v
    <3>1. (2 * h) * qa \in Int
      BY <1>4
    <3>2. K * ((2 * h) * qa + s) = K * ((2 * h) * qa) + K * s /\ K * ((2 * h) * qa) \in Int /\ K * s \in Int
      BY <1>2, <3>1
    <3>3. a = M * qa + (K * s + u) /\ b = M * qa + (K * s + v)
      BY Zenon, <1>7, <1>8, <1>9, <1>11
    <3>4. QED BY <2>1, <3>2, <3>3
  <2>3. (2 * h) * qa + s \in Int
    BY <1>4
  <2>4. QED BY Zenon, <2>2, <2>3
<1>13. q * D = K * (q * d)
  BY <1>2, <1>5
<1>14. ASSUME b < q * D, q * D <= a
       PROVE  FALSE
  <2>1. q * d \in Int
    BY <1>5
  <2>2. K * x < K * (q * d)
    BY <1>2, <1>9, <1>12, <1>13, <1>14, <2>1
  <2>3. K * (q * d) < K * (x + 1)
    BY <1>2, <1>9, <1>12, <1>13, <1>14, <2>1
  <2>4. x < q * d /\ q * d < x + 1
    BY <1>2, <2>1, <2>2, <2>3
  <2>5. QED BY <2>1, <2>4
<1>15. QED BY Zenon, <1>14 DEF D

\* The same of times: check_ready may leave list i alone because since the last look, not
\* longer ago than half of Period, no multiple of the bucket time below it has passed.
LEMMA NothingPassed ==
  ASSUME NEW last \in Int, NEW new \in Int, last <= new, 2 * (new - last) <= PQ_BUCKET_TIME(N_PQ_LIST - 1),
         NEW i \in Lists \ {0}, Changed(new \div BucketTime, last \div BucketTime) < i, NEW q \in Int
  PROVE  ~(last < q * PQ_BUCKET_TIME(i - 1) /\ q * PQ_BUCKET_TIME(i - 1) <= new)
<1> DEFINE B == BucketTime
           a == new \div B
           b == last \div B
           H == 2 ^ (N_PQ_LIST - 2)
           D == 2 ^ (i - 1)
<1>1. B \in Nat \ {0} /\ N_PQ_LIST - 2 \in Nat /\ i - 1 \in Nat
  BY ListsAssumption DEF Lists
<1>2. H \in Nat \ {0} /\ D \in Nat \ {0}
  BY Zenon, <1>1, PowerNat
<1>3. PQ_BUCKET_TIME(N_PQ_LIST - 1) = B * (2 * H)
  <2>1. (N_PQ_LIST - 2) + 1 = N_PQ_LIST - 1
    BY ListsAssumption
  <2>2. QED BY Zenon, <1>1, <2>1, PowerNext DEF PQ_BUCKET_TIME
<1>4. q * PQ_BUCKET_TIME(i - 1) = B * (q * D)
  BY <1>1, <1>2 DEF PQ_BUCKET_TIME
<1>5. PICK u \in 0 .. B - 1 : new = B * a + u /\ a \in Int
  BY Zenon, <1>1, Division
<1>6. PICK v \in 0 .. B - 1 : last = B * b + v /\ b \in Int
  BY Zenon, <1>1, Division
<1>7. ~(b < q * D /\ q * D <= a) /\ q * D \in Int
  <2>1. B * b < B * (a + 1)
    BY <1>1, <1>5, <1>6
  <2>2. b <= a
    <3> HIDE DEF a, b
    <3>1. QED BY <1>1, <1>5, <1>6, <2>1
  <2>3. 2 * (new - last) <= B * (2 * H)
    BY Zenon, <1>3
  <2>4. B * a < B * (b + (1 + H))
    <3> HIDE DEF a, b, H
    <3>1. new - last <= B * H
      BY <1>1, <1>2, <2>3
    <3>2. QED BY <1>1, <1>2, <1>5, <1>6, <3>1
  <2>5. a - b <= H
    <3> HIDE DEF a, b, H
    <3>1. a < b + (1 + H)
      BY <1>1, <1>2, <1>5, <1>6, <2>4
    <3>2. QED BY <1>2, <1>5, <1>6, <3>1
  <2>6. q * D \in Int
    BY <1>2
  <2>7. QED BY Zenon, <1>5, <1>6, <2>2, <2>5, <2>6, SameBlock
<1> HIDE DEF a, b, D, H
<1>8. ASSUME last < B * (q * D), B * (q * D) <= new
      PROVE  FALSE
  <2>1. B * b < B * (q * D)
    BY <1>1, <1>6, <1>7, <1>8
  <2>2. B * (q * D) < B * (a + 1)
    BY <1>1, <1>5, <1>7, <1>8
  <2>3. b < q * D /\ q * D < a + 1
    BY <1>1, <1>5, <1>6, <1>7, <2>1, <2>2
  <2>4. QED BY <1>5, <1>7, <2>3
<1>9. QED BY Zenon, <1>4, <1>8

LEMMA NextMultiple ==
  ASSUME NEW x \in Int, NEW d \in Nat \ {0}, NEW t \in Int, t - x > d
  PROVE  \E q \in Int : x < q * d /\ q * d <= t
<1> DEFINE y == x \div d
<1>1. y \in Int /\ x % d \in 0 .. d - 1 /\ x = d * y + (x % d)
  BY Zenon, Division
<1> HIDE DEF y
<1>2. (y + 1) * d = d * y + d /\ d * y \in Int
  BY <1>1
<1>3. x < (y + 1) * d /\ (y + 1) * d <= t /\ y + 1 \in Int
  BY <1>1, <1>2
<1>4. QED BY Zenon, <1>3

LEMMA DivisionShift ==
  ASSUME NEW x \in Int, NEW d \in Nat \ {0}, NEW k \in Int
  PROVE  (x - d * k) \div d = (x \div d) - k
<1> DEFINE y == x \div d
           z == (x - d * k) \div d
<1>1. PICK r \in 0 .. d - 1 : x = d * y + r /\ y \in Int
  BY Zenon, Division
<1>2. PICK s \in 0 .. d - 1 : x - d * k = d * z + s /\ z \in Int
  <2>1. x - d * k \in Int
    OBVIOUS
  <2>2. QED BY Zenon, <2>1, Division
<1> HIDE DEF y, z
<1>3. d * (y - k) = d * y - d * k /\ d * y \in Int /\ d * k \in Int /\ d * z \in Int
  BY <1>1, <1>2
<1>4. d * (y - k) + r = d * z + s
  BY <1>1, <1>2, <1>3
<1>5. d * (y - k) < d * (z + 1) /\ d * z < d * ((y - k) + 1)
  BY <1>1, <1>2, <1>4
<1>6. y - k < z + 1 /\ z < (y - k) + 1
  BY <1>1, <1>2, <1>5
<1>7. z = y - k
  BY <1>1, <1>2, <1>6
<1>8. QED BY Zenon, <1>7 DEF y, z

-----------------------------------------------------------------------------
(* Queues *)
LEMMA Appended ==
  ASSUME NEW S, NEW s \in Seq(S), NEW e \in S
  PROVE  /\ Append(s, e) \in Seq(S) /\ Append(s, e) # <<>>
         /\ Elems(Append(s, e)) = Elems(s) \union {e}
         /\ IsInjective(s) /\ e \notin Elems(s) => IsInjective(Append(s, e))
<1>1. Append(s, e) \in Seq(S) /\ Append(s, e) # <<>>
  <2>1. Append(s, e) \in Seq(S) /\ Len(Append(s, e)) = Len(s) + 1 /\ Len(s) \in Nat
    OBVIOUS
  <2>2. Len(Append(s, e)) # 0 /\ Len(<<>>) = 0
    BY <2>1
  <2>3. QED BY Zenon, <2>1, <2>2
<1>2. /\ Len(s) \in Nat /\ DOMAIN s = 1 .. Len(s) /\ DOMAIN Append(s, e) = 1 .. Len(s) + 1
      /\ Append(s, e)[Len(s) + 1] = e /\ \A i \in 1 .. Len(s) : Append(s, e)[i] = s[i]
  OBVIOUS
<1>3. Elems(Append(s, e)) = Elems(s) \union {e}
  BY <1>2 DEF Elems
<1>4. ASSUME IsInjective(s), e \notin Elems(s)
      PROVE  IsInjective(Append(s, e))
  BY <1>2, <1>4 DEF Elems, IsInjective
<1>5. QED BY Zenon, <1>1, <1>3, <1>4

LEMMA Headed ==
  ASSUME NEW S, NEW s \in Seq(S), s # <<>>, IsInjective(s)
  PROVE  /\ Head(s) \in S /\ Head(s) \in Elems(s)
         /\ Tail(s) \in Seq(S) /\ IsInjective(Tail(s)) /\ Elems(Tail(s)) = Elems(s) \ {Head(s)}
<1>1. /\ Len(s) \in Nat /\ Len(s) > 0 /\ DOMAIN s = 1 .. Len(s) /\ Head(s) = s[1] /\ s[1] \in S
      /\ Tail(s) \in Seq(S) /\ DOMAIN Tail(s) = 1 .. Len(s) - 1
      /\ \A i \in 1 .. Len(s) - 1 : Tail(s)[i] = s[i + 1]
  OBVIOUS
<1>2. IsInjective(Tail(s))
  BY <1>1 DEF IsInjective
<1>3. Elems(Tail(s)) \subseteq Elems(s) \ {Head(s)}
  BY <1>1 DEF Elems, IsInjective
<1>4. ASSUME NEW i \in 1 .. Len(s), s[i] # Head(s)
      PROVE  s[i] \in Elems(Tail(s))
  <2>1. i - 1 \in 1 .. Len(s) - 1 /\ Tail(s)[i - 1] = s[i]
    BY <1>1, <1>4
  <2>2. QED BY Zenon, <1>1, <2>1 DEF Elems
<1>5. QED BY <1>1, <1>2, <1>3, <1>4 DEF Elems

LEMMA Joined ==
  ASSUME NEW S, NEW s \in Seq(S), NEW t \in Seq(S)
  PROVE  /\ s \o t \in Seq(S)
         /\ Elems(s \o t) = Elems(s) \union Elems(t)
         /\ IsInjective(s) /\ IsInjective(t) /\ Elems(s) \intersect Elems(t) = {} => IsInjective(s \o t)
<1>1. /\ Len(s) \in Nat /\ Len(t) \in Nat /\ DOMAIN s = 1 .. Len(s) /\ DOMAIN t = 1 .. Len(t)
      /\ s \o t \in Seq(S) /\ DOMAIN (s \o t) = 1 .. Len(s) + Len(t)
      /\ \A i \in 1 .. Len(s) : (s \o t)[i] = s[i]
  OBVIOUS
<1>2. \A i \in 1 .. Len(t) : (s \o t)[Len(s) + i] = t[i]
  OBVIOUS
<1>3. ASSUME NEW i \in 1 .. Len(s) + Len(t)
      PROVE  \/ i \in 1 .. Len(s) /\ (s \o t)[i] = s[i]
             \/ i - Len(s) \in 1 .. Len(t) /\ (s \o t)[i] = t[i - Len(s)]
  <2>1. CASE i <= Len(s)
    BY <1>1, <2>1
  <2>2. CASE i > Len(s)
    <3>1. i - Len(s) \in 1 .. Len(t) /\ Len(s) + (i - Len(s)) = i
      BY <1>1, <2>2
    <3>2. QED BY Zenon, <1>2, <3>1
  <2>3. QED BY <1>1, <2>1, <2>2
<1>4. Elems(s \o t) \subseteq Elems(s) \union Elems(t)
  BY Zenon, <1>1, <1>3 DEF Elems
<1>5. Elems(s) \subseteq Elems(s \o t)
  BY <1>1 DEF Elems
<1>6. Elems(t) \subseteq Elems(s \o t)
  <2>1. ASSUME NEW i \in 1 .. Len(t)
        PROVE  Len(s) + i \in 1 .. Len(s) + Len(t)
    BY <1>1
  <2>2. QED BY Zenon, <1>1, <1>2, <2>1 DEF Elems
<1>7. ASSUME IsInjective(s), IsInjective(t), Elems(s) \intersect Elems(t) = {}
      PROVE  IsInjective(s \o t)
  <2>1. SUFFICES ASSUME NEW i \in 1 .. Len(s) + Len(t), NEW j \in 1 .. Len(s) + Len(t), (s \o t)[i] = (s \o t)[j]
                 PROVE  i = j
    BY Zenon, <1>1 DEF IsInjective
  <2>2. CASE i \in 1 .. Len(s) /\ (s \o t)[i] = s[i] /\ j \in 1 .. Len(s) /\ (s \o t)[j] = s[j]
    BY Zenon, <1>1, <1>7, <2>1, <2>2 DEF IsInjective
  <2>3. CASE /\ i - Len(s) \in 1 .. Len(t) /\ (s \o t)[i] = t[i - Len(s)]
             /\ j - Len(s) \in 1 .. Len(t) /\ (s \o t)[j] = t[j - Len(s)]
    <3>1. i - Len(s) = j - Len(s)
      BY Zenon, <1>1, <1>7, <2>1, <2>3 DEF IsInjective
    <3>2. QED BY <1>1, <3>1
  <2>4. ASSUME NEW k \in 1 .. Len(s), NEW l \in 1 .. Len(t)
        PROVE  s[k] # t[l]
    BY Zenon, <1>1, <1>7 DEF Elems
  <2>5. QED BY Zenon, <1>3, <2>1, <2>2, <2>3, <2>4
<1>8. QED BY Zenon, <1>1, <1>4, <1>5, <1>6, <1>7

\* dequeue_external keeps the events that are not cancelled, each once.
LEMMA KeptOnce ==
  ASSUME NEW S, NEW s \in Seq(S), NEW gone, IsInjective(s)
  PROVE  /\ Kept(s, gone) \in Seq(S) /\ IsInjective(Kept(s, gone))
         /\ Elems(Kept(s, gone)) = Elems(s) \ gone
<1> DEFINE Rest(f, i) == IF i = 0 THEN <<>> ELSE IF s[i] \in gone THEN f[i - 1] ELSE Append(f[i - 1], s[i])
           Upto(f, n) == f = [i \in 0 .. n |-> Rest(f, i)]
           kept == CHOOSE f : f = [i \in 0 .. Len(s) |-> Rest(f, i)]
           Missed == {n \in Nat : ~ \E f : Upto(f, n)}
           First(n) == {s[j] : j \in 1 .. n}
           Good(n) == kept[n] \in Seq(S) /\ IsInjective(kept[n]) /\ Elems(kept[n]) = First(n) \ gone
           Bad == {n \in 0 .. Len(s) : ~ Good(n)}
<1>1. Len(s) \in Nat /\ DOMAIN s = 1 .. Len(s) /\ \A i \in 1 .. Len(s) : s[i] \in S
  OBVIOUS
<1>2. Missed = {}
  <2>1. SUFFICES ASSUME Missed # {}
                 PROVE  FALSE
    BY Zenon
  <2>2. PICK n \in Missed : \A m \in Missed : n <= m
    BY Zenon, <2>1, Least
  <2>3. n # 0
    <3>1. Upto([i \in 0 .. 0 |-> <<>>], 0)
      OBVIOUS
    <3>2. QED BY Zenon, <3>1
  <2>4. PICK g : Upto(g, n - 1)
    <3>1. n - 1 \in Nat /\ ~(n <= n - 1)
      BY <2>3
    <3> HIDE DEF Upto
    <3>2. QED BY Zenon, <2>2, <3>1
  <2> DEFINE h == [i \in 0 .. n |-> IF i = n THEN Rest(g, n) ELSE g[i]]
  <2>5. ASSUME NEW i \in 0 .. n
        PROVE  h[i] = Rest(h, i)
    <3>1. CASE i = n
      BY <2>3, <3>1
    <3>2. CASE i # n
      <4>1. i \in 0 .. n - 1
        BY <3>2
      <4>2. g[i] = Rest(g, i)
        BY Zenon, <2>4, <4>1
      <4>3. i # 0 => i - 1 \in 0 .. n /\ i - 1 # n
        BY <4>1
      <4>4. QED BY Zenon, <3>2, <4>2, <4>3
    <3>3. QED BY Zenon, <3>1, <3>2
  <2>6. Upto(h, n)
    BY Zenon, <2>5
  <2>7. QED BY Zenon, <2>6
<1>3. kept = [i \in 0 .. Len(s) |-> Rest(kept, i)]
  <2>1. \E f : f = [i \in 0 .. Len(s) |-> Rest(f, i)]
    BY Zenon, <1>1, <1>2
  <2>2. QED BY Zenon, <2>1
<1>4. Kept(s, gone) = kept[Len(s)]
  BY Zenon DEF Kept
<1> HIDE DEF kept
<1> HIDE DEF Good
<1>5. Bad = {}
  <2>1. SUFFICES ASSUME Bad # {}
                 PROVE  FALSE
    BY Zenon
  <2>2. PICK n \in Bad : \A m \in Bad : n <= m
    <3>1. Bad \in SUBSET Nat
      BY <1>1
    <3>2. QED BY Zenon, <2>1, <3>1, Least
  <2>3. kept[n] = Rest(kept, n)
    BY Zenon, <1>3
  <2>4. n # 0
    <3>1. ASSUME n = 0
          PROVE  Good(n)
      <4>1. kept[n] = <<>> /\ First(n) = {}
        BY <2>3, <3>1
      <4>2. kept[n] \in Seq(S) /\ DOMAIN kept[n] = {}
        BY <4>1
      <4>3. QED BY Zenon, <4>1, <4>2 DEF IsInjective, Elems, Good
    <3>2. QED BY Zenon, <3>1
  <2>5. Good(n - 1)
    <3>1. n - 1 \in 0 .. Len(s) /\ ~(n <= n - 1)
      BY <1>1, <2>4
    <3>2. QED BY Zenon, <2>2, <3>1
  <2>6. First(n) = First(n - 1) \union {s[n]} /\ s[n] \in S /\ s[n] \notin First(n - 1)
    <3>1. n \in 1 .. Len(s) /\ 1 .. n = (1 .. n - 1) \union {n}
      BY <1>1, <2>4
    <3>2. \A j \in 1 .. n - 1 : j \in 1 .. Len(s) /\ j # n
      BY <1>1
    <3>3. QED BY <1>1, <3>1, <3>2 DEF IsInjective
  <2>7. CASE s[n] \in gone
    BY Zenon, <2>3, <2>4, <2>5, <2>6, <2>7 DEF Good
  <2>8. CASE s[n] \notin gone
    <3>1. kept[n] = Append(kept[n - 1], s[n])
      BY Zenon, <2>3, <2>4, <2>8
    <3>2. s[n] \notin Elems(kept[n - 1])
      BY Zenon, <2>5, <2>6 DEF Good
    <3>3. /\ kept[n] \in Seq(S) /\ IsInjective(kept[n])
          /\ Elems(kept[n]) = Elems(kept[n - 1]) \union {s[n]}
      <4>1. kept[n - 1] \in Seq(S) /\ IsInjective(kept[n - 1]) /\ s[n] \in S
        BY Zenon, <2>5, <2>6 DEF Good
      <4>2. QED BY <3>1, <3>2, <4>1, Appended
    <3>4. QED BY Zenon, <2>5, <2>6, <2>8, <3>3 DEF Good
  <2>9. QED BY Zenon, <2>7, <2>8
<1>6. Good(Len(s))
  BY <1>1, <1>5
<1>7. First(Len(s)) = Elems(s)
  BY Zenon, <1>1 DEF Elems
<1>8. QED BY Zenon, <1>4, <1>6, <1>7 DEF Good
-----------------------------------------------------------------------------
(* The inductive invariant *)
Types ==
  /\ after \in [Lists -> SUBSET Events] /\ in_heap \in [Events -> Lists]
  /\ last_check_time \in Int /\ last_check_buckets \in Int
  /\ al \in Seq(Events) /\ localQueue \in Seq(Events) /\ NegativeQueue \in SUBSET Events
  /\ timeout_at \in [Events -> Int] /\ period \in [Events -> Int]
  /\ in_the_prot_queue \in SUBSET Events /\ in_the_priority_queue \in SUBSET Events
  /\ allocated \in SUBSET Events /\ awaited \in SUBSET allocated /\ cancelled \in SUBSET allocated
  /\ pc \in {"drain", "local", "call", "handler", "after", "ready", "polls", "wait", "asleep", "awake"}
  /\ ret \in {"local", "ready", "polls"} /\ run \in Events \union {None}
  /\ second \in BOOLEAN /\ done_one \in BOOLEAN /\ evfd \in BOOLEAN /\ signalled \in BOOLEAN
  /\ will_signal \in SUBSET Others /\ tail_cb \in Handlers
  /\ event_time \in Int /\ wake_at \in Int /\ now \in Period .. 2 * Period - 1 /\ sched \in 0 .. MaxSched

\* The flag of the two queues other threads and handlers fill, and what is in them.
ProtInv ==
  /\ IsInjective(al) /\ IsInjective(localQueue) /\ Elems(al) \intersect Elems(localQueue) = {}
  /\ in_the_prot_queue = Elems(al) \union Elems(localQueue)

\* The flag and the list number of the timers, and what is in the lists.
PrioInv ==
  /\ \A i \in Lists : \A e \in after[i] : in_heap[e] = i
  /\ \A e \in Events : e \in in_the_priority_queue <=> e \in after[in_heap[e]]

\* Every event that is not freed is at one place, the one that is called may be queued
\* again only when its handler has returned.
PlaceInv ==
  /\ in_the_prot_queue \intersect in_the_priority_queue = {}
  /\ in_the_prot_queue \intersect NegativeQueue = {}
  /\ in_the_priority_queue \intersect NegativeQueue = {}
  /\ allocated = (in_the_prot_queue \union in_the_priority_queue \union NegativeQueue) \union ({run} \ {None})
  /\ run # None <=> pc \in {"call", "handler", "after"}
  /\ run \in in_the_prot_queue \union in_the_priority_queue => pc = "after"
  /\ run \notin NegativeQueue

IInv == Types /\ ProtInv /\ PrioInv /\ PlaceInv

LEMMA PeriodNat == Period \in Nat \ {0}
<1>1. N_PQ_LIST - 1 \in Nat
  BY ListsAssumption
<1>2. QED BY Zenon, <1>1, BucketTimes DEF Period

LEMMA TimingsAreInts ==
  ASSUME Types, NEW time \in Timings
  PROVE  time.at \in Int /\ time.every \in Int
<1>1. now \in Int /\ Poll \in Int /\ Delays \subseteq Int
  BY PeriodNat, LoopAssumption DEF Types
<1>2. QED BY <1>1 DEF Timings
-----------------------------------------------------------------------------
(* The timers *)
LEMMA PQEnqueued ==
  ASSUME Types, PrioInv, NEW e \in Events, e \notin in_the_priority_queue, NEW t \in Int,
         PQEnqueue(e, t, event_time), in_the_priority_queue' = in_the_priority_queue \union {e}
  PROVE  PrioInv' /\ after' \in [Lists -> SUBSET Events] /\ in_heap' \in [Events -> Lists]
<1> DEFINE i == ListFor(N_PQ_LIST - 1, t - event_time)
<1>1. i \in Lists
  <2>1. N_PQ_LIST - 1 \in Nat /\ t - event_time \in Int
    BY ListsAssumption DEF Types
  <2>2. QED BY Zenon, <2>1, ListForFits DEF Lists
<1>2. after' = [after EXCEPT ![i] = @ \union {e}] /\ in_heap' = [in_heap EXCEPT ![e] = i]
  BY Zenon DEF PQEnqueue
<1> HIDE DEF i
<1>3. \A j \in Lists : e \notin after[j]
  BY Zenon DEF PrioInv
<1>4. QED BY <1>1, <1>2, <1>3 DEF PrioInv, Types

LEMMA PQRemoved ==
  ASSUME Types, PrioInv, NEW e \in in_the_priority_queue, PQRemove(e),
         in_the_priority_queue' = in_the_priority_queue \ {e}
  PROVE  PrioInv' /\ after' \in [Lists -> SUBSET Events] /\ in_heap' \in [Events -> Lists]
<1>1. e \in Events /\ in_heap[e] \in Lists /\ 0 \in Lists
  BY ListsAssumption DEF Types, Lists
<1>2. after' = [after EXCEPT ![in_heap[e]] = @ \ {e}] /\ in_heap' = [in_heap EXCEPT ![e] = 0]
  BY Zenon DEF PQRemove
<1>3. \A j \in Lists : e \notin after'[j]
  BY <1>1, <1>2 DEF PrioInv, Types
<1>4. QED BY <1>1, <1>2, <1>3 DEF PrioInv, Types

LEMMA PQDequeued ==
  ASSUME Types, PrioInv, NEW e \in after[0], PQDequeueReady(e),
         in_the_priority_queue' = in_the_priority_queue \ {e}
  PROVE  /\ PrioInv' /\ after' \in [Lists -> SUBSET Events] /\ in_heap' \in [Events -> Lists]
         /\ e \in in_the_priority_queue
<1>1. 0 \in Lists /\ e \in Events
  BY ListsAssumption DEF Types, Lists
<1>2. after' = [after EXCEPT ![0] = @ \ {e}] /\ in_heap' = in_heap
  BY Zenon DEF PQDequeueReady
<1>3. in_heap[e] = 0
  BY Zenon, <1>1 DEF PrioInv
<1>4. QED BY <1>1, <1>2, <1>3 DEF PrioInv, Types

LEMMA ExaminedWait ==
  ASSUME Types, PrioInv, last_check_buckets \in Int
  PROVE  /\ Examined(event_time) \subseteq in_the_priority_queue
         /\ \A e \in Examined(event_time) : in_heap[e] \in Lists \ {0} /\ e \in after[in_heap[e]]
<1> DEFINE c == Changed(event_time \div BucketTime, last_check_buckets)
<1>1. c \in Lists
  <2>1. event_time \div BucketTime \in Int
    BY Zenon, ListsAssumption, Division DEF Types
  <2>2. QED BY Zenon, <2>1, ChangedAgrees
<1>2. 1 .. c \subseteq Lists \ {0}
  BY <1>1, ListsAssumption DEF Lists
<1> HIDE DEF c
<1>3. Examined(event_time) = UNION {after[i] : i \in 1 .. c}
  BY Zenon DEF Examined, c
<1>4. ASSUME NEW e \in Examined(event_time)
      PROVE  e \in in_the_priority_queue /\ in_heap[e] \in Lists \ {0} /\ e \in after[in_heap[e]]
  <2>1. PICK i \in 1 .. c : e \in after[i]
    BY Zenon, <1>3
  <2>2. i \in Lists \ {0}
    BY Zenon, <1>2
  <2>3. e \in Events /\ in_heap[e] = i
    BY Zenon, <2>1, <2>2 DEF PrioInv, Types
  <2>4. QED BY Zenon, <2>1, <2>2, <2>3 DEF PrioInv
<1>5. QED BY Zenon, <1>4

LEMMA PQChecked ==
  ASSUME Types, PrioInv, PQCheckReady(event_time, timeout_at, cancelled),
         in_the_priority_queue' = in_the_priority_queue \ (Examined(event_time) \intersect cancelled)
  PROVE  PrioInv' /\ after' \in [Lists -> SUBSET Events] /\ in_heap' \in [Events -> Lists]
<1> DEFINE looked == Examined(event_time)
           to == [e \in looked |-> ListFor(in_heap[e], timeout_at[e] - event_time)]
<1>1. /\ looked \subseteq in_the_priority_queue
      /\ \A e \in looked : in_heap[e] \in Lists \ {0} /\ e \in after[in_heap[e]] /\ e \in Events
  BY Zenon, ExaminedWait DEF Types
<1>2. \A e \in looked : to[e] \in Lists
  <2>1. ASSUME NEW e \in looked
        PROVE  ListFor(in_heap[e], timeout_at[e] - event_time) \in Lists
    <3>0. e \in Events /\ in_heap[e] \in 0 .. N_PQ_LIST - 1 /\ timeout_at[e] \in Int /\ event_time \in Int
      BY Zenon, <1>1 DEF Types, Lists
    <3>1. in_heap[e] \in Nat /\ timeout_at[e] - event_time \in Int /\ in_heap[e] \in 0 .. N_PQ_LIST - 1
      BY <3>0
    <3>2. ListFor(in_heap[e], timeout_at[e] - event_time) \in 0 .. in_heap[e]
      BY Zenon, <3>1, ListForFits
    <3>3. QED BY <3>1, <3>2, ListsAssumption DEF Lists
  <2>2. QED BY Zenon, <2>1
<1>3. /\ after' = [i \in Lists |-> (after[i] \ looked) \union {e \in looked \ cancelled : to[e] = i}]
      /\ in_heap' = [e \in Events |-> IF e \in looked \ cancelled THEN to[e]
                                      ELSE IF e \in looked THEN 0 ELSE in_heap[e]]
  BY Zenon DEF PQCheckReady
<1> HIDE DEF looked, to
<1>4. 0 \in Lists
  BY ListsAssumption DEF Lists
<1>5. after' \in [Lists -> SUBSET Events] /\ in_heap' \in [Events -> Lists]
  BY Zenon, <1>1, <1>2, <1>3, <1>4 DEF Types
<1>6. ASSUME NEW i \in Lists, NEW e \in after'[i]
      PROVE  in_heap'[e] = i
  BY Zenon, <1>1, <1>3, <1>6 DEF PrioInv, Types
<1>7. ASSUME NEW e \in Events
      PROVE  e \in in_the_priority_queue' <=> e \in after'[in_heap'[e]]
  <2>1. CASE e \in looked \ cancelled
    BY Zenon, <1>1, <1>2, <1>3, <2>1 DEF looked
  <2>2. CASE e \in looked /\ e \in cancelled
    <3>1. e \notin after'[0]
      BY Zenon, <1>3, <1>4, <2>2
    <3>2. QED BY Zenon, <1>3, <2>2, <3>1 DEF looked
  <2>3. CASE e \notin looked
    <3>1. in_heap'[e] = in_heap[e] /\ in_heap[e] \in Lists
      BY Zenon, <1>3, <2>3 DEF Types
    <3>2. e \in after'[in_heap[e]] <=> e \in after[in_heap[e]]
      BY Zenon, <1>3, <2>3, <3>1
    <3>3. QED BY Zenon, <2>3, <3>1, <3>2 DEF PrioInv, looked
  <2>4. QED BY Zenon, <2>1, <2>2, <2>3
<1>8. QED BY Zenon, <1>5, <1>6, <1>7 DEF PrioInv
-----------------------------------------------------------------------------
(* The steps *)
LEMMA FreeTypes ==
  ASSUME Types, NEW E, Free(E)
  PROVE  /\ allocated' \in SUBSET Events /\ awaited' \in SUBSET allocated' /\ cancelled' \in SUBSET allocated'
         /\ timeout_at' \in [Events -> Int] /\ period' \in [Events -> Int]
         /\ allocated' = allocated \ E
BY DEF Types, Free

LEMMA AllocTypes ==
  ASSUME Types, NEW e \in Events, NEW time \in Timings, Alloc(e, time), UNCHANGED cancelled
  PROVE  /\ allocated' \in SUBSET Events /\ awaited' \in SUBSET allocated' /\ cancelled' \in SUBSET allocated'
         /\ timeout_at' \in [Events -> Int] /\ period' \in [Events -> Int]
         /\ sched' \in 0 .. MaxSched
         /\ e \notin allocated /\ allocated' = allocated \union {e}
<1>1. time.at \in Int /\ time.every \in Int
  BY Zenon, TimingsAreInts
<1>2. sched' \in 0 .. MaxSched
  BY LoopAssumption DEF Types, Alloc
<1>3. QED BY Zenon, <1>1, <1>2 DEF Types, Alloc

LEMMA EnqueuedLocal ==
  ASSUME Types, ProtInv, NEW e \in Events, e \notin in_the_prot_queue, EnqueueLocal(e), UNCHANGED al
  PROVE  /\ ProtInv' /\ localQueue' \in Seq(Events) /\ in_the_prot_queue' \in SUBSET Events
         /\ in_the_prot_queue' = in_the_prot_queue \union {e}
<1>1. e \notin Elems(al) /\ e \notin Elems(localQueue)
  BY Zenon DEF ProtInv
<1>2. /\ localQueue' = Append(localQueue, e) /\ in_the_prot_queue' = in_the_prot_queue \union {e}
      /\ localQueue \in Seq(Events) /\ in_the_prot_queue' \in SUBSET Events
  BY Zenon DEF EnqueueLocal, Types
<1>3. Elems(localQueue') = Elems(localQueue) \union {e} /\ IsInjective(localQueue') /\ localQueue' \in Seq(Events)
  BY Zenon, <1>1, <1>2, Appended DEF ProtInv
<1>4. QED BY Zenon, <1>1, <1>2, <1>3 DEF ProtInv

LEMMA ScheduleExternalStep ==
  ASSUME IInv, NEW r \in Others, NEW e \in Events, ScheduleExternal(r, e)
  PROVE  IInv'
<1> USE DEF IInv
<1>1. PICK time \in Timings : Alloc(e, time)
  BY Zenon DEF ScheduleExternal
<1>2. /\ in_the_prot_queue' = in_the_prot_queue \union {e} /\ al' = Append(al, e)
      /\ UNCHANGED <<pq, cancelled, in_the_priority_queue, localQueue, NegativeQueue, loop, tail_cb, evfd, signalled, now>>
  BY Zenon DEF ScheduleExternal
<1>3. e \notin in_the_prot_queue /\ e \notin in_the_priority_queue /\ e \notin NegativeQueue /\ e # run
  BY Zenon, <1>1, LoopAssumption DEF Alloc, PlaceInv
<1>4. al' \in Seq(Events) /\ IsInjective(al') /\ Elems(al') = Elems(al) \union {e}
  BY <1>2, <1>3, Appended DEF Types, ProtInv
<1>5. will_signal' \in SUBSET Others
  BY Zenon DEF ScheduleExternal, Types
<1>6. Types'
  <2>1. /\ allocated' \in SUBSET Events /\ awaited' \in SUBSET allocated' /\ cancelled' \in SUBSET allocated'
        /\ timeout_at' \in [Events -> Int] /\ period' \in [Events -> Int] /\ sched' \in 0 .. MaxSched
    BY Zenon, <1>1, <1>2, AllocTypes
  <2>2. in_the_prot_queue' \in SUBSET Events
    BY Zenon, <1>2 DEF Types
  <2>3. /\ after' \in [Lists -> SUBSET Events] /\ in_heap' \in [Events -> Lists]
        /\ last_check_time' \in Int /\ last_check_buckets' \in Int
        /\ localQueue' \in Seq(Events) /\ NegativeQueue' \in SUBSET Events /\ in_the_priority_queue' \in SUBSET Events
    BY Zenon, <1>2 DEF Types, pq
  <2>4. /\ pc' \in {"drain", "local", "call", "handler", "after", "ready", "polls", "wait", "asleep", "awake"}
        /\ ret' \in {"local", "ready", "polls"} /\ run' \in Events \union {None} /\ second' \in BOOLEAN /\ done_one' \in BOOLEAN
        /\ event_time' \in Int /\ wake_at' \in Int
    BY Zenon, <1>2 DEF Types, loop
  <2>5. evfd' \in BOOLEAN /\ signalled' \in BOOLEAN /\ tail_cb' \in Handlers /\ now' \in Period .. 2 * Period - 1
    BY Zenon, <1>2 DEF Types
  <2>6. QED BY Zenon, <1>4, <1>5, <2>1, <2>2, <2>3, <2>4, <2>5 DEF Types
<1>7. ProtInv'
  BY Zenon, <1>2, <1>3, <1>4 DEF ProtInv
<1>8. PrioInv'
  BY Zenon, <1>2 DEF PrioInv, pq
<1>9. PlaceInv'
  BY Zenon, <1>1, <1>2, <1>3 DEF PlaceInv, Alloc, loop
<1>10. QED BY Zenon, <1>6, <1>7, <1>8, <1>9

LEMMA DequeueExternalStep ==
  ASSUME IInv, DequeueExternal
  PROVE  IInv'
<1> USE DEF IInv
<1> DEFINE gone == Elems(al) \intersect cancelled
<1>1. /\ al' = <<>> /\ localQueue' = localQueue \o Kept(al, gone) /\ Free(gone)
      /\ in_the_prot_queue' = in_the_prot_queue \ gone /\ pc = "drain" /\ pc' = "local"
      /\ UNCHANGED <<pq, in_the_priority_queue, NegativeQueue, second, run, ret, done_one, event_time, wake_at, wake, clock>>
  BY Zenon DEF DequeueExternal, Goto
<1>2. Kept(al, gone) \in Seq(Events) /\ IsInjective(Kept(al, gone)) /\ Elems(Kept(al, gone)) = Elems(al) \ gone
  BY KeptOnce DEF Types, ProtInv
<1>3. /\ localQueue' \in Seq(Events) /\ IsInjective(localQueue')
      /\ Elems(localQueue') = Elems(localQueue) \union (Elems(al) \ gone)
  <2>1. Elems(localQueue) \intersect Elems(Kept(al, gone)) = {}
    BY Zenon, <1>2 DEF ProtInv
  <2>2. localQueue \in Seq(Events) /\ IsInjective(localQueue)
    BY Zenon DEF Types, ProtInv
  <2> HIDE DEF gone
  <2>3. QED BY <1>1, <1>2, <2>1, <2>2, Joined
<1>4. al' \in Seq(Events) /\ IsInjective(al') /\ Elems(al') = {}
  <2>1. al' \in Seq(Events) /\ DOMAIN al' = {}
    BY <1>1
  <2>2. QED BY Zenon, <2>1 DEF IsInjective, Elems
<1>5. gone \subseteq in_the_prot_queue /\ gone \intersect Elems(localQueue) = {}
  BY Zenon DEF ProtInv
<1> HIDE DEF gone
<1>6. Types'
  BY Zenon, <1>1, <1>3, <1>4, FreeTypes DEF Types, pq, wake, clock
<1>7. ProtInv'
  BY Zenon, <1>1, <1>3, <1>4, <1>5 DEF ProtInv
<1>8. PrioInv'
  BY Zenon, <1>1 DEF PrioInv, pq
<1>9. PlaceInv'
  <2>1. allocated' = allocated \ gone
    BY Zenon, <1>1 DEF Free
  <2>2. run = None
    BY Zenon, <1>1 DEF PlaceInv
  <2>3. QED BY Zenon, <1>1, <1>5, <2>1, <2>2 DEF PlaceInv
<1>10. QED BY Zenon, <1>6, <1>7, <1>8, <1>9

LEMMA DequeueLocalStep ==
  ASSUME IInv, DequeueLocal
  PROVE  IInv'
<1> USE DEF IInv
<1> DEFINE e == Head(localQueue)
<1>1. /\ pc = "local" /\ localQueue # <<>> /\ localQueue' = Tail(localQueue)
      /\ in_the_prot_queue' = in_the_prot_queue \ {e}
      /\ UNCHANGED <<al, second, done_one, event_time, wake_at, wake, clock>>
  BY Zenon DEF DequeueLocal
<1>2. /\ e \in Events /\ e \in Elems(localQueue) /\ localQueue' \in Seq(Events) /\ IsInjective(localQueue')
      /\ Elems(localQueue') = Elems(localQueue) \ {e}
  BY Zenon, <1>1, Headed DEF Types, ProtInv
<1>3. ProtInv'
  BY Zenon, <1>1, <1>2 DEF ProtInv
<1>4. run = None /\ e \in in_the_prot_queue /\ e \notin in_the_priority_queue /\ e \notin NegativeQueue /\ e # None
  BY Zenon, <1>1, <1>2, LoopAssumption DEF PlaceInv, ProtInv
<1>5. CASE /\ e \in cancelled /\ Free({e})
           /\ UNCHANGED <<pq, in_the_priority_queue, NegativeQueue, pc, run, ret>>
  <2> HIDE DEF e
  <2>1. Types'
    BY Zenon, <1>1, <1>2, <1>5, FreeTypes DEF Types, pq, wake, clock
  <2>2. PrioInv'
    BY Zenon, <1>5 DEF PrioInv, pq
  <2>3. PlaceInv'
    BY Zenon, <1>1, <1>4, <1>5 DEF PlaceInv, Free
  <2>4. QED BY Zenon, <1>3, <2>1, <2>2, <2>3
<1>6. CASE /\ e \notin cancelled /\ timeout_at[e] = 0
           /\ run' = e /\ ret' = "local" /\ Goto("call")
           /\ UNCHANGED <<pq, timeout_at, period, cancelled, in_the_priority_queue, allocated, awaited, NegativeQueue>>
  <2> HIDE DEF e
  <2>1. Types'
    BY Zenon, <1>1, <1>2, <1>6 DEF Types, pq, wake, clock, Goto
  <2>2. PrioInv'
    BY Zenon, <1>6 DEF PrioInv, pq
  <2>3. PlaceInv'
    BY Zenon, <1>1, <1>4, <1>6 DEF PlaceInv, Goto
  <2>4. QED BY Zenon, <1>3, <2>1, <2>2, <2>3
<1>7. CASE /\ e \notin cancelled /\ timeout_at[e] > 0
           /\ PQEnqueue(e, timeout_at[e], event_time)
           /\ in_the_priority_queue' = in_the_priority_queue \union {e}
           /\ UNCHANGED <<timeout_at, period, cancelled, allocated, awaited, NegativeQueue, pc, run, ret>>
  <2> HIDE DEF e
  <2>1. timeout_at[e] \in Int
    BY Zenon, <1>2 DEF Types
  <2>2. PrioInv' /\ after' \in [Lists -> SUBSET Events] /\ in_heap' \in [Events -> Lists]
    BY Zenon, <1>2, <1>4, <1>7, <2>1, PQEnqueued
  <2>3. UNCHANGED <<last_check_time, last_check_buckets>>
    BY Zenon, <1>7 DEF PQEnqueue
  <2>4. Types'
    BY Zenon, <1>1, <1>2, <1>7, <2>2, <2>3 DEF Types, wake, clock
  <2>5. PlaceInv'
    BY Zenon, <1>1, <1>4, <1>7 DEF PlaceInv
  <2>6. QED BY Zenon, <1>3, <2>2, <2>4, <2>5
<1>8. CASE /\ e \notin cancelled /\ timeout_at[e] < 0
           /\ NegativeQueue' = NegativeQueue \union {e}
           /\ UNCHANGED <<pq, timeout_at, period, cancelled, in_the_priority_queue, allocated, awaited, pc, run, ret>>
  <2> HIDE DEF e
  <2>1. Types'
    BY Zenon, <1>1, <1>2, <1>8 DEF Types, pq, wake, clock
  <2>2. PrioInv'
    BY Zenon, <1>8 DEF PrioInv, pq
  <2>3. PlaceInv'
    BY Zenon, <1>1, <1>4, <1>8 DEF PlaceInv
  <2>4. QED BY Zenon, <1>3, <2>1, <2>2, <2>3
<1>9. QED BY Zenon, <1>5, <1>6, <1>7, <1>8 DEF DequeueLocal

LEMMA CallMissedStep ==
  ASSUME IInv, CallMissed
  PROVE  IInv'
<1> USE DEF IInv
<1>1. /\ pc = "call" /\ timeout_at' = [timeout_at EXCEPT ![run] = event_time + DELAY_FOR_RETRY]
      /\ EnqueueLocal(run) /\ run' = None /\ pc' = ret
      /\ UNCHANGED <<pq, period, cancelled, in_the_priority_queue, allocated, awaited, al, NegativeQueue, second, ret,
                     done_one, event_time, wake_at, wake, clock>>
  BY Zenon DEF CallMissed, Goto
<1>2. run \in Events /\ run \notin in_the_prot_queue /\ run \notin in_the_priority_queue /\ run \notin NegativeQueue
  BY Zenon, <1>1 DEF PlaceInv, Types
<1>3. /\ ProtInv' /\ localQueue' \in Seq(Events) /\ in_the_prot_queue' \in SUBSET Events
      /\ in_the_prot_queue' = in_the_prot_queue \union {run}
  BY Zenon, <1>1, <1>2, EnqueuedLocal
<1>4. Types'
  <2>1. event_time + DELAY_FOR_RETRY \in Int
    BY LoopAssumption DEF Types
  <2>2. QED BY Zenon, <1>1, <1>2, <1>3, <2>1 DEF Types, pq, wake, clock
<1>5. PrioInv'
  BY Zenon, <1>1 DEF PrioInv, pq
<1>6. PlaceInv'
  <2>1. pc' \notin {"call", "handler", "after"} /\ run # None /\ None \notin Events
    BY Zenon, <1>1, <1>2, LoopAssumption DEF Types
  <2>2. None \notin in_the_prot_queue' /\ None \notin in_the_priority_queue /\ None \notin NegativeQueue
    BY Zenon, <1>3, <2>1 DEF Types
  <2>3. allocated = (in_the_prot_queue' \union in_the_priority_queue) \union NegativeQueue
    BY Zenon, <1>3, <2>1 DEF PlaceInv
  <2>4. /\ in_the_priority_queue' = in_the_priority_queue /\ NegativeQueue' = NegativeQueue /\ allocated' = allocated
        /\ run' = None
    BY Zenon, <1>1
  <2>5. /\ in_the_prot_queue' \intersect in_the_priority_queue = {} /\ in_the_prot_queue' \intersect NegativeQueue = {}
        /\ in_the_priority_queue \intersect NegativeQueue = {}
    BY Zenon, <1>2, <1>3 DEF PlaceInv
  <2>6. QED BY Zenon, <2>1, <2>2, <2>3, <2>4, <2>5 DEF PlaceInv
<1>7. QED BY Zenon, <1>3, <1>4, <1>5, <1>6

LEMMA CallStep ==
  ASSUME IInv, CallCancelled \/ Call
  PROVE  IInv'
<1> USE DEF IInv
<1>1. CASE CallCancelled
  <2>1. /\ pc = "call" /\ Free({run}) /\ run' = None /\ pc' = ret
        /\ UNCHANGED <<pq, in_the_prot_queue, in_the_priority_queue, queues, second, ret, done_one, event_time, wake_at, wake, clock>>
    BY Zenon, <1>1 DEF CallCancelled, Goto
  <2>2. Types'
    BY Zenon, <2>1, FreeTypes DEF Types, pq, queues, wake, clock
  <2>3. ProtInv' /\ PrioInv'
    BY Zenon, <2>1 DEF ProtInv, PrioInv, pq, queues
  <2>4. PlaceInv'
    <3>1. pc' \notin {"call", "handler", "after"} /\ allocated' = allocated \ {run}
      BY Zenon, <2>1 DEF Types, Free
    <3>2. run \notin in_the_prot_queue /\ run \notin in_the_priority_queue /\ run \notin NegativeQueue
      BY Zenon, <2>1 DEF PlaceInv
    <3>3. None \notin in_the_prot_queue /\ None \notin in_the_priority_queue /\ None \notin NegativeQueue
      BY Zenon, LoopAssumption DEF Types
    <3>4. QED BY Zenon, <2>1, <3>1, <3>2, <3>3 DEF PlaceInv, queues
  <2>5. QED BY Zenon, <2>2, <2>3, <2>4
<1>2. CASE Call
  <2>1. /\ pc = "call" /\ pc' = "handler" /\ awaited' \in SUBSET awaited
        /\ UNCHANGED <<pq, timeout_at, period, cancelled, in_the_prot_queue, in_the_priority_queue, allocated, queues,
                       second, run, ret, done_one, event_time, wake_at, wake, clock>>
    BY Zenon, <1>2 DEF Call, Goto
  <2>2. Types'
    BY Zenon, <2>1 DEF Types, pq, queues, wake, clock
  <2>3. ProtInv' /\ PrioInv'
    BY Zenon, <2>1 DEF ProtInv, PrioInv, pq, queues
  <2>4. PlaceInv'
    BY Zenon, <2>1 DEF PlaceInv, queues
  <2>5. QED BY Zenon, <2>2, <2>3, <2>4
<1>3. QED BY Zenon, <1>1, <1>2

\* A handler has returned, of an event of Events or of another one.
LEMMA ReturnTypes ==
  ASSUME Types, PlaceInv, Returned \/ AnotherReturned
  PROVE  /\ pc' \in {"after", "local", "ready", "polls"} /\ (pc' = "after" <=> run # None)
         /\ event_time' \in Int /\ event_time' \in {event_time, now} /\ done_one' \in BOOLEAN
         /\ pc' # "after" => pc' = pc
         /\ UNCHANGED <<second, run, ret, wake_at, wake, now>>
<1>1. now \in Int
  BY PeriodNat DEF Types
<1>2. CASE Returned
  BY Zenon, <1>1, <1>2 DEF Returned, Goto, Types, PlaceInv
<1>3. CASE AnotherReturned
  BY Zenon, <1>1, <1>3 DEF AnotherReturned, Types, PlaceInv
<1>4. QED BY Zenon, <1>2, <1>3

LEMMA HandlerSchedulesStep ==
  ASSUME IInv, HandlerSchedules
  PROVE  IInv'
<1> USE DEF IInv
<1>1. PICK e \in Events, time \in Timings : Alloc(e, time) /\ EnqueueLocal(e)
  BY Zenon DEF HandlerSchedules
<1>2. /\ Returned \/ AnotherReturned
      /\ UNCHANGED <<pq, cancelled, in_the_priority_queue, al, NegativeQueue>>
  BY Zenon DEF HandlerSchedules
<1>3. e \notin in_the_prot_queue /\ e \notin in_the_priority_queue /\ e \notin NegativeQueue /\ e # run
  BY Zenon, <1>1, LoopAssumption DEF Alloc, PlaceInv
<1>4. /\ ProtInv' /\ localQueue' \in Seq(Events) /\ in_the_prot_queue' \in SUBSET Events
      /\ in_the_prot_queue' = in_the_prot_queue \union {e}
  BY Zenon, <1>1, <1>2, <1>3, EnqueuedLocal
<1>5. Types'
  BY ZenonT(30), <1>1, <1>2, <1>4, AllocTypes, ReturnTypes DEF Types, pq, wake
<1>6. PrioInv'
  BY Zenon, <1>2 DEF PrioInv, pq
<1>7. PlaceInv'
  <2>1. allocated' = allocated \union {e} /\ UNCHANGED <<run, in_the_priority_queue, NegativeQueue>>
    BY Zenon, <1>1, <1>2, ReturnTypes DEF Alloc
  <2>2. pc' \in {"after", "local", "ready", "polls"} /\ (pc' = "after" <=> run # None)
    BY Zenon, <1>2, ReturnTypes
  <2>3. QED BY <1>3, <1>4, <2>1, <2>2, LoopAssumption DEF PlaceInv, Types
<1>8. QED BY Zenon, <1>4, <1>5, <1>6, <1>7

LEMMA HandlerOtherStep ==
  ASSUME IInv, HandlerReturns \/ HandlerCancels
  PROVE  IInv'
<1> USE DEF IInv
<1>1. /\ Returned /\ cancelled' \in SUBSET allocated
      /\ UNCHANGED <<pq, timeout_at, period, in_the_prot_queue, in_the_priority_queue, allocated, awaited, queues, sched>>
  BY Zenon DEF HandlerReturns, HandlerCancels, event, Types
<1>2. Types'
  BY Zenon, <1>1, ReturnTypes DEF Types, pq, queues, wake
<1>3. ProtInv' /\ PrioInv'
  BY Zenon, <1>1 DEF ProtInv, PrioInv, pq, queues
<1>4. PlaceInv'
  BY Zenon, <1>1 DEF PlaceInv, Returned, Goto, queues
<1>5. QED BY Zenon, <1>2, <1>3, <1>4

LEMMA HandlerReschedulesStep ==
  ASSUME IInv, HandlerReschedules
  PROVE  IInv'
<1> USE DEF IInv
<1>1. PICK e \in (awaited \union ({run} \ {None})) \ (cancelled \union NegativeQueue), time \in Timings :
        /\ timeout_at' = [timeout_at EXCEPT ![e] = time.at]
        /\ period' = [period EXCEPT ![e] = time.every]
        /\ awaited' = awaited \union {e}
        /\ IF e \in in_the_priority_queue THEN PQRemove(e) ELSE UNCHANGED pq
        /\ in_the_priority_queue' = in_the_priority_queue \ {e}
        /\ IF e \in in_the_prot_queue THEN UNCHANGED <<in_the_prot_queue, localQueue>> ELSE EnqueueLocal(e)
  BY Zenon DEF HandlerReschedules
<1>2. /\ Returned \/ AnotherReturned
      /\ sched' \in 0 .. MaxSched
      /\ UNCHANGED <<cancelled, allocated, al, NegativeQueue>>
  BY LoopAssumption DEF HandlerReschedules, Types
<1>3. e \in Events /\ e \in allocated /\ e \notin NegativeQueue
  BY Zenon, <1>1 DEF Types, PlaceInv
<1>4. /\ ProtInv' /\ localQueue' \in Seq(Events) /\ in_the_prot_queue' \in SUBSET Events
      /\ in_the_prot_queue' = in_the_prot_queue \union {e}
  <2>1. CASE e \in in_the_prot_queue
    BY Zenon, <1>1, <1>2, <2>1 DEF ProtInv, Types
  <2>2. CASE e \notin in_the_prot_queue
    BY Zenon, <1>1, <1>2, <1>3, <2>2, EnqueuedLocal
  <2>3. QED BY Zenon, <2>1, <2>2
<1>5. /\ PrioInv' /\ after' \in [Lists -> SUBSET Events] /\ in_heap' \in [Events -> Lists]
      /\ UNCHANGED <<last_check_time, last_check_buckets>>
  <2>1. CASE e \in in_the_priority_queue
    BY Zenon, <1>1, <2>1, PQRemoved DEF PQRemove
  <2>2. CASE e \notin in_the_priority_queue
    BY <1>1, <2>2 DEF PrioInv, pq, Types
  <2>3. QED BY Zenon, <2>1, <2>2
<1>6. Types'
  <2>1. timeout_at' \in [Events -> Int] /\ period' \in [Events -> Int]
    BY Zenon, <1>1, <1>3, TimingsAreInts DEF Types
  <2>2. awaited' \in SUBSET allocated
    BY Zenon, <1>1, <1>3 DEF Types
  <2>3. in_the_priority_queue' \in SUBSET Events
    BY Zenon, <1>1 DEF Types
  <2>4. QED BY ZenonT(30), <1>2, <1>4, <1>5, <2>1, <2>2, <2>3, ReturnTypes DEF Types, wake
<1>7. PlaceInv'
  <2>1. UNCHANGED <<run, NegativeQueue, allocated>>
    BY Zenon, <1>2, ReturnTypes
  <2>2. pc' \in {"after", "local", "ready", "polls"} /\ (pc' = "after" <=> run # None)
    BY Zenon, <1>2, ReturnTypes
  <2>3. QED BY <1>1, <1>3, <1>4, <2>1, <2>2, LoopAssumption DEF PlaceInv, Types
<1>8. QED BY Zenon, <1>4, <1>5, <1>6, <1>7

LEMMA AfterStep ==
  ASSUME IInv, After
  PROVE  IInv'
<1> USE DEF IInv
<1> DEFINE queued == run \in in_the_prot_queue \union in_the_priority_queue
<1>1. /\ pc = "after" /\ pc' = ret /\ run' = None
      /\ UNCHANGED <<pq, in_the_priority_queue, al, NegativeQueue, second, ret, done_one, event_time, wake_at, wake, clock>>
  BY Zenon DEF After, Goto
<1>2. run \in Events /\ run \notin NegativeQueue /\ pc' \in {"local", "ready", "polls"}
  BY Zenon, <1>1 DEF PlaceInv, Types
<1>3. PrioInv'
  BY Zenon, <1>1 DEF PrioInv, pq
<1>4. None \notin in_the_prot_queue /\ None \notin in_the_priority_queue /\ None \notin NegativeQueue /\ run # None
  BY Zenon, <1>2, LoopAssumption DEF Types
<1>5. CASE /\ period[run] # 0 /\ ~queued
           /\ timeout_at' = [timeout_at EXCEPT ![run] = IF period[run] < 0 THEN period[run] ELSE event_time + period[run]]
           /\ EnqueueLocal(run)
           /\ UNCHANGED <<period, cancelled, allocated, awaited>>
  <2>1. /\ ProtInv' /\ localQueue' \in Seq(Events) /\ in_the_prot_queue' \in SUBSET Events
        /\ in_the_prot_queue' = in_the_prot_queue \union {run}
    BY Zenon, <1>1, <1>2, <1>5, EnqueuedLocal
  <2>2. period[run] \in Int /\ event_time + period[run] \in Int
    BY <1>2 DEF Types
  <2>3. Types'
    BY Zenon, <1>1, <1>2, <1>5, <2>1, <2>2 DEF Types, pq, wake, clock
  <2>4. PlaceInv'
    BY <1>1, <1>2, <1>4, <1>5, <2>1 DEF PlaceInv
  <2>5. QED BY Zenon, <1>3, <2>1, <2>3, <2>4
<1>6. CASE period[run] = 0 /\ ~queued /\ Free({run}) /\ UNCHANGED <<in_the_prot_queue, localQueue>>
  <2>1. Types'
    BY Zenon, <1>1, <1>2, <1>6, FreeTypes DEF Types, pq, wake, clock
  <2>2. ProtInv'
    BY Zenon, <1>1, <1>6 DEF ProtInv
  <2>3. PlaceInv'
    <3>1. allocated' = allocated \ {run}
      BY Zenon, <1>6 DEF Free
    <3>2. QED BY Zenon, <1>1, <1>2, <1>4, <1>6, <3>1 DEF PlaceInv
  <2>4. QED BY Zenon, <1>3, <2>1, <2>2, <2>3
<1>7. CASE queued /\ UNCHANGED <<timeout_at, period, cancelled, in_the_prot_queue, allocated, awaited, localQueue>>
  <2>1. Types'
    BY Zenon, <1>1, <1>2, <1>7 DEF Types, pq, wake, clock
  <2>2. ProtInv'
    BY Zenon, <1>1, <1>7 DEF ProtInv
  <2>3. PlaceInv'
    BY Zenon, <1>1, <1>2, <1>4, <1>7 DEF PlaceInv
  <2>4. QED BY Zenon, <1>3, <2>1, <2>2, <2>3
<1>8. QED BY Zenon, <1>5, <1>6, <1>7 DEF After

LEMMA CheckReadyStep ==
  ASSUME IInv, CheckReady
  PROVE  IInv'
<1> USE DEF IInv
<1> DEFINE gone == Examined(event_time) \intersect cancelled
<1>1. /\ pc \in {"local", "ready"} /\ pc' = "ready" /\ done_one' = FALSE
      /\ PQCheckReady(event_time, timeout_at, cancelled)
      /\ in_the_priority_queue' = in_the_priority_queue \ gone
      /\ Free(gone)
      /\ UNCHANGED <<in_the_prot_queue, queues, second, run, ret, event_time, wake_at, wake, clock>>
  BY Zenon DEF CheckReady, Goto
<1>2. gone \subseteq in_the_priority_queue
  BY Zenon, ExaminedWait DEF Types
<1>3. PrioInv' /\ after' \in [Lists -> SUBSET Events] /\ in_heap' \in [Events -> Lists]
  BY Zenon, <1>1, PQChecked
<1>4. last_check_time' \in Int /\ last_check_buckets' \in Int
  <2>1. last_check_time' = event_time /\ last_check_buckets' = event_time \div BucketTime
    BY Zenon, <1>1 DEF PQCheckReady
  <2>2. QED BY Zenon, <2>1, ListsAssumption, Division DEF Types
<1> HIDE DEF gone
<1>5. Types'
  BY Zenon, <1>1, <1>3, <1>4, FreeTypes DEF Types, queues, wake, clock
<1>6. ProtInv'
  BY Zenon, <1>1 DEF ProtInv, queues
<1>7. PlaceInv'
  <2>1. allocated' = allocated \ gone /\ run = None
    BY Zenon, <1>1 DEF Free, PlaceInv
  <2>2. QED BY Zenon, <1>1, <1>2, <2>1 DEF PlaceInv, queues
<1>8. QED BY Zenon, <1>3, <1>5, <1>6, <1>7

LEMMA DequeueReadyStep ==
  ASSUME IInv, DequeueReady
  PROVE  IInv'
<1> USE DEF IInv
<1>1. PICK e \in after[0] :
        /\ PQDequeueReady(e)
        /\ in_the_priority_queue' = in_the_priority_queue \ {e}
        /\ \/ /\ e \in cancelled /\ Free({e})
              /\ UNCHANGED <<pc, run, ret, done_one>>
           \/ /\ e \notin cancelled
              /\ done_one' = TRUE /\ run' = e /\ ret' = "ready" /\ pc' = "call"
              /\ UNCHANGED <<timeout_at, period, cancelled, allocated, awaited>>
  BY Zenon DEF DequeueReady, Goto
<1>2. pc = "ready" /\ UNCHANGED <<in_the_prot_queue, queues, second, event_time, wake_at, wake, clock>>
  BY Zenon DEF DequeueReady
<1>3. /\ PrioInv' /\ after' \in [Lists -> SUBSET Events] /\ in_heap' \in [Events -> Lists]
      /\ e \in in_the_priority_queue /\ UNCHANGED <<last_check_time, last_check_buckets>>
  BY Zenon, <1>1, PQDequeued DEF PQDequeueReady
<1>4. ProtInv'
  BY Zenon, <1>2 DEF ProtInv, queues
<1>5. run = None /\ e \in Events /\ e # None /\ e \notin in_the_prot_queue /\ e \notin NegativeQueue
  BY Zenon, <1>2, <1>3, LoopAssumption DEF PlaceInv, Types
<1>6. CASE e \in cancelled /\ Free({e}) /\ UNCHANGED <<pc, run, ret, done_one>>
  <2>1. Types'
    BY Zenon, <1>1, <1>2, <1>3, <1>6, FreeTypes DEF Types, queues, wake, clock
  <2>2. PlaceInv'
    <3>1. allocated' = allocated \ {e}
      BY Zenon, <1>6 DEF Free
    <3>2. QED BY Zenon, <1>1, <1>2, <1>3, <1>5, <1>6, <3>1 DEF PlaceInv, queues
  <2>3. QED BY Zenon, <1>3, <1>4, <2>1, <2>2
<1>7. CASE /\ done_one' = TRUE /\ run' = e /\ ret' = "ready" /\ pc' = "call"
           /\ UNCHANGED <<timeout_at, period, cancelled, allocated, awaited>>
  <2>1. Types'
    BY Zenon, <1>1, <1>2, <1>3, <1>5, <1>7 DEF Types, queues, wake, clock
  <2>2. PlaceInv'
    BY Zenon, <1>1, <1>2, <1>3, <1>5, <1>7 DEF PlaceInv, queues
  <2>3. QED BY Zenon, <1>3, <1>4, <2>1, <2>2
<1>8. QED BY Zenon, <1>1, <1>6, <1>7

LEMMA DequeueNegativeStep ==
  ASSUME IInv, DequeueNegative
  PROVE  IInv'
<1> USE DEF IInv
<1>1. PICK e \in NegativeQueue : NegativeQueue' = NegativeQueue \ {e} /\ run' = e /\ ret' = "polls" /\ pc' = "call"
  BY Zenon DEF DequeueNegative, Goto
<1>2. pc \in {"local", "polls"} /\ UNCHANGED <<pq, event, al, localQueue, second, done_one, event_time, wake_at, wake, clock>>
  BY Zenon DEF DequeueNegative
<1>3. run = None /\ e \in Events /\ e # None /\ e \notin in_the_prot_queue /\ e \notin in_the_priority_queue
  BY Zenon, <1>2, LoopAssumption DEF PlaceInv, Types
<1>4. Types'
  BY Zenon, <1>1, <1>2, <1>3 DEF Types, pq, event, wake, clock
<1>5. ProtInv' /\ PrioInv'
  BY Zenon, <1>2 DEF ProtInv, PrioInv, pq, event
<1>6. PlaceInv'
  BY Zenon, <1>1, <1>2, <1>3 DEF PlaceInv, event
<1>7. QED BY Zenon, <1>4, <1>5, <1>6

LEMMA SleepTimeInt ==
  ASSUME Types
  PROVE  SleepTime \in Int /\ \/ SleepTime <= 0
                              \/ SleepTime <= Heartbeat
                              \/ SleepTime <= DELAY_FOR_RETRY
<1> DEFINE used == {i \in Lists : after[i] # {}}
           far == IF used = {} THEN Heartbeat + Period ELSE PQ_BUCKET_TIME(Min(used)) \div 2
           t == EarliestTimeout(Heartbeat + Period) - event_time
           most == IF localQueue = <<>> THEN Heartbeat ELSE DELAY_FOR_RETRY
<1>1. Heartbeat \in Nat /\ DELAY_FOR_RETRY \in Nat /\ Period \in Nat
  BY Zenon, LoopAssumption, PeriodNat
<1>2. far \in Int
  <2>1. ASSUME used # {}
        PROVE  PQ_BUCKET_TIME(Min(used)) \div 2 \in Int
    <3>1. used \in SUBSET Nat
      BY DEF Lists
    <3>2. Min(used) \in Nat
      BY Zenon, <2>1, <3>1, MinLeast
    <3>3. PQ_BUCKET_TIME(Min(used)) \in Nat
      BY Zenon, <3>2, BucketTimes
    <3>4. QED BY <3>3, Division
  <2>2. QED BY <1>1, <2>1
<1>3. EarliestTimeout(Heartbeat + Period) = last_check_time + far
  BY Zenon DEF EarliestTimeout
<1> HIDE DEF far
<1>4. t \in Int
  BY <1>2, <1>3 DEF Types
<1> HIDE DEF t
<1>5. SleepTime = IF t <= 0 THEN 0 ELSE Min({t, most})
  BY Zenon DEF SleepTime, t
<1>6. Min({t, most}) = IF t <= most THEN t ELSE most
  BY <1>1, <1>4, MinOfTwo
<1>7. QED BY <1>1, <1>4, <1>5, <1>6

LEMMA SleepStep ==
  ASSUME IInv, PollsFirst \/ Sleep \/ Wait \/ Awake
  PROVE  IInv'
<1> USE DEF IInv
<1>1. /\ pc \in {"ready", "polls", "wait", "awake", "asleep"}
      /\ pc' \in {"drain", "asleep", "wait", "awake"}
      /\ UNCHANGED <<pq, event, queues, run, done_one, tail_cb, will_signal, clock>>
  BY Zenon DEF PollsFirst, Sleep, Wait, Awake, Goto, wake
<1>2. wake_at' \in Int /\ event_time' \in Int
  <2>1. now \in Int
    BY PeriodNat DEF Types
  <2>2. SleepTime \in Int /\ event_time \in Int /\ wake_at \in Int
    BY Zenon, SleepTimeInt DEF Types
  <2>3. QED BY <2>1, <2>2 DEF PollsFirst, Sleep, Wait, Awake
<1>3. second' \in BOOLEAN /\ ret' \in {"local", "ready", "polls"} /\ evfd' \in BOOLEAN /\ signalled' \in BOOLEAN
  BY Zenon DEF PollsFirst, Sleep, Wait, Awake, Types, wake
<1>4. Types'
  BY Zenon, <1>1, <1>2, <1>3 DEF Types, pq, event, queues, clock
<1>5. ProtInv' /\ PrioInv'
  BY Zenon, <1>1 DEF ProtInv, PrioInv, pq, event, queues
<1>6. PlaceInv'
  BY Zenon, <1>1 DEF PlaceInv, event, queues
<1>7. QED BY Zenon, <1>4, <1>5, <1>6

LEMMA BackLater ==
  ASSUME NEW t \in Int
  PROVE  /\ Back(t) \in Int /\ Back(t) >= t - Period
         /\ (Back(t) = t /\ t <= 0) \/ Back(t) = 1 \/ Back(t) = t - Period
<1>1. Period \in Nat
  BY Zenon, PeriodNat
<1>2. Max({1, t - Period}) = IF 1 >= t - Period THEN 1 ELSE t - Period
  BY <1>1, MaxOfTwo
<1>3. QED BY <1>1, <1>2 DEF Back

LEMMA TickStep ==
  ASSUME IInv, Tick
  PROVE  IInv'
<1> USE DEF IInv
<1>1. UNCHANGED <<after, in_heap, period, cancelled, in_the_prot_queue, in_the_priority_queue, allocated, awaited,
                  queues, pc, second, run, ret, done_one, wake, sched>>
  BY Zenon DEF Tick, pq
<1>2. Period \in Nat \ {0} /\ now \in Period .. 2 * Period - 1
  BY Zenon, PeriodNat DEF Types
<1>3. /\ now' \in Period .. 2 * Period - 1 /\ last_check_time' \in Int /\ last_check_buckets' \in Int
      /\ timeout_at' \in [Events -> Int] /\ event_time' \in Int /\ wake_at' \in Int
  <2>1. CASE now + 1 < 2 * Period
    BY <1>2, <2>1 DEF Tick, pq, Types
  <2>2. CASE ~(now + 1 < 2 * Period)
    <3>1. 2 ^ (N_PQ_LIST - 1) \in Int
      BY PowerNat, ListsAssumption
    <3>2. /\ now' = now + 1 - Period /\ last_check_time' = last_check_time - Period
          /\ last_check_buckets' = last_check_buckets - 2 ^ (N_PQ_LIST - 1)
          /\ timeout_at' = [e \in Events |-> Back(timeout_at[e])]
          /\ event_time' = event_time - Period /\ wake_at' = Back(wake_at)
      BY Zenon, <2>2 DEF Tick
    <3>3. timeout_at' \in [Events -> Int] /\ wake_at' \in Int
      BY Zenon, <3>2, BackLater DEF Types
    <3>4. QED BY <1>2, <2>2, <3>1, <3>2, <3>3 DEF Types
  <2>3. QED BY Zenon, <2>1, <2>2
<1>4. Types'
  <2>1. /\ after' \in [Lists -> SUBSET Events] /\ in_heap' \in [Events -> Lists]
        /\ al' \in Seq(Events) /\ localQueue' \in Seq(Events) /\ NegativeQueue' \in SUBSET Events
        /\ in_the_prot_queue' \in SUBSET Events /\ in_the_priority_queue' \in SUBSET Events
    BY Zenon, <1>1 DEF Types, queues
  <2>2. /\ period' \in [Events -> Int] /\ sched' \in 0 .. MaxSched
        /\ allocated' \in SUBSET Events /\ awaited' \in SUBSET allocated' /\ cancelled' \in SUBSET allocated'
    BY Zenon, <1>1 DEF Types
  <2>3. /\ pc' \in {"drain", "local", "call", "handler", "after", "ready", "polls", "wait", "asleep", "awake"}
        /\ ret' \in {"local", "ready", "polls"} /\ run' \in Events \union {None} /\ second' \in BOOLEAN /\ done_one' \in BOOLEAN
    BY Zenon, <1>1 DEF Types
  <2>4. evfd' \in BOOLEAN /\ signalled' \in BOOLEAN /\ will_signal' \in SUBSET Others /\ tail_cb' \in Handlers
    BY Zenon, <1>1 DEF Types, wake
  <2>5. QED BY Zenon, <1>3, <2>1, <2>2, <2>3, <2>4 DEF Types
<1>5. ProtInv' /\ PrioInv'
  BY Zenon, <1>1 DEF ProtInv, PrioInv, queues
<1>6. PlaceInv'
  BY Zenon, <1>1 DEF PlaceInv, queues
<1>7. QED BY Zenon, <1>4, <1>5, <1>6

LEMMA OtherStep ==
  ASSUME IInv, NEW r \in Others, SignalActivity(r) \/ \E e \in Events : Cancel(r, e)
  PROVE  IInv'
<1> USE DEF IInv
<1>1. /\ UNCHANGED <<pq, timeout_at, period, in_the_prot_queue, in_the_priority_queue, allocated, awaited, queues, loop, tail_cb, clock>>
      /\ cancelled' \in SUBSET allocated /\ will_signal' \in SUBSET Others
      /\ evfd' \in BOOLEAN /\ signalled' \in BOOLEAN
  <2>1. CASE SignalActivity(r)
    BY Zenon, <2>1 DEF SignalActivity, event, Types
  <2>2. CASE \E e \in Events : Cancel(r, e)
    BY Zenon, <2>2 DEF Cancel, wake, Types
  <2>3. QED BY Zenon, <2>1, <2>2
<1>2. Types'
  BY Zenon, <1>1 DEF Types, pq, queues, loop, clock
<1>3. ProtInv' /\ PrioInv'
  BY Zenon, <1>1 DEF ProtInv, PrioInv, pq, queues
<1>4. PlaceInv'
  BY Zenon, <1>1 DEF PlaceInv, queues, loop
<1>5. QED BY Zenon, <1>2, <1>3, <1>4

LEMMA InitIInv == Init => IInv
<1>1. SUFFICES ASSUME Init
               PROVE  IInv
  BY Zenon
<1>2. Period \in Nat \ {0} /\ MaxSched \in Nat /\ 0 \in Lists
  BY PeriodNat, LoopAssumption, ListsAssumption DEF Lists
<1>3. Period \div BucketTime \in Int
  BY <1>2, ListsAssumption, Division
<1>4. al \in Seq(Events) /\ localQueue \in Seq(Events) /\ DOMAIN al = {} /\ DOMAIN localQueue = {}
  BY <1>1 DEF Init
<1>5. Types
  BY <1>1, <1>2, <1>3, <1>4 DEF Init, PQInit, Types
<1>6. ProtInv
  BY Zenon, <1>1, <1>4 DEF Init, ProtInv, IsInjective, Elems
<1>7. PrioInv
  BY Zenon, <1>1, <1>2 DEF Init, PQInit, PrioInv
<1>8. PlaceInv
  BY Zenon, <1>1 DEF Init, PlaceInv
<1>9. QED BY Zenon, <1>5, <1>6, <1>7, <1>8 DEF IInv

LEMMA NextIInv == IInv /\ [Next]_vars => IInv'
<1>1. SUFFICES ASSUME IInv, [Next]_vars
               PROVE  IInv'
  BY Zenon
<1>2. CASE UNCHANGED vars
  BY <1>1, <1>2 DEF vars, pq, event, queues, loop, wake, clock, IInv, Types, ProtInv, PrioInv, PlaceInv
<1>3. CASE LoopStep
  BY Zenon, <1>1, <1>3, DequeueExternalStep, DequeueLocalStep, CallMissedStep, CallStep, HandlerSchedulesStep,
     HandlerOtherStep, HandlerReschedulesStep, AfterStep, CheckReadyStep, DequeueReadyStep, DequeueNegativeStep,
     SleepStep DEF LoopStep, Handler
<1>4. CASE Tick
  BY Zenon, <1>1, <1>4, TickStep
<1>5. ASSUME NEW r \in Others, SignalActivity(r) \/ \E e \in Events : ScheduleExternal(r, e) \/ Cancel(r, e)
      PROVE  IInv'
  BY Zenon, <1>1, <1>5, OtherStep, ScheduleExternalStep
<1>6. QED BY Zenon, <1>1, <1>2, <1>3, <1>4, <1>5 DEF Next
-----------------------------------------------------------------------------
(* One place *)
LEMMA OnceOrNot ==
  ASSUME NEW s, IsInjective(s), NEW e
  PROVE  Cardinality({i \in DOMAIN s : s[i] = e}) = IF e \in Elems(s) THEN 1 ELSE 0
<1> DEFINE at == {i \in DOMAIN s : s[i] = e}
<1>1. CASE e \in Elems(s)
  <2>1. PICK i \in DOMAIN s : s[i] = e
    BY Zenon, <1>1 DEF Elems
  <2>2. at = {i}
    BY Zenon, <2>1 DEF IsInjective
  <2>3. QED BY Zenon, <1>1, <2>2, FS_Singleton
<1>2. CASE e \notin Elems(s)
  <2>1. at = {}
    BY Zenon, <1>2 DEF Elems
  <2>2. QED BY Zenon, <1>2, <2>1, FS_EmptySet
<1>3. QED BY Zenon, <1>1, <1>2

LEMMA ListedOnceOrNot ==
  ASSUME IInv, NEW e \in Events
  PROVE  Cardinality({i \in Lists : e \in after[i]}) = IF e \in in_the_priority_queue THEN 1 ELSE 0
<1> DEFINE at == {i \in Lists : e \in after[i]}
<1>1. CASE e \in in_the_priority_queue
  <2>1. at = {in_heap[e]}
    BY <1>1 DEF IInv, PrioInv, Types
  <2>2. QED BY Zenon, <1>1, <2>1, FS_Singleton
<1>2. CASE e \notin in_the_priority_queue
  <2>1. at = {}
    BY <1>2 DEF IInv, PrioInv, Types
  <2>2. QED BY Zenon, <1>2, <2>1, FS_EmptySet
<1>3. QED BY Zenon, <1>1, <1>2

LEMMA OnePlaceOf ==
  ASSUME IInv, event_time <= now
  PROVE  OnePlace
<1> USE DEF IInv
<1>1. TypeOK
  <2>1. /\ in_the_prot_queue \subseteq allocated /\ in_the_priority_queue \subseteq allocated
        /\ now \in 0 .. 2 * Period
    BY PeriodNat DEF PlaceInv, Types
  <2>2. QED BY Zenon, <2>1 DEF Types, TypeOK
<1>2. ASSUME NEW e \in Events
      PROVE  /\ Places(e) <= 1
             /\ e \in allocated <=> Places(e) = 1 \/ run = e
             /\ run = e /\ Places(e) = 1 => pc = "after"
             /\ e \in in_the_prot_queue <=> e \in Elems(al) \union Elems(localQueue)
             /\ e \in in_the_priority_queue <=> e \in after[in_heap[e]]
  <2>1. /\ Cardinality({i \in DOMAIN al : al[i] = e}) = IF e \in Elems(al) THEN 1 ELSE 0
        /\ Cardinality({i \in DOMAIN localQueue : localQueue[i] = e}) = IF e \in Elems(localQueue) THEN 1 ELSE 0
    BY Zenon, OnceOrNot DEF ProtInv
  <2>2. Cardinality({i \in Lists : e \in after[i]}) = IF e \in in_the_priority_queue THEN 1 ELSE 0
    BY Zenon, ListedOnceOrNot
  <2>3. Places(e) = (((IF e \in Elems(al) THEN 1 ELSE 0) + (IF e \in Elems(localQueue) THEN 1 ELSE 0))
                       + (IF e \in in_the_priority_queue THEN 1 ELSE 0)) + (IF e \in NegativeQueue THEN 1 ELSE 0)
    BY Zenon, <2>1, <2>2 DEF Places
  <2>4. /\ ~(e \in Elems(al) /\ e \in Elems(localQueue))
        /\ e \in in_the_prot_queue <=> e \in Elems(al) \/ e \in Elems(localQueue)
    BY Zenon DEF ProtInv
  <2>5. /\ ~(e \in in_the_prot_queue /\ e \in in_the_priority_queue)
        /\ ~(e \in in_the_prot_queue /\ e \in NegativeQueue)
        /\ ~(e \in in_the_priority_queue /\ e \in NegativeQueue)
    BY Zenon DEF PlaceInv
  <2>6. /\ Places(e) \in {0, 1}
        /\ Places(e) = 1 <=> e \in in_the_prot_queue \/ e \in in_the_priority_queue \/ e \in NegativeQueue
    BY <2>3, <2>4, <2>5
  <2>7. e \in allocated <=> Places(e) = 1 \/ run = e
    BY Zenon, <2>6, LoopAssumption DEF PlaceInv
  <2>8. run = e /\ Places(e) = 1 => pc = "after"
    BY Zenon, <2>6 DEF PlaceInv
  <2>9. e \in in_the_priority_queue <=> e \in after[in_heap[e]]
    BY Zenon DEF PrioInv
  <2>10. QED BY <2>4, <2>6, <2>7, <2>8, <2>9
<1>3. QED BY Zenon, <1>1, <1>2 DEF OnePlace
-----------------------------------------------------------------------------
(* Timers *)
\* Since the last sleep the loop has looked at its timers.
Checked == second \/ pc \in {"ready", "polls"} \/ (pc \in {"call", "handler", "after"} /\ ret # "local")

\* The loop looks at its timers often enough.
StallInv ==
  /\ last_check_time <= event_time /\ event_time <= now
  /\ last_check_buckets = last_check_time \div BucketTime
  /\ 2 * (now - last_check_time) <= Period
  /\ pc \in {"wait", "asleep"} => 2 * (wake_at - last_check_time) <= Period
  /\ pc \in {"wait", "asleep", "awake"} => ~second
  /\ pc # "asleep" => now - event_time <= MaxStall
  /\ Checked => now - last_check_time <= MaxStall

\* Between the last look at the timers and the time of an event of list i there is a
\* multiple of the bucket time of the list below, where check_ready will look at list i.
TimerInv ==
  /\ \A i \in Lists \ {0} : \A e \in after[i] :
       \E q \in Int : last_check_time < q * PQ_BUCKET_TIME(i - 1) /\ q * PQ_BUCKET_TIME(i - 1) <= timeout_at[e]
  /\ \A e \in after[0] : timeout_at[e] <= now + PQ_BUCKET_TIME(0)
  /\ pc = "call" /\ ret = "ready" => timeout_at[run] <= now + PQ_BUCKET_TIME(0)

TInv == IInv /\ StallInv /\ TimerInv

LEMMA StallFacts ==
  ASSUME Types
  PROVE  /\ now \in Int /\ event_time \in Int /\ last_check_time \in Int /\ wake_at \in Int
         /\ Period \in Nat \ {0} /\ MaxStall \in Nat /\ Heartbeat \in Nat /\ DELAY_FOR_RETRY \in Nat
         /\ 2 * MaxStall <= Period
         /\ 2 * (MaxStall + Heartbeat) <= Period /\ 2 * (MaxStall + DELAY_FOR_RETRY) <= Period
<1>1. /\ Period \in Nat \ {0} /\ MaxStall \in Nat /\ Heartbeat \in Nat /\ DELAY_FOR_RETRY \in Nat
      /\ 2 * (MaxStall + Heartbeat) <= Period /\ 2 * (MaxStall + DELAY_FOR_RETRY) <= Period
  BY Zenon, PeriodNat, LoopAssumption, StallAssumption
<1>2. now \in Int /\ event_time \in Int /\ last_check_time \in Int /\ wake_at \in Int
  BY <1>1 DEF Types
<1>3. QED BY <1>1, <1>2

LEMMA StallKept ==
  ASSUME Types, StallInv, UNCHANGED <<last_check_time, last_check_buckets, now, wake_at>>,
         event_time' \in {event_time, now}, pc' # "asleep" => pc # "asleep",
         pc' \in {"wait", "asleep", "awake"} => (pc \in {"wait", "asleep"} /\ UNCHANGED second) \/ UNCHANGED <<pc, second>>,
         pc' \in {"wait", "asleep"} => pc \in {"wait", "asleep"}, Checked' => Checked
  PROVE  StallInv'
BY StallFacts DEF StallInv

\* Which steps keep the clock and the look at the timers.
LEMMA StallStep ==
  ASSUME IInv, StallInv, [Next]_vars, ~Tick, ~CheckReady, ~Sleep, ~Awake
  PROVE  StallInv'
<1> USE DEF IInv
<1>1. CASE UNCHANGED vars
  BY ZenonT(30), <1>1, StallKept DEF vars, pq, loop, clock, Checked
<1>2. CASE DequeueExternal \/ DequeueLocal
  BY <1>2, StallKept DEF DequeueExternal, DequeueLocal, PQEnqueue, Goto, pq, clock, Checked
<1>3. CASE CallMissed \/ CallCancelled \/ Call \/ After
  <2>1. /\ UNCHANGED <<last_check_time, last_check_buckets, now, wake_at, event_time, second, ret>>
        /\ pc \in {"call", "after"} /\ pc' \in {ret, "handler"}
    BY Zenon, <1>3 DEF CallMissed, CallCancelled, Call, After, Goto, pq, clock
  <2>2. ret \in {"local", "ready", "polls"}
    BY Zenon DEF Types
  <2>3. QED BY Zenon, <2>1, <2>2, StallKept DEF Checked
<1>4. CASE Handler
  <2>1. Returned \/ AnotherReturned
    BY Zenon, <1>4 DEF Handler, HandlerReturns, HandlerSchedules, HandlerCancels, HandlerReschedules
  <2>2. UNCHANGED <<last_check_time, last_check_buckets>>
    BY Zenon, <1>4 DEF Handler, HandlerReturns, HandlerSchedules, HandlerCancels, HandlerReschedules, PQRemove, pq
  <2>3. UNCHANGED <<now, wake_at, second, ret>> /\ event_time' \in {event_time, now}
    BY Zenon, <2>1, ReturnTypes
  <2>4. (pc = "handler" /\ pc' = "after") \/ (pc \in {"local", "ready", "polls"} /\ pc' = pc)
    BY Zenon, <2>1 DEF Returned, AnotherReturned, Goto
  <2>5. QED BY Zenon, <2>2, <2>3, <2>4, StallKept DEF Checked
<1>5. CASE DequeueReady \/ PollsFirst \/ DequeueNegative
  <2>1. UNCHANGED <<last_check_time, last_check_buckets, now, wake_at, event_time>>
    BY Zenon, <1>5 DEF DequeueReady, PollsFirst, DequeueNegative, PQDequeueReady, pq, clock
  <2>2. Checked /\ pc \in {"ready", "local", "polls"} /\ pc' \notin {"wait", "asleep"} /\ (pc' # "awake" \/ UNCHANGED <<pc, second>>)
    BY Zenon, <1>5 DEF DequeueReady, PollsFirst, DequeueNegative, Goto, Checked
  <2>3. QED BY Zenon, <2>1, <2>2, StallKept
<1>6. CASE Wait
  BY Zenon, <1>6, StallKept DEF Wait, Goto, pq, clock, Checked
<1>7. ASSUME NEW r \in Others, SignalActivity(r) \/ \E e \in Events : ScheduleExternal(r, e) \/ Cancel(r, e)
      PROVE  StallInv'
  <2>1. UNCHANGED <<last_check_time, last_check_buckets, now, loop>>
    BY Zenon, <1>7 DEF SignalActivity, ScheduleExternal, Cancel, pq, clock
  <2>2. QED BY Zenon, <2>1, StallKept DEF loop, Checked
<1>8. QED BY Zenon, <1>1, <1>2, <1>3, <1>4, <1>5, <1>6, <1>7 DEF Next, LoopStep

LEMMA StallOthers ==
  ASSUME IInv, StallInv, CheckReady \/ Sleep \/ Awake
  PROVE  StallInv'
<1> USE DEF IInv
<1>1. CASE CheckReady
  <2>1. /\ last_check_time' = event_time /\ last_check_buckets' = event_time \div BucketTime
        /\ UNCHANGED <<now, event_time>> /\ pc \in {"local", "ready"} /\ pc' = "ready"
    BY Zenon, <1>1 DEF CheckReady, PQCheckReady, Goto, clock
  <2>2. QED BY <2>1, StallFacts DEF StallInv
<1>2. CASE Sleep
  <2>1. /\ UNCHANGED <<last_check_time, last_check_buckets, now, event_time>> /\ wake_at' = now + SleepTime
        /\ second' = FALSE /\ pc \in {"ready", "polls"} /\ pc' \in {"asleep", "wait", "awake"}
    BY Zenon, <1>2 DEF Sleep, Goto, pq, clock
  <2>2. now - last_check_time <= MaxStall /\ ~Checked'
    BY Zenon, <2>1 DEF StallInv, Checked
  <2>3. SleepTime \in Int /\ (SleepTime <= 0 \/ SleepTime <= Heartbeat \/ SleepTime <= DELAY_FOR_RETRY)
    BY Zenon, SleepTimeInt
  <2>4. 2 * (wake_at' - last_check_time) <= Period
    BY <2>1, <2>2, <2>3, StallFacts
  <2>5. QED BY Zenon, <2>1, <2>2, <2>4 DEF StallInv
<1>3. CASE Awake
  <2>1. /\ UNCHANGED <<last_check_time, last_check_buckets, now, second, ret>> /\ event_time' = now /\ pc' = "drain"
    BY Zenon, <1>3 DEF Awake, Goto, pq, clock
  <2>2. Checked' => Checked
    BY Zenon, <2>1 DEF Checked
  <2>3. QED BY <2>1, <2>2, StallFacts DEF StallInv
<1>4. QED BY Zenon, <1>1, <1>2, <1>3

\* What Tick does to the times, with the clock going on or going back.
LEMMA TickTimes ==
  ASSUME Types, Tick
  PROVE  \E back \in {0, Period} :
           /\ now' = now + 1 - back /\ last_check_time' = last_check_time - back
           /\ event_time' = event_time - back
           /\ back = 0 => UNCHANGED <<last_check_buckets, timeout_at, wake_at>>
           /\ back = Period => /\ last_check_buckets' = last_check_buckets - 2 ^ (N_PQ_LIST - 1)
                               /\ timeout_at' = [e \in Events |-> Back(timeout_at[e])]
                               /\ wake_at' = Back(wake_at) /\ now' >= Period
<1>1. Period \in Nat \ {0} /\ now \in Int /\ last_check_time \in Int /\ event_time \in Int
  BY Zenon, StallFacts
<1>2. CASE now + 1 < 2 * Period
  <2>1. now' = now + 1 /\ UNCHANGED <<pq, timeout_at, event_time, wake_at>>
    BY Zenon, <1>2 DEF Tick
  <2>2. QED BY <1>1, <2>1 DEF pq
<1>3. CASE ~(now + 1 < 2 * Period)
  <2>1. /\ now' = now + 1 - Period /\ last_check_time' = last_check_time - Period
        /\ last_check_buckets' = last_check_buckets - 2 ^ (N_PQ_LIST - 1)
        /\ timeout_at' = [e \in Events |-> Back(timeout_at[e])]
        /\ event_time' = event_time - Period /\ wake_at' = Back(wake_at)
    BY Zenon, <1>3 DEF Tick
  <2>2. now' >= Period
    BY <1>1, <1>3, <2>1
  <2>3. QED BY Zenon, <1>1, <2>1, <2>2
<1>4. QED BY Zenon, <1>2, <1>3

LEMMA EarlyEnough ==
  ASSUME NEW w \in Int, NEW l \in Int, NEW p \in Int, p >= 1, w <= 1, 2 * l >= p
  PROVE  2 * (w - l) <= p
<1>1. l >= 1
  OBVIOUS
<1>2. QED BY <1>1

LEMMA TickStall ==
  ASSUME Types, StallInv, Tick
  PROVE  StallInv'
<1>1. PICK back \in {0, Period} :
        /\ now' = now + 1 - back /\ last_check_time' = last_check_time - back
        /\ event_time' = event_time - back
        /\ back = 0 => UNCHANGED <<last_check_buckets, timeout_at, wake_at>>
        /\ back = Period => /\ last_check_buckets' = last_check_buckets - 2 ^ (N_PQ_LIST - 1)
                            /\ wake_at' = Back(wake_at) /\ now' >= Period
  BY Zenon, TickTimes
<1>2. /\ UNCHANGED <<pc, second, ret>> /\ pc \in {"drain", "handler", "asleep"}
      /\ now - last_check_time < MaxStall \/ (pc = "asleep" /\ now < wake_at)
  BY Zenon DEF Tick
<1>3. last_check_time' <= event_time' /\ event_time' <= now'
  BY <1>1, StallFacts DEF StallInv
<1>4. 2 * (now' - last_check_time') <= Period
  <2>1. now' - last_check_time' = (now + 1) - last_check_time
    BY <1>1, StallFacts
  <2>2. CASE now - last_check_time < MaxStall
    BY <2>1, <2>2, StallFacts
  <2>3. CASE pc = "asleep" /\ now < wake_at
    <3>1. 2 * (wake_at - last_check_time) <= Period
      BY Zenon, <2>3 DEF StallInv
    <3>2. QED BY <2>1, <2>3, <3>1, StallFacts
  <2>4. QED BY Zenon, <1>2, <2>2, <2>3
<1>5. last_check_buckets' = last_check_time' \div BucketTime
  <2>1. CASE back = 0
    BY <1>1, <2>1, StallFacts DEF StallInv
  <2>2. CASE back = Period
    <3>1. 2 ^ (N_PQ_LIST - 1) \in Int /\ BucketTime \in Nat \ {0}
      BY PowerNat, ListsAssumption
    <3>2. (last_check_time - BucketTime * 2 ^ (N_PQ_LIST - 1)) \div BucketTime
            = (last_check_time \div BucketTime) - 2 ^ (N_PQ_LIST - 1)
      BY Zenon, <3>1, StallFacts, DivisionShift
    <3>3. last_check_time' = last_check_time - BucketTime * 2 ^ (N_PQ_LIST - 1)
      BY Zenon, <1>1, <2>2 DEF Period, PQ_BUCKET_TIME
    <3>4. last_check_buckets' = (last_check_time \div BucketTime) - 2 ^ (N_PQ_LIST - 1)
      BY Zenon, <1>1, <2>2 DEF StallInv
    <3>5. QED BY Zenon, <3>2, <3>3, <3>4
  <2>3. QED BY Zenon, <2>1, <2>2
<1>6. pc' \in {"wait", "asleep"} => 2 * (wake_at' - last_check_time') <= Period
  <2>1. SUFFICES ASSUME pc \in {"wait", "asleep"}
                 PROVE  2 * (wake_at' - last_check_time') <= Period
    BY Zenon, <1>2
  <2>2. 2 * (wake_at - last_check_time) <= Period
    BY Zenon, <2>1 DEF StallInv
  <2>3. CASE back = 0
    BY <1>1, <2>2, <2>3, StallFacts
  <2>4. CASE back = Period
    <3>1. /\ wake_at' \in Int
          /\ (wake_at' = wake_at /\ wake_at <= 0) \/ wake_at' = 1 \/ wake_at' = wake_at - Period
      BY Zenon, <1>1, <2>4, StallFacts, BackLater
    <3>2. last_check_time' \in Int /\ now' \in Int /\ 2 * last_check_time' >= Period
      BY <1>1, <1>4, <2>4, StallFacts
    <3>3. CASE wake_at' <= 1
      <4>1. wake_at' \in Int /\ last_check_time' \in Int /\ Period \in Int /\ Period >= 1
        BY <3>1, <3>2, StallFacts
      <4>2. 2 * last_check_time' >= Period
        BY Zenon, <3>2
      <4>3. QED BY Zenon, <3>3, <4>1, <4>2, EarlyEnough
    <3>4. CASE wake_at' = wake_at - Period
      BY <1>1, <2>2, <2>4, <3>4, StallFacts
    <3>5. QED BY <3>1, <3>3, <3>4, StallFacts
  <2>5. QED BY Zenon, <2>3, <2>4
<1>7. pc' # "asleep" => now' - event_time' <= MaxStall
  BY <1>1, <1>2, StallFacts DEF StallInv
<1>8. Checked' => now' - last_check_time' <= MaxStall
  <2>1. SUFFICES ASSUME Checked
                 PROVE  now' - last_check_time' <= MaxStall
    BY Zenon, <1>2 DEF Checked
  <2>2. pc # "asleep"
    BY Zenon, <1>2, <2>1 DEF StallInv, Checked
  <2>3. QED BY <1>1, <1>2, <2>2, StallFacts
<1>9. QED BY Zenon, <1>2, <1>3, <1>4, <1>5, <1>6, <1>7, <1>8 DEF StallInv
-----------------------------------------------------------------------------
(* The steps that leave the timers that wait where they are *)
LEMMA TimersStay ==
  ASSUME Types, PrioInv, TimerInv, UNCHANGED <<last_check_time, now>>,
         \A i \in Lists : after'[i] \subseteq after[i],
         \A i \in Lists : \A e \in after'[i] : timeout_at'[e] = timeout_at[e],
         \/ pc' # "call" \/ ret' # "ready"
         \/ UNCHANGED <<pc, ret, run>> /\ timeout_at'[run] = timeout_at[run]
  PROVE  TimerInv'
<1>1. 0 \in Lists
  BY ListsAssumption DEF Lists
<1>2. ASSUME NEW i \in Lists \ {0}, NEW e \in after'[i]
      PROVE  \E q \in Int : last_check_time' < q * PQ_BUCKET_TIME(i - 1) /\ q * PQ_BUCKET_TIME(i - 1) <= timeout_at'[e]
  BY Zenon, <1>2 DEF TimerInv
<1>3. ASSUME NEW e \in after'[0]
      PROVE  timeout_at'[e] <= now' + PQ_BUCKET_TIME(0)
  BY Zenon, <1>1, <1>3 DEF TimerInv
<1>4. pc' = "call" /\ ret' = "ready" => timeout_at'[run'] <= now' + PQ_BUCKET_TIME(0)
  BY Zenon DEF TimerInv
<1>5. QED BY Zenon, <1>2, <1>3, <1>4 DEF TimerInv, PQ_BUCKET_TIME

LEMMA Waiting ==
  ASSUME Types, PrioInv, NEW i \in Lists, NEW e \in after[i]
  PROVE  e \in Events /\ e \in in_the_priority_queue
BY Zenon DEF Types, PrioInv

\* Nothing but the times of events that do not wait as timers changes.
LEMMA TimersSame ==
  ASSUME Types, PrioInv, TimerInv, UNCHANGED <<after, last_check_time, now>>,
         \A e \in in_the_priority_queue : timeout_at'[e] = timeout_at[e],
         \/ pc' # "call" \/ ret' # "ready"
         \/ UNCHANGED <<pc, ret, run>> /\ timeout_at'[run] = timeout_at[run]
  PROVE  TimerInv'
<1>1. \A i \in Lists : \A e \in after'[i] : timeout_at'[e] = timeout_at[e]
  BY Zenon, Waiting
<1>2. \A i \in Lists : after'[i] \subseteq after[i]
  BY Zenon
<1>3. QED BY Zenon, <1>1, <1>2, TimersStay

LEMMA TimersOther ==
  ASSUME IInv, TimerInv,
         \/ UNCHANGED vars \/ Call \/ HandlerReturns \/ HandlerCancels \/ PollsFirst \/ DequeueNegative
         \/ Sleep \/ Wait \/ Awake
         \/ \E r \in Others : SignalActivity(r) \/ \E e \in Events : Cancel(r, e)
  PROVE  TimerInv'
<1>1. UNCHANGED <<after, last_check_time, now, timeout_at>>
  BY Zenon DEF vars, Call, HandlerReturns, HandlerCancels, Returned, PollsFirst, DequeueNegative, Sleep, Wait, Awake,
         SignalActivity, Cancel, pq, event, clock
<1>2. \/ pc' # "call" \/ ret' # "ready" \/ UNCHANGED <<pc, ret, run>>
  BY Zenon DEF vars, Call, HandlerReturns, HandlerCancels, Returned, PollsFirst, DequeueNegative, Sleep, Wait, Awake,
         SignalActivity, Cancel, loop, Goto
<1>3. QED BY Zenon, <1>1, <1>2, TimersSame DEF IInv

\* A new event does not wait as a timer yet.
LEMMA TimersAlloc ==
  ASSUME IInv, TimerInv, HandlerSchedules \/ \E r \in Others, e \in Events : ScheduleExternal(r, e)
  PROVE  TimerInv'
<1> USE DEF IInv
<1>1. PICK e \in Events, time \in Timings : Alloc(e, time)
  BY Zenon DEF HandlerSchedules, ScheduleExternal
<1>2. /\ UNCHANGED <<pq, now>>
      /\ pc' # "call" \/ UNCHANGED <<pc, ret, run>>
  <2>1. CASE HandlerSchedules
    BY Zenon, <2>1, ReturnTypes DEF HandlerSchedules
  <2>2. CASE \E r \in Others, x \in Events : ScheduleExternal(r, x)
    BY Zenon, <2>2 DEF ScheduleExternal, loop
  <2>3. QED BY Zenon, <2>1, <2>2
<1>3. timeout_at' = [timeout_at EXCEPT ![e] = time.at] /\ e \notin allocated
  BY Zenon, <1>1 DEF Alloc
<1>4. e \notin in_the_priority_queue /\ (pc = "call" => e # run)
  BY Zenon, <1>3, LoopAssumption DEF PlaceInv, Types
<1>5. \A x \in Events \ {e} : timeout_at'[x] = timeout_at[x]
  BY Zenon, <1>3 DEF Types
<1>6. pc = "call" => run \in Events
  BY Zenon DEF PlaceInv, Types
<1>7. \A x \in in_the_priority_queue : timeout_at'[x] = timeout_at[x]
  BY Zenon, <1>4, <1>5 DEF Types
<1>8. pc' # "call" \/ (UNCHANGED <<pc, ret, run>> /\ timeout_at'[run] = timeout_at[run])
  BY Zenon, <1>2, <1>4, <1>5, <1>6
<1>9. QED BY Zenon, <1>2, <1>7, <1>8, TimersSame DEF pq
\* Nor does an event that is freed, called or on its way to the queues.
LEMMA TimersFree ==
  ASSUME IInv, TimerInv, NEW E, Free(E), E \intersect in_the_priority_queue = {},
         UNCHANGED <<after, last_check_time, now>>, pc' # "call"
  PROVE  TimerInv'
<1>1. \A x \in in_the_priority_queue : timeout_at'[x] = timeout_at[x]
  BY Zenon DEF Free, IInv, Types
<1>2. QED BY Zenon, <1>1, TimersSame DEF IInv

LEMMA TimersRun ==
  ASSUME IInv, TimerInv, DequeueExternal \/ CallMissed \/ CallCancelled \/ After
  PROVE  TimerInv'
<1> USE DEF IInv
<1>1. ret \in {"local", "ready", "polls"}
  BY Zenon DEF Types
<1>2. CASE DequeueExternal
  <2>1. Elems(al) \intersect in_the_priority_queue = {}
    BY Zenon DEF ProtInv, PlaceInv
  <2>2. UNCHANGED <<after, last_check_time, now>> /\ pc' # "call" /\ Free(Elems(al) \intersect cancelled)
    BY Zenon, <1>2 DEF DequeueExternal, Goto, pq, clock
  <2>3. QED BY Zenon, <2>1, <2>2, TimersFree
<1>3. CASE CallMissed
  <2>1. /\ pc = "call" /\ timeout_at' = [timeout_at EXCEPT ![run] = event_time + DELAY_FOR_RETRY] /\ pc' = ret
        /\ UNCHANGED <<after, last_check_time, now>>
    BY Zenon, <1>3 DEF CallMissed, Goto, pq, clock
  <2>2. run \notin in_the_priority_queue
    BY Zenon, <2>1 DEF PlaceInv
  <2>3. \A x \in in_the_priority_queue : timeout_at'[x] = timeout_at[x]
    BY Zenon, <2>1, <2>2 DEF Types
  <2>4. QED BY Zenon, <1>1, <2>1, <2>3, TimersSame
<1>4. CASE CallCancelled
  <2>1. /\ pc = "call" /\ pc' = ret /\ Free({run}) /\ UNCHANGED <<after, last_check_time, now>>
    BY Zenon, <1>4 DEF CallCancelled, Goto, pq, clock
  <2>2. {run} \intersect in_the_priority_queue = {}
    BY Zenon, <2>1 DEF PlaceInv
  <2>3. pc' # "call"
    BY Zenon, <1>1, <2>1
  <2>4. QED BY Zenon, <2>1, <2>2, <2>3, TimersFree
<1>5. CASE After
  <2>1. pc' = ret /\ UNCHANGED <<after, last_check_time, now>>
    BY Zenon, <1>5 DEF After, Goto, pq, clock
  <2>2. pc' # "call"
    BY Zenon, <1>1, <2>1
  <2>3. \/ UNCHANGED timeout_at
        \/ /\ run \notin in_the_priority_queue
           /\ \/ Free({run})
              \/ \E t : timeout_at' = [timeout_at EXCEPT ![run] = t]
    BY Zenon, <1>5 DEF After
  <2>4. CASE run \notin in_the_priority_queue /\ Free({run})
    BY Zenon, <2>1, <2>2, <2>4, TimersFree
  <2>5. CASE UNCHANGED timeout_at \/ (run \notin in_the_priority_queue /\ \E t : timeout_at' = [timeout_at EXCEPT ![run] = t])
    <3>1. \A x \in in_the_priority_queue : timeout_at'[x] = timeout_at[x]
      BY Zenon, <2>5 DEF Types
    <3>2. QED BY Zenon, <2>1, <2>2, <3>1, TimersSame
  <2>6. QED BY Zenon, <2>3, <2>4, <2>5
<1>6. QED BY Zenon, <1>2, <1>3, <1>4, <1>5

\* An event that is given another time is taken from the lists first.
LEMMA TimersRescheduled ==
  ASSUME IInv, TimerInv, HandlerReschedules
  PROVE  TimerInv'
<1> USE DEF IInv
<1>1. PICK e \in (awaited \union ({run} \ {None})) \ (cancelled \union NegativeQueue), time \in Timings :
        /\ timeout_at' = [timeout_at EXCEPT ![e] = time.at]
        /\ IF e \in in_the_priority_queue THEN PQRemove(e) ELSE UNCHANGED pq
  BY Zenon DEF HandlerReschedules
<1>2. pc' # "call" /\ UNCHANGED now
  <2>1. Returned \/ AnotherReturned
    BY Zenon DEF HandlerReschedules
  <2>2. QED BY Zenon, <2>1, ReturnTypes
<1>3. CASE e \in in_the_priority_queue
  <2>1. /\ after' = [after EXCEPT ![in_heap[e]] = @ \ {e}] /\ UNCHANGED last_check_time
        /\ e \in Events /\ in_heap[e] \in Lists
    BY Zenon, <1>1, <1>3 DEF PQRemove, Types
  <2>2. \A i \in Lists : after'[i] \subseteq after[i] \ {e}
    BY <2>1 DEF Types, PrioInv
  <2>3. \A i \in Lists : \A x \in after'[i] : timeout_at'[x] = timeout_at[x]
    BY Zenon, <1>1, <2>2 DEF Types
  <2>4. QED BY Zenon, <1>2, <2>1, <2>2, <2>3, TimersStay
<1>4. CASE e \notin in_the_priority_queue
  <2>1. UNCHANGED <<after, last_check_time>>
    BY Zenon, <1>1, <1>4 DEF pq
  <2>2. \A x \in in_the_priority_queue : timeout_at'[x] = timeout_at[x]
    BY Zenon, <1>1, <1>4 DEF Types
  <2>3. QED BY Zenon, <1>2, <2>1, <2>2, TimersSame
<1>5. QED BY Zenon, <1>3, <1>4
-----------------------------------------------------------------------------
(* The steps that put timers in the lists or take them out *)
LEMMA TimersEnqueued ==
  ASSUME Types, PrioInv, StallInv, TimerInv, NEW e \in Events, e \notin in_the_priority_queue,
         PQEnqueue(e, timeout_at[e], event_time), UNCHANGED <<timeout_at, now, pc, ret, run>>
  PROVE  TimerInv'
<1> DEFINE j == ListFor(N_PQ_LIST - 1, timeout_at[e] - event_time)
<1>1. N_PQ_LIST - 1 \in Nat /\ N_PQ_LIST - 1 > 0 /\ timeout_at[e] \in Int /\ event_time \in Int /\ last_check_time \in Int /\ now \in Int
  BY ListsAssumption, StallFacts DEF Types
<1>2. /\ j \in 0 .. N_PQ_LIST - 1
      /\ j > 0 => timeout_at[e] - event_time > PQ_BUCKET_TIME(j - 1)
      /\ j = 0 => timeout_at[e] - event_time <= PQ_BUCKET_TIME(0)
  <2>1. timeout_at[e] - event_time \in Int
    BY <1>1
  <2>2. QED BY Zenon, <1>1, <2>1, ListForFits
<1>3. after' = [after EXCEPT ![j] = @ \union {e}] /\ UNCHANGED last_check_time
  BY Zenon DEF PQEnqueue
<1> HIDE DEF j
<1>4. last_check_time <= event_time /\ event_time <= now
  BY Zenon DEF StallInv
<1>5. \A i \in Lists : \A x \in after'[i] : x \in after[i] \/ (x = e /\ i = j)
  BY Zenon, <1>3 DEF Types
<1>6. ASSUME j > 0
      PROVE  \E q \in Int : last_check_time < q * PQ_BUCKET_TIME(j - 1) /\ q * PQ_BUCKET_TIME(j - 1) <= timeout_at[e]
  <2>1. j - 1 \in Nat
    BY <1>2, <1>6
  <2>2. PQ_BUCKET_TIME(j - 1) \in Nat \ {0}
    BY Zenon, <2>1, BucketTimes
  <2>3. timeout_at[e] - last_check_time > PQ_BUCKET_TIME(j - 1)
    BY <1>1, <1>2, <1>4, <1>6, <2>2
  <2>4. QED BY Zenon, <1>1, <2>2, <2>3, NextMultiple
<1>7. j = 0 => timeout_at[e] <= now + PQ_BUCKET_TIME(0)
  <2>1. PQ_BUCKET_TIME(0) \in Nat
    BY Zenon, BucketTimes
  <2>2. QED BY <1>1, <1>2, <1>4, <2>1
<1>8. 0 \in Lists /\ \A i \in Lists \ {0} : i \in Int /\ i > 0
  BY ListsAssumption DEF Lists
<1>9. ASSUME NEW i \in Lists \ {0}, NEW x \in after'[i]
      PROVE  \E q \in Int : last_check_time < q * PQ_BUCKET_TIME(i - 1) /\ q * PQ_BUCKET_TIME(i - 1) <= timeout_at[x]
  BY Zenon, <1>5, <1>6, <1>8, <1>9 DEF TimerInv
<1>10. ASSUME NEW x \in after'[0]
       PROVE  timeout_at[x] <= now + PQ_BUCKET_TIME(0)
  BY Zenon, <1>5, <1>7, <1>8, <1>10 DEF TimerInv
<1>11. QED BY Zenon, <1>3, <1>9, <1>10 DEF TimerInv, PQ_BUCKET_TIME

LEMMA TimersLocal ==
  ASSUME IInv, StallInv, TimerInv, DequeueLocal
  PROVE  TimerInv'
<1> USE DEF IInv
<1> DEFINE e == Head(localQueue)
<1>1. pc = "local" /\ UNCHANGED now /\ e \in Events /\ e \notin in_the_priority_queue
  <2>1. pc = "local" /\ UNCHANGED now /\ localQueue # <<>>
    BY Zenon DEF DequeueLocal, clock
  <2>2. e \in Events /\ e \in Elems(localQueue)
    BY Zenon, <2>1, Headed DEF Types, ProtInv
  <2>3. QED BY Zenon, <2>1, <2>2 DEF ProtInv, PlaceInv
<1>2. \/ Free({e}) /\ UNCHANGED <<pq, pc>>
      \/ UNCHANGED <<pq, timeout_at>> /\ ret' = "local"
      \/ PQEnqueue(e, timeout_at[e], event_time) /\ UNCHANGED <<timeout_at, pc, ret, run>>
      \/ UNCHANGED <<pq, timeout_at, pc, run, ret>>
  BY Zenon DEF DequeueLocal
<1> HIDE DEF e
<1>3. CASE Free({e}) /\ UNCHANGED <<pq, pc>>
  BY Zenon, <1>1, <1>3, TimersFree DEF pq
<1>4. CASE UNCHANGED <<pq, timeout_at>> /\ ret' = "local"
  BY Zenon, <1>1, <1>4, TimersSame DEF pq
<1>5. CASE PQEnqueue(e, timeout_at[e], event_time) /\ UNCHANGED <<timeout_at, pc, ret, run>>
  BY Zenon, <1>1, <1>5, TimersEnqueued
<1>6. CASE UNCHANGED <<pq, timeout_at, pc, run, ret>>
  BY Zenon, <1>1, <1>6, TimersSame DEF pq
<1>7. QED BY Zenon, <1>2, <1>3, <1>4, <1>5, <1>6
\* An event that check_ready leaves in its list is behind a multiple that has not passed.
LEMMA TimersLeft ==
  ASSUME Types, PrioInv, StallInv, TimerInv, NEW i \in Lists \ {0}, NEW e \in after[i], e \notin Examined(event_time)
  PROVE  \E q \in Int : event_time < q * PQ_BUCKET_TIME(i - 1) /\ q * PQ_BUCKET_TIME(i - 1) <= timeout_at[e]
<1> DEFINE c == Changed(event_time \div BucketTime, last_check_buckets)
<1>1. c < i
  <2>1. event_time \div BucketTime \in Int
    BY Zenon, ListsAssumption, Division DEF Types
  <2>2. c \in Lists
    BY Zenon, <2>1, ChangedAgrees DEF Types
  <2>3. i \notin 1 .. c
    BY Zenon DEF Examined
  <2>4. QED BY <2>2, <2>3, ListsAssumption DEF Lists
<1>2. PICK q \in Int : last_check_time < q * PQ_BUCKET_TIME(i - 1) /\ q * PQ_BUCKET_TIME(i - 1) <= timeout_at[e]
  BY Zenon DEF TimerInv
<1>3. last_check_time <= event_time /\ 2 * (event_time - last_check_time) <= PQ_BUCKET_TIME(N_PQ_LIST - 1)
  <2>1. last_check_time <= event_time /\ event_time <= now /\ 2 * (now - last_check_time) <= Period
    BY Zenon DEF StallInv
  <2>2. now \in Int /\ event_time \in Int /\ last_check_time \in Int /\ Period \in Int
    BY StallFacts
  <2>3. QED BY <2>1, <2>2 DEF Period
<1>4. event_time \in Int /\ last_check_time \in Int
  BY Zenon, StallFacts
<1>5. Changed(event_time \div BucketTime, last_check_time \div BucketTime) < i
  BY Zenon, <1>1 DEF StallInv
<1>6. ~(last_check_time < q * PQ_BUCKET_TIME(i - 1) /\ q * PQ_BUCKET_TIME(i - 1) <= event_time)
  BY Zenon, <1>3, <1>4, <1>5, NothingPassed
<1>7. q * PQ_BUCKET_TIME(i - 1) \in Int
  <2>1. i - 1 \in Nat
    BY ListsAssumption DEF Lists
  <2>2. PQ_BUCKET_TIME(i - 1) \in Nat
    BY Zenon, <2>1, BucketTimes
  <2>3. QED BY <2>2
<1>8. event_time < q * PQ_BUCKET_TIME(i - 1)
  BY <1>2, <1>4, <1>6, <1>7
<1>9. QED BY Zenon, <1>2, <1>8

\* One that it moves is put where its time says.
LEMMA TimersMoved ==
  ASSUME Types, PrioInv, StallInv, NEW e \in Examined(event_time),
         NEW j, j = ListFor(in_heap[e], timeout_at[e] - event_time)
  PROVE  /\ j # 0 => \E q \in Int : event_time < q * PQ_BUCKET_TIME(j - 1) /\ q * PQ_BUCKET_TIME(j - 1) <= timeout_at[e]
         /\ j = 0 => timeout_at[e] <= now + PQ_BUCKET_TIME(0)
<1>1. in_heap[e] \in Nat /\ in_heap[e] > 0 /\ e \in Events
  <2>1. in_heap[e] \in Lists \ {0} /\ e \in in_the_priority_queue
    BY Zenon, ExaminedWait DEF Types
  <2>2. QED BY <2>1, ListsAssumption DEF Lists, Types
<1>2. timeout_at[e] \in Int /\ event_time \in Int /\ now \in Int /\ timeout_at[e] - event_time \in Int
  BY <1>1, StallFacts DEF Types
<1>3. /\ j \in 0 .. in_heap[e]
      /\ j > 0 => timeout_at[e] - event_time > PQ_BUCKET_TIME(j - 1)
      /\ j = 0 => timeout_at[e] - event_time <= PQ_BUCKET_TIME(0)
  BY Zenon, <1>1, <1>2, ListForFits
<1>4. ASSUME j # 0
      PROVE  \E q \in Int : event_time < q * PQ_BUCKET_TIME(j - 1) /\ q * PQ_BUCKET_TIME(j - 1) <= timeout_at[e]
  <2>1. j - 1 \in Nat /\ j > 0
    BY <1>1, <1>3, <1>4
  <2>2. PQ_BUCKET_TIME(j - 1) \in Nat \ {0}
    BY Zenon, <2>1, BucketTimes
  <2>3. timeout_at[e] - event_time > PQ_BUCKET_TIME(j - 1)
    BY Zenon, <1>3, <2>1
  <2>4. QED BY ZenonT(30), <1>2, <2>2, <2>3, NextMultiple
<1>5. j = 0 => timeout_at[e] <= now + PQ_BUCKET_TIME(0)
  <2>1. PQ_BUCKET_TIME(0) \in Nat /\ event_time <= now
    BY Zenon, BucketTimes DEF StallInv
  <2>2. QED BY <1>2, <1>3, <2>1
<1>6. QED BY Zenon, <1>4, <1>5

LEMMA TimersChecked ==
  ASSUME IInv, StallInv, TimerInv, CheckReady
  PROVE  TimerInv'
<1> USE DEF IInv
<1> DEFINE looked == Examined(event_time)
           to == [e \in looked |-> ListFor(in_heap[e], timeout_at[e] - event_time)]
<1>1. /\ after' = [i \in Lists |-> (after[i] \ looked) \union {e \in looked \ cancelled : to[e] = i}]
      /\ last_check_time' = event_time /\ UNCHANGED now /\ pc' = "ready" /\ Free(looked \intersect cancelled)
  BY Zenon DEF CheckReady, PQCheckReady, Goto, clock
<1>2. looked \subseteq Events
  BY Zenon, ExaminedWait DEF Types
<1>3. \A e \in looked : to[e] = ListFor(in_heap[e], timeout_at[e] - event_time)
  BY Zenon
<1> HIDE DEF looked, to
<1>4. ASSUME NEW i \in Lists, NEW e \in after'[i]
      PROVE  /\ (e \in after[i] /\ e \notin looked) \/ (e \in looked /\ e \notin cancelled /\ to[e] = i)
             /\ timeout_at'[e] = timeout_at[e]
  <2>1. (e \in after[i] /\ e \notin looked) \/ (e \in looked /\ e \notin cancelled /\ to[e] = i)
    BY Zenon, <1>1, <1>4
  <2>2. e \in Events /\ e \notin looked \intersect cancelled
    BY Zenon, <1>2, <2>1 DEF Types
  <2>3. QED BY Zenon, <1>1, <2>1, <2>2 DEF Free
<1>5. 0 \in Lists
  BY ListsAssumption DEF Lists
<1>6. ASSUME NEW i \in Lists \ {0}, NEW e \in after'[i]
      PROVE  \E q \in Int : last_check_time' < q * PQ_BUCKET_TIME(i - 1) /\ q * PQ_BUCKET_TIME(i - 1) <= timeout_at'[e]
  <2>1. timeout_at'[e] = timeout_at[e]
    BY Zenon, <1>4, <1>6
  <2>2. CASE e \in after[i] /\ e \notin looked
    <3>1. \E q \in Int : event_time < q * PQ_BUCKET_TIME(i - 1) /\ q * PQ_BUCKET_TIME(i - 1) <= timeout_at[e]
      BY Zenon, <2>2, TimersLeft DEF looked
    <3>2. QED BY Zenon, <1>1, <2>1, <3>1
  <2>3. CASE e \in looked /\ to[e] = i
    <3>1. e \in Examined(event_time) /\ i = ListFor(in_heap[e], timeout_at[e] - event_time) /\ i # 0
      BY Zenon, <1>3, <2>3 DEF looked
    <3>2. \E q \in Int : event_time < q * PQ_BUCKET_TIME(i - 1) /\ q * PQ_BUCKET_TIME(i - 1) <= timeout_at[e]
      BY Zenon, <3>1, TimersMoved
    <3>3. QED BY Zenon, <1>1, <2>1, <3>2
  <2>4. QED BY Zenon, <1>4, <1>6, <2>2, <2>3
<1>7. ASSUME NEW e \in after'[0]
      PROVE  timeout_at'[e] <= now' + PQ_BUCKET_TIME(0)
  <2>1. timeout_at'[e] = timeout_at[e]
    BY Zenon, <1>4, <1>5, <1>7
  <2>2. CASE e \in after[0]
    BY Zenon, <1>1, <2>1, <2>2 DEF TimerInv
  <2>3. CASE e \in looked /\ to[e] = 0
    <3>1. e \in Examined(event_time) /\ 0 = ListFor(in_heap[e], timeout_at[e] - event_time)
      BY Zenon, <1>3, <2>3 DEF looked
    <3>2. QED BY Zenon, <1>1, <2>1, <3>1, TimersMoved
  <2>4. QED BY Zenon, <1>4, <1>5, <1>7, <2>2, <2>3
<1>8. QED BY Zenon, <1>1, <1>6, <1>7 DEF TimerInv, PQ_BUCKET_TIME

LEMMA TimersDequeued ==
  ASSUME IInv, TimerInv, DequeueReady
  PROVE  TimerInv'
<1> USE DEF IInv
<1>1. PICK e \in after[0] :
        /\ after' = [after EXCEPT ![0] = @ \ {e}] /\ UNCHANGED <<last_check_time, now>>
        /\ \/ Free({e}) /\ UNCHANGED pc
           \/ run' = e /\ UNCHANGED timeout_at
  BY Zenon DEF DequeueReady, PQDequeueReady, clock
<1>2. 0 \in Lists
  BY ListsAssumption DEF Lists
<1>3. \A i \in Lists : after'[i] \subseteq after[i] \ {e}
  BY <1>1, <1>2 DEF Types, PrioInv
<1>4. pc = "ready"
  BY Zenon DEF DequeueReady
<1>5. CASE Free({e}) /\ UNCHANGED pc
  <2>1. \A i \in Lists : \A x \in after'[i] : timeout_at'[x] = timeout_at[x]
    BY Zenon, <1>3, <1>5 DEF Free, Types
  <2>2. QED BY Zenon, <1>1, <1>3, <1>4, <1>5, <2>1, TimersStay
<1>6. CASE run' = e /\ UNCHANGED timeout_at
  <2>1. timeout_at'[run'] <= now' + PQ_BUCKET_TIME(0)
    BY Zenon, <1>1, <1>6 DEF TimerInv
  <2>2. ASSUME NEW i \in Lists \ {0}, NEW x \in after'[i]
        PROVE  \E q \in Int : last_check_time' < q * PQ_BUCKET_TIME(i - 1) /\ q * PQ_BUCKET_TIME(i - 1) <= timeout_at'[x]
    BY Zenon, <1>1, <1>3, <1>6, <2>2 DEF TimerInv
  <2>3. ASSUME NEW x \in after'[0]
        PROVE  timeout_at'[x] <= now' + PQ_BUCKET_TIME(0)
    BY Zenon, <1>1, <1>2, <1>3, <1>6, <2>3 DEF TimerInv
  <2>4. QED BY Zenon, <2>1, <2>2, <2>3 DEF TimerInv, PQ_BUCKET_TIME
<1>7. QED BY Zenon, <1>1, <1>5, <1>6
\* A Period is a multiple of every bucket time, so that going back by it keeps the multiples.
LEMMA TimersBack ==
  ASSUME NEW last \in Int, NEW t \in Int, NEW i \in Lists \ {0},
         \E q \in Int : last < q * PQ_BUCKET_TIME(i - 1) /\ q * PQ_BUCKET_TIME(i - 1) <= t
  PROVE  \E q \in Int : last - Period < q * PQ_BUCKET_TIME(i - 1) /\ q * PQ_BUCKET_TIME(i - 1) <= Back(t)
<1> DEFINE D == PQ_BUCKET_TIME(i - 1)
<1>1. i - 1 \in Nat /\ N_PQ_LIST - 1 \in Nat /\ i - 1 <= N_PQ_LIST - 1
  BY ListsAssumption DEF Lists
<1>2. PICK m \in Nat \ {0} : 2 ^ (N_PQ_LIST - 1) = m * 2 ^ (i - 1)
  BY Zenon, <1>1, PowerDivides
<1>3. D \in Nat \ {0} /\ Period \in Nat \ {0} /\ Period = m * D
  <2>1. D \in Nat \ {0} /\ Period \in Nat \ {0}
    BY Zenon, <1>1, BucketTimes, PeriodNat
  <2>2. 2 ^ (i - 1) \in Nat /\ BucketTime \in Nat
    BY Zenon, <1>1, PowerNat, ListsAssumption
  <2>3. \A b, x \in Nat : b * (m * x) = m * (b * x)
    OBVIOUS
  <2>4. Period = BucketTime * (m * 2 ^ (i - 1)) /\ D = BucketTime * 2 ^ (i - 1)
    BY Zenon, <1>2 DEF Period, PQ_BUCKET_TIME
  <2>5. QED BY <2>1, <2>2, <2>3, <2>4
<1>4. PICK q \in Int : last < q * D /\ q * D <= t
  BY Zenon
<1> HIDE DEF D
<1>5. (q - m) * D = q * D - Period /\ q * D \in Int /\ q - m \in Int
  BY <1>3
<1>6. Back(t) \in Int /\ Back(t) >= t - Period
  BY Zenon, BackLater
<1>7. last - Period < (q - m) * D /\ (q - m) * D <= Back(t)
  BY <1>3, <1>4, <1>5, <1>6
<1>8. QED BY Zenon, <1>5, <1>7 DEF D

LEMMA TimersTick ==
  ASSUME Types, TimerInv, Tick
  PROVE  TimerInv'
<1>1. PICK back \in {0, Period} :
        /\ now' = now + 1 - back /\ last_check_time' = last_check_time - back
        /\ back = 0 => UNCHANGED timeout_at
        /\ back = Period => timeout_at' = [e \in Events |-> Back(timeout_at[e])] /\ now' >= Period
  BY Zenon, TickTimes
<1>2. UNCHANGED after /\ pc' # "call"
  BY Zenon DEF Tick, pq
<1>3. /\ now \in Int /\ last_check_time \in Int /\ Period \in Nat \ {0} /\ PQ_BUCKET_TIME(0) \in Nat /\ 0 \in Lists
      /\ \A i \in Lists : \A e \in after[i] : e \in Events /\ timeout_at[e] \in Int
  <2>1. now \in Int /\ last_check_time \in Int /\ Period \in Nat \ {0}
    BY Zenon, StallFacts
  <2>2. PQ_BUCKET_TIME(0) \in Nat
    BY Zenon, BucketTimes
  <2>3. 0 \in Lists
    BY ListsAssumption DEF Lists
  <2>4. \A i \in Lists : \A e \in after[i] : e \in Events /\ timeout_at[e] \in Int
    BY Zenon DEF Types
  <2>5. QED BY Zenon, <2>1, <2>2, <2>3, <2>4
<1>4. CASE back = 0
  <2>1. last_check_time' = last_check_time /\ now' = now + 1 /\ UNCHANGED timeout_at
    BY <1>1, <1>3, <1>4
  <2>2. ASSUME NEW e \in after'[0]
        PROVE  timeout_at'[e] <= now' + PQ_BUCKET_TIME(0)
    <3>1. timeout_at[e] <= now + PQ_BUCKET_TIME(0) /\ timeout_at[e] \in Int
      BY Zenon, <1>2, <1>3, <2>2 DEF TimerInv
    <3>2. QED BY <1>3, <2>1, <3>1
  <2>3. ASSUME NEW i \in Lists \ {0}, NEW e \in after'[i]
        PROVE  \E q \in Int : last_check_time' < q * PQ_BUCKET_TIME(i - 1) /\ q * PQ_BUCKET_TIME(i - 1) <= timeout_at'[e]
    BY Zenon, <1>2, <2>1, <2>3 DEF TimerInv
  <2>4. QED BY Zenon, <1>2, <2>2, <2>3 DEF TimerInv, PQ_BUCKET_TIME
<1>5. CASE back = Period
  <2>1. /\ last_check_time' = last_check_time - Period /\ now' = now + 1 - Period /\ now' >= Period
        /\ \A i \in Lists : \A e \in after[i] : timeout_at'[e] = Back(timeout_at[e])
    BY Zenon, <1>1, <1>3, <1>5
  <2>2. ASSUME NEW e \in after'[0]
        PROVE  timeout_at'[e] <= now' + PQ_BUCKET_TIME(0)
    <3>1. /\ timeout_at[e] <= now + PQ_BUCKET_TIME(0) /\ timeout_at[e] \in Int
          /\ timeout_at'[e] = Back(timeout_at[e])
      BY Zenon, <1>2, <1>3, <2>1, <2>2 DEF TimerInv
    <3>2. Back(timeout_at[e]) \in Int /\ (Back(timeout_at[e]) <= 1 \/ Back(timeout_at[e]) = timeout_at[e] - Period)
      BY <3>1, BackLater
    <3>3. CASE Back(timeout_at[e]) <= 1
      BY <1>3, <2>1, <3>1, <3>2, <3>3
    <3>4. CASE Back(timeout_at[e]) = timeout_at[e] - Period
      BY <1>3, <2>1, <3>1, <3>4
    <3>5. QED BY Zenon, <3>2, <3>3, <3>4
  <2>3. ASSUME NEW i \in Lists \ {0}, NEW e \in after'[i]
        PROVE  \E q \in Int : last_check_time' < q * PQ_BUCKET_TIME(i - 1) /\ q * PQ_BUCKET_TIME(i - 1) <= timeout_at'[e]
    <3>1. /\ \E q \in Int : last_check_time < q * PQ_BUCKET_TIME(i - 1) /\ q * PQ_BUCKET_TIME(i - 1) <= timeout_at[e]
          /\ timeout_at[e] \in Int /\ timeout_at'[e] = Back(timeout_at[e])
      BY Zenon, <1>2, <1>3, <2>1, <2>3 DEF TimerInv
    <3>2. \E q \in Int : last_check_time - Period < q * PQ_BUCKET_TIME(i - 1) /\ q * PQ_BUCKET_TIME(i - 1) <= Back(timeout_at[e])
      BY Zenon, <1>3, <3>1, TimersBack
    <3>3. QED BY Zenon, <2>1, <3>1, <3>2
  <2>4. QED BY Zenon, <1>2, <2>2, <2>3 DEF TimerInv, PQ_BUCKET_TIME
<1>6. QED BY Zenon, <1>4, <1>5
-----------------------------------------------------------------------------
(* What holds of every state *)
LEMMA InitTInv == Init => TInv
<1>1. SUFFICES ASSUME Init
               PROVE  StallInv /\ TimerInv
  BY Zenon, InitIInv DEF TInv
<1>2. Period \in Nat \ {0} /\ MaxStall \in Nat /\ 0 \in Lists
  BY PeriodNat, LoopAssumption, ListsAssumption DEF Lists
<1>3. /\ \A i \in Lists : after[i] = {}
      /\ last_check_time = Period /\ last_check_buckets = Period \div BucketTime /\ event_time = Period /\ now = Period
      /\ pc = "drain" /\ second = FALSE
  BY Zenon, <1>1 DEF Init, PQInit
<1>4. StallInv
  BY <1>2, <1>3 DEF StallInv, Checked
<1>5. TimerInv
  BY Zenon, <1>2, <1>3 DEF TimerInv
<1>6. QED BY Zenon, <1>4, <1>5

LEMMA NextTInv == TInv /\ [Next]_vars => TInv'
<1>1. SUFFICES ASSUME TInv, [Next]_vars
               PROVE  StallInv' /\ TimerInv'
  BY Zenon, NextIInv DEF TInv
<1>2. IInv /\ Types /\ StallInv /\ TimerInv
  BY Zenon, <1>1 DEF TInv, IInv
<1>3. StallInv'
  <2>1. CASE Tick
    BY Zenon, <1>2, <2>1, TickStall
  <2>2. CASE CheckReady \/ Sleep \/ Awake
    BY Zenon, <1>2, <2>2, StallOthers
  <2>3. QED BY Zenon, <1>1, <1>2, <2>1, <2>2, StallStep
<1>4. TimerInv'
  <2>1. CASE UNCHANGED vars \/ Tick
    BY Zenon, <1>2, <2>1, TimersOther, TimersTick
  <2>2. CASE LoopStep
    <3>1. CASE Handler
      BY Zenon, <1>2, <3>1, TimersOther, TimersAlloc, TimersRescheduled DEF Handler
    <3>2. CASE DequeueExternal \/ CallMissed \/ CallCancelled \/ After
      BY Zenon, <1>2, <3>2, TimersRun
    <3>3. CASE DequeueLocal \/ CheckReady \/ DequeueReady
      BY Zenon, <1>2, <3>3, TimersLocal, TimersChecked, TimersDequeued
    <3>4. CASE Call \/ PollsFirst \/ DequeueNegative \/ Sleep \/ Wait \/ Awake
      BY Zenon, <1>2, <3>4, TimersOther
    <3>5. QED BY Zenon, <2>2, <3>1, <3>2, <3>3, <3>4 DEF LoopStep
  <2>3. ASSUME NEW r \in Others, SignalActivity(r) \/ \E e \in Events : ScheduleExternal(r, e) \/ Cancel(r, e)
        PROVE  TimerInv'
    <3>1. CASE SignalActivity(r) \/ \E e \in Events : Cancel(r, e)
      BY Zenon, <1>2, <3>1, TimersOther
    <3>2. CASE \E e \in Events : ScheduleExternal(r, e)
      BY Zenon, <1>2, <3>2, TimersAlloc
    <3>3. QED BY Zenon, <2>3, <3>1, <3>2
  <2>4. QED BY Zenon, <1>1, <2>1, <2>2, <2>3 DEF Next
<1>5. QED BY Zenon, <1>3, <1>4

LEMMA Always == Spec => []TInv
<1>1. QED BY InitTInv, NextTInv, PTL DEF Spec

\* Every event that is not freed is queued once or being called, and its flags say where,
\* whatever the other threads and the handlers schedule, cancel and schedule anew:
\* ProtectedQueue::enqueue, EThread::process_event and free_event.
THEOREM EventsHaveOnePlace == Spec => []OnePlace
<1>1. TInv => OnePlace
  <2>1. SUFFICES ASSUME TInv
                 PROVE  OnePlace
    BY Zenon
  <2>2. IInv /\ event_time <= now
    BY Zenon, <2>1 DEF TInv, StallInv
  <2>3. QED BY Zenon, <2>2, OnePlaceOf
<1>2. QED BY <1>1, Always, PTL

\* check_ready leaves no event in the higher lists that was due when it looked, and no event
\* is called more than a bucket early, for any number of lists and any bucket time, if the
\* loop looks at its timers at least every half Period (PQ-List.cc: check_ready).
THEOREM TimersAreOnTime == Spec => []TimersOnTime
<1>1. TInv => TimersOnTime
  <2>1. SUFFICES ASSUME TInv
                 PROVE  TimersOnTime
    BY Zenon
  <2>2. Types /\ TimerInv
    BY Zenon, <2>1 DEF TInv, IInv
  <2>3. ASSUME NEW i \in Lists \ {0}, NEW e \in after[i]
        PROVE  timeout_at[e] > last_check_time
    <3>1. PICK q \in Int : last_check_time < q * PQ_BUCKET_TIME(i - 1) /\ q * PQ_BUCKET_TIME(i - 1) <= timeout_at[e]
      BY Zenon, <2>2, <2>3 DEF TimerInv
    <3>2. i - 1 \in Nat
      BY ListsAssumption DEF Lists
    <3>3. PQ_BUCKET_TIME(i - 1) \in Nat /\ e \in Events
      BY Zenon, <2>2, <2>3, <3>2, BucketTimes DEF Types
    <3>4. q * PQ_BUCKET_TIME(i - 1) \in Int /\ last_check_time \in Int /\ timeout_at[e] \in Int
      BY <2>2, <3>3 DEF Types
    <3>5. QED BY <3>1, <3>4
  <2>4. QED BY Zenon, <2>2, <2>3 DEF TimersOnTime, TimerInv
<1>2. QED BY <1>1, Always, PTL
-----------------------------------------------------------------------------
(* The wakeup and the cancellation *)
\* While an event of another thread waits, its signal is there, on the way, or not needed.
WakeInv == tail_cb = "net" /\ al # <<>> => evfd \/ will_signal # {} \/ pc = "drain"

LEMMA WakeStep ==
  ASSUME WakeInv, [Next]_vars
  PROVE  WakeInv'
<1>1. CASE UNCHANGED <<al, evfd, will_signal, tail_cb>> /\ (pc = "drain" => pc' = "drain")
  BY Zenon, <1>1 DEF WakeInv
<1>2. CASE DequeueExternal \/ Awake
  BY Zenon, <1>2 DEF DequeueExternal, Awake, Goto, WakeInv
<1>3. ASSUME NEW r \in Others, SignalActivity(r)
      PROVE  WakeInv'
  BY Zenon, <1>3 DEF SignalActivity, WakeInv, queues, loop
<1>4. ASSUME NEW r \in Others, NEW e \in Events, ScheduleExternal(r, e)
      PROVE  WakeInv'
  <2>1. /\ will_signal' = IF al = <<>> THEN will_signal \union {r} ELSE will_signal
        /\ UNCHANGED <<tail_cb, evfd, pc>>
    BY Zenon, <1>4 DEF ScheduleExternal, loop
  <2>2. QED BY Zenon, <2>1 DEF WakeInv
<1>5. CASE UNCHANGED vars \/ Tick \/ \E r \in Others, e \in Events : Cancel(r, e)
  BY Zenon, <1>1, <1>5 DEF vars, Tick, Cancel, queues, loop, wake
<1>6. CASE DequeueLocal \/ CallMissed \/ CallCancelled \/ Call \/ After
  BY Zenon, <1>1, <1>6 DEF DequeueLocal, CallMissed, CallCancelled, Call, After, queues, wake
<1>7. CASE Handler
  BY Zenon, <1>1, <1>7 DEF Handler, HandlerReturns, HandlerSchedules, HandlerCancels, HandlerReschedules, Returned, AnotherReturned,
                    queues, wake
<1>8. CASE CheckReady \/ DequeueReady \/ PollsFirst \/ DequeueNegative \/ Sleep \/ Wait
  BY Zenon, <1>1, <1>8 DEF CheckReady, DequeueReady, PollsFirst, DequeueNegative, Sleep, Wait, queues, wake
<1>9. QED BY Zenon, <1>2, <1>3, <1>4, <1>5, <1>6, <1>7, <1>8 DEF Next, LoopStep

\* A thread with a NetHandler never sleeps over an event of another thread for which no
\* signal is there or on the way: only the thread that finds the list empty signals
\* (ProtectedQueue::enqueue), and that is enough.
THEOREM SleeperIsWoken == Spec => []NetWoken
<1>1. Init => WakeInv
  BY Zenon DEF Init, WakeInv
<1>2. WakeInv /\ [Next]_vars => WakeInv'
  BY Zenon, WakeStep
<1>3. WakeInv => NetWoken
  BY Zenon DEF WakeInv, NetWoken
<1>4. QED BY <1>1, <1>2, <1>3, PTL DEF Spec

\* Whoever is cancelled is not called back: process_event looks at cancelled again under the
\* mutex, and nothing else enters a handler.
THEOREM CancelledIsNotCalled == Spec => CancelledNotCalled
<1>1. Types /\ [Next]_vars => [\A e \in Events : e \in cancelled => ~(pc' = "handler" /\ pc = "call" /\ run = e)]_vars
  <2>1. SUFFICES ASSUME Types, Next, NEW e \in Events, pc' = "handler", pc = "call", run = e
                 PROVE  e \notin cancelled
    BY Zenon
  <2>2. ret \in {"local", "ready", "polls"}
    BY Zenon, <2>1 DEF Types
  <2>3. LoopStep \/ Call
    BY Zenon, <2>1 DEF Next, Tick, SignalActivity, ScheduleExternal, Cancel, loop
  <2>4. Call
    BY Zenon, <2>1, <2>2, <2>3 DEF LoopStep, DequeueExternal, DequeueLocal, CallMissed, CallCancelled, Handler, HandlerReturns,
         HandlerSchedules, HandlerCancels, HandlerReschedules, Returned, AnotherReturned, After, CheckReady, DequeueReady,
         PollsFirst, DequeueNegative, Sleep, Wait, Awake, Goto
  <2>5. QED BY Zenon, <2>1, <2>4 DEF Call
<1>2. TInv => Types
  BY Zenon DEF TInv, IInv
<1>3. QED BY <1>1, <1>2, Always, PTL DEF Spec, CancelledNotCalled
=============================================================================
