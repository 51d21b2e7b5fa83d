------------------------ MODULE NonPreemptiveProofs ------------------------
(***************************************************************************)
(* Proofs about NonPreemptive for every policy, every number of cores,     *)
(* every finite set of processes and every key.                            *)
(***************************************************************************)
EXTENDS NonPreemptive, SchedulerProofs, WellFoundedInduction

USE ProcsAssumption, NumCoresAssumption, QuantumAssumption,
    ProgramAssumption, BatchSizeAssumption, PoliciesAssumption,
    KeyAssumption, LongQuantumAssumption

-----------------------------------------------------------------------------
(* Putting a process into a queue and taking one out, as the code does it. *)

LEMMA Concatenated ==
  ASSUME NEW S, NEW q \in Seq(S), NEW r \in Seq(S)
  PROVE  /\ q \o r \in Seq(S) /\ Len(q \o r) = Len(q) + Len(r)
         /\ \A i \in 1..(Len(q) + Len(r)) :
              (q \o r)[i] = IF i <= Len(q) THEN q[i] ELSE r[i - Len(q)]
OBVIOUS

LEMMA Inserted ==
  ASSUME NEW S, NEW q \in Seq(S), NEW i \in 1..Len(q), NEW x \in S
  PROVE  InsertAt(q, i, x) \in Seq(S) /\ PutIn(q, InsertAt(q, i, x), i, x)
<1> DEFINE a == SubSeq(q, 1, i - 1)
           b == SubSeq(q, i, Len(q))
           t == a \o <<x>>
           r == t \o b
           n == Len(q)
<1>0. n \in Nat /\ i \in 1..n
  OBVIOUS
<1>1. a \in Seq(S) /\ Len(a) = i - 1 /\ \A j \in 1..(i - 1) : a[j] = q[j]
  BY <1>0
<1>2. b \in Seq(S) /\ Len(b) = n - i + 1 /\ \A j \in 1..(n - i + 1) : b[j] = q[i + j - 1]
  BY <1>0
<1> HIDE DEF a, b
<1>3. t \in Seq(S) /\ Len(t) = i /\ t[i] = x /\ \A j \in 1..(i - 1) : t[j] = a[j]
  BY <1>0, <1>1
<1> HIDE DEF t
<1>4. /\ r \in Seq(S) /\ Len(r) = n + 1
      /\ \A j \in 1..(n + 1) : r[j] = IF j <= i THEN t[j] ELSE b[j - i]
  <2>0. t \in Seq(S) /\ b \in Seq(S)
    BY <1>2, <1>3
  <2>1. /\ t \o b \in Seq(S) /\ Len(t \o b) = Len(t) + Len(b)
        /\ \A j \in 1..(Len(t) + Len(b)) :
             (t \o b)[j] = IF j <= Len(t) THEN t[j] ELSE b[j - Len(t)]
    BY <2>0, Concatenated
  <2>2. Len(t) = i /\ Len(t) + Len(b) = n + 1
    BY <1>0, <1>2, <1>3
  <2> QED
    BY <2>1, <2>2
<1> HIDE DEF r
<1>5. ASSUME NEW j \in 1..(n + 1)
      PROVE  r[j] = IF j < i THEN q[j] ELSE IF j = i THEN x ELSE q[j - 1]
  <2>1. CASE j < i
    BY <1>0, <1>1, <1>3, <1>4, <2>1
  <2>2. CASE j = i
    BY <1>0, <1>3, <1>4, <2>2
  <2>3. CASE j > i
    <3>1. j - i \in 1..(n - i + 1) /\ i + (j - i) - 1 = j - 1 /\ ~(j <= i)
      BY <1>0, <2>3
    <3> QED
      BY <1>0, <1>2, <1>4, <2>3, <3>1
  <2> QED
    BY <1>0, <2>1, <2>2, <2>3
<1> QED
  BY <1>4, <1>5 DEF PutIn, InsertAt, r, t, a, b

LEMMA Removed ==
  ASSUME NEW S, NEW q \in Seq(S), NEW i \in 1..Len(q)
  PROVE  RemoveAt(q, i) \in Seq(S) /\ PutIn(RemoveAt(q, i), q, i, q[i])
<1> DEFINE a == SubSeq(q, 1, i - 1)
           b == SubSeq(q, i + 1, Len(q))
           r == a \o b
           n == Len(q)
<1>0. n \in Nat /\ i \in 1..n
  OBVIOUS
<1>1. a \in Seq(S) /\ Len(a) = i - 1 /\ \A j \in 1..(i - 1) : a[j] = q[j]
  BY <1>0
<1>2. b \in Seq(S) /\ Len(b) = n - i /\ \A j \in 1..(n - i) : b[j] = q[i + j]
  BY <1>0
<1> HIDE DEF a, b
<1>3. /\ r \in Seq(S) /\ Len(r) = n - 1
      /\ \A j \in 1..(n - 1) : r[j] = IF j <= i - 1 THEN a[j] ELSE b[j - (i - 1)]
  <2>0. a \in Seq(S) /\ b \in Seq(S)
    BY <1>1, <1>2
  <2>1. /\ a \o b \in Seq(S) /\ Len(a \o b) = Len(a) + Len(b)
        /\ \A j \in 1..(Len(a) + Len(b)) :
             (a \o b)[j] = IF j <= Len(a) THEN a[j] ELSE b[j - Len(a)]
    BY <2>0, Concatenated
  <2>2. Len(a) = i - 1 /\ Len(a) + Len(b) = n - 1
    BY <1>0, <1>1, <1>2
  <2> QED
    BY <2>1, <2>2
<1> HIDE DEF r
<1>4. ASSUME NEW j \in 1..n
      PROVE  q[j] = IF j < i THEN r[j] ELSE IF j = i THEN q[i] ELSE r[j - 1]
  <2>1. CASE j < i
    <3>1. j \in 1..(i - 1) /\ j \in 1..(n - 1) /\ j <= i - 1
      BY <1>0, <2>1
    <3> QED
      BY <1>1, <1>3, <2>1, <3>1
  <2>2. CASE j = i
    BY <2>2
  <2>3. CASE j > i
    <3>1. /\ j - 1 \in 1..(n - 1) /\ ~(j - 1 <= i - 1)
          /\ (j - 1) - (i - 1) \in 1..(n - i) /\ i + ((j - 1) - (i - 1)) = j
      BY <1>0, <2>3
    <3> QED
      BY <1>0, <1>2, <1>3, <2>3, <3>1
  <2> QED
    BY <1>0, <2>1, <2>2, <2>3
<1>5. PutIn(r, q, i, q[i])
  BY <1>0, <1>3, <1>4 DEF PutIn
<1> QED
  BY <1>3, <1>5 DEF RemoveAt, r, a, b

LEMMA Appended ==
  ASSUME NEW S, NEW q \in Seq(S), NEW x \in S
  PROVE  Append(q, x) \in Seq(S) /\ PutIn(q, Append(q, x), Len(q) + 1, x)
BY DEF PutIn

LEMMA FunctionIsSequence ==
  ASSUME NEW S, NEW n \in Nat, NEW r \in [1..n -> S]
  PROVE  r \in Seq(S) /\ Len(r) = n
OBVIOUS

LEMMA LeastOf ==
  ASSUME NEW T \in SUBSET Nat, T # {}
  PROVE  Min(T) \in T /\ \A y \in T : Min(T) <= y
<1> DEFINE less == {ss \in Nat \X Nat : ss[1] < ss[2]}
<1>0. IsWellFoundedOn(less, Nat)
  BY NatLessThanWellFounded DEF OpToRel
<1>a. \A a, b \in Nat : a < b => <<a, b>> \in less
  OBVIOUS
<1> HIDE DEF less
<1>1. PICK x \in T : \A y \in T : ~(<<y, x>> \in less)
  BY <1>0, WFMin
<1>2. ASSUME NEW y \in T PROVE x <= y
  <2>1. x \in Nat /\ y \in Nat
    OBVIOUS
  <2>2. ~(y < x)
    BY <1>1, <1>a, <2>1, Zenon
  <2> QED
    BY <2>1, <2>2
<1> QED
  BY <1>2 DEF Min

-----------------------------------------------------------------------------
(* Where the policies put a process.                                       *)

(* The shortest job goes before the first longer one.                      *)
LEMMA JobSizePosition ==
  ASSUME NEW q \in Seq(Procs), NEW p \in Procs
  PROVE  \E i \in 1..(Len(q) + 1) :
           /\ JobSizeOrder(q, p) \in Seq(Procs) /\ PutIn(q, JobSizeOrder(q, p), i, p)
           /\ \A j \in 1..(i - 1) : Key[q[j]] <= Key[p]
           /\ i \in 1..Len(q) => Key[p] < Key[q[i]]
<1> DEFINE I == {i \in 1..Len(q) : Key[p] < Key[q[i]]}
<1>0. JobSizeOrder(q, p) = LET i == IF I # {} THEN Min(I) ELSE 0
                           IN  IF i = 0 THEN Append(q, p) ELSE InsertAt(q, i, p)
  BY DEF JobSizeOrder, SelectInSeq
<1>a. Len(q) \in Nat /\ Key[p] \in Int /\ \A j \in 1..Len(q) : Key[q[j]] \in Int
  OBVIOUS
<1>b. \A j \in 1..Len(q) : j \notin I => Key[q[j]] <= Key[p]
  BY <1>a
<1> HIDE DEF I
<1>1. CASE I = {}
  <2>1. JobSizeOrder(q, p) = Append(q, p)
    BY <1>0, <1>1
  <2>2. \A j \in 1..Len(q) : Key[q[j]] <= Key[p]
    BY <1>b, <1>1
  <2>3. Len(q) + 1 \in 1..(Len(q) + 1) /\ (Len(q) + 1) - 1 = Len(q) /\ Len(q) + 1 \notin 1..Len(q)
    BY <1>a
  <2>4. /\ Append(q, p) \in Seq(Procs)
        /\ PutIn(q, Append(q, p), Len(q) + 1, p)
    BY Appended
  <2> WITNESS Len(q) + 1 \in 1..(Len(q) + 1)
  <2> QED
    BY <2>1, <2>2, <2>3, <2>4
<1>2. CASE I # {}
  <2> DEFINE m == Min(I)
  <2>1. m \in I /\ \A y \in I : m <= y
    <3>1. I \in SUBSET Nat
      BY DEF I
    <3> QED
      BY <1>2, <3>1, LeastOf
  <2> HIDE DEF m
  <2>2. m \in 1..Len(q) /\ m \in 1..(Len(q) + 1) /\ m # 0 /\ Key[p] < Key[q[m]]
    BY <1>a, <2>1 DEF I
  <2>3. JobSizeOrder(q, p) = InsertAt(q, m, p)
    BY <1>0, <1>2, <2>2 DEF m
  <2>4. ASSUME NEW j \in 1..(m - 1) PROVE Key[q[j]] <= Key[p]
    <3>1. j \in 1..Len(q) /\ ~(m <= j)
      BY <1>a, <2>2
    <3> QED
      BY <1>b, <2>1, <3>1
  <2>5. InsertAt(q, m, p) \in Seq(Procs) /\ PutIn(q, InsertAt(q, m, p), m, p)
    BY <2>2, Inserted
  <2> m \in 1..(Len(q) + 1)
    BY <2>2
  <2> WITNESS m \in 1..(Len(q) + 1)
  <2> QED
    BY <2>2, <2>3, <2>4, <2>5
<1> QED
  BY <1>1, <1>2

(* The stable sort: i comes before j in the sorted sequence.               *)
Precedes(s, i, j) == Key[s[i]] > Key[s[j]] \/ (Key[s[i]] = Key[s[j]] /\ i <= j)

LEMMA RankGrows ==
  ASSUME NEW s \in Seq(Procs), NEW i \in DOMAIN s, NEW j \in DOMAIN s
  PROVE  /\ StableRank(s, i) \in DOMAIN s
         /\ Precedes(s, i, j) \/ Precedes(s, j, i)
         /\ i # j /\ Precedes(s, i, j) => StableRank(s, i) < StableRank(s, j)
<1> DEFINE upTo(h) == {g \in DOMAIN s : Precedes(s, g, h)}
<1>0. /\ DOMAIN s = 1..Len(s) /\ Len(s) \in Nat
      /\ \A h \in 1..Len(s) : Key[s[h]] \in Int
  OBVIOUS
<1>1. ASSUME NEW h \in DOMAIN s
      PROVE  /\ StableRank(s, h) = Cardinality(upTo(h)) /\ upTo(h) \subseteq DOMAIN s
             /\ IsFiniteSet(upTo(h)) /\ h \in upTo(h)
  <2>1. IsFiniteSet(DOMAIN s)
    BY <1>0, FS_Interval
  <2>2. h \in upTo(h)
    BY <1>0, <1>1 DEF Precedes
  <2>3. StableRank(s, h) = Cardinality(upTo(h))
    BY DEF StableRank, Precedes
  <2> QED
    BY <2>1, <2>2, <2>3, FS_Subset
<1> HIDE DEF upTo
<1>2. StableRank(s, i) \in DOMAIN s
  <2>1. Cardinality(1..Len(s)) = Len(s) /\ IsFiniteSet(1..Len(s))
    <3>1. Len(s) \in Int /\ ~(1 > Len(s)) /\ Len(s) - 1 + 1 = Len(s)
      BY <1>0
    <3>2. /\ IsFiniteSet(1..Len(s))
          /\ Cardinality(1..Len(s)) = IF 1 > Len(s) THEN 0 ELSE Len(s) - 1 + 1
      <4>1. 1 \in Int
        OBVIOUS
      <4> QED
        BY <3>1, <4>1, FS_Interval, Zenon
    <3> QED
      BY <3>1, <3>2
  <2>2. Cardinality(upTo(i)) <= Len(s)
    BY <1>0, <1>1, <2>1, FS_Subset
  <2>3. Cardinality(upTo(i)) \in Nat /\ Cardinality(upTo(i)) # 0
    BY <1>1, FS_CardinalityType, FS_EmptySet
  <2>4. StableRank(s, i) = Cardinality(upTo(i)) /\ Len(s) \in Nat
    BY <1>0, <1>1
  <2> QED
    BY <2>2, <2>3, <2>4
<1>3. Precedes(s, i, j) \/ Precedes(s, j, i)
  BY <1>0 DEF Precedes
<1>4. ASSUME i # j, Precedes(s, i, j) PROVE StableRank(s, i) < StableRank(s, j)
  <2>1. \A g \in DOMAIN s : Precedes(s, g, i) => Precedes(s, g, j)
    BY <1>0, <1>4 DEF Precedes
  <2>2. j \notin upTo(i)
    BY <1>0, <1>4 DEF Precedes, upTo
  <2>3. upTo(i) \subseteq upTo(j) /\ upTo(i) # upTo(j)
    BY <1>1, <2>1, <2>2 DEF upTo
  <2>4. Cardinality(upTo(i)) <= Cardinality(upTo(j)) /\ Cardinality(upTo(i)) # Cardinality(upTo(j))
    BY <1>1, <2>3, FS_Subset
  <2>5. Cardinality(upTo(i)) \in Nat /\ Cardinality(upTo(j)) \in Nat
    BY <1>1, FS_CardinalityType
  <2> QED
    BY <1>1, <2>4, <2>5
<1> QED
  BY <1>2, <1>3, <1>4

(* No two elements have the same rank.                                     *)
LEMMA RanksDiffer ==
  ASSUME NEW s \in Seq(Procs), NEW i \in DOMAIN s, NEW j \in DOMAIN s,
         StableRank(s, i) = StableRank(s, j)
  PROVE  i = j
<1> SUFFICES ASSUME i # j PROVE StableRank(s, i) # StableRank(s, j)
  OBVIOUS
<1>1. DOMAIN s \subseteq Nat
  OBVIOUS
<1>2. StableRank(s, i) \in DOMAIN s /\ StableRank(s, j) \in DOMAIN s
  BY RankGrows
<1>3. StableRank(s, i) < StableRank(s, j) \/ StableRank(s, j) < StableRank(s, i)
  <2>1. CASE Precedes(s, i, j)
    BY <2>1, RankGrows
  <2>2. CASE Precedes(s, j, i)
    BY <2>2, RankGrows
  <2> QED
    BY <2>1, <2>2, RankGrows
<1> QED
  BY <1>1, <1>2, <1>3

(* Every place of the sorted sequence is the rank of one element.          *)
LEMMA RankReached ==
  ASSUME NEW s \in Seq(Procs)
  PROVE  \A n \in DOMAIN s : \E i \in DOMAIN s : StableRank(s, i) = n
<1> DEFINE D == DOMAIN s
           f == [i \in D |-> StableRank(s, i)]
<1>1. \A i, j \in D : StableRank(s, i) = StableRank(s, j) => i = j
  BY RanksDiffer
<1>2. f \in Injection(D, D)
  BY <1>1, RankGrows DEF Injection, IsInjective
<1>3. IsFiniteSet(D)
  BY FS_Interval
<1>4. f \in Surjection(D, D)
  BY <1>2, <1>3, FS_Injection
<1> QED
  BY <1>4 DEF Surjection

(* The sorted sequence has the same elements, each as often, best first.   *)
LEMMA SortedByPriority ==
  ASSUME NEW s \in Seq(Procs)
  PROVE  LET r == SortByPriority(s)
         IN  /\ r \in Seq(Procs) /\ Len(r) = Len(s) /\ Range(r) = Range(s)
             /\ IsInjective(s) => IsInjective(r)
             /\ \A m, n \in DOMAIN r : m < n => ~(Key[r[n]] > Key[r[m]])
<1> DEFINE r == SortByPriority(s)
           at(n) == CHOOSE i \in DOMAIN s : StableRank(s, i) = n
<1>1. \A n \in DOMAIN s : at(n) \in DOMAIN s /\ StableRank(s, at(n)) = n
  BY RankReached
<1>2. r = [n \in DOMAIN s |-> s[at(n)]]
  BY DEF SortByPriority
<1> HIDE DEF at, r
<1>3. DOMAIN s = 1..Len(s) /\ Len(s) \in Nat /\ \A i \in 1..Len(s) : s[i] \in Procs
  OBVIOUS
<1>4. r \in Seq(Procs) /\ Len(r) = Len(s) /\ DOMAIN r = DOMAIN s
  <2>1. r \in [1..Len(s) -> Procs]
    BY <1>1, <1>2, <1>3
  <2> QED
    BY <1>3, <2>1, FunctionIsSequence
<1>5. \A i \in DOMAIN s : StableRank(s, i) \in DOMAIN s /\ at(StableRank(s, i)) = i
  <2> TAKE i \in DOMAIN s
  <2> DEFINE n == StableRank(s, i)
  <2>1. n \in DOMAIN s
    BY RankGrows
  <2>2. at(n) \in DOMAIN s /\ StableRank(s, at(n)) = n
    BY <1>1, <2>1
  <2>3. at(n) = i
    BY <2>2, RanksDiffer
  <2> QED
    BY <2>1, <2>3
<1>6. Range(r) = Range(s)
  <2>1. ASSUME NEW n \in DOMAIN s PROVE r[n] \in Range(s)
    BY <1>1, <1>2 DEF Range
  <2>2. ASSUME NEW i \in DOMAIN s PROVE s[i] \in Range(r)
    <3>1. StableRank(s, i) \in DOMAIN r /\ r[StableRank(s, i)] = s[i]
      BY <1>2, <1>4, <1>5
    <3> QED
      BY <3>1 DEF Range
  <2> QED
    BY <1>4, <2>1, <2>2 DEF Range
<1>7. ASSUME IsInjective(s) PROVE IsInjective(r)
  <2>1. \A m, n \in DOMAIN s : s[at(m)] = s[at(n)] => m = n
    BY <1>1, <1>7 DEF IsInjective
  <2> QED
    BY <1>2, <1>4, <2>1 DEF IsInjective
<1>8. ASSUME NEW m \in DOMAIN s, NEW n \in DOMAIN s, m < n PROVE ~(Key[r[n]] > Key[r[m]])
  <2>1. SUFFICES ASSUME Key[s[at(n)]] > Key[s[at(m)]] PROVE FALSE
    BY <1>2
  <2>2. at(m) \in DOMAIN s /\ at(n) \in DOMAIN s /\ Precedes(s, at(n), at(m))
    BY <1>1, <2>1 DEF Precedes
  <2>3. at(m) # at(n)
    BY <1>1, <1>3, <1>8
  <2>4. StableRank(s, at(n)) < StableRank(s, at(m))
    BY <2>2, <2>3, RankGrows
  <2> QED
    BY <1>1, <1>3, <1>8, <2>4
<1> QED
  BY <1>4, <1>6, <1>7, <1>8 DEF r

(* The order BestFirst asks of the ready queue.                            *)
InOrder(q) == \A i, j \in DOMAIN q : i < j => ~Better(q[j], q[i])

LEMMA InsertedInOrder ==
  ASSUME policy = "SJN", NEW q \in Seq(Procs), NEW r \in Seq(Procs), NEW p \in Procs,
         NEW i \in 1..(Len(q) + 1), PutIn(q, r, i, p), InOrder(q),
         \A j \in 1..(i - 1) : Key[q[j]] <= Key[p],
         i \in 1..Len(q) => Key[p] < Key[q[i]]
  PROVE  InOrder(r)
<1> DEFINE n == Len(q)
<1>0. /\ n \in Nat /\ i \in 1..(n + 1) /\ DOMAIN q = 1..n /\ DOMAIN r = 1..(n + 1)
      /\ \A j \in 1..(n + 1) : r[j] = IF j < i THEN q[j] ELSE IF j = i THEN p ELSE q[j - 1]
      /\ \A j \in 1..n : Key[q[j]] \in Int
      /\ Key[p] \in Int
  <2>1. n \in Nat /\ DOMAIN q = 1..n /\ DOMAIN r = 1..Len(r)
    OBVIOUS
  <2>2. Len(r) = n + 1
    BY DEF PutIn
  <2>3. \A j \in 1..(n + 1) : r[j] = IF j < i THEN q[j] ELSE IF j = i THEN p ELSE q[j - 1]
    BY DEF PutIn
  <2>4. \A j \in 1..n : Key[q[j]] \in Int
    OBVIOUS
  <2> QED
    BY <2>1, <2>2, <2>3, <2>4
<1>1. \A x, y \in 1..n : x < y => ~(Key[q[y]] < Key[q[x]])
  BY <1>0 DEF InOrder, Better
<1>2. \A j \in 1..(i - 1) : Key[q[j]] <= Key[p]
  OBVIOUS
<1>3. ASSUME NEW j \in 1..n, j >= i PROVE Key[p] < Key[q[j]]
  <2>1. i \in 1..n
    BY <1>3
  <2>2. Key[p] < Key[q[i]]
    BY <2>1
  <2>3. CASE j = i
    BY <2>2, <2>3
  <2>4. CASE i < j
    <3>1. ~(Key[q[j]] < Key[q[i]])
      BY <1>1, <2>1, <2>4
    <3>2. Key[q[j]] \in Int /\ Key[q[i]] \in Int /\ Key[p] \in Int
      BY <1>0, <2>1
    <3>3. \A x, y, z \in Int : x < y /\ ~(z < y) => x < z
      OBVIOUS
    <3> QED
      BY <2>2, <3>1, <3>2, <3>3
  <2> QED
    BY <1>3, <2>1, <2>3, <2>4
<1> HIDE DEF n
<1>4. ASSUME NEW a \in 1..(n + 1), NEW b \in 1..(n + 1), a < b
      PROVE  ~(Key[r[b]] < Key[r[a]])
  <2>1. CASE b < i
    <3>1. a \in 1..n /\ b \in 1..n /\ a < i
      <4>1. n \in Nat /\ i \in 1..(n + 1)
        BY <1>0
      <4> QED
        BY <1>4, <2>1, <4>1
    <3>2. r[a] = q[a] /\ r[b] = q[b]
      BY <1>0, <2>1, <3>1
    <3> QED
      BY <1>1, <1>4, <3>1, <3>2
  <2>2. CASE b = i
    <3>1. r[a] = q[a] /\ r[b] = p /\ a \in 1..(i - 1) /\ a \in 1..n
      BY <1>0, <1>4, <2>2
    <3> QED
      BY <1>0, <1>2, <3>1
  <2>3. CASE b > i
    <3>1. r[b] = q[b - 1] /\ b - 1 \in 1..n /\ b - 1 >= i
      BY <1>0, <2>3
    <3>2. CASE a < i
      <4>1. r[a] = q[a] /\ a \in 1..n /\ a < b - 1
        BY <1>0, <2>3, <3>1, <3>2
      <4> QED
        BY <1>1, <3>1, <4>1
    <3>3. CASE a = i
      <4>1. r[a] = p
        BY <1>0, <3>3
      <4>2. Key[p] < Key[q[b - 1]]
        BY <1>3, <3>1
      <4>3. Key[q[b - 1]] \in Int /\ Key[p] \in Int
        BY <1>0, <3>1
      <4> QED
        BY <3>1, <4>1, <4>2, <4>3
    <3>4. CASE a > i
      <4>1. r[a] = q[a - 1] /\ a - 1 \in 1..n /\ a - 1 < b - 1
        BY <1>0, <1>4, <3>4
      <4> QED
        BY <1>1, <3>1, <4>1
    <3> QED
      BY <1>0, <3>2, <3>3, <3>4
  <2> QED
    BY <1>0, <2>1, <2>2, <2>3
<1> QED
  BY <1>0, <1>4 DEF InOrder, Better

(* Whatever the policy, the process is in the queue once more, nobody has  *)
(* left it, and the order is kept.                                         *)
LEMMA EnqueuedPuts ==
  ASSUME policy \in Policies, NEW q \in Seq(Procs), NEW p \in Procs
  PROVE  /\ Put(q, Enqueued(q, p), p)
         /\ InOrder(q) => InOrder(Enqueued(q, p))
<1>1. CASE policy = "FCFS"
  <2>1. Enqueued(q, p) = Append(q, p)
    BY <1>1 DEF Enqueued
  <2>2. \A x, y : ~Better(x, y)
    BY <1>1 DEF Better
  <2> QED
    BY <2>1, <2>2, PushBack DEF Put, InOrder
<1>2. CASE policy = "SJN"
  <2> DEFINE r == JobSizeOrder(q, p)
  <2>1. Enqueued(q, p) = r
    BY <1>2 DEF Enqueued
  <2>2. PICK i \in 1..(Len(q) + 1) :
          /\ r \in Seq(Procs) /\ PutIn(q, r, i, p)
          /\ \A j \in 1..(i - 1) : Key[q[j]] <= Key[p]
          /\ i \in 1..Len(q) => Key[p] < Key[q[i]]
    BY JobSizePosition
  <2> HIDE DEF r
  <2>3. Put(q, r, p)
    <3>1. /\ Range(r) = Range(q) \cup {p}
          /\ IsInjective(q) /\ p \notin Range(q) => IsInjective(r)
      BY <2>2, PutInPlace
    <3>2. Len(r) = Len(q) + 1
      BY <2>2 DEF PutIn
    <3> QED
      BY <2>2, <3>1, <3>2 DEF Put
  <2>4. InOrder(q) => InOrder(r)
    BY <1>2, <2>2, InsertedInOrder
  <2> QED
    BY <2>1, <2>3, <2>4
<1>3. CASE policy = "PRIORITY"
  <2> DEFINE s == Append(q, p)
             r == SortByPriority(s)
  <2>1. Enqueued(q, p) = r
    BY <1>3 DEF Enqueued, PriorityOrder
  <2>2. /\ s \in Seq(Procs) /\ Len(s) = Len(q) + 1 /\ Range(s) = Range(q) \cup {p}
        /\ IsInjective(q) /\ p \notin Range(q) => IsInjective(s)
    BY PushBack
  <2> HIDE DEF s
  <2>3. /\ r \in Seq(Procs) /\ Len(r) = Len(s) /\ Range(r) = Range(s)
        /\ IsInjective(s) => IsInjective(r)
        /\ \A m, n \in DOMAIN r : m < n => ~(Key[r[n]] > Key[r[m]])
    BY <2>2, SortedByPriority
  <2> HIDE DEF r
  <2>4. Put(q, r, p)
    BY <2>2, <2>3 DEF Put
  <2>5. InOrder(r)
    BY <1>3, <2>3 DEF InOrder, Better
  <2> QED
    BY <2>1, <2>4, <2>5
<1> QED
  BY <1>1, <1>2, <1>3

LEMMA TailInOrder ==
  ASSUME NEW q \in Seq(Procs), q # <<>>, InOrder(q)
  PROVE  InOrder(Tail(q))
<1>1. /\ Len(q) \in Nat /\ DOMAIN q = 1..Len(q) /\ DOMAIN Tail(q) = 1..(Len(q) - 1)
      /\ \A i \in 1..(Len(q) - 1) : Tail(q)[i] = q[i + 1]
  OBVIOUS
<1>2. ASSUME NEW i \in 1..(Len(q) - 1), NEW j \in 1..(Len(q) - 1), i < j
      PROVE  ~Better(q[j + 1], q[i + 1])
  <2>1. i + 1 \in 1..Len(q) /\ j + 1 \in 1..Len(q) /\ i + 1 < j + 1
    BY <1>1, <1>2
  <2> QED
    BY <1>1, <2>1 DEF InOrder
<1> QED
  BY <1>1, <1>2 DEF InOrder

-----------------------------------------------------------------------------
(* The inductive invariant.  The manager thread stores Ready over whatever *)
(* state a process has, so PCB.state is the one of its burst or Ready; a   *)
(* collect takes the state for the end of the program only when it is not  *)
(* overwritten, and then no instruction is left.                           *)

OwnTypeOK == IOTypeOK /\ policy \in Policies /\ it \in Nat \ {0}

StateSeen ==
  \A c \in Cores : IsThreadRunning(c) => pstate[current[c]] \in {BurstState(thread[c]), "Ready"}

FinishedAreDone == \A p \in finished : left[p] = 0

Sound == OnePlace /\ CountsOK /\ SlotsAgree /\ StateSeen /\ FinishedAreDone

Phases ==
  /\ totalCount = Cardinality(IF pc = "load" THEN Held ELSE Procs)
  /\ NoProcessLost
  /\ DoneMeansAllCollected

Waits == BlockedIsRegistered /\ BestFirst

Parts == CoreTypeOK /\ QueueTypeOK /\ ControlTypeOK /\ OwnTypeOK /\ Sound /\ Phases /\ Waits

NPInv == NPTypeOK /\ Sound /\ Phases /\ Waits

LEMMA NPInvParts == NPInv <=> Parts
BY TypeParts DEF NPInv, Parts, NPTypeOK, OwnTypeOK

LEMMA NPInvImplies ==
  NPInv => /\ NPTypeOK /\ OnePlace /\ CountersAgree /\ NoProcessLost
           /\ BlockedIsRegistered /\ DoneMeansAllCollected /\ BestFirst
BY DEF NPInv, Sound, CountsOK, FreeCores, Phases, Waits, CountersAgree

(* A step that only moves the main thread on.                              *)
LEMMA ControlKeeps ==
  ASSUME Parts, ControlTypeOK', UNCHANGED <<dataVars, ioVars, policy>>, it' \in Nat \ {0},
         pc = "load" => pc' = "load" \/ Held = Procs,
         pc # "load" => pc' # "load",
         pc' = "done" => pc = "done"
  PROVE  Parts'
<1>1. CoreTypeOK' /\ QueueTypeOK'
  BY DataKept DEF Parts
<1>2. OnePlace' /\ CountsOK' /\ Held' = Held
  BY PlacesKept DEF Parts, Sound
<1>3. SlotsAgree' /\ StateSeen' /\ FinishedAreDone'
  BY DEF Parts, Sound, SlotsAgree, StateSeen, FinishedAreDone, Joined, IsIdle, IsThreadRunning,
         BurstState, FinalState, dataVars, coreVars, queueVars
<1>4. OwnTypeOK'
  BY DEF Parts, OwnTypeOK, IOTypeOK, ioVars
<1>5. Phases'
  BY <1>2 DEF Parts, Phases, NoProcessLost, DoneMeansAllCollected, IsThreadRunning, IsIdle,
              dataVars, coreVars, queueVars, counterVars
<1>6. Waits'
  BY DEF Parts, Waits, BlockedIsRegistered, BestFirst, Better, dataVars, coreVars, queueVars,
         ioVars
<1> QED
  BY <1>1, <1>2, <1>3, <1>4, <1>5, <1>6 DEF Parts, Sound

(* What the end of a core's burst has made of its process.                 *)
LEMMA JoinedFate ==
  ASSUME CoreTypeOK, Sound, NEW c \in Cores, current[c] # NoProc, Joined(c)
  PROVE  /\ current[c] \in Procs
         /\ pstate[current[c]] \in {"Finished", "Blocked", "Ready"}
         /\ pstate[current[c]] = "Finished" => left[current[c]] = 0
<1>1. /\ current[c] \in Procs /\ thread[c].loc = "exited" /\ IsThreadRunning(c)
      /\ thread[c].why = "end" => left[current[c]] = 0
  BY DEF CoreTypeOK, Sound, SlotsAgree, IsThreadRunning, Joined
<1>2. pstate[current[c]] \in {FinalState(thread[c].why), "Ready"}
  BY <1>1 DEF Sound, StateSeen, BurstState
<1> QED
  BY <1>1, <1>2 DEF FinalState

LEMMA HeldAfter ==
  ASSUME CoreTypeOK', QueueTypeOK'
  PROVE  Held' \subseteq Procs
<1>1. Range(ready') \subseteq Procs /\ Range(blocked') \subseteq Procs
  BY QueueMembers DEF QueueTypeOK
<1>2. finished' \subseteq Procs /\ \A c \in Cores : current'[c] \in Procs \cup {NoProc}
  BY DEF QueueTypeOK, CoreTypeOK
<1> QED
  BY <1>1, <1>2 DEF Held

(* What a collect does with the process p it finds.                        *)
Collected(p) ==
  \/ ToFinished(p) /\ UNCHANGED waiting /\ left[p] = 0
  \/ ToBlockedAndIO(p)
  \/ ToReady(p)

LEMMA CollectMoves ==
  ASSUME CoreTypeOK, Sound, k \in Cores, current[k] # NoProc, Joined(k),
         Classify(current[k]) \/ ClassifyUrgent(current[k])
  PROVE  Collected(current[k])
BY JoinedFate DEF Collected, Classify, ClassifyUrgent

LEMMA CollectKeeps ==
  ASSUME Parts, NEW p \in Procs, p = current[k], Release, Collected(p), ControlTypeOK',
         UNCHANGED <<pstate, left, coreState, totalCount, printer, disk, serving, policy, it>>,
         pc # "load", pc' \notin {"load", "done"}
  PROVE  Parts'
<1>0. /\ CoreTypeOK /\ QueueTypeOK /\ k \in Cores /\ OwnTypeOK /\ policy \in Policies
      /\ OnePlace /\ CountsOK /\ Held = Procs
  BY DEF Parts, Sound, Phases, ControlTypeOK, NoProcessLost, OwnTypeOK
<1>1. \/ ToFinished(p) /\ waiting' = waiting /\ left[p] = 0 /\ ready' = ready /\ blocked' = blocked
      \/ /\ PutBlocked(p) /\ waiting' = Append(waiting, p) /\ finished' = finished /\ ready' = ready
         /\ Range(blocked') = Range(blocked) \cup {p}
      \/ /\ PutReady(p) /\ waiting' = waiting /\ finished' = finished /\ blocked' = blocked
         /\ ready' = Enqueued(ready, p) /\ Range(ready') = Range(ready) \cup {p}
  <2>1. CASE ToFinished(p) /\ UNCHANGED waiting /\ left[p] = 0
    BY <2>1 DEF ToFinished
  <2>2. CASE ToBlockedAndIO(p)
    BY <1>0, <2>2, ToBlockedPuts DEF ToBlockedAndIO, RegisterProcessWaitingForIO, PutBlocked, Put
  <2>3. CASE ToReady(p)
    <3>1. Put(ready, ready', p)
      BY <1>0, <2>3, EnqueuedPuts DEF ToReady, EnqueueReady, QueueTypeOK
    <3> QED
      BY <2>3, <3>1 DEF ToReady, EnqueueReady, PutReady, Put
  <2> QED
    BY <2>1, <2>2, <2>3 DEF Collected
<1>2. /\ CoreTypeOK' /\ QueueTypeOK' /\ OnePlace' /\ CountsOK'
      /\ Joined(k) /\ current'[k] = NoProc /\ thread'[k] = NoThread
      /\ \A c \in Cores \ {k} : current'[c] = current[c] /\ thread'[c] = thread[c]
      /\ Held \ {p} \subseteq Held'
  BY <1>0, <1>1, ReleasePlaces
<1>3. SlotsAgree' /\ StateSeen'
  <2>1. SUFFICES ASSUME NEW c \in Cores
        PROVE  /\ thread'[c].proc = current'[c]
               /\ thread'[c].loc # "none" <=> current'[c] # NoProc
               /\ coreState[c] = "IDLE" <=> thread'[c].loc \in {"none", "exited"}
               /\ thread'[c].loc # "none" /\ thread'[c].why = "end" => left[current'[c]] = 0
               /\ thread'[c].loc # "none" =>
                    pstate[current'[c]] \in {BurstState(thread'[c]), "Ready"}
    BY DEF SlotsAgree, StateSeen, IsThreadRunning, IsIdle, Joined, BurstState, FinalState
  <2>2. CASE c = k
    <3>1. coreState[k] = "IDLE"
      BY <1>0, <1>2 DEF Parts, Sound, SlotsAgree, IsIdle
    <3>2. NoThread.loc = "none" /\ NoThread.proc = NoProc
      BY DEF NoThread
    <3> QED
      BY <1>2, <2>2, <3>1, <3>2
  <2>3. CASE c # k
    BY <1>2, <2>3 DEF Parts, Sound, SlotsAgree, StateSeen, IsThreadRunning, IsIdle, Joined
  <2> QED
    BY <2>2, <2>3
<1>4. FinishedAreDone'
  <2>1. \A q \in finished : left[q] = 0
    BY DEF Parts, Sound, FinishedAreDone
  <2> QED
    BY <1>1, <2>1 DEF FinishedAreDone, ToFinished
<1>a. /\ waiting \in Seq(Procs) /\ Append(waiting, p) \in Seq(Procs)
      /\ Range(Append(waiting, p)) = Range(waiting) \cup {p}
  <2>1. waiting \in Seq(Procs)
    BY <1>0 DEF OwnTypeOK, IOTypeOK
  <2> QED
    BY <2>1, PushBack
<1>5. OwnTypeOK'
  <2>1. waiting' \in Seq(Procs)
    <3>1. waiting' = waiting \/ waiting' = Append(waiting, p)
      BY <1>1
    <3> QED
      BY <1>a, <3>1
  <2> QED
    BY <1>0, <2>1 DEF OwnTypeOK, IOTypeOK
<1>6. Phases'
  <2>1. p \in Held'
    BY <1>1 DEF Held, ToFinished
  <2>2. Held' = Procs
    BY <1>0, <1>2, <2>1, HeldAfter
  <2> QED
    BY <2>2 DEF Parts, Phases, NoProcessLost, DoneMeansAllCollected
<1>7. BlockedIsRegistered'
  <2>1. \A q \in Range(blocked) : pstate[q] = "Blocked" => q \in Range(waiting) \cup {serving}
    BY DEF Parts, Waits, BlockedIsRegistered
  <2>2. \/ blocked' = blocked /\ waiting' = waiting
        \/ Range(blocked') = Range(blocked) \cup {p} /\ Range(waiting') = Range(waiting) \cup {p}
    <3>1. \/ blocked' = blocked /\ waiting' = waiting
          \/ Range(blocked') = Range(blocked) \cup {p} /\ waiting' = Append(waiting, p)
      BY <1>1
    <3> QED
      BY <1>a, <3>1
  <2> QED
    BY <2>1, <2>2 DEF BlockedIsRegistered
<1>8. BestFirst'
  <2>1. InOrder(ready)
    BY DEF Parts, Waits, BestFirst, InOrder
  <2>2. InOrder(ready')
    BY <1>0, <1>1, <2>1, EnqueuedPuts DEF QueueTypeOK
  <2> QED
    BY <2>2 DEF BestFirst, InOrder, Better
<1> QED
  BY <1>2, <1>3, <1>4, <1>5, <1>6, <1>7, <1>8 DEF Parts, Sound, Waits

LEMMA DispatchKeeps ==
  ASSUME Parts, Dispatch, UNCHANGED <<ioVars, it, policy>>
  PROVE  Parts'
<1> DEFINE p == Head(ready)
           t == [loc |-> "run", proc |-> p, cycles |-> 0, why |-> ""]
<1>0. /\ CoreTypeOK /\ QueueTypeOK /\ ControlTypeOK /\ OnePlace /\ CountsOK
      /\ OwnTypeOK /\ SlotsAgree /\ StateSeen
  BY DEF Parts, Sound
<1>1. CoreTypeOK' /\ QueueTypeOK' /\ ControlTypeOK'
  BY <1>0, DispatchType
<1>2. /\ OnePlace' /\ CountsOK'
      /\ p \in Procs /\ p \notin Range(blocked) /\ p \notin finished
      /\ \A c \in Cores : current[c] # p
      /\ current'[k] = p /\ coreState'[k] = "BUSY" /\ pstate'[p] = "Running"
      /\ thread'[k] = t
      /\ \A c \in Cores \ {k} : /\ current'[c] = current[c] /\ thread'[c] = thread[c]
                                /\ coreState'[c] = coreState[c]
      /\ \A q \in Procs \ {p} : pstate'[q] = pstate[q]
      /\ UNCHANGED <<left, blocked, finished>> /\ totalCount' = totalCount
      /\ Held \subseteq Held'
      /\ pc = "assign" /\ pc' \in {"assign", "endPass"}
  BY <1>0, DispatchPlaces
<1>a. t.loc = "run" /\ t.proc = p /\ t.why = ""
  OBVIOUS
<1> HIDE DEF p, t
<1>3. SlotsAgree' /\ StateSeen'
  <2>1. \A c \in Cores \ {k} : current[c] # NoProc => pstate'[current[c]] = pstate[current[c]]
    BY <1>0, <1>2 DEF CoreTypeOK
  <2>2. SUFFICES ASSUME NEW c \in Cores
        PROVE  /\ thread'[c].proc = current'[c]
               /\ thread'[c].loc # "none" <=> current'[c] # NoProc
               /\ coreState'[c] = "IDLE" <=> thread'[c].loc \in {"none", "exited"}
               /\ thread'[c].loc # "none" /\ thread'[c].why = "end" => left'[current'[c]] = 0
               /\ thread'[c].loc # "none" =>
                    pstate'[current'[c]] \in {BurstState(thread'[c]), "Ready"}
    BY DEF SlotsAgree, StateSeen, IsThreadRunning, IsIdle, Joined, BurstState, FinalState
  <2>3. CASE c = k
    <3>1. p # NoProc
      BY <1>2
    <3> QED
      BY <1>a, <1>2, <2>3, <3>1 DEF BurstState
  <2>4. CASE c # k
    BY <1>0, <1>2, <2>1, <2>4 DEF SlotsAgree, StateSeen, IsThreadRunning, IsIdle, Joined
  <2> QED
    BY <2>3, <2>4
<1>4. FinishedAreDone' /\ OwnTypeOK'
  BY <1>2 DEF Parts, Sound, FinishedAreDone, OwnTypeOK, IOTypeOK, ioVars
<1>5. Phases'
  <2>1. Held' = Procs
    BY <1>1, <1>2, HeldAfter DEF Parts, Phases, NoProcessLost
  <2> QED
    BY <1>2, <2>1 DEF Parts, Phases, NoProcessLost, DoneMeansAllCollected
<1>6. BlockedIsRegistered'
  <2>1. \A q \in Range(blocked) : q \in Procs /\ q # p
    BY <1>0, <1>2, QueueMembers DEF QueueTypeOK
  <2> QED
    BY <1>2, <2>1 DEF Parts, Waits, BlockedIsRegistered, ioVars
<1>7. BestFirst'
  <2>1. ready # <<>> /\ ready' = Tail(ready) /\ ready \in Seq(Procs) /\ InOrder(ready)
    BY <1>0 DEF Dispatch, QueueTypeOK, Parts, Waits, BestFirst, InOrder
  <2>2. InOrder(ready')
    BY <2>1, TailInOrder
  <2> QED
    BY <2>2 DEF BestFirst, InOrder, Better
<1> QED
  BY <1>1, <1>2, <1>3, <1>4, <1>5, <1>6, <1>7 DEF Parts, Sound, Waits

(* The forced unblocking: the process leaves one queue for the other, and  *)
(* no core shows it.                                                       *)
LEMMA UnblockKeeps ==
  ASSUME Parts, Unblock, UNCHANGED policy
  PROVE  Parts'
<1> DEFINE p == blocked[it]
           r == RemoveAt(blocked, it)
<1>0. /\ CoreTypeOK /\ QueueTypeOK /\ ControlTypeOK /\ OwnTypeOK /\ OnePlace /\ CountsOK
      /\ ready \in Seq(Procs) /\ blocked \in Seq(Procs) /\ policy \in Policies
      /\ it \in 1..Len(blocked) /\ pc = "unblock"
      /\ UNCHANGED <<left, current, coreState, thread, finished, idleCores,
                     finishedCount, totalCount, controlVars, ioVars>>
  <2>1. /\ CoreTypeOK /\ QueueTypeOK /\ ControlTypeOK /\ OwnTypeOK /\ OnePlace /\ CountsOK
        /\ ready \in Seq(Procs) /\ blocked \in Seq(Procs) /\ policy \in Policies
    BY DEF Parts, Sound, QueueTypeOK, OwnTypeOK
  <2>2. /\ it \in Nat \ {0} /\ it <= Len(blocked) /\ pc = "unblock"
        /\ UNCHANGED <<left, current, coreState, thread, finished, idleCores,
                       finishedCount, totalCount, controlVars, ioVars>>
    BY DEF Parts, OwnTypeOK, Unblock
  <2>3. Len(blocked) \in Nat
    BY <2>1
  <2> QED
    BY <2>1, <2>2, <2>3
<1>1. /\ p \in Procs /\ p \in Range(blocked) /\ p \notin Range(ready) \cup finished
      /\ \A c \in Cores : current[c] # p
  <2>1. p \in Procs /\ p \in Range(blocked)
    BY <1>0 DEF Range
  <2> HIDE DEF p
  <2> QED
    BY <1>0, <2>1 DEF OnePlace
<1>2. /\ r \in Seq(Procs) /\ Range(blocked) = Range(r) \cup {p} /\ p \notin Range(r)
      /\ IsInjective(r)
  <2>1. r \in Seq(Procs) /\ PutIn(r, blocked, it, p)
    BY <1>0, Removed
  <2>2. IsInjective(blocked) /\ it \in 1..(Len(r) + 1)
    BY <1>0, <2>1 DEF OnePlace, PutIn
  <2> HIDE DEF p, r
  <2> QED
    BY <1>0, <2>1, <2>2, PutInPlace, TakenOut
<1>3. \/ /\ it' = it + 1 /\ UNCHANGED <<pstate, ready, readyCount, blocked>>
      \/ /\ pstate' = [pstate EXCEPT ![p] = "Ready"] /\ blocked' = r /\ it' = it
         /\ ready' = Enqueued(ready, p) /\ readyCount' = readyCount + 1
  BY <1>1 DEF Unblock, OnCore, EnqueueReady, Erase
<1> HIDE DEF p, r
<1>4. ControlTypeOK' /\ it' \in Nat \ {0}
  BY <1>0, <1>3 DEF ControlTypeOK, controlVars
<1>5. CASE it' = it + 1 /\ UNCHANGED <<pstate, ready, readyCount, blocked>>
  BY <1>0, <1>4, <1>5, ControlKeeps DEF dataVars, coreVars, queueVars, counterVars, controlVars,
                                        Unblock
<1>6. CASE /\ pstate' = [pstate EXCEPT ![p] = "Ready"] /\ blocked' = r /\ it' = it
           /\ ready' = Enqueued(ready, p) /\ readyCount' = readyCount + 1
  <2>1. /\ ready' \in Seq(Procs) /\ Range(ready') = Range(ready) \cup {p}
        /\ Len(ready') = Len(ready) + 1 /\ IsInjective(ready')
        /\ InOrder(ready) => InOrder(ready')
    BY <1>0, <1>1, <1>6, EnqueuedPuts DEF Put, OnePlace
  <2>2. CoreTypeOK'
    BY <1>0, <1>6 DEF CoreTypeOK, State
  <2>3. QueueTypeOK' /\ OwnTypeOK'
    BY <1>0, <1>2, <1>4, <1>6, <2>1 DEF QueueTypeOK, OwnTypeOK, IOTypeOK, ioVars
  <2>4. OnePlace'
    <3>1. /\ Range(ready') \cap Range(blocked') = {}
          /\ (Range(ready') \cup Range(blocked')) \cap finished' = {}
          /\ IsInjective(ready') /\ IsInjective(blocked')
      <4>1. /\ Range(ready) \cap Range(blocked) = {}
            /\ (Range(ready) \cup Range(blocked)) \cap finished = {}
        BY <1>0 DEF OnePlace
      <4>2. /\ Range(blocked') = Range(r) /\ Range(ready') = Range(ready) \cup {p}
            /\ finished' = finished
        BY <1>0, <1>6, <2>1
      <4>3. Range(r) \subseteq Range(blocked) /\ p \notin Range(r) /\ p \notin finished
        BY <1>1, <1>2
      <4> QED
        BY <1>2, <1>6, <2>1, <4>1, <4>2, <4>3
    <3>2. ASSUME NEW c \in Cores, current'[c] # NoProc
          PROVE  /\ current'[c] \notin Range(ready') \cup Range(blocked') \cup finished'
                 /\ \A d \in Cores : current'[d] = current'[c] => d = c
      <4>1. /\ current[c] \notin Range(ready) \cup Range(blocked) \cup finished
            /\ \A d \in Cores : current[d] = current[c] => d = c
        BY <1>0, <3>2 DEF OnePlace
      <4> QED
        BY <1>0, <1>1, <1>2, <1>6, <2>1, <4>1
    <3> QED
      BY <3>1, <3>2 DEF OnePlace
  <2>5. CountsOK'
    BY <1>0, <1>6, <2>1 DEF CountsOK, FreeCores
  <2>6. Held' = Held
    BY <1>0, <1>2, <1>6, <2>1 DEF Held
  <2>7. \A q \in Procs \ {p} : pstate'[q] = pstate[q]
    BY <1>0, <1>6 DEF CoreTypeOK
  <2>8. pstate'[p] = "Ready"
    BY <1>0, <1>1, <1>6 DEF CoreTypeOK
  <2>9. SlotsAgree' /\ FinishedAreDone'
    BY <1>0 DEF Parts, Sound, SlotsAgree, FinishedAreDone, IsThreadRunning, IsIdle, Joined
  <2>10. StateSeen'
    <3>1. \A c \in Cores : IsThreadRunning(c) => current[c] \in Procs \ {p}
      BY <1>0, <1>1 DEF Parts, Sound, SlotsAgree, CoreTypeOK
    <3> QED
      BY <1>0, <2>7, <3>1 DEF Parts, Sound, StateSeen, IsThreadRunning, BurstState, FinalState
  <2>11. Phases'
    BY <1>0, <2>6 DEF Parts, Phases, NoProcessLost, DoneMeansAllCollected, controlVars
  <2>12. BlockedIsRegistered'
    <3>1. \A q \in Range(r) : q \in Procs \ {p} /\ q \in Range(blocked)
      BY <1>2, QueueMembers
    <3> QED
      BY <1>0, <1>6, <2>7, <3>1 DEF Parts, Waits, BlockedIsRegistered, ioVars
  <2>13. BestFirst'
    BY <2>1 DEF Parts, Waits, BestFirst, InOrder, Better
  <2> QED
    BY <1>4, <2>2, <2>3, <2>4, <2>5, <2>9, <2>10, <2>11, <2>12, <2>13 DEF Parts, Sound, Waits
<1> QED
  BY <1>3, <1>5, <1>6

(* Loading: the process was nowhere.                                       *)
LEMMA AddProcessKeeps ==
  ASSUME Parts, NEW p \in Procs, AddProcess(p), UNCHANGED <<policy, it>>
  PROVE  Parts'
<1>0. /\ CoreTypeOK /\ QueueTypeOK /\ ControlTypeOK /\ OwnTypeOK /\ OnePlace /\ CountsOK
      /\ ready \in Seq(Procs) /\ policy \in Policies /\ pc = "load" /\ p \notin Held
      /\ totalCount = Cardinality(Held)
      /\ ready' = Enqueued(ready, p) /\ readyCount' = readyCount + 1
      /\ totalCount' = totalCount + 1 /\ pstate' = [pstate EXCEPT ![p] = "Ready"]
      /\ UNCHANGED <<left, current, coreState, thread, blocked, finished,
                     idleCores, finishedCount, controlVars, ioVars>>
  BY DEF Parts, Sound, Phases, QueueTypeOK, OwnTypeOK, AddProcess, EnqueueReady
<1>1. /\ p \notin Range(ready) \cup Range(blocked) \cup finished
      /\ \A c \in Cores : current[c] # p
  BY <1>0, HeldMembers
<1>2. /\ ready' \in Seq(Procs) /\ Range(ready') = Range(ready) \cup {p}
      /\ Len(ready') = Len(ready) + 1 /\ IsInjective(ready')
      /\ InOrder(ready) => InOrder(ready')
  BY <1>0, <1>1, EnqueuedPuts DEF Put, OnePlace
<1>3. CoreTypeOK' /\ ControlTypeOK'
  BY <1>0 DEF CoreTypeOK, State, ControlTypeOK, controlVars
<1>4. QueueTypeOK' /\ OwnTypeOK'
  <2>1. readyCount' \in Int /\ totalCount' \in Nat
    BY <1>0 DEF QueueTypeOK
  <2> QED
    BY <1>0, <1>2, <2>1 DEF QueueTypeOK, OwnTypeOK, IOTypeOK, ioVars
<1>5. OnePlace'
  BY <1>0, <1>1, <1>2 DEF OnePlace
<1>6. CountsOK'
  BY <1>0, <1>2 DEF CountsOK, FreeCores
<1>7. SlotsAgree' /\ FinishedAreDone'
  BY <1>0 DEF Parts, Sound, SlotsAgree, FinishedAreDone, IsThreadRunning, IsIdle, Joined
<1>8. \A q \in Procs : pstate'[q] = pstate[q] \/ pstate'[q] = "Ready"
  BY <1>0 DEF CoreTypeOK
<1>9. StateSeen'
  <2>1. \A c \in Cores : IsThreadRunning(c) => current[c] \in Procs
    BY <1>0 DEF Parts, Sound, SlotsAgree, CoreTypeOK
  <2> QED
    BY <1>0, <1>8, <2>1 DEF Parts, Sound, StateSeen, IsThreadRunning, BurstState, FinalState
<1>10. Phases'
  <2>1. Held' = Held \cup {p}
    BY <1>0, <1>2 DEF Held
  <2>2. totalCount' = Cardinality(Held')
    BY <1>0, <2>1, FiniteCounts, FS_AddElement
  <2> QED
    BY <1>0, <2>2 DEF Phases, NoProcessLost, DoneMeansAllCollected, controlVars
<1>11. BlockedIsRegistered'
  <2>1. Range(blocked) \subseteq Procs
    BY <1>0, QueueMembers DEF QueueTypeOK
  <2> QED
    BY <1>0, <1>8, <2>1 DEF Parts, Waits, BlockedIsRegistered, ioVars
<1>12. BestFirst'
  BY <1>2 DEF Parts, Waits, BestFirst, InOrder, Better
<1> QED
  BY <1>3, <1>4, <1>5, <1>6, <1>7, <1>9, <1>10, <1>11, <1>12 DEF Parts, Sound, Waits

(* The loop ends: as many are in finished_list as there are processes.     *)
LEMMA EndSimulationKeeps ==
  ASSUME Parts, EndSimulation, UNCHANGED <<ioVars, it, policy>>
  PROVE  Parts'
<1>0. /\ CoreTypeOK /\ QueueTypeOK /\ ControlTypeOK /\ OnePlace /\ CountsOK /\ SlotsAgree
      /\ pc = "loop" /\ pc' = "done" /\ AllFinished /\ UNCHANGED dataVars
      /\ UNCHANGED <<tick, k, round, attempts, assigned>>
      /\ totalCount = Cardinality(Procs)
  BY DEF Parts, Sound, Phases, EndSimulation
<1>1. finished = Procs
  <2>1. Cardinality(finished) >= Cardinality(Procs)
    BY <1>0 DEF AllFinished, CountsOK
  <2>2. finished \subseteq Procs /\ IsFiniteSet(Procs)
    BY <1>0 DEF QueueTypeOK
  <2>3. Cardinality(finished) <= Cardinality(Procs) /\ IsFiniteSet(finished)
    BY <2>2, FS_Subset
  <2>4. Cardinality(finished) \in Nat /\ Cardinality(Procs) \in Nat
    BY <2>2, <2>3, FS_CardinalityType
  <2>5. Cardinality(finished) = Cardinality(Procs)
    BY <2>1, <2>3, <2>4
  <2> QED
    BY <2>2, <2>5, FS_Subset
<1>2. \A c \in Cores : ~IsThreadRunning(c) /\ IsIdle(c)
  BY <1>0 DEF AllFinished, SlotsAgree, IsThreadRunning, Joined
<1>3. CoreTypeOK' /\ QueueTypeOK' /\ OnePlace' /\ CountsOK' /\ Held' = Held
  BY <1>0, DataKept, PlacesKept
<1>4. ControlTypeOK' /\ OwnTypeOK'
  BY <1>0 DEF ControlTypeOK, Locations, Parts, OwnTypeOK, IOTypeOK, ioVars
<1>5. SlotsAgree' /\ StateSeen' /\ FinishedAreDone'
  BY <1>0 DEF Parts, Sound, SlotsAgree, StateSeen, FinishedAreDone, Joined, IsIdle,
         IsThreadRunning, BurstState, FinalState, dataVars, coreVars, queueVars
<1>6. Phases'
  <2>1. \A p \in Procs : left[p] = 0
    BY <1>1 DEF Parts, Sound, FinishedAreDone
  <2>2. Held' = Procs
    BY <1>0, <1>3 DEF Parts, Phases, NoProcessLost
  <2> QED
    BY <1>0, <1>1, <1>2, <2>1, <2>2 DEF Phases, NoProcessLost, DoneMeansAllCollected,
       IsThreadRunning, IsIdle, dataVars, coreVars, queueVars, counterVars
<1>7. Waits'
  BY <1>0 DEF Parts, Waits, BlockedIsRegistered, BestFirst, Better, dataVars, coreVars,
         queueVars, ioVars
<1> QED
  BY <1>3, <1>4, <1>5, <1>6, <1>7 DEF Parts, Sound

(* A core thread writes the PCB of its own core only, which is in no queue *)
(* and not finished.                                                       *)
LEMMA CoreStepKeeps ==
  ASSUME Parts, NEW c \in Cores, CoreStep(c)
  PROVE  Parts'
<1>0. /\ CoreTypeOK /\ QueueTypeOK /\ ControlTypeOK /\ OwnTypeOK /\ OnePlace /\ CountsOK
      /\ SlotsAgree /\ RunProcess(c)
      /\ UNCHANGED <<queueVars, counterVars, controlVars, ioVars, policy, it>>
  BY DEF Parts, Sound, CoreStep, CoreThread
<1>1. OneCore
  BY <1>0 DEF OnePlace, OneCore
<1>2. /\ CoreTypeOK' /\ SlotsAgree' /\ current' = current
      /\ current[c] \in Procs /\ IsThreadRunning(c)
      /\ \A d \in Cores \ {c} : thread'[d] = thread[d] /\ coreState'[d] = coreState[d]
      /\ \A p \in Procs \ {current[c]} : pstate'[p] = pstate[p] /\ left'[p] = left[p]
      /\ \A d \in Cores \ {c} : current[d] # NoProc => current[d] \in Procs \ {current[c]}
  BY <1>0, <1>1, RunProcessType, RunProcessSlots, RunProcessFrame, RunProcessOccupied
<1>3. QueueTypeOK' /\ ControlTypeOK' /\ OwnTypeOK'
  BY <1>0, SameQueues DEF ControlTypeOK, controlVars, OwnTypeOK, IOTypeOK, ioVars
<1>4. OnePlace' /\ CountsOK' /\ Held' = Held
  BY <1>0, <1>2 DEF OnePlace, CountsOK, FreeCores, Held, queueVars, counterVars
<1>5. StateSeen'
  <2>1. SUFFICES ASSUME NEW d \in Cores, thread'[d].loc # "none"
        PROVE  pstate'[current'[d]] \in {BurstState(thread'[d]), "Ready"}
    BY DEF StateSeen, IsThreadRunning, BurstState, FinalState
  <2>2. CASE d = c
    <3>1. pstate[current[c]] \in {BurstState(thread[c]), "Ready"}
      BY <1>2 DEF Parts, Sound, StateSeen
    <3>2. \/ pstate'[current[c]] = BurstState(thread'[c])
          \/ /\ pstate'[current[c]] = pstate[current[c]]
             /\ BurstState(thread'[c]) = BurstState(thread[c])
      BY <1>0, RunProcessOwn
    <3> QED
      BY <1>2, <2>2, <3>1, <3>2
  <2>3. CASE d # c
    <3>1. thread'[d] = thread[d] /\ IsThreadRunning(d) /\ current[d] # NoProc
      BY <1>0, <1>2, <2>1, <2>3 DEF SlotsAgree, IsThreadRunning
    <3>2. pstate[current[d]] \in {BurstState(thread[d]), "Ready"}
      BY <3>1 DEF Parts, Sound, StateSeen
    <3> QED
      BY <1>2, <2>3, <3>1, <3>2
  <2> QED
    BY <2>2, <2>3
<1>6. \A p \in Range(blocked) \cup finished : pstate'[p] = pstate[p] /\ left'[p] = left[p]
  <2>1. Range(blocked) \cup finished \subseteq Procs
    BY <1>0, QueueMembers DEF QueueTypeOK
  <2>2. current[c] \notin Range(blocked) \cup finished
    BY <1>0, <1>2 DEF OnePlace, CoreTypeOK
  <2> QED
    BY <1>2, <2>1, <2>2
<1>7. FinishedAreDone'
  BY <1>0, <1>6 DEF Parts, Sound, FinishedAreDone, queueVars
<1>8. Phases'
  <2>1. pc # "done"
    BY <1>2 DEF Parts, Phases, DoneMeansAllCollected
  <2> QED
    BY <1>0, <1>4, <2>1 DEF Parts, Phases, NoProcessLost, DoneMeansAllCollected, counterVars,
                            controlVars
<1>9. Waits'
  BY <1>0, <1>6 DEF Parts, Waits, BlockedIsRegistered, BestFirst, Better, queueVars, ioVars
<1> QED
  BY <1>2, <1>3, <1>4, <1>5, <1>7, <1>8, <1>9 DEF Parts, Sound

(* The manager thread writes Ready over a state, and the process of the    *)
(* request is on its way from the queue into service or has been served.   *)
LEMMA IOStepKeeps ==
  ASSUME Parts, IOStep
  PROVE  Parts'
<1>0. /\ CoreTypeOK /\ QueueTypeOK /\ ControlTypeOK /\ OnePlace /\ CountsOK
      /\ waiting \in Seq(Procs) /\ printer \in BOOLEAN /\ disk \in BOOLEAN
      /\ serving \in Procs \cup {NoProc}
      /\ policy \in Policies /\ it \in Nat \ {0}
      /\ TakeRequest \/ CompleteRequest
      /\ UNCHANGED <<left, current, coreState, thread>>
      /\ UNCHANGED <<queueVars, counterVars, controlVars, policy, it>>
  BY DEF Parts, Sound, OwnTypeOK, IOTypeOK, IOStep, ManagerLoop
<1>1. CASE TakeRequest
  <2>1. /\ serving = NoProc /\ pstate' = pstate
        /\ printer' \in BOOLEAN /\ disk' \in BOOLEAN
        /\ \/ waiting # <<>> /\ serving' = Head(waiting) /\ waiting' = Tail(waiting)
           \/ waiting' = waiting /\ serving' = serving
    BY <1>0, <1>1 DEF TakeRequest
  <2>2. UNCHANGED dataVars
    BY <1>0, <2>1 DEF dataVars, coreVars
  <2>3. CoreTypeOK' /\ QueueTypeOK' /\ OnePlace' /\ CountsOK' /\ Held' = Held
    BY <1>0, <2>2, DataKept, PlacesKept
  <2>4. /\ waiting' \in Seq(Procs) /\ serving' \in Procs \cup {NoProc}
        /\ Range(waiting) \cup {serving} \subseteq Range(waiting') \cup {serving', NoProc}
    <3>1. CASE waiting # <<>> /\ serving' = Head(waiting) /\ waiting' = Tail(waiting)
      <4>1. /\ Head(waiting) \in Procs /\ Tail(waiting) \in Seq(Procs)
            /\ Range(waiting) = Range(Tail(waiting)) \cup {Head(waiting)}
        BY <1>0, <3>1, PopFront
      <4> QED
        BY <2>1, <3>1, <4>1
    <3>2. CASE waiting' = waiting /\ serving' = serving
      BY <1>0, <3>2
    <3> QED
      BY <2>1, <3>1, <3>2
  <2>5. ControlTypeOK' /\ OwnTypeOK'
    BY <1>0, <2>1, <2>4 DEF ControlTypeOK, controlVars, OwnTypeOK, IOTypeOK
  <2>6. SlotsAgree' /\ StateSeen' /\ FinishedAreDone'
    BY <2>2 DEF Parts, Sound, SlotsAgree, StateSeen, FinishedAreDone, Joined, IsIdle,
           IsThreadRunning, BurstState, FinalState, dataVars, coreVars, queueVars
  <2>7. Phases'
    BY <1>0, <2>2, <2>3 DEF Parts, Phases, NoProcessLost, DoneMeansAllCollected,
       IsThreadRunning, IsIdle, dataVars, coreVars, queueVars, counterVars, controlVars
  <2>8. Range(blocked) \subseteq Procs
    BY <1>0, QueueMembers DEF QueueTypeOK
  <2>9. Waits'
    BY <1>0, <2>1, <2>4, <2>8 DEF Parts, Waits, BlockedIsRegistered, BestFirst, Better, queueVars
  <2> QED
    BY <2>3, <2>5, <2>6, <2>7, <2>9 DEF Parts, Sound
<1>2. CASE CompleteRequest
  <2>1. /\ serving # NoProc /\ serving \in Procs /\ serving' = NoProc
        /\ pstate' = [pstate EXCEPT ![serving] = "Ready"]
        /\ UNCHANGED <<waiting, printer, disk>>
    BY <1>0, <1>2 DEF CompleteRequest
  <2>2. /\ pstate'[serving] = "Ready"
        /\ \A q \in Procs \ {serving} : pstate'[q] = pstate[q]
    BY <1>0, <2>1 DEF CoreTypeOK
  <2>3. CoreTypeOK' /\ QueueTypeOK'
    BY <1>0, <2>1, SameQueues DEF CoreTypeOK, State
  <2>4. OnePlace' /\ CountsOK' /\ Held' = Held
    BY <1>0 DEF OnePlace, CountsOK, FreeCores, Held, queueVars, counterVars
  <2>5. ControlTypeOK' /\ OwnTypeOK'
    BY <1>0, <2>1 DEF ControlTypeOK, controlVars, OwnTypeOK, IOTypeOK
  <2>6. SlotsAgree' /\ FinishedAreDone'
    BY <1>0 DEF Parts, Sound, SlotsAgree, FinishedAreDone, Joined, IsIdle, IsThreadRunning,
                queueVars
  <2>7. StateSeen'
    <3>1. \A c \in Cores : IsThreadRunning(c) => current[c] \in Procs
      BY <1>0 DEF Parts, Sound, SlotsAgree, CoreTypeOK
    <3> QED
      BY <1>0, <2>2, <3>1 DEF Parts, Sound, StateSeen, IsThreadRunning, BurstState, FinalState
  <2>8. Phases'
    BY <1>0, <2>4 DEF Parts, Phases, NoProcessLost, DoneMeansAllCollected, IsThreadRunning,
       IsIdle, queueVars, counterVars, controlVars
  <2>9. Range(blocked) \subseteq Procs
    BY <1>0, QueueMembers DEF QueueTypeOK
  <2>10. Waits'
    BY <1>0, <2>1, <2>2, <2>9 DEF Parts, Waits, BlockedIsRegistered, BestFirst, Better, queueVars
  <2> QED
    BY <2>3, <2>4, <2>5, <2>6, <2>7, <2>8, <2>10 DEF Parts, Sound
<1> QED
  BY <1>0, <1>1, <1>2

LEMMA MainKeeps ==
  ASSUME Parts, Main
  PROVE  Parts'
<1>0. /\ CoreTypeOK /\ QueueTypeOK /\ ControlTypeOK /\ OwnTypeOK /\ Sound
      /\ policy' = policy /\ it \in Nat \ {0}
      /\ k \in Cores /\ 1 \in Cores
  BY NextCore DEF Parts, OwnTypeOK, Main, ControlTypeOK
<1>1. ASSUME NEW p \in Procs, AddProcess(p), UNCHANGED it PROVE Parts'
  BY <1>0, <1>1, AddProcessKeeps
<1>2. CASE EndSimulation /\ UNCHANGED <<ioVars, it>>
  BY <1>0, <1>2, EndSimulationKeeps
<1>3. CASE BeginBatch
  <2>1. ControlTypeOK' /\ it' \in Nat \ {0}
    BY <1>0, <1>3 DEF BeginBatch, ControlTypeOK, Locations
  <2> QED
    BY <1>0, <1>3, <2>1, ControlKeeps DEF BeginBatch
<1>4. CASE Unblock
  BY <1>0, <1>4, UnblockKeeps
<1>5. CASE EndUnblock
  <2>1. attempts' \in Nat
    BY <1>0, <1>5 DEF EndUnblock, MaxAttempts, QueueTypeOK
  <2>2. ControlTypeOK' /\ it' \in Nat \ {0}
    BY <1>0, <1>5, <2>1 DEF EndUnblock, ControlTypeOK, Locations
  <2> QED
    BY <1>0, <1>5, <2>2, ControlKeeps DEF EndUnblock
<1>6. CASE Collect /\ UNCHANGED it
  <2>1. /\ current[k] \in Procs /\ Joined(k)
        /\ Classify(current[k]) /\ Release
    BY <1>0, <1>6 DEF Collect, Release, ReleaseCore, CoreTypeOK
  <2>2. Collected(current[k])
    BY <1>0, <1>6, <2>1, CollectMoves DEF Collect
  <2>3. /\ ControlTypeOK' /\ pc # "load" /\ pc' \notin {"load", "done"}
        /\ UNCHANGED <<pstate, left, coreState, totalCount, printer, disk, serving>>
    BY <1>0, <1>6, NextCollectType DEF Collect, NextCollect
  <2> QED
    BY <1>0, <1>6, <2>1, <2>2, <2>3, CollectKeeps
<1>7. CASE UrgentCollect /\ UNCHANGED it
  <2>1. /\ current[k] \in Procs /\ Joined(k)
        /\ ClassifyUrgent(current[k]) /\ Release
    BY <1>0, <1>7 DEF UrgentCollect, SlotFree, Release, ReleaseCore, CoreTypeOK
  <2>2. Collected(current[k])
    BY <1>0, <1>7, <2>1, CollectMoves DEF UrgentCollect, SlotFree
  <2>3. /\ ControlTypeOK' /\ pc # "load" /\ pc' \notin {"load", "done"}
        /\ UNCHANGED <<pstate, left, coreState, totalCount, printer, disk, serving>>
    BY <1>0, <1>7 DEF UrgentCollect, ControlTypeOK, controlVars
  <2> QED
    BY <1>0, <1>7, <2>1, <2>2, <2>3, CollectKeeps
<1>8. CASE BeginCycle /\ UNCHANGED <<ioVars, it>>
  <2>1. tick' \in 0..(BatchSize - 1)
    BY <1>0, <1>8 DEF BeginCycle, ControlTypeOK
  <2>2. ControlTypeOK'
    BY <1>0, <1>8, <2>1 DEF BeginCycle, ControlTypeOK, Locations
  <2> QED
    BY <1>0, <1>8, <2>2, ControlKeeps DEF BeginCycle
<1>9. CASE ControlStep /\ UNCHANGED <<ioVars, it>>
  BY <1>0, <1>9, ControlStepType, ControlKeeps
<1>10. CASE Dispatch /\ UNCHANGED <<ioVars, it>>
  BY <1>0, <1>10, DispatchKeeps
<1> QED
  BY <1>1, <1>2, <1>3, <1>4, <1>5, <1>6, <1>7, <1>8, <1>9, <1>10
  DEF Main, ScheduleCycle, ControlStep

LEMMA InitNPInv == Init => NPInv
<1> SUFFICES ASSUME Init PROVE Parts
  BY NPInvParts
<1>1. CoreTypeOK /\ QueueTypeOK /\ ControlTypeOK
  BY InitType DEF Init
<1>2. /\ OnePlace /\ CountsOK /\ SlotsAgree /\ StateSeen
      /\ Range(ready) = {} /\ Range(blocked) = {} /\ finished = {}
      /\ totalCount = Cardinality(Held) /\ pc = "load"
  BY InitPlaces, CoreAgreesParts DEF Init, StateSeen, BurstStates
<1>3. OwnTypeOK
  <2>1. /\ waiting = <<>> /\ printer = FALSE /\ disk = FALSE /\ serving = NoProc
        /\ policy \in Policies /\ it = 1
    BY DEF Init, IOInit
  <2>2. waiting \in Seq(Procs) /\ it \in Nat \ {0}
    BY <2>1, EmptyQueue
  <2> QED
    BY <2>1, <2>2 DEF OwnTypeOK, IOTypeOK
<1>4. ready = <<>>
  BY DEF Init, SchedulerInit
<1>5. BestFirst
  BY <1>4, EmptyQueue DEF BestFirst
<1> QED
  BY <1>1, <1>2, <1>3, <1>5 DEF Parts, Sound, FinishedAreDone, Phases, NoProcessLost,
     DoneMeansAllCollected, Waits, BlockedIsRegistered

LEMMA NextNPInv == NPInv /\ [Next]_allVars => NPInv'
<1> SUFFICES ASSUME Parts, [Next]_allVars PROVE Parts'
  BY NPInvParts DEF NPInv, Parts, NPTypeOK, OwnTypeOK, TypeOK, QueueTypeOK, ControlTypeOK
<1>1. ASSUME UNCHANGED allVars PROVE Parts'
  <2>1. UNCHANGED <<dataVars, ioVars, policy>> /\ it' = it /\ pc' = pc /\ ControlTypeOK'
    BY <1>1 DEF allVars, vars, controlVars, ControlTypeOK, Parts
  <2> QED
    BY <2>1, ControlKeeps DEF Parts, OwnTypeOK
<1> QED
  BY <1>1, MainKeeps, CoreStepKeeps, IOStepKeeps DEF Next, Stopped, Terminated, allVars

THEOREM Inductive == Spec => []NPInv
BY InitNPInv, NextNPInv, PTL DEF Spec

(* Every variable keeps its type: the iterator of the unblocking loop      *)
(* never leaves the positions there are, nor the loop over cores the cores.*)
THEOREM TypeCorrect == Spec => []NPTypeOK
BY Inductive, NPInvImplies, PTL

(* A process is in one place, for every policy, whatever the forced        *)
(* unblocking and the I/O manager do to its state.                         *)
THEOREM OnePlaceAlways == Spec => []OnePlace
BY Inductive, NPInvImplies, PTL

(* The atomic counters agree with what they count.                         *)
THEOREM CountersAlwaysAgree == Spec => []CountersAgree
BY Inductive, NPInvImplies, PTL

(* These schedulers lose no process, where the round robin does.           *)
THEOREM NoProcessIsLost == Spec => []NoProcessLost
BY Inductive, NPInvImplies, PTL

(* Whoever waits in blocked_list is with the I/O manager.                  *)
THEOREM BlockedAreRegistered == Spec => []BlockedIsRegistered
BY Inductive, NPInvImplies, PTL

(* The simulation loop ends only with every process collected at its end.  *)
THEOREM DoneIsDone == Spec => []DoneMeansAllCollected
BY Inductive, NPInvImplies, PTL

(* The front of the ready queue is never worse than what waits behind it.  *)
THEOREM BestIsFirst == Spec => []BestFirst
BY Inductive, NPInvImplies, PTL

-----------------------------------------------------------------------------
(* Each request of the manager was a PRINT.                                *)

(* How often a process is in a queue that it joins and leaves.             *)
LEMMA TimesFinite ==
  ASSUME NEW w \in Seq(Procs), NEW p
  PROVE  /\ IsFiniteSet({i \in DOMAIN w : w[i] = p})
         /\ Times(w, p) \in Nat
<1>1. Len(w) \in Nat /\ DOMAIN w = 1..Len(w)
  OBVIOUS
<1>2. IsFiniteSet(DOMAIN w)
  BY <1>1, FS_Interval
<1>3. IsFiniteSet({i \in DOMAIN w : w[i] = p})
  BY <1>2, FS_Subset
<1> QED
  BY <1>3, FS_CardinalityType DEF Times

LEMMA TimesType == ASSUME NEW w \in Seq(Procs), NEW p PROVE Times(w, p) \in Nat
BY TimesFinite

LEMMA TimesAppended ==
  ASSUME NEW w \in Seq(Procs), NEW x \in Procs, NEW p
  PROVE  Times(Append(w, x), p) = Times(w, p) + (IF x = p THEN 1 ELSE 0)
<1> DEFINE A == {i \in DOMAIN w : w[i] = p}
           n == Len(w) + 1
           B == {i \in DOMAIN Append(w, x) : Append(w, x)[i] = p}
<1>1. /\ Len(w) \in Nat /\ DOMAIN w = 1..Len(w) /\ DOMAIN Append(w, x) = 1..n
      /\ Append(w, x)[n] = x /\ \A i \in 1..Len(w) : Append(w, x)[i] = w[i]
  OBVIOUS
<1>2. 1..n = (1..Len(w)) \cup {n} /\ n \notin 1..Len(w)
  BY <1>1
<1>3. B = (IF x = p THEN A \cup {n} ELSE A) /\ n \notin A
  BY <1>1, <1>2
<1>4. IsFiniteSet(A) /\ Times(w, p) = Cardinality(A) /\ Times(Append(w, x), p) = Cardinality(B)
  BY TimesFinite DEF Times
<1>5. Times(w, p) \in Nat
  BY TimesFinite
<1> HIDE DEF A, B, n
<1>6. CASE x = p
  <2>1. B = A \cup {n} /\ n \notin A
    BY <1>3, <1>6
  <2>2. Cardinality(A \cup {n}) = Cardinality(A) + 1
    BY <1>4, <2>1, FS_AddElement
  <2> QED
    BY <1>4, <1>6, <2>1, <2>2
<1>7. CASE x # p
  BY <1>3, <1>4, <1>5, <1>7
<1> QED
  BY <1>6, <1>7

LEMMA TimesTaken ==
  ASSUME NEW w \in Seq(Procs), w # <<>>, NEW p
  PROVE  Times(w, p) = Times(Tail(w), p) + (IF Head(w) = p THEN 1 ELSE 0)
<1> DEFINE A == {i \in DOMAIN w : w[i] = p}
           r == Tail(w)
           B == {i \in DOMAIN r : r[i] = p}
           f == [i \in B |-> i + 1]
<1>1. /\ Len(w) \in Nat \ {0} /\ DOMAIN w = 1..Len(w) /\ Head(w) = w[1]
      /\ r \in Seq(Procs) /\ Len(r) = Len(w) - 1 /\ DOMAIN r = 1..(Len(w) - 1)
      /\ \A i \in 1..(Len(w) - 1) : r[i] = w[i + 1]
  OBVIOUS
<1>2. /\ IsFiniteSet(A) /\ Times(w, p) = Cardinality(A)
      /\ IsFiniteSet(B) /\ Times(r, p) = Cardinality(B) /\ Times(r, p) \in Nat
      /\ Times(w, p) \in Nat
  <2>1. IsFiniteSet(A) /\ Times(w, p) = Cardinality(A) /\ Times(w, p) \in Nat
    BY TimesFinite DEF Times
  <2>2. r \in Seq(Procs)
    BY <1>1
  <2> HIDE DEF r
  <2>3. IsFiniteSet(B) /\ Times(r, p) = Cardinality(B) /\ Times(r, p) \in Nat
    BY <2>2, TimesFinite DEF Times
  <2> QED
    BY <2>1, <2>3
<1>3. B \subseteq Nat /\ \A i \in B : i + 1 \in A \ {1}
  <2> HIDE DEF r
  <2>1. ASSUME NEW i \in B PROVE i \in Nat /\ i + 1 \in A \ {1}
    <3>1. i \in 1..(Len(w) - 1) /\ r[i] = p
      BY <1>1
    <3>2. i \in Nat /\ i + 1 \in 1..Len(w) /\ i + 1 # 1
      <4> DEFINE n == Len(w)
      <4>1. n \in Nat /\ i \in 1..(n - 1)
        BY <1>1, <3>1
      <4> HIDE DEF n
      <4>2. i \in Nat /\ i + 1 \in 1..n /\ i + 1 # 1
        BY <4>1
      <4> QED
        BY <4>2 DEF n
    <3> QED
      BY <1>1, <3>1, <3>2
  <2> QED
    BY <2>1
<1>4. \A j \in A \ {1} : j - 1 \in B /\ (j - 1) + 1 = j
  BY <1>1
<1>5. 1 \in A <=> Head(w) = p
  BY <1>1
<1> HIDE DEF A, r, B
<1>6. f \in [B -> A \ {1}] /\ \A i, j \in B : f[i] = f[j] => i = j
  BY <1>3
<1>7. \A j \in A \ {1} : \E i \in B : f[i] = j
  BY <1>4
<1> HIDE DEF f
<1>8. f \in Bijection(B, A \ {1})
  BY <1>6, <1>7 DEF Bijection, Injection, Surjection, IsInjective
<1>9. Cardinality(A \ {1}) = Cardinality(B)
  BY <1>2, <1>8, FS_Bijection DEF ExistsBijection
<1>10. Cardinality(A \ {1}) = IF 1 \in A THEN Cardinality(A) - 1 ELSE Cardinality(A)
  BY <1>2, FS_RemoveElement
<1> QED
  BY <1>2, <1>5, <1>9, <1>10 DEF r

(* A burst has ended with a PRINT that nobody has collected yet.           *)
Printed(p) == \E c \in Cores : current[c] = p /\ thread[c].why = "io"

Pending(p) == IF Printed(p) THEN 1 ELSE 0

Accounted == \A p \in Procs : Requests(p) + Pending(p) <= Budget[p] - left[p]

LEMMA RequestsType ==
  ASSUME CoreTypeOK, IOTypeOK, NEW p \in Procs
  PROVE  Requests(p) \in Nat /\ Pending(p) \in Nat /\ left[p] \in Nat /\ Budget[p] \in Nat
<1>1. Times(waiting, p) \in Nat
  BY TimesFinite DEF IOTypeOK
<1> QED
  BY <1>1 DEF Requests, Pending, CoreTypeOK

(* A step that touches none of what is counted.                            *)
LEMMA AccountKept ==
  ASSUME Accounted, UNCHANGED <<left, current, thread, waiting, serving>>
  PROVE  Accounted'
BY DEF Accounted, Requests, Pending, Printed

(* A collect turns the PRINT that ended the burst into a request.          *)
LEMMA CollectAccounts ==
  ASSUME Parts, Accounted, NEW p \in Procs, p = current[k], Release,
         \/ UNCHANGED waiting
         \/ pstate[p] = "Blocked" /\ ToBlockedAndIO(p),
         UNCHANGED <<left, serving>>
  PROVE  Accounted'
<1>0. /\ CoreTypeOK /\ IOTypeOK /\ k \in Cores /\ OnePlace /\ SlotsAgree /\ StateSeen
      /\ current' = [current EXCEPT ![k] = NoProc]
      /\ thread' = [thread EXCEPT ![k] = NoThread]
      /\ thread[k].loc = "exited" /\ p # NoProc
  BY DEF Parts, Sound, OwnTypeOK, ControlTypeOK, Release, ReleaseCore, SlotsAgree, Joined,
         IsThreadRunning
<1>1. /\ current'[k] = NoProc
      /\ \A c \in Cores \ {k} : /\ current'[c] = current[c] /\ thread'[c] = thread[c]
                                /\ current[c] # p
  BY <1>0 DEF CoreTypeOK, OnePlace
<1>2. ~Printed(p)' /\ \A q \in Procs \ {p} : Printed(q)' <=> Printed(q)
  BY <1>0, <1>1 DEF Printed
<1>3. \A q \in Procs : /\ Requests(q) \in Nat /\ left[q] \in Nat /\ Budget[q] \in Nat
                       /\ Requests(q) + Pending(q) <= Budget[q] - left[q]
  BY <1>0, RequestsType DEF Accounted
<1>4. CASE UNCHANGED waiting
  <2>1. \A q \in Procs : Requests(q)' = Requests(q)
    BY <1>4 DEF Requests
  <2> QED
    BY <1>2, <1>3, <2>1 DEF Accounted, Pending
<1>5. CASE pstate[p] = "Blocked" /\ ToBlockedAndIO(p)
  <2>1. Printed(p)
    <3>1. FinalState(thread[k].why) = "Blocked"
      BY <1>0, <1>5 DEF StateSeen, BurstState, IsThreadRunning
    <3> QED
      BY <1>0, <3>1 DEF Printed, FinalState
  <2>2. \A q \in Procs : Requests(q)' = Requests(q) + (IF p = q THEN 1 ELSE 0)
    <3> TAKE q \in Procs
    <3>1. waiting' = Append(waiting, p) /\ waiting \in Seq(Procs)
      BY <1>0, <1>5 DEF ToBlockedAndIO, RegisterProcessWaitingForIO, IOTypeOK
    <3>2. /\ Times(waiting', q) = Times(waiting, q) + (IF p = q THEN 1 ELSE 0)
          /\ Times(waiting, q) \in Nat
      BY <3>1, TimesAppended, TimesType
    <3>3. Requests(q)' = Times(waiting', q) + (IF serving = q THEN 1 ELSE 0)
      BY DEF Requests, Times
    <3> QED
      BY <3>2, <3>3 DEF Requests
  <2>3. ASSUME NEW q \in Procs PROVE Requests(q)' + Pending(q)' <= Budget[q] - left[q]
    <3>1. CASE q = p
      BY <1>2, <1>3, <2>1, <2>2, <3>1 DEF Pending
    <3>2. CASE q # p
      BY <1>2, <1>3, <2>2, <3>2 DEF Pending
    <3> QED
      BY <3>1, <3>2
  <2> QED
    BY <2>3 DEF Accounted
<1> QED
  BY <1>4, <1>5

(* A dispatched process has nothing pending: no core showed it.            *)
LEMMA DispatchAccounts ==
  ASSUME Parts, Accounted, Dispatch, UNCHANGED ioVars
  PROVE  Accounted'
<1> DEFINE t == [loc |-> "run", proc |-> Head(ready), cycles |-> 0, why |-> ""]
<1>0. /\ CoreTypeOK /\ QueueTypeOK /\ ControlTypeOK /\ OnePlace /\ CountsOK /\ IOTypeOK
  BY DEF Parts, Sound, OwnTypeOK
<1>a. t.why = ""
  OBVIOUS
<1>1. /\ thread'[k] = t /\ left' = left
      /\ \A c \in Cores \ {k} : current'[c] = current[c] /\ thread'[c] = thread[c]
  BY <1>0, DispatchPlaces
<1> HIDE DEF t
<1>2. \A q \in Procs : Printed(q)' => Printed(q)
  BY <1>a, <1>1 DEF Printed
<1>3. \A q \in Procs : Requests(q)' = Requests(q)
  BY DEF Requests, Times, ioVars
<1>4. ASSUME NEW q \in Procs
      PROVE  Requests(q)' + Pending(q)' <= Budget[q] - left'[q]
  <2>1. Requests(q) \in Nat /\ left[q] \in Nat /\ Budget[q] \in Nat
    BY <1>0, RequestsType
  <2>2. Requests(q) + Pending(q) <= Budget[q] - left[q]
    BY DEF Accounted
  <2> QED
    BY <1>1, <1>2, <1>3, <2>1, <2>2 DEF Pending
<1> QED
  BY <1>4 DEF Accounted

(* The PRINT of a burst is an instruction of its program.                  *)
LEMMA CoreStepAccounts ==
  ASSUME Parts, Accounted, NEW c \in Cores, CoreStep(c)
  PROVE  Accounted'
<1>0. /\ CoreTypeOK /\ IOTypeOK /\ OnePlace /\ SlotsAgree /\ RunProcess(c)
      /\ UNCHANGED ioVars
  BY DEF Parts, Sound, OwnTypeOK, CoreStep, CoreThread
<1>p. PICK p \in Procs : p = current[c]
  BY <1>0, RunProcessOccupied
<1>1. /\ current' = current /\ p \in Procs /\ thread[c].proc = p
      /\ \A d \in Cores \ {c} : thread'[d] = thread[d] /\ current[d] # p
      /\ \A q \in Procs \ {p} : left'[q] = left[q]
  BY <1>0, <1>p, RunProcessFrame, RunProcessOccupied DEF OnePlace
<1>2. \A q \in Procs : Requests(q)' = Requests(q)
  BY <1>0 DEF Requests, Times, ioVars
<1>3. \A q \in Procs : /\ Requests(q) \in Nat /\ left[q] \in Nat /\ Budget[q] \in Nat
                       /\ Requests(q) + Pending(q) <= Budget[q] - left[q]
  BY <1>0, RequestsType DEF Accounted
<1>4. \/ left'[p] = left[p] /\ thread'[c].why = thread[c].why
      \/ left'[p] = left[p] - 1 /\ thread[c].why = ""
      \/ left'[p] = 0 /\ thread'[c].why = "end"
  <2>1. left \in [Procs -> Nat] /\ thread[c] \in Thread /\ DOMAIN thread = Cores
    BY <1>0 DEF CoreTypeOK
  <2>2. CASE Instruction(c) \/ PrintInstr(c) \/ Fault(c)
    BY <1>1, <2>1, <2>2 DEF Instruction, PrintInstr, Fault, InLoop
  <2>3. CASE End(c)
    BY <1>1, <2>1, <2>3 DEF End
  <2>4. CASE Settle(c) \/ GoIdle(c)
    <3>1. thread'[c].why = thread[c].why
      <4>1. CASE Settle(c)
        BY <2>1, <4>1 DEF Settle, Thread
      <4>2. CASE GoIdle(c)
        BY <2>1, <4>2 DEF GoIdle, Thread
      <4> QED
        BY <2>4, <4>1, <4>2
    <3> QED
      BY <2>4, <3>1 DEF Settle, GoIdle
  <2> QED
    BY <1>0, <2>2, <2>3, <2>4 DEF RunProcess
<1>5. \A q \in Procs \ {p} : Printed(q)' <=> Printed(q)
  BY <1>p, <1>1 DEF Printed
<1>6. (Printed(p) <=> thread[c].why = "io") /\ (Printed(p)' <=> thread'[c].why = "io")
  BY <1>p, <1>1 DEF Printed
<1>7. Requests(p)' + Pending(p)' <= Budget[p] - left'[p]
  <2>1. /\ Requests(p)' = Requests(p) /\ Requests(p) \in Nat /\ left[p] \in Nat /\ Budget[p] \in Nat
        /\ Requests(p) + Pending(p) <= Budget[p] - left[p]
    BY <1>1, <1>2, <1>3
  <2>2. /\ Pending(p) = (IF thread[c].why = "io" THEN 1 ELSE 0)
        /\ Pending(p)' = (IF thread'[c].why = "io" THEN 1 ELSE 0)
    BY <1>6 DEF Pending
  <2>3. CASE left'[p] = left[p] /\ thread'[c].why = thread[c].why
    BY <2>1, <2>2, <2>3
  <2>4. CASE left'[p] = left[p] - 1 /\ thread[c].why = ""
    <3>1. Pending(p) = 0 /\ Pending(p)' \in {0, 1}
      BY <2>2, <2>4
    <3>2. Requests(p) + Pending(p)' <= Budget[p] - (left[p] - 1)
      BY <2>1, <3>1
    <3> QED
      BY <2>1, <2>4, <3>2
  <2>5. CASE left'[p] = 0 /\ thread'[c].why = "end"
    BY <2>1, <2>2, <2>5
  <2> QED
    BY <1>4, <2>3, <2>4, <2>5
<1>8. \A q \in Procs \ {p} : Requests(q)' + Pending(q)' <= Budget[q] - left'[q]
  BY <1>1, <1>2, <1>3, <1>5 DEF Pending
<1> QED
  BY <1>7, <1>8 DEF Accounted

(* The manager moves requests and drops those it has served.               *)
LEMMA IOStepAccounts ==
  ASSUME Parts, Accounted, IOStep
  PROVE  Accounted'
<1>0. /\ CoreTypeOK /\ IOTypeOK /\ waiting \in Seq(Procs)
      /\ TakeRequest \/ CompleteRequest
      /\ UNCHANGED <<left, current, thread>>
  BY DEF Parts, OwnTypeOK, IOTypeOK, IOStep, ManagerLoop
<1>1. \A q \in Procs : Times(waiting, q) \in Nat
  BY <1>0, TimesType
<1>2. ASSUME NEW q \in Procs PROVE Requests(q)' <= Requests(q) /\ Requests(q)' \in Nat
  <2>0. Requests(q)' = Times(waiting', q) + (IF serving' = q THEN 1 ELSE 0)
    BY DEF Requests, Times
  <2>1. CASE waiting # <<>> /\ serving' = Head(waiting) /\ waiting' = Tail(waiting)
             /\ serving = NoProc
    <3>1. waiting # <<>> /\ waiting \in Seq(Procs)
      BY <1>0, <2>1
    <3>2. /\ Times(waiting, q) = Times(Tail(waiting), q) + (IF Head(waiting) = q THEN 1 ELSE 0)
          /\ Tail(waiting) \in Seq(Procs)
      BY <3>1, TimesTaken, PopFront
    <3>3. Times(Tail(waiting), q) \in Nat
      BY <3>2, TimesType
    <3> QED
      BY <1>1, <2>0, <2>1, <3>2, <3>3 DEF Requests
  <2>2. CASE waiting' = waiting /\ serving' \in {serving, NoProc}
    BY <1>1, <2>0, <2>2 DEF Requests
  <2> QED
    BY <1>0, <2>1, <2>2 DEF TakeRequest, CompleteRequest
<1>3. \A q \in Procs : Pending(q)' = Pending(q)
  BY <1>0 DEF Pending, Printed
<1>4. ASSUME NEW q \in Procs
      PROVE  Requests(q)' + Pending(q)' <= Budget[q] - left'[q]
  <2>1. Requests(q) \in Nat /\ Pending(q) \in Nat /\ left[q] \in Nat /\ Budget[q] \in Nat
    BY <1>0, RequestsType
  <2>2. Requests(q) + Pending(q) <= Budget[q] - left[q]
    BY DEF Accounted
  <2> QED
    BY <1>0, <1>2, <1>3, <2>1, <2>2
<1> QED
  BY <1>4 DEF Accounted

LEMMA NextAccounted == NPInv /\ Accounted /\ [Next]_allVars => Accounted'
<1> SUFFICES ASSUME Parts, Accounted, [Next]_allVars PROVE Accounted'
  BY NPInvParts
<1>1. CASE (Collect \/ UrgentCollect) /\ UNCHANGED it
  <2>1. /\ current[k] \in Procs /\ Release /\ UNCHANGED <<left, serving>>
        /\ Classify(current[k]) \/ ClassifyUrgent(current[k])
    BY <1>1 DEF Parts, CoreTypeOK, ControlTypeOK, Collect, UrgentCollect, NextCollect, SlotFree
  <2>2. UNCHANGED waiting \/ (pstate[current[k]] = "Blocked" /\ ToBlockedAndIO(current[k]))
    BY <2>1 DEF Classify, ClassifyUrgent, ToReady, ToFinished
  <2> QED
    BY <2>1, <2>2, CollectAccounts
<1>2. CASE Dispatch /\ UNCHANGED <<ioVars, it>>
  BY <1>2, DispatchAccounts
<1>3. ASSUME NEW c \in Cores, CoreStep(c) PROVE Accounted'
  BY <1>3, CoreStepAccounts
<1>4. CASE IOStep
  BY <1>4, IOStepAccounts
<1>5. CASE UNCHANGED <<left, current, thread, waiting, serving>>
  BY <1>5, AccountKept
<1> QED
  BY <1>1, <1>2, <1>3, <1>4, <1>5
  DEF Next, Main, ScheduleCycle, AddProcess, EndLoading, EndSimulation, BeginBatch, Unblock,
      EndUnblock, BeginCycle, SkipCore, NextCollect, SkipBatch, BeginPass, SkipAssign, EndPass,
      EndBatch, ForceCollect, Stopped, Terminated, ioVars, vars, dataVars, coreVars, allVars

(* The manager holds no request that was not a PRINT of its own, for any   *)
(* number of forced releases and whatever it completes meanwhile.          *)
THEOREM RequestsAreAlwaysPrints == Spec => []RequestsArePrints
<1>1. Init => Accounted
  <2> SUFFICES ASSUME Init PROVE Accounted
    OBVIOUS
  <2>1. /\ waiting = <<>> /\ serving = NoProc /\ left = Budget
        /\ \A c \in Cores : thread[c].why # "io"
    BY DEF Init, IOInit, SchedulerInit, CoreInit, NoThread
  <2>2. ASSUME NEW p \in Procs PROVE Requests(p) = 0 /\ Pending(p) = 0 /\ Budget[p] \in Nat
    <3>1. {i \in DOMAIN waiting : waiting[i] = p} = {} /\ p # NoProc
      BY <2>1
    <3> QED
      BY <2>1, <3>1, FS_EmptySet DEF Requests, Times, Pending, Printed
  <2> QED
    BY <2>1, <2>2 DEF Accounted
<1>2. NPInv /\ Accounted => RequestsArePrints
  <2> SUFFICES ASSUME Parts, Accounted, NEW p \in Procs
               PROVE  Requests(p) <= Budget[p] - left[p]
    BY NPInvParts DEF RequestsArePrints
  <2> QED
    BY RequestsType DEF Parts, OwnTypeOK, Accounted
<1> QED
  BY <1>1, <1>2, Inductive, NextAccounted, PTL DEF Spec

-----------------------------------------------------------------------------
(* Who passes whom.                                                        *)

(* The element of rank n is at place n of the sorted sequence.             *)
LEMMA RankIsPlace ==
  ASSUME NEW s \in Seq(Procs), NEW i \in DOMAIN s
  PROVE  SortByPriority(s)[StableRank(s, i)] = s[i]
<1> DEFINE n == StableRank(s, i)
           b == CHOOSE j \in DOMAIN s : StableRank(s, j) = n
<1>1. n \in DOMAIN s
  BY RankGrows
<1>2. SortByPriority(s)[n] = s[b]
  BY <1>1 DEF SortByPriority
<1>3. b \in DOMAIN s /\ StableRank(s, b) = n
  OBVIOUS
<1> HIDE DEF b
<1>4. b = i
  BY <1>3, RanksDiffer
<1> QED
  BY <1>2, <1>4

LEMMA InsertionPasses ==
  ASSUME policy = "SJN", NEW q \in Seq(Procs), NEW r \in Seq(Procs), NEW x \in Procs,
         NEW i \in 1..(Len(q) + 1), PutIn(q, r, i, x), InOrder(q),
         i \in 1..Len(q) => Key[x] < Key[q[i]],
         NEW p \in Range(q), NEW y \in Ahead(p, r)
  PROVE  y \in Ahead(p, q) \/ Better(y, p)
<1> DEFINE n == Len(q)
<1>0. /\ n \in Nat /\ DOMAIN q = 1..n /\ DOMAIN r = 1..(n + 1)
      /\ i \in 1..(n + 1)
  <2>1. DOMAIN r = 1..Len(r) /\ Len(r) = n + 1
    BY DEF PutIn
  <2> QED
    BY <2>1
<1>1. \A j \in 1..(n + 1) : r[j] = IF j < i THEN q[j] ELSE IF j = i THEN x ELSE q[j - 1]
  BY DEF PutIn
<1>b. \A j \in 1..(n + 1) : j < i => r[j] = q[j]
  BY <1>1
<1>n. i \in 1..n => Key[x] < Key[q[i]]
  OBVIOUS
<1>k. \A j \in 1..n : Key[q[j]] \in Int
  <2> SUFFICES ASSUME NEW j \in 1..n PROVE Key[q[j]] \in Int
    OBVIOUS
  <2>1. q[j] \in Procs
    BY <1>0
  <2> QED
    BY <2>1, KeyAssumption
<1>o. \A j, h \in 1..n : j < h => ~Better(q[h], q[j])
  BY <1>0 DEF InOrder
<1> HIDE DEF n
<1>i. n \in Nat /\ i \in Nat /\ i <= n + 1
  BY <1>0
<1>2. PICK m \in 1..n : q[m] = p
  BY <1>0 DEF Range
<1>3. PICK a \in 1..(n + 1) : y = r[a] /\ \A h \in 1..a : r[h] # p
  BY <1>0 DEF Ahead
<1>4. CASE a < i
  <2>0. a \in 1..n /\ a \in 1..(n + 1)
    BY <1>0, <1>4
  <2>1. a \in 1..n /\ y = q[a]
    BY <1>1, <1>3, <1>4, <2>0
  <2>2. ASSUME NEW h \in 1..a PROVE q[h] # p
    <3>0. h \in 1..(n + 1) /\ h < i
      BY <1>i, <1>4
    <3>1. r[h] = q[h]
      BY <1>b, <3>0
    <3> QED
      BY <1>3, <3>1
  <2> QED
    BY <1>0, <2>1, <2>2 DEF Ahead
<1>5. CASE a = i
  <2>1. y = x
    BY <1>1, <1>3, <1>5
  <2>2. i <= m
    <3>1. SUFFICES ASSUME m < i PROVE FALSE
      BY <1>0
    <3>0. m \in 1..(n + 1) /\ m \in 1..a
      BY <1>0, <1>5, <3>1
    <3>2. r[m] = q[m] /\ m \in 1..a
      BY <1>b, <3>0, <3>1
    <3> QED
      BY <1>2, <1>3, <3>2
  <2>3. i \in 1..n
    BY <1>0, <2>2
  <2>4. Key[x] < Key[q[i]] /\ (i < m => ~(Key[q[m]] < Key[q[i]]))
    BY <1>n, <1>o, <2>3 DEF Better
  <2>5. Key[x] \in Int /\ Key[q[i]] \in Int /\ Key[q[m]] \in Int
    BY <1>k, <2>3, KeyAssumption
  <2>6. CASE i = m
    BY <1>2, <2>1, <2>4, <2>6 DEF Better
  <2>7. CASE i < m
    <3>1. \A u, v, w \in Int : u < v /\ ~(w < v) => u < w
      OBVIOUS
    <3>2. Key[x] < Key[q[m]]
      BY <2>4, <2>5, <2>7, <3>1
    <3> QED
      BY <1>2, <2>1, <3>2 DEF Better
  <2> QED
    BY <1>0, <2>2, <2>6, <2>7
<1>6. CASE a > i
  <2>1. a - 1 \in 1..n /\ y = q[a - 1]
    BY <1>0, <1>1, <1>3, <1>6
  <2>2. ASSUME NEW h \in 1..(a - 1) PROVE q[h] # p
    <3>1. CASE h < i
      <4>0. h \in 1..(n + 1) /\ h \in 1..a
        BY <1>i
      <4>1. r[h] = q[h] /\ h \in 1..a
        BY <1>b, <4>0, <3>1
      <4> QED
        BY <1>3, <4>1
    <3>2. CASE h >= i
      <4>1. /\ h + 1 \in 1..a /\ h + 1 \in 1..(n + 1) /\ (h + 1) - 1 = h
            /\ ~(h + 1 < i) /\ h + 1 # i
        BY <1>i, <3>2
      <4>2. r[h + 1] = q[h]
        BY <1>1, <4>1
      <4> QED
        BY <1>3, <4>1, <4>2
    <3> QED
      BY <3>1, <3>2
  <2> QED
    BY <1>0, <2>1, <2>2 DEF Ahead
<1> QED
  BY <1>4, <1>5, <1>6

LEMMA SortingPasses ==
  ASSUME policy = "PRIORITY", NEW q \in Seq(Procs), IsInjective(q), NEW x \in Procs,
         NEW p \in Range(q), NEW y \in Ahead(p, SortByPriority(Append(q, x)))
  PROVE  y \in Ahead(p, q) \/ Better(y, p)
<1> DEFINE s == Append(q, x)
           r == SortByPriority(s)
           n == Len(q)
<1>1. /\ s \in Seq(Procs) /\ n \in Nat /\ DOMAIN q = 1..n /\ DOMAIN s = 1..(n + 1)
      /\ \A j \in 1..n : s[j] = q[j]
  OBVIOUS
<1>2. DOMAIN r = DOMAIN s
  BY DEF SortByPriority
<1> HIDE DEF s, r, n
<1>3. PICK m \in 1..n : q[m] = p
  BY <1>1 DEF Range
<1>4. m \in DOMAIN s /\ s[m] = p
  BY <1>1, <1>3
<1>5. PICK a \in DOMAIN s : y = r[a] /\ \A h \in 1..a : r[h] # p
  BY <1>2 DEF Ahead, r, s
<1>6. PICK b \in DOMAIN s : StableRank(s, b) = a
  BY <1>1, RankReached
<1>7. y = s[b]
  BY <1>1, <1>5, <1>6, RankIsPlace DEF r
<1>8. StableRank(s, m) \in DOMAIN s /\ r[StableRank(s, m)] = p
  BY <1>1, <1>4, RankGrows, RankIsPlace DEF r
<1>9. a < StableRank(s, m)
  <2>1. ~(StableRank(s, m) \in 1..a)
    BY <1>5, <1>8
  <2> QED
    BY <1>1, <1>8, <2>1
<1>10. Precedes(s, b, m) /\ b # m
  <2>1. b # m
    BY <1>1, <1>6, <1>9
  <2>2. ~(StableRank(s, m) < StableRank(s, b))
    BY <1>1, <1>6, <1>8, <1>9
  <2>3. Precedes(s, b, m) \/ Precedes(s, m, b)
    BY <1>1, <1>4, RankGrows
  <2>4. Precedes(s, m, b) => StableRank(s, m) < StableRank(s, b)
    BY <1>1, <1>4, <2>1, RankGrows
  <2> QED
    BY <2>1, <2>2, <2>3, <2>4
<1>11. CASE Key[s[b]] > Key[s[m]]
  BY <1>4, <1>7, <1>11 DEF Better
<1>12. CASE Key[s[b]] = Key[s[m]] /\ b <= m
  <2>0. n \in Nat /\ b \in 1..(n + 1) /\ b # m /\ b <= m
    BY <1>1, <1>10, <1>12
  <2>1. b \in 1..n /\ b < m
    BY <2>0
  <2>2. y = q[b]
    BY <1>1, <1>7, <2>1
  <2>3. ASSUME NEW h \in 1..b PROVE q[h] # p
    <3>1. h \in 1..n /\ h # m
      BY <2>0, <2>1
    <3> QED
      BY <1>1, <1>3, <3>1 DEF IsInjective
  <2> QED
    BY <1>1, <2>1, <2>2, <2>3 DEF Ahead
<1> QED
  BY <1>10, <1>11, <1>12 DEF Precedes

LEMMA EnqueuedPasses ==
  ASSUME policy \in Policies, NEW q \in Seq(Procs), IsInjective(q), InOrder(q),
         NEW x \in Procs, NEW p \in Range(q)
  PROVE  /\ p \in Range(Enqueued(q, x))
         /\ \A y \in Ahead(p, Enqueued(q, x)) \ Ahead(p, q) : Better(y, p)
<1>1. p \in Range(Enqueued(q, x))
  BY EnqueuedPuts DEF Put
<1>2. CASE policy = "FCFS"
  <2>1. Enqueued(q, x) = Append(q, x)
    BY <1>2 DEF Enqueued
  <2>2. /\ Append(q, x) \in Seq(Procs) /\ Len(q) <= Len(Append(q, x))
        /\ \A i \in 1..Len(q) : Append(q, x)[i] = q[i]
    OBVIOUS
  <2>3. Ahead(p, Append(q, x)) \subseteq Ahead(p, q)
    BY <2>2, AheadBehind
  <2> QED
    BY <1>1, <2>1, <2>3
<1>3. CASE policy = "SJN"
  <2>1. Enqueued(q, x) = JobSizeOrder(q, x)
    BY <1>3 DEF Enqueued
  <2>2. PICK i \in 1..(Len(q) + 1) :
          /\ JobSizeOrder(q, x) \in Seq(Procs) /\ PutIn(q, JobSizeOrder(q, x), i, x)
          /\ i \in 1..Len(q) => Key[x] < Key[q[i]]
    BY JobSizePosition
  <2>3. \A y \in Ahead(p, JobSizeOrder(q, x)) : y \in Ahead(p, q) \/ Better(y, p)
    BY <1>3, <2>2, InsertionPasses
  <2> QED
    BY <1>1, <2>1, <2>3
<1>4. CASE policy = "PRIORITY"
  <2>1. Enqueued(q, x) = SortByPriority(Append(q, x))
    BY <1>4 DEF Enqueued, PriorityOrder
  <2>2. \A y \in Ahead(p, SortByPriority(Append(q, x))) : y \in Ahead(p, q) \/ Better(y, p)
    BY <1>4, SortingPasses
  <2> QED
    BY <1>1, <2>1, <2>2
<1> QED
  BY <1>2, <1>3, <1>4

(* What a step may do with the ready queue.                                *)
LEMMA ReadySteps ==
  ASSUME NPInv, [Next]_allVars
  PROVE  \/ ready' = ready
         \/ ready # <<>> /\ ready' = Tail(ready)
         \/ \E x \in Procs : ready' = Enqueued(ready, x)
<1>0. CoreTypeOK /\ QueueTypeOK /\ ControlTypeOK /\ OwnTypeOK /\ Sound
  BY NPInvParts DEF Parts
<1>1. CASE \E p \in Procs : AddProcess(p)
  BY <1>1 DEF AddProcess, EnqueueReady
<1>2. ASSUME current[k] # NoProc, Release, Classify(current[k]) \/ ClassifyUrgent(current[k])
      PROVE  ready' = ready \/ \E x \in Procs : ready' = Enqueued(ready, x)
  <2>1. current[k] \in Procs
    BY <1>0, <1>2 DEF ControlTypeOK, CoreTypeOK
  <2>2. ready' = ready \/ ready' = Enqueued(ready, current[k])
    BY <1>2 DEF Classify, ClassifyUrgent, ToFinished, ToBlockedAndIO, ToBlocked, ToNowhere,
                ToReady, EnqueueReady
  <2> QED
    BY <2>1, <2>2
<1>3. CASE Collect \/ UrgentCollect
  BY <1>2, <1>3 DEF Collect, UrgentCollect, SlotFree
<1>4. CASE Unblock
  <2>1. blocked[it] \in Procs
    BY <1>0, <1>4 DEF Unblock, OwnTypeOK, QueueTypeOK
  <2>2. ready' = ready \/ ready' = Enqueued(ready, blocked[it])
    BY <1>4 DEF Unblock, EnqueueReady
  <2> QED
    BY <2>1, <2>2
<1>5. CASE Dispatch
  BY <1>5 DEF Dispatch
<1>6. CASE \/ EndLoading \/ EndSimulation \/ BeginCycle \/ BeginBatch \/ EndUnblock \/ SkipBatch
           \/ BeginPass \/ EndPass \/ EndBatch \/ ForceCollect \/ SkipAssign \/ SkipCore
  BY <1>6 DEF EndLoading, EndSimulation, BeginCycle, BeginBatch, EndUnblock, SkipBatch, BeginPass,
              EndPass, EndBatch, ForceCollect, SkipAssign, SkipCore, dataVars, queueVars
<1>7. CASE (\E c \in Cores : CoreStep(c)) \/ IOStep \/ Stopped \/ UNCHANGED allVars
  BY <1>7 DEF CoreStep, CoreThread, IOStep, Stopped, Terminated, allVars, vars, dataVars, queueVars
<1> QED
  BY <1>1, <1>3, <1>4, <1>5, <1>6, <1>7 DEF Next, Main, ScheduleCycle

(* Under every policy a process that waits is passed only by a strictly    *)
(* better one, and whoever leaves the queue had nobody in front.           *)
THEOREM OnlyBetterPasses == Spec => PassedOnlyByBetter
<1>1. ASSUME NPInv, [Next]_allVars
      PROVE  \A p \in Range(ready) :
               \/ /\ p \in Range(ready')
                  /\ \A q \in Ahead(p, ready') \ Ahead(p, ready) : Better(q, p)
               \/ p \notin Range(ready') /\ Ahead(p, ready) = {}
  <2> TAKE p \in Range(ready)
  <2>0. ready \in Seq(Procs) /\ IsInjective(ready) /\ InOrder(ready) /\ policy \in Policies
    BY <1>1, NPInvParts DEF Parts, Sound, Waits, OwnTypeOK, QueueTypeOK, OnePlace, BestFirst, InOrder
  <2>1. CASE ready' = ready
    BY <2>1
  <2>2. ASSUME NEW x \in Procs, ready' = Enqueued(ready, x)
        PROVE  /\ p \in Range(ready')
               /\ \A q \in Ahead(p, ready') \ Ahead(p, ready) : Better(q, p)
    BY <2>0, <2>2, EnqueuedPasses
  <2>3. CASE ready # <<>> /\ ready' = Tail(ready)
    <3>1. CASE p = Head(ready)
      <4>1. p \notin Range(ready')
        BY <2>0, <2>3, <3>1, PopFront
      <4>2. ready[1] = p /\ DOMAIN ready = 1..Len(ready)
        BY <2>0, <2>3, <3>1
      <4>3. \A j \in 1..Len(ready) : 1 \in 1..j
        OBVIOUS
      <4> QED
        BY <4>1, <4>2, <4>3 DEF Ahead
    <3>2. CASE p # Head(ready)
      BY <2>0, <2>3, <3>2, AheadTail
    <3> QED
      BY <3>1, <3>2
  <2> QED
    BY <1>1, <2>1, <2>2, <2>3, ReadySteps
<1> QED
  BY <1>1, Inductive, PTL DEF Spec, PassedOnlyByBetter

-----------------------------------------------------------------------------
(***************************************************************************)
(* NonPreemptive implements ProcessLifecycle for every value of the        *)
(* constants and every policy.  The I/O manager's stores are no steps of   *)
(* a process's life: where the scheduler keeps its pointer decides.        *)
(***************************************************************************)

(* Nothing blocks before the simulation loop.                              *)
NothingBlocked == pc = "load" => blocked = <<>>

LEMMA PlacedAlways == NPInv /\ NothingBlocked => Placed /\ PlaceFacts
<1>1. NPInv /\ NothingBlocked => Placed
  BY NPInvParts DEF Placed, Parts, Sound, ControlTypeOK, NothingBlocked
<1> QED
  BY <1>1, PlaceIs

(* The forced unblocking: the process leaves blocked_list for ready_queue, *)
(* or stays where it is.                                                   *)
LEMMA UnblockMaps ==
  ASSUME NPInv, NothingBlocked, PlaceFacts', Unblock, UNCHANGED policy
  PROVE  Lifecycle!Next \/ UNCHANGED <<Place, left>>
<1> DEFINE p == blocked[it]
<1>1. /\ PlaceFacts /\ OnePlace /\ ready \in Seq(Procs) /\ blocked \in Seq(Procs)
      /\ policy \in Policies /\ it \in Nat \ {0}
  BY PlacedAlways, NPInvParts DEF Placed, Parts, QueueTypeOK, OwnTypeOK
<1>2. /\ it <= Len(blocked) /\ pc = "unblock"
      /\ UNCHANGED <<left, current, finished, pc>>
      /\ \/ ready' = ready
         \/ ready' = Enqueued(ready, p)
  BY DEF Unblock, EnqueueReady, controlVars
<1>3. p \in Range(blocked) /\ p \in Procs
  <2>1. it \in 1..Len(blocked)
    BY <1>1, <1>2
  <2> QED
    BY <1>1, <2>1 DEF Range
<1> HIDE DEF p
<1>4. CASE ready' = ready
  BY <1>2, <1>4, PlaceKept
<1>5. CASE ready' = Enqueued(ready, p)
  <2>1. Range(ready') = Range(ready) \cup {p}
    BY <1>1, <1>3, <1>5, EnqueuedPuts DEF Put
  <2>2. Place[p] = "blocked"
    BY <1>1, <1>3 DEF PlaceFacts
  <2>3. Place'[p] = "ready"
    BY <2>1 DEF PlaceFacts
  <2>4. \A q \in Procs \ {p} : Place'[q] = Place[q]
    BY <1>2, <2>1 DEF Place
  <2>5. Lifecycle!Unblock({p})
    BY <1>2, <1>3, <2>2, <2>3, <2>4, OneMoves DEF Lifecycle!Unblock
  <2> QED
    BY <1>3, <2>5 DEF Lifecycle!Next
<1> QED
  BY <1>2, <1>4, <1>5

LEMMA CollectMaps ==
  ASSUME NPInv, NothingBlocked, PlaceFacts', NEW p \in Procs, p = current[k],
         Release, Collected(p), left' = left, UNCHANGED policy,
         pc # "load", pc' # "load"
  PROVE  Lifecycle!Next
<1>1. Placed /\ ready \in Seq(Procs) /\ policy \in Policies
  BY PlacedAlways, NPInvParts DEF Placed, Parts, QueueTypeOK, OwnTypeOK
<1>2. CASE ToFinished(p) /\ left[p] = 0
  BY <1>1, <1>2, ReleaseMaps
<1>3. CASE ToBlockedAndIO(p)
  <2>1. ready' = ready /\ finished' = finished
    BY <1>3 DEF ToBlockedAndIO, ToBlocked
  <2> QED
    BY <1>1, <2>1, ReleaseMaps
<1>4. CASE ToReady(p)
  <2>1. finished' = finished /\ ready' = Enqueued(ready, p)
    BY <1>4 DEF ToReady, EnqueueReady
  <2>2. Range(ready') = Range(ready) \cup {p}
    BY <1>1, <2>1, EnqueuedPuts DEF Put
  <2> QED
    BY <1>1, <2>1, <2>2, ReleaseMaps
<1> QED
  BY <1>2, <1>3, <1>4 DEF Collected

LEMMA CollectsMap ==
  ASSUME NPInv, NothingBlocked, PlaceFacts', Collect \/ UrgentCollect, UNCHANGED policy
  PROVE  Lifecycle!Next
<1>1. /\ CoreTypeOK /\ Sound /\ k \in Cores /\ round \in 1..3
  BY NPInvParts DEF Parts, ControlTypeOK
<1>2. /\ current[k] # NoProc /\ Release /\ left' = left
      /\ Classify(current[k]) \/ ClassifyUrgent(current[k])
      /\ pc # "load" /\ pc' # "load"
  BY <1>1 DEF Collect, UrgentCollect, NextCollect, AfterCollect, SlotFree, controlVars
<1>3. Joined(k) /\ current[k] \in Procs
  BY <1>1, <1>2 DEF Release, ReleaseCore, CoreTypeOK
<1>4. Collected(current[k])
  BY <1>1, <1>2, <1>3, CollectMoves
<1> QED
  BY <1>2, <1>3, <1>4, CollectMaps

LEMMA StepMaps ==
  ASSUME NPInv, NothingBlocked, PlaceFacts', [Next]_allVars
  PROVE  Lifecycle!Next \/ UNCHANGED <<Place, left>>
<1>0. /\ Placed /\ CoreTypeOK /\ QueueTypeOK /\ ControlTypeOK /\ policy \in Policies
      /\ ready \in Seq(Procs)
  BY PlacedAlways, NPInvParts DEF Parts, OwnTypeOK, QueueTypeOK
<1>1. ASSUME NEW p \in Procs, AddProcess(p) PROVE Lifecycle!Next
  <2>1. /\ ready' = Enqueued(ready, p) /\ p \notin Held /\ pc = "load" /\ pc' = "load"
        /\ UNCHANGED <<finished, current, left>>
    BY <1>1 DEF AddProcess, EnqueueReady, controlVars
  <2>2. Range(ready') = Range(ready) \cup {p}
    BY <1>0, <2>1, EnqueuedPuts DEF Put
  <2> QED
    BY <1>0, <2>1, <2>2, AdmitMaps
<1>2. CASE EndLoading
  BY <1>0, <1>2, EndLoadingMaps
<1>3. CASE (Collect \/ UrgentCollect) /\ UNCHANGED policy
  BY <1>3, CollectsMap
<1>4. CASE Unblock /\ UNCHANGED policy
  BY <1>4, UnblockMaps
<1>5. CASE Dispatch
  BY <1>0, <1>5, DispatchMaps
<1>6. CASE SkipCore
  <2>1. UNCHANGED <<ready, finished, current, left>> /\ pc # "load" /\ pc' # "load"
    BY <1>0, <1>6 DEF SkipCore, NextCollect, AfterCollect, ControlTypeOK, queueVars
  <2> QED
    BY <2>1, PlaceKept
<1>7. CASE \/ EndSimulation \/ BeginCycle \/ BeginBatch \/ EndUnblock \/ SkipBatch
           \/ BeginPass \/ SkipAssign \/ EndPass \/ EndBatch \/ ForceCollect
  <2>1. UNCHANGED dataVars /\ pc # "load" /\ pc' # "load"
    BY <1>7 DEF EndSimulation, BeginCycle, BeginBatch, EndUnblock, SkipBatch, BeginPass,
                SkipAssign, NextAssign, EndPass, EndBatch, ForceCollect
  <2> QED
    BY <2>1, ControlStepMaps
<1>8. ASSUME NEW c \in Cores, CoreThread(c)
      PROVE  Lifecycle!Next \/ UNCHANGED <<Place, left>>
  BY <1>0, <1>8, CoreThreadMaps
<1>9. CASE IOStep \/ Stopped \/ UNCHANGED allVars
  <2>1. UNCHANGED <<ready, finished, current, left, pc>>
    BY <1>9 DEF IOStep, ManagerLoop, Stopped, Terminated, allVars, vars, dataVars, coreVars,
                queueVars, controlVars
  <2> QED
    BY <2>1, PlaceKept
<1> QED
  BY <1>1, <1>2, <1>3, <1>4, <1>5, <1>6, <1>7, <1>8, <1>9
     DEF Next, Main, ScheduleCycle, CoreStep

LEMMA NextNothingBlocked ==
  ASSUME NPInv, NothingBlocked, [Next]_allVars
  PROVE  NothingBlocked'
<1>0. round \in 1..3
  BY NPInvParts DEF Parts, ControlTypeOK
<1>1. CASE \E p \in Procs : AddProcess(p)
  BY <1>1 DEF AddProcess, controlVars, NothingBlocked
<1>2. CASE \/ EndLoading \/ EndSimulation \/ BeginCycle \/ BeginBatch \/ EndUnblock \/ SkipBatch
           \/ BeginPass \/ EndPass \/ EndBatch \/ ForceCollect
  BY <1>2 DEF EndLoading, EndSimulation, BeginCycle, BeginBatch, EndUnblock, SkipBatch,
              BeginPass, EndPass, EndBatch, ForceCollect, NothingBlocked
<1>3. CASE Collect \/ SkipCore
  BY <1>0, <1>3 DEF Collect, SkipCore, NextCollect, AfterCollect, NothingBlocked
<1>4. CASE UrgentCollect \/ Unblock \/ SkipAssign \/ Dispatch
  BY <1>4 DEF UrgentCollect, Unblock, SkipAssign, Dispatch, NextAssign, controlVars, NothingBlocked
<1>5. CASE (\E c \in Cores : CoreStep(c)) \/ IOStep \/ Stopped \/ UNCHANGED allVars
  BY <1>5 DEF CoreStep, CoreThread, IOStep, Stopped, Terminated, allVars, vars, dataVars,
              queueVars, controlVars, NothingBlocked
<1> QED
  BY <1>1, <1>2, <1>3, <1>4, <1>5 DEF Next, Main, ScheduleCycle

(* FCFS, SJN and priority scheduling, with the I/O manager's late stores,  *)
(* implement the process lifecycle that the round robin implements.        *)
THEOREM NonPreemptiveImplementsLifecycle == Spec => ImplementsLifecycle
<1>1. Init => Lifecycle!Init /\ NothingBlocked
  BY InitMaps DEF Init, SchedulerInit, NothingBlocked
<1>2. NPInv /\ NothingBlocked /\ [Next]_allVars => NothingBlocked'
  BY NextNothingBlocked
<1>3. NPInv' /\ NothingBlocked' => PlaceFacts'
  BY PlacedAlways, PTL
<1>4. NPInv /\ NothingBlocked /\ NPInv' /\ NothingBlocked' /\ [Next]_allVars
        => [Lifecycle!Next]_<<Place, left>>
  BY <1>3, StepMaps
<1> QED
  BY <1>1, <1>2, <1>4, Inductive, PTL DEF Spec, ImplementsLifecycle, Lifecycle!Spec

=============================================================================
