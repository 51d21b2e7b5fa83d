---------------------------- MODULE QueueLemmas ----------------------------
(***************************************************************************)
(* The queue operations of the schedulers - push_back, pop_front, moving   *)
(* one queue behind another - and what they do to the set of processes in  *)
(* a queue and to its freedom from duplicates.                             *)
(***************************************************************************)
EXTENDS Integers, Sequences, Functions, TLAPS

(* push_back adds one process at the end.                                  *)
LEMMA PushBack ==
  ASSUME NEW S, NEW q \in Seq(S), NEW x \in S
  PROVE  /\ Append(q, x) \in Seq(S)
         /\ Len(Append(q, x)) = Len(q) + 1
         /\ Range(Append(q, x)) = Range(q) \cup {x}
         /\ IsInjective(q) /\ x \notin Range(q) => IsInjective(Append(q, x))
<1> DEFINE r == Append(q, x)
<1>1. /\ r \in Seq(S) /\ Len(r) = Len(q) + 1 /\ Len(q) \in Nat
      /\ DOMAIN q = 1..Len(q) /\ DOMAIN r = 1..(Len(q) + 1)
      /\ \A i \in 1..Len(q) : r[i] = q[i]
      /\ r[Len(q) + 1] = x
  OBVIOUS
<1> HIDE DEF r
<1>2. 1..(Len(q) + 1) = (1..Len(q)) \cup {Len(q) + 1}
  BY <1>1
<1>3. Range(r) = Range(q) \cup {x}
  BY <1>1, <1>2 DEF Range
<1>4. ASSUME IsInjective(q), x \notin Range(q) PROVE IsInjective(r)
  BY <1>1, <1>2, <1>4 DEF IsInjective, Range
<1> QED
  BY <1>1, <1>3, <1>4 DEF r

(* pop_front takes the process that is there once.                         *)
LEMMA PopFront ==
  ASSUME NEW S, NEW q \in Seq(S), q # <<>>
  PROVE  /\ Head(q) \in S /\ Tail(q) \in Seq(S)
         /\ Head(q) \in Range(q)
         /\ Len(Tail(q)) = Len(q) - 1
         /\ Range(q) = Range(Tail(q)) \cup {Head(q)}
         /\ IsInjective(q) => IsInjective(Tail(q)) /\ Head(q) \notin Range(Tail(q))
<1> DEFINE r == Tail(q)
<1>1. /\ r \in Seq(S) /\ Len(r) = Len(q) - 1 /\ Len(q) \in Nat \ {0}
      /\ DOMAIN q = 1..Len(q) /\ DOMAIN r = 1..(Len(q) - 1)
      /\ \A i \in 1..(Len(q) - 1) : r[i] = q[i + 1]
      /\ Head(q) = q[1] /\ Head(q) \in S
  OBVIOUS
<1> HIDE DEF r
<1>2. Range(q) = Range(r) \cup {Head(q)} /\ Head(q) \in Range(q)
  <2>1. ASSUME NEW y \in Range(q) PROVE y \in Range(r) \cup {Head(q)}
    <3>1. PICK i \in 1..Len(q) : y = q[i]
      BY <1>1 DEF Range
    <3>2. CASE i = 1
      BY <1>1, <3>1, <3>2
    <3>3. CASE i # 1
      <4>1. i - 1 \in 1..(Len(q) - 1) /\ (i - 1) + 1 = i
        BY <1>1, <3>3
      <4>2. y = r[i - 1] /\ i - 1 \in DOMAIN r
        BY <1>1, <3>1, <4>1
      <4> QED
        BY <4>2 DEF Range
    <3> QED
      BY <3>2, <3>3
  <2>2. ASSUME NEW y \in Range(r) PROVE y \in Range(q)
    <3>1. PICK i \in 1..(Len(q) - 1) : y = r[i]
      BY <1>1, <2>2 DEF Range
    <3>2. i + 1 \in 1..Len(q) /\ y = q[i + 1]
      BY <1>1, <3>1
    <3> QED
      BY <1>1, <3>2 DEF Range
  <2>3. Head(q) \in Range(q)
    <3>1. 1 \in 1..Len(q)
      BY <1>1
    <3> QED
      BY <1>1, <3>1 DEF Range
  <2> QED
    BY <2>1, <2>2, <2>3
<1>3. ASSUME IsInjective(q) PROVE IsInjective(r) /\ Head(q) \notin Range(r)
  <2>1. \A i \in 1..(Len(q) - 1) : i + 1 \in 1..Len(q) /\ i + 1 # 1
    BY <1>1
  <2>2. 1 \in 1..Len(q)
    BY <1>1
  <2>3. Head(q) \notin Range(r)
    BY <1>1, <1>3, <2>1, <2>2 DEF IsInjective, Range
  <2>4. ASSUME NEW i \in 1..(Len(q) - 1), NEW j \in 1..(Len(q) - 1), r[i] = r[j]
        PROVE  i = j
    <3>1. q[i + 1] = q[j + 1] /\ i + 1 \in DOMAIN q /\ j + 1 \in DOMAIN q
      BY <1>1, <2>1, <2>4
    <3>2. i + 1 = j + 1
      BY <1>3, <3>1 DEF IsInjective
    <3> QED
      BY <3>2
  <2> QED
    BY <1>1, <2>3, <2>4 DEF IsInjective
<1> QED
  BY <1>1, <1>2, <1>3 DEF r

(* One queue is moved behind another.                                      *)
LEMMA MoveBehind ==
  ASSUME NEW S, NEW q \in Seq(S), NEW r \in Seq(S)
  PROVE  /\ q \o r \in Seq(S)
         /\ Len(q \o r) = Len(q) + Len(r)
         /\ Range(q \o r) = Range(q) \cup Range(r)
         /\ IsInjective(q) /\ IsInjective(r) /\ Range(q) \cap Range(r) = {}
              => IsInjective(q \o r)
<1> DEFINE t == q \o r
           m == Len(q)
           n == Len(r)
<1>1. /\ t \in Seq(S) /\ Len(t) = m + n /\ m \in Nat /\ n \in Nat
      /\ DOMAIN q = 1..m /\ DOMAIN r = 1..n /\ DOMAIN t = 1..(m + n)
      /\ \A i \in 1..(m + n) : t[i] = IF i <= m THEN q[i] ELSE r[i - m]
  OBVIOUS
<1> HIDE DEF t, m, n
<1>2. \A i \in 1..(m + n) : \/ i \in 1..m /\ t[i] = q[i]
                            \/ i - m \in 1..n /\ t[i] = r[i - m]
  BY <1>1
<1>3. \A i \in 1..m : i \in 1..(m + n) /\ t[i] = q[i]
  BY <1>1
<1>4. \A i \in 1..n : i + m \in 1..(m + n) /\ t[i + m] = r[i]
  <2>1. ASSUME NEW i \in 1..n PROVE i + m \in 1..(m + n) /\ ~(i + m <= m) /\ (i + m) - m = i
    BY <1>1
  <2> QED
    BY <1>1, <2>1
<1>5. Range(t) = Range(q) \cup Range(r)
  <2>1. Range(t) \subseteq Range(q) \cup Range(r)
    BY <1>1, <1>2 DEF Range
  <2>2. Range(q) \subseteq Range(t)
    BY <1>1, <1>3 DEF Range
  <2>3. ASSUME NEW y \in Range(r) PROVE y \in Range(t)
    <3>1. PICK i \in 1..n : y = r[i]
      BY <1>1, <2>3 DEF Range
    <3>2. i + m \in DOMAIN t /\ t[i + m] = y
      BY <1>1, <1>4, <3>1
    <3> QED
      BY <3>2 DEF Range
  <2> QED
    BY <2>1, <2>2, <2>3
<1>6. ASSUME IsInjective(q), IsInjective(r), Range(q) \cap Range(r) = {}
      PROVE  IsInjective(t)
  <2>1. ASSUME NEW i \in 1..(m + n), NEW j \in 1..(m + n), t[i] = t[j]
        PROVE  i = j
    <3>1. CASE i \in 1..m /\ t[i] = q[i] /\ j \in 1..m /\ t[j] = q[j]
      BY <1>1, <1>6, <2>1, <3>1 DEF IsInjective
    <3>2. CASE i - m \in 1..n /\ t[i] = r[i - m] /\ j - m \in 1..n /\ t[j] = r[j - m]
      <4>1. i - m = j - m
        BY <1>1, <1>6, <2>1, <3>2 DEF IsInjective
      <4> QED
        BY <1>1, <4>1
    <3>3. CASE i \in 1..m /\ t[i] = q[i] /\ j - m \in 1..n /\ t[j] = r[j - m]
      <4>1. t[i] \in Range(q) /\ t[j] \in Range(r)
        BY <1>1, <3>3 DEF Range
      <4> QED
        BY <1>6, <2>1, <4>1
    <3>4. CASE i - m \in 1..n /\ t[i] = r[i - m] /\ j \in 1..m /\ t[j] = q[j]
      <4>1. t[j] \in Range(q) /\ t[i] \in Range(r)
        BY <1>1, <3>4 DEF Range
      <4> QED
        BY <1>6, <2>1, <4>1
    <3> QED
      BY <1>2, <3>1, <3>2, <3>3, <3>4
  <2> QED
    BY <1>1, <2>1 DEF IsInjective
<1> QED
  BY <1>1, <1>5, <1>6 DEF t, m, n

(* A queue with one process put in at some position.                       *)
PutIn(q, r, i, x) ==
  /\ Len(r) = Len(q) + 1
  /\ \A j \in 1..(Len(q) + 1) :
       r[j] = IF j < i THEN q[j] ELSE IF j = i THEN x ELSE q[j - 1]

LEMMA PutInPlace ==
  ASSUME NEW S, NEW q \in Seq(S), NEW r \in Seq(S), NEW x,
         NEW i \in 1..(Len(q) + 1), PutIn(q, r, i, x)
  PROVE  /\ Range(r) = Range(q) \cup {x}
         /\ IsInjective(q) /\ x \notin Range(q) => IsInjective(r)
<1>1. /\ Len(r) = Len(q) + 1 /\ Len(q) \in Nat
      /\ DOMAIN q = 1..Len(q) /\ DOMAIN r = 1..(Len(q) + 1)
  BY DEF PutIn
<1>2. ASSUME NEW j \in 1..(Len(q) + 1)
      PROVE  \/ j < i /\ j \in 1..Len(q) /\ r[j] = q[j]
             \/ j = i /\ r[j] = x
             \/ j > i /\ j - 1 \in 1..Len(q) /\ r[j] = q[j - 1]
  BY <1>1 DEF PutIn
<1>3. ASSUME NEW m \in 1..Len(q)
      PROVE  \E j \in 1..(Len(q) + 1) : r[j] = q[m]
  <2>1. CASE m < i
    <3>1. m \in 1..(Len(q) + 1)
      BY <1>1
    <3> QED
      BY <1>1, <2>1, <3>1 DEF PutIn
  <2>2. CASE ~(m < i)
    <3>1. /\ m + 1 \in 1..(Len(q) + 1) /\ (m + 1) - 1 = m
          /\ ~(m + 1 < i) /\ m + 1 # i
      BY <1>1, <2>2
    <3> QED
      BY <1>1, <3>1 DEF PutIn
  <2> QED
    BY <2>1, <2>2
<1>4. i \in 1..(Len(q) + 1) /\ r[i] = x
  BY <1>1 DEF PutIn
<1>5. Range(r) = Range(q) \cup {x}
  <2>1. Range(r) \subseteq Range(q) \cup {x}
    BY <1>1, <1>2 DEF Range
  <2>2. Range(q) \subseteq Range(r)
    BY <1>1, <1>3 DEF Range
  <2>3. x \in Range(r)
    BY <1>1, <1>4 DEF Range
  <2> QED
    BY <2>1, <2>2, <2>3
<1>6. ASSUME IsInjective(q), x \notin Range(q),
             NEW a \in 1..(Len(q) + 1), NEW b \in 1..(Len(q) + 1), r[a] = r[b]
      PROVE  a = b
  <2>1. \A m \in 1..Len(q) : q[m] # x
    BY <1>1, <1>6 DEF Range
  <2>2. \A m, n \in 1..Len(q) : q[m] = q[n] => m = n
    BY <1>1, <1>6 DEF IsInjective
  <2>3. CASE a = i \/ b = i
    BY <1>2, <1>6, <2>1, <2>3
  <2>4. CASE a # i /\ b # i
    <3>1. PICK m \in 1..Len(q) : r[a] = q[m] /\ m = IF a < i THEN a ELSE a - 1
      BY <1>2, <2>4
    <3>2. PICK n \in 1..Len(q) : r[b] = q[n] /\ n = IF b < i THEN b ELSE b - 1
      BY <1>2, <2>4
    <3>3. m = n
      BY <1>6, <2>2, <3>1, <3>2
    <3> QED
      BY <1>1, <2>4, <3>1, <3>2, <3>3
  <2> QED
    BY <2>3, <2>4
<1> QED
  BY <1>1, <1>5, <1>6 DEF IsInjective

(* ... and with the process at some position taken out: the other way      *)
(* round.                                                                  *)
LEMMA TakenOut ==
  ASSUME NEW S, NEW q \in Seq(S), NEW r \in Seq(S), NEW x,
         NEW i \in 1..(Len(q) + 1), PutIn(q, r, i, x), IsInjective(r)
  PROVE  IsInjective(q) /\ x \notin Range(q)
<1>1. /\ Len(q) \in Nat /\ DOMAIN q = 1..Len(q) /\ DOMAIN r = 1..(Len(q) + 1)
  BY DEF PutIn
<1> DEFINE at(m) == IF m < i THEN m ELSE m + 1
<1>2. ASSUME NEW m \in 1..Len(q)
      PROVE  at(m) \in 1..(Len(q) + 1) /\ at(m) # i /\ r[at(m)] = q[m]
  <2>1. at(m) \in 1..(Len(q) + 1) /\ at(m) # i
    BY <1>1
  <2>2. CASE m < i
    BY <1>1, <2>1, <2>2 DEF PutIn
  <2>3. CASE ~(m < i)
    <3>1. at(m) = m + 1 /\ (m + 1) - 1 = m /\ ~(m + 1 < i)
      BY <1>1, <2>3
    <3> QED
      BY <2>1, <3>1 DEF PutIn
  <2> QED
    BY <2>1, <2>2, <2>3
<1>3. r[i] = x
  BY <1>1 DEF PutIn
<1>4. \A a, b \in 1..(Len(q) + 1) : r[a] = r[b] => a = b
  BY <1>1 DEF IsInjective
<1>5. ASSUME NEW m \in 1..Len(q), NEW n \in 1..Len(q), q[m] = q[n]
      PROVE  m = n
  <2>1. at(m) = at(n)
    BY <1>2, <1>4, <1>5
  <2> QED
    BY <1>1, <2>1
<1>6. \A m \in 1..Len(q) : q[m] # x
  BY <1>2, <1>3, <1>4
<1> QED
  BY <1>1, <1>5, <1>6 DEF IsInjective, Range

(* An empty queue.                                                         *)
LEMMA EmptyQueue ==
  /\ \A S : <<>> \in Seq(S)
  /\ Len(<<>>) = 0 /\ Range(<<>>) = {} /\ IsInjective(<<>>)
BY DEF Range, IsInjective
=============================================================================
