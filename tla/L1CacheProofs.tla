---------------------------- MODULE L1CacheProofs ----------------------------
(***************************************************************************)
(* Lemmas on one cache: what an eviction, an access and an update make of  *)
(* it, for any addresses, words, sizes and capacity.                       *)
(***************************************************************************)
EXTENDS L1Cache, QueueLemmas, FiniteSetTheorems, TLAPS

LEMMA EmptyIsCache ==
  /\ IsCache(EmptyCache) /\ DOMAIN EmptyCache.lines = {} /\ EmptyCache.fifo = <<>>
<1> DEFINE ch == EmptyCache
<1>1. /\ DOMAIN ch.lines = {} /\ ch.fifo = <<>>
      /\ ch = [lines |-> ch.lines, fifo |-> ch.fifo]
      /\ ch.lines \in [DOMAIN ch.lines -> Line]
  BY DEF EmptyCache
<1>2. IsFiniteSet({}) /\ <<>> \in Seq(Address)
  BY FS_EmptySet
<1> QED
  BY <1>1, <1>2 DEF IsCache

(* What Evict leaves of a cache: nothing new, the queue without at most    *)
(* its head, and the lines without at most that address.                   *)
LEMMA EvictFacts ==
  ASSUME NEW ch, IsCache(ch)
  PROVE  LET e == Evict(ch)
             n == Cardinality(DOMAIN ch.lines)
             m == Cardinality(DOMAIN e.lines)
         IN  /\ IsCache(e)
             /\ DOMAIN e.lines \subseteq DOMAIN ch.lines
             /\ \A x \in DOMAIN e.lines : e.lines[x] = ch.lines[x]
             /\ \/ DOMAIN e.lines = DOMAIN ch.lines
                \/ \E b \in Address : DOMAIN e.lines = DOMAIN ch.lines \ {b}
             /\ DOMAIN ch.lines \subseteq Range(ch.fifo)
                  => DOMAIN e.lines \subseteq Range(e.fifo)
             /\ n \in Nat /\ m \in Nat
             /\ Len(e.fifo) - m <= Len(ch.fifo) - n
             /\ \/ n < Capacity /\ e = ch
                \/ ch.fifo = <<>> /\ e = ch
                \/ ch.fifo # <<>> /\ Len(e.fifo) = Len(ch.fifo) - 1
<1> DEFINE L == DOMAIN ch.lines
           h == Head(ch.fifo)
           e == Evict(ch)
<1>1. /\ L \subseteq Address /\ IsFiniteSet(L) /\ ch.fifo \in Seq(Address)
      /\ ch.lines \in [L -> Line]
      /\ Cardinality(L) \in Nat /\ Capacity \in Nat
  BY FS_CardinalityType, CapacityAssumption DEF IsCache
<1>2. CASE ~(Full(ch) /\ ch.fifo # <<>>)
  <2>1. e = ch
    BY <1>2 DEF Evict
  <2>2. Cardinality(L) < Capacity \/ ch.fifo = <<>>
    BY <1>1, <1>2 DEF Full
  <2>3. Len(ch.fifo) \in Nat
    BY <1>1
  <2> QED
    BY <1>1, <2>1, <2>2, <2>3
<1>3. CASE Full(ch) /\ ch.fifo # <<>>
  <2>1. e = [lines |-> [x \in L \ {h} |-> ch.lines[x]], fifo |-> Tail(ch.fifo)]
    BY <1>3 DEF Evict, Restrict
  <2>2. /\ h \in Address /\ Tail(ch.fifo) \in Seq(Address)
        /\ Len(Tail(ch.fifo)) = Len(ch.fifo) - 1
        /\ Range(ch.fifo) = Range(Tail(ch.fifo)) \cup {h}
    BY <1>1, <1>3, PopFront
  <2>3. DOMAIN e.lines = L \ {h} /\ e.fifo = Tail(ch.fifo)
    BY <2>1
  <2>4. \A x \in DOMAIN e.lines : e.lines[x] = ch.lines[x]
    BY <2>1, <2>3
  <2>5. /\ IsFiniteSet(L \ {h})
        /\ Cardinality(L \ {h}) = IF h \in L THEN Cardinality(L) - 1 ELSE Cardinality(L)
        /\ Cardinality(L \ {h}) \in Nat
    BY <1>1, FS_RemoveElement, FS_CardinalityType
  <2>6. e = [lines |-> e.lines, fifo |-> e.fifo]
    BY <2>1
  <2>7. e.lines \in [DOMAIN e.lines -> Line]
    BY <1>1, <2>1, <2>3
  <2>8. IsCache(e)
    BY <1>1, <2>2, <2>3, <2>5, <2>6, <2>7 DEF IsCache
  <2>9. L \subseteq Range(ch.fifo) => DOMAIN e.lines \subseteq Range(e.fifo)
    BY <2>2, <2>3
  <2>10. Len(ch.fifo) \in Nat
    BY <1>1
  <2>11. Len(e.fifo) - Cardinality(DOMAIN e.lines) <= Len(ch.fifo) - Cardinality(L)
    BY <1>1, <2>2, <2>3, <2>5, <2>10
  <2> QED
    BY <1>1, <1>3, <2>2, <2>3, <2>4, <2>5, <2>8, <2>9, <2>11
<1> QED
  BY <1>2, <1>3

(* What Insert adds to a cache: i is ch with a clean line for a.           *)
Inserted(ch, a, w, i) ==
  /\ IsCache(i)
  /\ DOMAIN i.lines = DOMAIN ch.lines \cup {a}
  /\ i.lines[a] = [data |-> w, dirty |-> FALSE]
  /\ \A x \in DOMAIN ch.lines \ {a} : i.lines[x] = ch.lines[x]
  /\ Range(i.fifo) = Range(ch.fifo) \cup {a}
  /\ Len(i.fifo) = Len(ch.fifo) + 1
  /\ Cardinality(DOMAIN i.lines) =
       IF a \in DOMAIN ch.lines
       THEN Cardinality(DOMAIN ch.lines)
       ELSE Cardinality(DOMAIN ch.lines) + 1

LEMMA InsertFacts ==
  ASSUME NEW ch, IsCache(ch), NEW a \in Address, NEW w \in Word
  PROVE  Inserted(ch, a, w, Insert(ch, a, w))
<1> DEFINE L == DOMAIN ch.lines
           i == Insert(ch, a, w)
<1>1. /\ L \subseteq Address /\ IsFiniteSet(L) /\ ch.fifo \in Seq(Address)
      /\ ch.lines \in [L -> Line]
  BY DEF IsCache
<1>2. i = [lines |-> [x \in L \cup {a} |->
                        IF x = a THEN [data |-> w, dirty |-> FALSE] ELSE ch.lines[x]],
           fifo |-> Append(ch.fifo, a)]
  BY DEF Insert
<1>3. DOMAIN i.lines = L \cup {a} /\ i.fifo = Append(ch.fifo, a)
  BY <1>2
<1>4. i.lines[a] = [data |-> w, dirty |-> FALSE]
  BY <1>2
<1>5. \A x \in L \ {a} : i.lines[x] = ch.lines[x]
  BY <1>2
<1>6. i.lines \in [DOMAIN i.lines -> Line]
  <2>1. [data |-> w, dirty |-> FALSE] \in Line
    BY DEF Line
  <2> QED
    BY <1>1, <1>2, <1>3, <2>1
<1>7. /\ Append(ch.fifo, a) \in Seq(Address)
      /\ Len(Append(ch.fifo, a)) = Len(ch.fifo) + 1
      /\ Range(Append(ch.fifo, a)) = Range(ch.fifo) \cup {a}
  BY <1>1, PushBack
<1>8. /\ IsFiniteSet(L \cup {a})
      /\ Cardinality(L \cup {a}) =
           IF a \in L THEN Cardinality(L) ELSE Cardinality(L) + 1
  BY <1>1, FS_AddElement
<1>9. IsCache(i)
  <2>1. i = [lines |-> i.lines, fifo |-> i.fifo]
    BY <1>2
  <2> QED
    BY <1>1, <1>3, <1>6, <1>7, <1>8, <2>1 DEF IsCache
<1> QED
  BY <1>3, <1>4, <1>5, <1>7, <1>8, <1>9 DEF Inserted

(* A memory holds words.                                                   *)
IsMemory(mem) == mem \in [DOMAIN mem -> Word]

LEMMA ReadMemWord ==
  ASSUME NEW mem, IsMemory(mem), NEW a
  PROVE  ReadMem(mem, a) \in Word
BY WordAssumption DEF IsMemory, ReadMem

(* What a read, or the load that precedes a write, makes of a cache.       *)
LEMMA AfterReadFacts ==
  ASSUME NEW ch, IsCache(ch), NEW mem, IsMemory(mem), NEW a \in Address
  PROVE  LET r == AfterRead(ch, mem, a)
         IN  /\ IsCache(r)
             /\ a \in DOMAIN r.lines
             /\ Hit(ch, a) => r = ch
             /\ ~Hit(ch, a) =>
                  /\ r.lines[a] = [data |-> ReadMem(mem, a), dirty |-> FALSE]
                  /\ \A x \in DOMAIN r.lines \ {a} :
                       x \in DOMAIN ch.lines /\ r.lines[x] = ch.lines[x]
                  /\ \E b \in Address :
                       DOMAIN r.lines = (DOMAIN ch.lines \ {b}) \cup {a}
             /\ DOMAIN ch.lines \subseteq Range(ch.fifo)
                  => DOMAIN r.lines \subseteq Range(r.fifo)
<1> DEFINE r == AfterRead(ch, mem, a)
           e == Evict(ch)
           w == ReadMem(mem, a)
<1>1. CASE Hit(ch, a)
  BY <1>1 DEF AfterRead, Hit
<1>2. CASE ~Hit(ch, a)
  <2>1. r = Insert(e, a, w)
    BY <1>2 DEF AfterRead, Put
  <2>2. w \in Word
    BY ReadMemWord
  <2>3. /\ IsCache(e) /\ DOMAIN e.lines \subseteq DOMAIN ch.lines
        /\ \A x \in DOMAIN e.lines : e.lines[x] = ch.lines[x]
        /\ \/ DOMAIN e.lines = DOMAIN ch.lines
           \/ \E b \in Address : DOMAIN e.lines = DOMAIN ch.lines \ {b}
        /\ DOMAIN ch.lines \subseteq Range(ch.fifo)
             => DOMAIN e.lines \subseteq Range(e.fifo)
    BY EvictFacts
  <2>4. /\ IsCache(r) /\ DOMAIN r.lines = DOMAIN e.lines \cup {a}
        /\ r.lines[a] = [data |-> w, dirty |-> FALSE]
        /\ \A x \in DOMAIN e.lines \ {a} : r.lines[x] = e.lines[x]
        /\ Range(r.fifo) = Range(e.fifo) \cup {a}
    <3>1. Inserted(e, a, w, r)
      BY <2>1, <2>2, <2>3, InsertFacts
    <3> QED
      BY <3>1 DEF Inserted
  <2>5. \A x \in DOMAIN r.lines \ {a} : x \in DOMAIN ch.lines /\ r.lines[x] = ch.lines[x]
    BY <2>3, <2>4
  <2>6. \E b \in Address : DOMAIN r.lines = (DOMAIN ch.lines \ {b}) \cup {a}
    <3>1. CASE DOMAIN e.lines = DOMAIN ch.lines
      <4>1. DOMAIN r.lines = (DOMAIN ch.lines \ {a}) \cup {a}
        BY <2>4, <3>1
      <4> QED
        BY <4>1
    <3>2. CASE \E b \in Address : DOMAIN e.lines = DOMAIN ch.lines \ {b}
      BY <2>4, <3>2
    <3> QED
      BY <2>3, <3>1, <3>2
  <2> QED
    BY <1>2, <2>3, <2>4, <2>5, <2>6
<1> QED
  BY <1>1, <1>2

(* The sizes after a read: k refills so far, d is 1 if this is one more.   *)
LEMMA AfterReadSizes ==
  ASSUME NEW ch, IsCache(ch), NEW mem, IsMemory(mem), NEW a \in Address,
         NEW k \in Nat,
         Len(ch.fifo) <= Cardinality(DOMAIN ch.lines) + k,
         Len(ch.fifo) <= Capacity + k,
         DOMAIN ch.lines \subseteq Range(ch.fifo)
  PROVE  LET r == AfterRead(ch, mem, a)
             d == IF Refills(ch, a) THEN 1 ELSE 0
         IN  /\ Len(r.fifo) <= Cardinality(DOMAIN r.lines) + k + d
             /\ Len(r.fifo) <= Capacity + k + d
<1> DEFINE r == AfterRead(ch, mem, a)
           e == Evict(ch)
           n == Cardinality(DOMAIN ch.lines)
           m == Cardinality(DOMAIN e.lines)
           w == ReadMem(mem, a)
<1>1. /\ IsCache(e) /\ n \in Nat /\ m \in Nat
      /\ DOMAIN e.lines \subseteq DOMAIN ch.lines
      /\ Len(e.fifo) - m <= Len(ch.fifo) - n
      /\ \/ n < Capacity /\ e = ch
         \/ ch.fifo = <<>> /\ e = ch
         \/ ch.fifo # <<>> /\ Len(e.fifo) = Len(ch.fifo) - 1
  BY EvictFacts
<1>2. Len(ch.fifo) \in Nat /\ Len(e.fifo) \in Nat /\ Capacity \in Nat \ {0}
  BY <1>1, CapacityAssumption DEF IsCache
<1>3. CASE Hit(ch, a)
  <2>1. r = ch /\ ~Refills(ch, a)
    BY <1>3 DEF AfterRead, Refills
  <2> QED
    BY <1>1, <1>2, <2>1
<1>4. CASE ~Hit(ch, a)
  <2>1. r = Insert(e, a, w) /\ w \in Word
    BY <1>4, ReadMemWord DEF AfterRead, Put
  <2>2. /\ Len(r.fifo) = Len(e.fifo) + 1
        /\ Cardinality(DOMAIN r.lines) = IF a \in DOMAIN e.lines THEN m ELSE m + 1
    <3>1. Inserted(e, a, w, r)
      BY <1>1, <2>1, InsertFacts
    <3> QED
      BY <3>1 DEF Inserted
  <2>3. a \in DOMAIN e.lines => Refills(ch, a)
    BY <1>1, <1>4 DEF Refills
  <2>4. Len(r.fifo) <= Cardinality(DOMAIN r.lines) + k + (IF Refills(ch, a) THEN 1 ELSE 0)
    <3>1. Len(e.fifo) <= m + k
      BY <1>1, <1>2
    <3> QED
      BY <1>1, <1>2, <2>2, <2>3, <3>1
  <2>5. Len(r.fifo) <= Capacity + k + (IF Refills(ch, a) THEN 1 ELSE 0)
    <3>1. CASE n < Capacity /\ e = ch
      <4>1. CASE Refills(ch, a)
        BY <1>2, <2>2, <3>1, <4>1
      <4>2. CASE ~Refills(ch, a)
        <5>1. Len(e.fifo) <= n + k
          BY <3>1
        <5> QED
          BY <1>1, <1>2, <2>2, <3>1, <4>2, <5>1
      <4> QED
        BY <4>1, <4>2
    <3>2. CASE ch.fifo = <<>> /\ e = ch
      <4>1. Len(e.fifo) = 0
        BY <3>2
      <4> QED
        BY <1>2, <2>2, <4>1
    <3>3. CASE ch.fifo # <<>> /\ Len(e.fifo) = Len(ch.fifo) - 1
      BY <1>2, <2>2, <3>3
    <3> QED
      BY <1>1, <3>1, <3>2, <3>3
  <2> QED
    BY <2>4, <2>5
<1> QED
  BY <1>3, <1>4

(* What the update of a cached address changes.                            *)
LEMMA UpdateFacts ==
  ASSUME NEW ch, IsCache(ch), NEW a \in DOMAIN ch.lines, NEW w \in Word
  PROVE  LET u == Update(ch, a, w)
         IN  /\ IsCache(u)
             /\ DOMAIN u.lines = DOMAIN ch.lines
             /\ u.fifo = ch.fifo
             /\ u.lines[a] = [data |-> w, dirty |-> TRUE]
             /\ \A x \in DOMAIN ch.lines \ {a} : u.lines[x] = ch.lines[x]
<1> DEFINE u == Update(ch, a, w)
<1>1. /\ ch = [lines |-> ch.lines, fifo |-> ch.fifo]
      /\ DOMAIN ch.lines \subseteq Address
      /\ IsFiniteSet(DOMAIN ch.lines) /\ ch.fifo \in Seq(Address)
      /\ ch.lines \in [DOMAIN ch.lines -> Line]
  BY DEF IsCache
<1>2. u = [ch EXCEPT !.lines[a] = [data |-> w, dirty |-> TRUE]]
  BY DEF Update
<1>3. u = [lines |-> [ch.lines EXCEPT ![a] = [data |-> w, dirty |-> TRUE]],
           fifo |-> ch.fifo]
  BY <1>1, <1>2
<1>4. /\ u.lines = [ch.lines EXCEPT ![a] = [data |-> w, dirty |-> TRUE]]
      /\ u.fifo = ch.fifo
  BY <1>3
<1>5. DOMAIN u.lines = DOMAIN ch.lines
  BY <1>4
<1>6. [data |-> w, dirty |-> TRUE] \in Line
  BY DEF Line
<1>7. u.lines \in [DOMAIN u.lines -> Line]
  BY <1>1, <1>4, <1>5, <1>6
<1>8. u = [lines |-> u.lines, fifo |-> u.fifo]
  BY <1>3, <1>4
<1>9. IsCache(u)
  BY <1>1, <1>4, <1>5, <1>7, <1>8 DEF IsCache
<1> QED
  BY <1>1, <1>4, <1>5, <1>9

(* The marker stands for a word that is not there.                         *)
LEMMA ReadValueWord ==
  ASSUME NEW mem, IsMemory(mem), NEW ch, IsCache(ch), NEW a \in Address
  PROVE  ReadValue(ch, mem, a) \in Word
<1>1. CASE Hit(ch, a)
  <2>1. ch.lines[a] \in Line
    BY <1>1 DEF Hit, IsCache
  <2> QED
    BY <1>1, <2>1 DEF ReadValue, Line
<1>2. CASE ~Hit(ch, a)
  BY <1>2, ReadMemWord DEF ReadValue
<1> QED
  BY <1>1, <1>2

-----------------------------------------------------------------------------
(* Several accesses.                                                       *)

(* Reads of addresses of T alone make r of ch: the lines of r are lines of *)
(* ch, and clean copies of memory.  As long as there is room for all that  *)
(* was read, lines that can be hit are not replaced.                       *)
Follows(ch, mem, T, r) ==
  /\ IsCache(r)
  /\ \A x \in DOMAIN r.lines :
       \/ x \in DOMAIN ch.lines /\ r.lines[x] = ch.lines[x]
       \/ r.lines[x] = [data |-> ReadMem(mem, x), dirty |-> FALSE]
  /\ DOMAIN r.lines \subseteq DOMAIN ch.lines \cup T
  /\ \A U :
       IsFiniteSet(U) /\ Cardinality(U) < Capacity /\ DOMAIN ch.lines \cup T \subseteq U
         => \A x \in DOMAIN ch.lines :
              Hit(ch, x) => x \in DOMAIN r.lines /\ r.lines[x] = ch.lines[x]

LEMMA ReadFollows ==
  ASSUME NEW mem, IsMemory(mem), NEW ch, NEW T, NEW r, Follows(ch, mem, T, r),
         NEW a \in Address, NEW V, T \subseteq V, a \in V
  PROVE  /\ Follows(ch, mem, V, AfterRead(r, mem, a))
         /\ a \in DOMAIN AfterRead(r, mem, a).lines
<1> DEFINE n == AfterRead(r, mem, a)
<1>1. IsCache(r)
  BY DEF Follows
<1>2. /\ IsCache(n) /\ a \in DOMAIN n.lines
      /\ Hit(r, a) => n = r
      /\ ~Hit(r, a) =>
           /\ n.lines[a] = [data |-> ReadMem(mem, a), dirty |-> FALSE]
           /\ \A x \in DOMAIN n.lines \ {a} :
                x \in DOMAIN r.lines /\ n.lines[x] = r.lines[x]
  BY <1>1, AfterReadFacts
<1>3. ASSUME NEW U, IsFiniteSet(U), Cardinality(U) < Capacity, DOMAIN ch.lines \cup V \subseteq U
      PROVE  \A x \in DOMAIN ch.lines :
               Hit(ch, x) => x \in DOMAIN n.lines /\ n.lines[x] = ch.lines[x]
  <2>1. DOMAIN ch.lines \cup T \subseteq U
    BY <1>3
  <2>2. \A x \in DOMAIN ch.lines :
          Hit(ch, x) => x \in DOMAIN r.lines /\ r.lines[x] = ch.lines[x]
    BY <1>3, <2>1 DEF Follows
  <2>3. CASE Hit(r, a)
    BY <1>2, <2>2, <2>3
  <2>4. CASE ~Hit(r, a)
    <3>1. DOMAIN r.lines \subseteq U
      BY <2>1 DEF Follows
    <3>2. ~Full(r)
      <4>1. Cardinality(DOMAIN r.lines) <= Cardinality(U)
        BY <1>3, <3>1, FS_Subset
      <4>2. Cardinality(DOMAIN r.lines) \in Nat /\ Cardinality(U) \in Nat
        BY <1>1, <1>3, FS_CardinalityType DEF IsCache
      <4> QED
        BY <1>3, <4>1, <4>2, CapacityAssumption DEF Full
    <3>3. n = Insert(r, a, ReadMem(mem, a))
      BY <2>4, <3>2 DEF AfterRead, Put, Evict
    <3>4. /\ DOMAIN n.lines = DOMAIN r.lines \cup {a}
          /\ \A x \in DOMAIN r.lines \ {a} : n.lines[x] = r.lines[x]
      BY <3>3 DEF Insert
    <3>5. \A x \in DOMAIN ch.lines : Hit(ch, x) => x # a
      BY <2>2, <2>4 DEF Hit
    <3> HIDE DEF n
    <3> QED
      BY <2>2, <3>4, <3>5
  <2> QED
    BY <2>3, <2>4
<1> HIDE DEF n
<1>4. DOMAIN n.lines \subseteq DOMAIN ch.lines \cup V
  <2>1. DOMAIN n.lines \subseteq DOMAIN r.lines \cup {a}
    BY <1>2
  <2> QED
    BY <2>1 DEF Follows
<1>5. ASSUME NEW x \in DOMAIN n.lines
      PROVE  \/ x \in DOMAIN ch.lines /\ n.lines[x] = ch.lines[x]
             \/ n.lines[x] = [data |-> ReadMem(mem, x), dirty |-> FALSE]
  BY <1>2, <1>5 DEF Follows
<1>6. Follows(ch, mem, V, n)
  BY <1>2, <1>3, <1>4, <1>5 DEF Follows
<1> QED
  BY <1>2, <1>6 DEF n

LEMMA SameFollows ==
  ASSUME NEW mem, NEW ch, IsCache(ch)
  PROVE  Follows(ch, mem, {}, ch)
BY DEF Follows
=============================================================================
