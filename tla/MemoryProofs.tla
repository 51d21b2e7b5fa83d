---------------------------- MODULE MemoryProofs ----------------------------
(***************************************************************************)
(* Theorems about the memory manager and the L1 caches, for any number of  *)
(* cores, any addresses, words, sizes and capacity.  They lift the lemmas  *)
(* on one cache to the cores.                                              *)
(***************************************************************************)
EXTENDS Memory, L1CacheProofs

-----------------------------------------------------------------------------
(* The inductive invariant.                                                *)

(* What is kept about one cache ch over the memory mem after k refills.    *)
CacheOK(ch, mem, k) ==
  /\ IsCache(ch)
  /\ \A x \in DOMAIN ch.lines : ~ch.lines[x].dirty => ch.lines[x].data = ReadMem(mem, x)
  /\ DOMAIN ch.lines \subseteq Range(ch.fifo)
  /\ Len(ch.fifo) <= Cardinality(DOMAIN ch.lines) + k
  /\ Len(ch.fifo) <= Capacity + k

(* k plus one if the access is a refill.                                   *)
Counted(ch, a, k) == k + IF Refills(ch, a) THEN 1 ELSE 0

MemoryInv ==
  /\ DOMAIN memory \subseteq {a \in Address : HasCell(a)}
  /\ IsMemory(memory)
  /\ running \in BOOLEAN
  /\ DOMAIN cache = Cores
  /\ refills \in [Cores -> Nat]
  /\ last \in Access \cup {NoAccess}
  /\ ~running => \A c \in Cores : cache[c] = EmptyCache
  /\ \A c \in Cores : CacheOK(cache[c], memory, refills[c])

LEMMA EmptyCacheOK ==
  ASSUME NEW mem
  PROVE  CacheOK(EmptyCache, mem, 0)
<1>1. IsFiniteSet({}) /\ Cardinality({}) = 0 /\ Len(<<>>) = 0
  BY FS_EmptySet
<1> QED
  BY <1>1, EmptyIsCache, CapacityAssumption DEF CacheOK

(* An access that reads keeps what is known of the cache.                  *)
LEMMA ReadKeepsCache ==
  ASSUME NEW mem, IsMemory(mem), NEW k \in Nat,
         NEW ch, CacheOK(ch, mem, k), NEW a \in Address
  PROVE  CacheOK(AfterRead(ch, mem, a), mem, Counted(ch, a, k))
<1> DEFINE r == AfterRead(ch, mem, a)
<1>1. IsCache(ch) /\ DOMAIN ch.lines \subseteq Range(ch.fifo)
  BY DEF CacheOK
<1>2. /\ IsCache(r) /\ DOMAIN r.lines \subseteq Range(r.fifo)
      /\ Hit(ch, a) => r = ch
      /\ ~Hit(ch, a) =>
           /\ r.lines[a] = [data |-> ReadMem(mem, a), dirty |-> FALSE]
           /\ \A x \in DOMAIN r.lines \ {a} :
                x \in DOMAIN ch.lines /\ r.lines[x] = ch.lines[x]
  BY <1>1, AfterReadFacts
<1>3. \A x \in DOMAIN r.lines : ~r.lines[x].dirty => r.lines[x].data = ReadMem(mem, x)
  BY <1>2 DEF CacheOK
<1>4. /\ Len(r.fifo) <= Cardinality(DOMAIN r.lines) + Counted(ch, a, k)
      /\ Len(r.fifo) <= Capacity + Counted(ch, a, k)
  <2>1. /\ Len(ch.fifo) <= Cardinality(DOMAIN ch.lines) + k
        /\ Len(ch.fifo) <= Capacity + k
    BY DEF CacheOK
  <2>2. /\ Len(r.fifo) <= Cardinality(DOMAIN r.lines) + k + (IF Refills(ch, a) THEN 1 ELSE 0)
        /\ Len(r.fifo) <= Capacity + k + (IF Refills(ch, a) THEN 1 ELSE 0)
    BY <1>1, <2>1, AfterReadSizes
  <2>3. Cardinality(DOMAIN r.lines) \in Nat /\ Capacity \in Nat
    BY <1>2, FS_CardinalityType, CapacityAssumption DEF IsCache
  <2> QED
    BY <2>2, <2>3 DEF Counted
<1> QED
  BY <1>2, <1>3, <1>4 DEF CacheOK

(* So does an access that writes.                                          *)
LEMMA WriteKeepsCache ==
  ASSUME NEW mem, IsMemory(mem), NEW k \in Nat,
         NEW ch, CacheOK(ch, mem, k), NEW a \in Address, NEW w \in Word
  PROVE  CacheOK(AfterWrite(ch, mem, a, w), mem, Counted(ch, a, k))
<1> DEFINE r == AfterRead(ch, mem, a)
           u == AfterWrite(ch, mem, a, w)
<1>1. CacheOK(r, mem, Counted(ch, a, k))
  BY ReadKeepsCache
<1>2. IsCache(r) /\ a \in DOMAIN r.lines
  BY AfterReadFacts DEF CacheOK
<1>3. u = Update(r, a, w)
  BY DEF AfterWrite
<1>4. /\ IsCache(u) /\ DOMAIN u.lines = DOMAIN r.lines /\ u.fifo = r.fifo
      /\ u.lines[a] = [data |-> w, dirty |-> TRUE]
      /\ \A x \in DOMAIN r.lines \ {a} : u.lines[x] = r.lines[x]
  BY <1>2, <1>3, UpdateFacts
<1> HIDE DEF r, u
<1>5. \A x \in DOMAIN u.lines : ~u.lines[x].dirty => u.lines[x].data = ReadMem(mem, x)
  BY <1>1, <1>4 DEF CacheOK
<1> QED
  BY <1>1, <1>4, <1>5 DEF CacheOK, u

LEMMA InitMemoryInv == Init => MemoryInv
<1> SUFFICES ASSUME Init PROVE MemoryInv
  OBVIOUS
<1>1. DOMAIN memory = {} /\ IsMemory(memory)
  BY DEF Init, NoWords, IsMemory
<1>2. \A c \in Cores : cache[c] = EmptyCache /\ refills[c] = 0
  BY DEF Init
<1>3. \A c \in Cores : CacheOK(cache[c], memory, refills[c])
  BY <1>2, EmptyCacheOK
<1>4. DOMAIN cache = Cores /\ refills \in [Cores -> Nat]
  BY DEF Init
<1> QED
  BY <1>1, <1>2, <1>3, <1>4 DEF Init, MemoryInv

(* One access of core c: its cache becomes ch, the others stay.            *)
LEMMA AccessKeepsInv ==
  ASSUME MemoryInv, running, NEW c \in Cores, NEW a \in Address, NEW ch,
         CacheOK(ch, memory, Counted(cache[c], a, refills[c])),
         cache' = [cache EXCEPT ![c] = ch],
         CountRefill(c, a),
         last' \in Access,
         UNCHANGED <<memory, running>>
  PROVE  MemoryInv'
<1>1. /\ DOMAIN cache = Cores /\ refills \in [Cores -> Nat]
      /\ \A d \in Cores : CacheOK(cache[d], memory, refills[d])
  BY DEF MemoryInv
<1>2. /\ DOMAIN cache' = Cores /\ cache'[c] = ch
      /\ \A d \in Cores \ {c} : cache'[d] = cache[d]
  BY <1>1
<1>3. /\ refills' \in [Cores -> Nat]
      /\ refills'[c] = Counted(cache[c], a, refills[c])
      /\ \A d \in Cores \ {c} : refills'[d] = refills[d]
  BY <1>1 DEF CountRefill, Counted
<1>4. \A d \in Cores : CacheOK(cache'[d], memory', refills'[d])
  <2> SUFFICES ASSUME NEW d \in Cores PROVE CacheOK(cache'[d], memory, refills'[d])
    OBVIOUS
  <2>1. CASE d = c
    BY <1>2, <1>3, <2>1
  <2>2. CASE d # c
    <3>1. cache'[d] = cache[d] /\ refills'[d] = refills[d]
      BY <1>2, <1>3, <2>2
    <3> QED
      BY <1>1, <3>1
  <2> QED
    BY <2>1, <2>2
<1> QED
  BY <1>2, <1>3, <1>4 DEF MemoryInv, IsMemory, Access

LEMMA NextMemoryInv == MemoryInv /\ [Next]_vars => MemoryInv'
<1> SUFFICES ASSUME MemoryInv, [Next]_vars PROVE MemoryInv'
  OBVIOUS
<1>1. ASSUME NEW a \in Address, NEW w \in Word, Load(a, w) PROVE MemoryInv'
  <2>1. /\ DOMAIN memory' \subseteq {x \in Address : HasCell(x)}
        /\ IsMemory(memory')
    <3>1. CASE HasCell(a)
      <4>1. memory' = [x \in DOMAIN memory \cup {a} |-> IF x = a THEN w ELSE memory[x]]
        BY <1>1, <3>1 DEF Load, WriteMem
      <4> QED
        BY <3>1, <4>1 DEF MemoryInv, IsMemory
    <3>2. CASE ~HasCell(a)
      <4>1. memory' = memory
        BY <1>1, <3>2 DEF Load, WriteMem
      <4> QED
        BY <4>1 DEF MemoryInv, IsMemory
    <3> QED
      BY <3>1, <3>2
  <2>2. /\ ~running /\ running' = running /\ cache' = cache
        /\ refills' = refills /\ last' = last
    BY <1>1 DEF Load
  <2>3. \A c \in Cores : CacheOK(cache[c], memory', refills[c])
    <3> SUFFICES ASSUME NEW c \in Cores PROVE CacheOK(cache[c], memory', refills[c])
      OBVIOUS
    <3>1. cache[c] = EmptyCache /\ refills[c] \in Nat /\ CacheOK(cache[c], memory, refills[c])
      BY <2>2 DEF MemoryInv
    <3>2. DOMAIN cache[c].lines = {}
      BY <3>1 DEF EmptyCache
    <3> QED
      BY <3>1, <3>2 DEF CacheOK
  <2> QED
    BY <2>1, <2>2, <2>3 DEF MemoryInv, Access
<1>2. CASE StartCores
  BY <1>2 DEF StartCores, MemoryInv, IsMemory, Access
<1>3. ASSUME NEW c \in Cores, NEW a \in Address, Read(c, a) PROVE MemoryInv'
  <2>1. /\ CacheOK(cache[c], memory, refills[c]) /\ IsMemory(memory)
        /\ refills[c] \in Nat /\ DOMAIN cache = Cores
    BY DEF MemoryInv
  <2>2. cache' = [cache EXCEPT ![c] = AfterRead(cache[c], memory, a)]
    BY <1>3, <2>1 DEF Read
  <2>3. CacheOK(AfterRead(cache[c], memory, a), memory,
                Counted(cache[c], a, refills[c]))
    BY <2>1, ReadKeepsCache
  <2>4. last' \in Access
    <3>1. ReadValue(cache[c], memory, a) \in Word
      BY <2>1, ReadValueWord DEF CacheOK
    <3> QED
      BY <1>3, <3>1 DEF Read, Access
  <2> QED
    BY <1>3, <2>2, <2>3, <2>4, AccessKeepsInv DEF Read
<1>4. ASSUME NEW c \in Cores, NEW a \in Address, NEW w \in Word, Write(c, a, w)
      PROVE  MemoryInv'
  <2>1. /\ CacheOK(cache[c], memory, refills[c]) /\ IsMemory(memory)
        /\ refills[c] \in Nat /\ DOMAIN cache = Cores
    BY DEF MemoryInv
  <2>2. cache' = [cache EXCEPT ![c] = AfterWrite(cache[c], memory, a, w)]
    BY <1>4, <2>1 DEF Write
  <2>3. CacheOK(AfterWrite(cache[c], memory, a, w), memory,
                Counted(cache[c], a, refills[c]))
    BY <2>1, WriteKeepsCache
  <2>4. last' \in Access
    BY <1>4 DEF Write, Access
  <2> QED
    BY <1>4, <2>2, <2>3, <2>4, AccessKeepsInv DEF Write
<1>5. CASE UNCHANGED vars
  BY <1>5 DEF vars, MemoryInv, IsMemory, Access
<1> QED
  BY <1>1, <1>2, <1>3, <1>4, <1>5 DEF Next

LEMMA MemoryInvHolds == Spec => []MemoryInv
BY InitMemoryInv, NextMemoryInv, PTL DEF Spec

-----------------------------------------------------------------------------
(* Safety.                                                                 *)

(* What memory, caches and accesses hold are words at addresses, for any   *)
(* number of cores (the state of MemoryManager and of every Cache).        *)
THEOREM MemoryTypeCorrect == Spec => []MemoryTypeOK
<1>1. MemoryInv => MemoryTypeOK
  BY DEF MemoryInv, MemoryTypeOK, IsMemory, CacheOK
<1> QED
  BY <1>1, MemoryInvHolds, PTL

(* A line nobody wrote stays a true copy of memory, although a Cache is    *)
(* never refreshed: memory is not written once the cores run.              *)
THEOREM CleanLinesAreMemory == Spec => []CleanIsMemory
<1>1. MemoryInv => CleanIsMemory
  BY DEF MemoryInv, CleanIsMemory, CacheOK
<1> QED
  BY <1>1, MemoryInvHolds, PTL

(* getAddressToReplace always has an address for a full cache, and every   *)
(* line comes to its turn.                                                 *)
THEOREM CachedLinesAreQueued == Spec => []EveryLineIsQueued
<1>1. MemoryInv => EveryLineIsQueued
  BY DEF MemoryInv, EveryLineIsQueued, CacheOK
<1> QED
  BY <1>1, MemoryInvHolds, PTL

(* fifo_queue holds nothing but the lines and the refills.                 *)
THEOREM QueueIsLinesAndRefills == Spec => []QueueHoldsLinesAndRefills
<1>1. MemoryInv => QueueHoldsLinesAndRefills
  BY DEF MemoryInv, QueueHoldsLinesAndRefills, CacheOK
<1> QED
  BY <1>1, MemoryInvHolds, PTL

(* A set whose elements all stand in a queue is no larger than the queue.  *)
LEMMA QueueBoundsSet ==
  ASSUME NEW S, NEW q \in Seq(S), NEW T, T \subseteq Range(q)
  PROVE  Cardinality(T) <= Len(q)
<1>1. q \in [1..Len(q) -> S] /\ Len(q) \in Nat
  OBVIOUS
<1>2. q \in Surjection(1..Len(q), Range(q))
  BY <1>1 DEF Surjection, Range
<1>3. IsFiniteSet(1..Len(q)) /\ Cardinality(1..Len(q)) = Len(q)
  <2> DEFINE n == Len(q)
  <2>1. 1 \in Int /\ n \in Int /\ n \in Nat
    BY <1>1
  <2> HIDE DEF n
  <2>2. /\ IsFiniteSet(1..n)
        /\ Cardinality(1..n) = IF 1 > n THEN 0 ELSE n - 1 + 1
    BY <2>1, FS_Interval
  <2>3. Cardinality(1..n) = n
    BY <2>1, <2>2
  <2> QED
    BY <2>2, <2>3 DEF n
<1>4. IsFiniteSet(Range(q)) /\ Cardinality(Range(q)) <= Len(q)
  BY <1>2, <1>3, FS_Surjection
<1>5. /\ Cardinality(T) <= Cardinality(Range(q)) /\ Cardinality(T) \in Nat
      /\ Cardinality(Range(q)) \in Nat
  BY <1>4, FS_Subset, FS_CardinalityType
<1> QED
  BY <1>1, <1>4, <1>5

(* CACHE_CAPACITY is exceeded by the refills at most.                      *)
THEOREM CapacityIsKept == Spec => []WithinCapacity
<1>1. MemoryInv => WithinCapacity
  <2> SUFFICES ASSUME MemoryInv, NEW c \in Cores
               PROVE  /\ Len(cache[c].fifo) <= Capacity + refills[c]
                      /\ Cardinality(DOMAIN cache[c].lines) <= Capacity + refills[c]
    BY DEF WithinCapacity
  <2>1. /\ IsCache(cache[c])
        /\ DOMAIN cache[c].lines \subseteq Range(cache[c].fifo)
        /\ Len(cache[c].fifo) <= Capacity + refills[c]
        /\ refills[c] \in Nat
    BY DEF MemoryInv, CacheOK
  <2>2. cache[c].fifo \in Seq(Address) /\ IsFiniteSet(DOMAIN cache[c].lines)
    BY <2>1 DEF IsCache
  <2>3. Cardinality(DOMAIN cache[c].lines) <= Len(cache[c].fifo)
    BY <2>1, <2>2, QueueBoundsSet
  <2>4. Cardinality(DOMAIN cache[c].lines) \in Nat /\ Len(cache[c].fifo) \in Nat
    BY <2>2, FS_CardinalityType
  <2> QED
    BY <2>1, <2>3, <2>4, CapacityAssumption
<1> QED
  BY <1>1, MemoryInvHolds, PTL

-----------------------------------------------------------------------------
(* Refinement.                                                             *)

(* The word of ch for a is one that the core wrote.                        *)
Knows(ch, a) == a \in Dirty(ch) /\ ch.lines[a].data # Marker

(* A read that finds no word of the core's own may cost it one, a read     *)
(* that finds one costs nothing, and either returns what is promised.      *)
ReadIsForgetful(ch, mem, a) ==
  /\ ReadValue(ch, mem, a) =
       IF Knows(ch, a) THEN ch.lines[a].data ELSE ReadMem(mem, a)
  /\ Knows(ch, a) => AfterRead(ch, mem, a) = ch
  /\ ~Knows(ch, a) =>
       \E b \in Address :
         Own(AfterRead(ch, mem, a)) = Abstract!Without(Own(ch), {a, b})

(* A write adds its word, at the price of the read before it.              *)
WriteIsForgetful(ch, mem, a, w) ==
  \E b \in IF Knows(ch, a) THEN {a} ELSE Address :
    Own(AfterWrite(ch, mem, a, w)) =
      [x \in (DOMAIN Own(ch) \ {b}) \cup {a} |-> IF x = a THEN w ELSE Own(ch)[x]]

LEMMA ReadForgetsOne ==
  ASSUME NEW mem, IsMemory(mem), NEW k \in Nat,
         NEW ch, CacheOK(ch, mem, k), NEW a \in Address
  PROVE  ReadIsForgetful(ch, mem, a)
<1> DEFINE r == AfterRead(ch, mem, a)
<1>1. IsCache(ch)
  BY DEF CacheOK
<1>2. ASSUME Knows(ch, a) PROVE Hit(ch, a)
  BY <1>2 DEF Knows, Hit, Dirty
<1>3. ASSUME Hit(ch, a), ~Knows(ch, a)
      PROVE  a \notin Dirty(ch) /\ ch.lines[a].data = ReadMem(mem, a)
  BY <1>3 DEF Knows, Hit, Dirty, CacheOK
<1>4. /\ Hit(ch, a) => r = ch
      /\ ~Hit(ch, a) =>
           /\ r.lines[a] = [data |-> ReadMem(mem, a), dirty |-> FALSE]
           /\ \A x \in DOMAIN r.lines \ {a} :
                x \in DOMAIN ch.lines /\ r.lines[x] = ch.lines[x]
           /\ \E b \in Address : DOMAIN r.lines = (DOMAIN ch.lines \ {b}) \cup {a}
  BY <1>1, AfterReadFacts
<1> HIDE DEF r
<1>5. ASSUME ~Knows(ch, a), Hit(ch, a)
      PROVE  Own(r) = Abstract!Without(Own(ch), {a, a})
  BY <1>3, <1>4, <1>5 DEF Own, Abstract!Without
<1>6. ASSUME ~Hit(ch, a), NEW b \in Address,
             DOMAIN r.lines = (DOMAIN ch.lines \ {b}) \cup {a}
      PROVE  Own(r) = Abstract!Without(Own(ch), {a, b})
  <2>1. Dirty(r) = Dirty(ch) \ {a, b}
    BY <1>4, <1>6 DEF Dirty
  <2>2. \A x \in Dirty(r) : r.lines[x].data = ch.lines[x].data
    BY <1>4, <1>6, <2>1 DEF Dirty
  <2> QED
    BY <2>1, <2>2 DEF Own, Abstract!Without
<1>7. ReadValue(ch, mem, a) = IF Knows(ch, a) THEN ch.lines[a].data ELSE ReadMem(mem, a)
  BY <1>2, <1>3 DEF ReadValue
<1> QED
  BY <1>2, <1>4, <1>5, <1>6, <1>7 DEF r, ReadIsForgetful

LEMMA WriteForgetsOne ==
  ASSUME NEW mem, IsMemory(mem), NEW k \in Nat,
         NEW ch, CacheOK(ch, mem, k), NEW a \in Address, NEW w \in Word
  PROVE  WriteIsForgetful(ch, mem, a, w)
<1> DEFINE r == AfterRead(ch, mem, a)
           u == AfterWrite(ch, mem, a, w)
           New(b) == [x \in (DOMAIN Own(ch) \ {b}) \cup {a} |->
                        IF x = a THEN w ELSE Own(ch)[x]]
<1>1. IsCache(r) /\ a \in DOMAIN r.lines
  BY AfterReadFacts DEF CacheOK
<1>2. u = Update(r, a, w)
  BY DEF AfterWrite
<1>3. /\ DOMAIN u.lines = DOMAIN r.lines
      /\ u.lines[a] = [data |-> w, dirty |-> TRUE]
      /\ \A x \in DOMAIN r.lines \ {a} : u.lines[x] = r.lines[x]
  BY <1>1, <1>2, UpdateFacts
<1>4. /\ Knows(ch, a) => r = ch
      /\ ~Knows(ch, a) =>
           \E b \in Address : Own(r) = Abstract!Without(Own(ch), {a, b})
  <2>1. ReadIsForgetful(ch, mem, a)
    BY ReadForgetsOne
  <2> QED
    BY <2>1 DEF ReadIsForgetful
<1> HIDE DEF r, u
<1>5. /\ DOMAIN Own(u) = DOMAIN Own(r) \cup {a}
      /\ \A x \in DOMAIN Own(u) : Own(u)[x] = IF x = a THEN w ELSE Own(r)[x]
  BY <1>1, <1>3 DEF Own, Dirty
<1>6. Own(u) = [x \in DOMAIN Own(r) \cup {a} |-> IF x = a THEN w ELSE Own(r)[x]]
  <2>1. Own(u) = [x \in DOMAIN Own(u) |-> Own(u)[x]]
    BY DEF Own
  <2> QED
    BY <1>5, <2>1
<1>7. ASSUME NEW b \in Address, Own(r) = Abstract!Without(Own(ch), {a, b})
      PROVE  Own(u) = New(b)
  <2>1. /\ DOMAIN Own(r) = DOMAIN Own(ch) \ {a, b}
        /\ \A x \in DOMAIN Own(r) : Own(r)[x] = Own(ch)[x]
    BY <1>7 DEF Abstract!Without
  <2>2. DOMAIN Own(r) \cup {a} = (DOMAIN Own(ch) \ {b}) \cup {a}
    BY <2>1
  <2> QED
    BY <1>6, <2>1, <2>2
<1>8. ASSUME r = ch PROVE Own(u) = New(a)
  <2>1. DOMAIN Own(r) \cup {a} = (DOMAIN Own(ch) \ {a}) \cup {a}
    BY <1>8
  <2> QED
    BY <1>6, <1>8, <2>1
<1> QED
  BY <1>4, <1>7, <1>8 DEF u, WriteIsForgetful

LEMMA InitAbstract == Init => Abstract!Init
<1> SUFFICES ASSUME Init PROVE Abstract!Init
  OBVIOUS
<1>1. \A c \in Cores : cache[c] = EmptyCache
  BY DEF Init
<1>2. Own(EmptyCache) = [a \in {} |-> Marker]
  BY DEF Own, Dirty, EmptyCache
<1>3. OwnWords = [c \in Cores |-> [a \in {} |-> Marker]]
  BY <1>1, <1>2 DEF OwnWords
<1> QED
  BY <1>3 DEF Init, Abstract!Init, NoWords, NoAccess, Cores

(* An access of core c changes the words of that core only.                *)
LEMMA OwnWordsStep ==
  ASSUME MemoryInv, NEW c \in Cores, NEW ch, cache' = [cache EXCEPT ![c] = ch]
  PROVE  OwnWords' = [OwnWords EXCEPT ![c] = Own(ch)]
<1>1. /\ DOMAIN cache = Cores /\ cache'[c] = ch
      /\ \A d \in Cores \ {c} : cache'[d] = cache[d]
  BY DEF MemoryInv
<1>2. OwnWords' = [d \in Cores |-> Own(cache'[d])]
  BY DEF OwnWords, Own, Dirty
<1>3. [OwnWords EXCEPT ![c] = Own(ch)] =
        [d \in Cores |-> IF d = c THEN Own(ch) ELSE Own(cache[d])]
  BY DEF OwnWords
<1> QED
  BY <1>1, <1>2, <1>3

LEMMA NextAbstract == MemoryInv /\ [Next]_vars => [Abstract!Next]_(Abstract!absVars)
<1> SUFFICES ASSUME MemoryInv, [Next]_vars
             PROVE  Abstract!Next \/ UNCHANGED Abstract!absVars
  BY DEF Abstract!absVars
<1>1. ASSUME cache' = cache PROVE OwnWords' = OwnWords
  BY <1>1 DEF OwnWords, Own, Dirty
<1>2. ASSUME NEW a \in Address, NEW w \in Word, Load(a, w)
      PROVE  Abstract!Load(a, w)
  BY <1>1, <1>2 DEF Load, WriteMem, HasCell, Abstract!Load, Abstract!HasCell
<1>3. ASSUME StartCores PROVE Abstract!StartCores
  BY <1>1, <1>3 DEF StartCores, Abstract!StartCores
<1>4. ASSUME NEW c \in Cores
      PROVE  /\ OwnWords[c] = Own(cache[c])
             /\ \A a : /\ Abstract!Known(c, a) <=> Knows(cache[c], a)
                       /\ Knows(cache[c], a) => OwnWords[c][a] = cache[c].lines[a].data
  <2>1. OwnWords[c] = Own(cache[c])
    BY DEF OwnWords
  <2> QED
    BY <2>1 DEF Own, Abstract!Known, Knows
<1>5. ASSUME NEW a PROVE Abstract!Stored(a) = ReadMem(memory, a)
  BY DEF Abstract!Stored, ReadMem
<1>6. ASSUME NEW c \in Cores, NEW a \in Address, Read(c, a)
      PROVE  Abstract!Read(c, a)
  <2> DEFINE ch == cache[c]
  <2>1. /\ CacheOK(ch, memory, refills[c]) /\ IsMemory(memory)
        /\ refills[c] \in Nat /\ DOMAIN cache = Cores
    BY DEF MemoryInv
  <2>2. cache' = [cache EXCEPT ![c] = AfterRead(ch, memory, a)]
    BY <1>6, <2>1 DEF Read
  <2>3. OwnWords' = [OwnWords EXCEPT ![c] = Own(AfterRead(ch, memory, a))]
    BY <2>2, OwnWordsStep
  <2>4. /\ ReadValue(ch, memory, a) =
             IF Knows(ch, a) THEN ch.lines[a].data ELSE ReadMem(memory, a)
        /\ Knows(ch, a) => AfterRead(ch, memory, a) = ch
        /\ ~Knows(ch, a) =>
             \E b \in Address :
               Own(AfterRead(ch, memory, a)) = Abstract!Without(Own(ch), {a, b})
    <3>1. ReadIsForgetful(ch, memory, a)
      BY <2>1, ReadForgetsOne
    <3> QED
      BY <3>1 DEF ReadIsForgetful
  <2>5. last' = [op |-> "read", core |-> c, address |-> a,
                 word |-> IF Abstract!Known(c, a) THEN OwnWords[c][a]
                                                  ELSE Abstract!Stored(a)]
    <3>1. last' = [op |-> "read", core |-> c, address |-> a,
                   word |-> ReadValue(ch, memory, a)]
      BY <1>6 DEF Read
    <3> QED
      BY <3>1, <1>4, <1>5, <2>4
  <2>6. CASE Knows(ch, a)
    <3>1. OwnWords' = OwnWords
      <4>1. OwnWords' = [OwnWords EXCEPT ![c] = OwnWords[c]]
        BY <1>4, <2>3, <2>4, <2>6
      <4> QED
        BY <4>1 DEF OwnWords
    <3> QED
      BY <1>4, <1>6, <2>5, <2>6, <3>1 DEF Read, Abstract!Read
  <2>7. CASE ~Knows(ch, a)
    <3>1. PICK b \in Address :
            Own(AfterRead(ch, memory, a)) = Abstract!Without(Own(ch), {a, b})
      BY <2>4, <2>7
    <3>2. OwnWords' = [OwnWords EXCEPT ![c] = Abstract!Without(OwnWords[c], {a, b})]
      BY <1>4, <2>3, <3>1
    <3> QED
      BY <1>4, <1>6, <2>5, <2>7, <3>2 DEF Read, Abstract!Read
  <2> QED
    BY <2>6, <2>7
<1>7. ASSUME NEW c \in Cores, NEW a \in Address, NEW w \in Word, Write(c, a, w)
      PROVE  Abstract!Write(c, a, w)
  <2> DEFINE ch == cache[c]
  <2>1. /\ CacheOK(ch, memory, refills[c]) /\ IsMemory(memory)
        /\ refills[c] \in Nat /\ DOMAIN cache = Cores
    BY DEF MemoryInv
  <2>2. cache' = [cache EXCEPT ![c] = AfterWrite(ch, memory, a, w)]
    BY <1>7, <2>1 DEF Write
  <2>3. OwnWords' = [OwnWords EXCEPT ![c] = Own(AfterWrite(ch, memory, a, w))]
    BY <2>2, OwnWordsStep
  <2>4. PICK b \in IF Knows(ch, a) THEN {a} ELSE Address :
          Own(AfterWrite(ch, memory, a, w)) =
            [x \in (DOMAIN Own(ch) \ {b}) \cup {a} |-> IF x = a THEN w ELSE Own(ch)[x]]
    <3>1. WriteIsForgetful(ch, memory, a, w)
      BY <2>1, WriteForgetsOne
    <3> QED
      BY <3>1 DEF WriteIsForgetful
  <2>5. OwnWords' = [OwnWords EXCEPT ![c] =
          [x \in (DOMAIN OwnWords[c] \ {b}) \cup {a} |-> IF x = a THEN w ELSE OwnWords[c][x]]]
    BY <1>4, <2>3, <2>4
  <2>6. b \in IF Abstract!Known(c, a) THEN {a} ELSE Address
    BY <1>4, <2>4
  <2> QED
    BY <1>7, <2>5, <2>6 DEF Write, Abstract!Write
<1>8. CASE UNCHANGED vars
  BY <1>1, <1>8 DEF vars, Abstract!absVars
<1> QED
  BY <1>2, <1>3, <1>6, <1>7, <1>8 DEF Next, Abstract!Next, Cores

(* Above the caches, MemoryManager is a store in which a core sees its own *)
(* writes until its cache drops them.                                      *)
THEOREM MemoryImplementsForgetfulMemory == Spec => ImplementsForgetfulMemory
BY InitAbstract, NextAbstract, MemoryInvHolds, PTL
   DEF Spec, ImplementsForgetfulMemory, Abstract!Spec
=============================================================================
