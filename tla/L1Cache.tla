------------------------------ MODULE L1Cache ------------------------------
(***************************************************************************)
(* The memory hierarchy as values and operators: the words stored in main  *)
(* and secondary memory (src/memory/MAIN_MEMORY.cpp, SECONDARY_MEMORY.cpp),*)
(* the private L1 cache of a core (cache.cpp) and what one read or write   *)
(* of MemoryManager.cpp makes of it.  Module Memory adds the variables and *)
(* the actions; Machine uses the same operators below its instructions.    *)
(***************************************************************************)
EXTENDS Integers, Sequences, FiniteSets, Functions

CONSTANTS
  Address,    (* the addresses programs use                                *)
  Word,       (* what a memory cell can hold                               *)
  Marker,     (* MEMORY_ACCESS_ERROR and CACHE_MISS: both are UINT32_MAX   *)
  Capacity,   (* CACHE_CAPACITY                                            *)
  MainLimit,  (* mainMemoryLimit: the size main.cpp asks for               *)
  MainSize,   (* the size MAIN_MEMORY grants, MAX_MEMORY_SIZE at most      *)
  DiskSize    (* the size of SECONDARY_MEMORY                              *)

ASSUME AddressAssumption  == Address \subseteq Nat
ASSUME WordAssumption     == Marker \in Word
ASSUME CapacityAssumption == Capacity \in Nat \ {0}
ASSUME SizeAssumption     == MainLimit \in Nat /\ MainSize \in Nat /\ DiskSize \in Nat

-----------------------------------------------------------------------------
(* Main and secondary memory.  A value mem is a function on the cells that *)
(* were written; the vectors are filled with the marker at first.          *)

NoWords == [a \in {} |-> Marker]

(* The address is split at MainLimit; each half checks its own size.       *)
HasCell(a) == IF a < MainLimit THEN a < MainSize ELSE a - MainLimit < DiskSize

(* ReadMem of either memory.                                               *)
ReadMem(mem, a) == IF a \in DOMAIN mem THEN mem[a] ELSE Marker

(* Mutant: the size of the memory is not checked.                          *)
WriteMemUnchecked(mem, a, w) ==
  [x \in DOMAIN mem \cup {a} |-> IF x = a THEN w ELSE mem[x]]

(* WriteMem of either memory: a write outside of it is dropped.            *)
WriteMem(mem, a, w) ==
  IF HasCell(a)
  THEN [x \in DOMAIN mem \cup {a} |-> IF x = a THEN w ELSE mem[x]]
  ELSE mem

-----------------------------------------------------------------------------
(* One cache: cacheMap and fifo_queue.  isValid is left out: it is cleared *)
(* by invalidate() only, which nothing calls.                              *)

Line == [data: Word, dirty: BOOLEAN]

EmptyCache == [lines |-> [a \in {} |-> [data |-> Marker, dirty |-> FALSE]],
               fifo  |-> <<>>]

IsCache(ch) ==
  /\ ch = [lines |-> ch.lines, fifo |-> ch.fifo]
  /\ DOMAIN ch.lines \subseteq Address
  /\ ch.lines \in [DOMAIN ch.lines -> Line]
  /\ IsFiniteSet(DOMAIN ch.lines)
  /\ ch.fifo \in Seq(Address)

(* get() answers the word, and a word that is the marker looks like a miss.*)
Hit(ch, a) == a \in DOMAIN ch.lines /\ ch.lines[a].data # Marker

Full(ch) == Cardinality(DOMAIN ch.lines) >= Capacity

(* Mutant: the victim is erased from the map and stays in the queue.       *)
EvictUnpopped(ch) ==
  IF Full(ch) /\ ch.fifo # <<>>
  THEN [ch EXCEPT !.lines = Restrict(@, DOMAIN @ \ {Head(ch.fifo)})]
  ELSE ch

(* Mutant: a full cache is noticed one line too late.                      *)
EvictOffByOne(ch) ==
  IF Cardinality(DOMAIN ch.lines) > Capacity /\ ch.fifo # <<>>
  THEN [lines |-> Restrict(ch.lines, DOMAIN ch.lines \ {Head(ch.fifo)}),
        fifo  |-> Tail(ch.fifo)]
  ELSE ch

(* Mutant: the queue is popped at the wrong end.                           *)
EvictPopsNewest(ch) ==
  IF Full(ch) /\ ch.fifo # <<>>
  THEN [lines |-> Restrict(ch.lines, DOMAIN ch.lines \ {Head(ch.fifo)}),
        fifo  |-> SubSeq(ch.fifo, 1, Len(ch.fifo) - 1)]
  ELSE ch

(* A full cache gives up the address at the head of the queue, dirty or    *)
(* not, and whether or not it still holds a line for it.                   *)
Evict(ch) ==
  IF Full(ch) /\ ch.fifo # <<>>
  THEN [lines |-> Restrict(ch.lines, DOMAIN ch.lines \ {Head(ch.fifo)}),
        fifo  |-> Tail(ch.fifo)]
  ELSE ch

(* A clean line, and always one more entry of the queue.                   *)
Insert(ch, a, w) ==
  [lines |-> [x \in DOMAIN ch.lines \cup {a} |->
                IF x = a THEN [data |-> w, dirty |-> FALSE] ELSE ch.lines[x]],
   fifo  |-> Append(ch.fifo, a)]

Put(ch, a, w) == Insert(Evict(ch), a, w)

(* Mutant: the line is not marked dirty.                                   *)
UpdateClean(ch, a, w) ==
  IF a \in DOMAIN ch.lines
  THEN [ch EXCEPT !.lines[a] = [data |-> w, dirty |-> FALSE]]
  ELSE ch

Update(ch, a, w) ==
  IF a \in DOMAIN ch.lines
  THEN [ch EXCEPT !.lines[a] = [data |-> w, dirty |-> TRUE]]
  ELSE ch

-----------------------------------------------------------------------------
(* MemoryManager::read and write in a thread that has a cache.             *)

ReadValue(ch, mem, a) == IF Hit(ch, a) THEN ch.lines[a].data ELSE ReadMem(mem, a)

AfterRead(ch, mem, a) == IF Hit(ch, a) THEN ch ELSE Put(ch, a, ReadMem(mem, a))

(* Mutant: a miss does not allocate, as README.md describes it.            *)
AfterWriteNoAllocate(ch, mem, a, w) == Update(ch, a, w)

(* Write-allocate, and nothing is passed on to memory.                     *)
AfterWrite(ch, mem, a, w) == Update(AfterRead(ch, mem, a), a, w)

(* The access puts an address that the map still has: the queue holds it   *)
(* twice from now on.                                                      *)
Refills(ch, a) == a \in DOMAIN ch.lines /\ ~Hit(ch, a)
=============================================================================
