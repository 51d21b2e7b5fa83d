------------------------------- MODULE Memory -------------------------------
(***************************************************************************)
(* The memory manager (src/memory/MemoryManager.cpp) shared by the cores,  *)
(* each with its own L1 cache.  The main thread, which has no cache, loads *)
(* the programs before the first dispatch; from then on every access comes *)
(* from the thread of a core, goes through that core's cache, and reads    *)
(* the shared memory under a shared lock without ever writing it.  Since   *)
(* memory does not change any more, one access is one step.                *)
(***************************************************************************)
EXTENDS L1Cache

CONSTANTS
  NumCores,   (* the --cores option                                        *)
  MaxRefills  (* bound: refills (below) of one cache                       *)

ASSUME CoresAssumption == NumCores \in Nat \ {0}
ASSUME BoundAssumption == MaxRefills \in Nat

Cores == 1..NumCores

VARIABLES
  memory,     (* the words of mainMemory and secondaryMemory               *)
  running,    (* the programs are loaded and cores run                     *)
  cache,      (* the L1 cache of each core                                 *)
  refills,    (* history: puts so far of an address the map still had      *)
  last        (* the last access, with the word it returned or wrote       *)

vars == <<memory, running, cache, refills, last>>

Access == [op: {"read", "write"}, core: Cores, address: Address, word: Word]

NoAccess == [op |-> "none", core |-> 0, address |-> 0, word |-> Marker]

MemoryTypeOK ==
  /\ DOMAIN memory \subseteq {a \in Address : HasCell(a)}
  /\ memory \in [DOMAIN memory -> Word]
  /\ running \in BOOLEAN
  /\ DOMAIN cache = Cores /\ \A c \in Cores : IsCache(cache[c])
  /\ refills \in [Cores -> Nat]
  /\ last \in Access \cup {NoAccess}

Init ==
  /\ memory = NoWords
  /\ running = FALSE
  /\ cache = [c \in Cores |-> EmptyCache]
  /\ refills = [c \in Cores |-> 0]
  /\ last = NoAccess

-----------------------------------------------------------------------------
(* The main thread: write() without a thread cache, and the first dispatch.*)

Load(a, w) ==
  /\ ~running
  /\ memory' = WriteMem(memory, a, w)
  /\ UNCHANGED <<running, cache, refills, last>>

StartCores ==
  /\ ~running
  /\ running' = TRUE
  /\ UNCHANGED <<memory, cache, refills, last>>

(* The thread of core c.                                                   *)

Bounded(c, a) == Refills(cache[c], a) => refills[c] < MaxRefills

CountRefill(c, a) ==
  refills' = [refills EXCEPT ![c] = IF Refills(cache[c], a) THEN @ + 1 ELSE @]

Read(c, a) ==
  /\ running /\ Bounded(c, a)
  /\ cache' = [cache EXCEPT ![c] = AfterRead(@, memory, a)]
  /\ CountRefill(c, a)
  /\ last' = [op |-> "read", core |-> c, address |-> a,
              word |-> ReadValue(cache[c], memory, a)]
  /\ UNCHANGED <<memory, running>>

Write(c, a, w) ==
  /\ running /\ Bounded(c, a)
  /\ cache' = [cache EXCEPT ![c] = AfterWrite(@, memory, a, w)]
  /\ CountRefill(c, a)
  /\ last' = [op |-> "write", core |-> c, address |-> a, word |-> w]
  /\ UNCHANGED <<memory, running>>

Next ==
  \/ \E a \in Address, w \in Word : Load(a, w)
  \/ StartCores
  \/ \E c \in Cores, a \in Address : Read(c, a)
  \/ \E c \in Cores, a \in Address, w \in Word : Write(c, a, w)

Spec == Init /\ [][Next]_vars

-----------------------------------------------------------------------------
(* Safety.                                                                 *)

(* A line that was not written is a true copy of memory for as long as it  *)
(* stays, although nobody invalidates or refreshes it.                     *)
CleanIsMemory ==
  \A c \in Cores : \A a \in DOMAIN cache[c].lines :
    ~cache[c].lines[a].dirty => cache[c].lines[a].data = ReadMem(memory, a)

(* Every cached address waits in the queue, whatever duplicates and stale  *)
(* entries it has collected: a full cache always finds something to pop,   *)
(* and no line can stay for ever.                                          *)
EveryLineIsQueued ==
  \A c \in Cores : DOMAIN cache[c].lines \subseteq Range(cache[c].fifo)

(* A read of a word equal to the marker misses its own line and queues its *)
(* address again.  That is the only way the queue can hold more than the   *)
(* lines, and each such read costs at most one entry of the queue and one  *)
(* line above CACHE_CAPACITY, which put does not enforce.                  *)
QueueHoldsLinesAndRefills ==
  \A c \in Cores :
    Len(cache[c].fifo) <= Cardinality(DOMAIN cache[c].lines) + refills[c]

WithinCapacity ==
  \A c \in Cores :
    /\ Len(cache[c].fifo) <= Capacity + refills[c]
    /\ Cardinality(DOMAIN cache[c].lines) <= Capacity + refills[c]

-----------------------------------------------------------------------------
(* What the hierarchy promises a core: ForgetfulMemory, in which a core    *)
(* has the words it wrote itself as long as its dirty lines stay.          *)

Dirty(ch) == {a \in DOMAIN ch.lines : ch.lines[a].dirty}

Own(ch) == [a \in Dirty(ch) |-> ch.lines[a].data]

OwnWords == [c \in Cores |-> Own(cache[c])]

Abstract == INSTANCE ForgetfulMemory WITH own <- OwnWords

ImplementsForgetfulMemory == Abstract!Spec
=============================================================================
