-------------------------- MODULE ForgetfulMemory --------------------------
(***************************************************************************)
(* What a program may rely on when its core reads and writes memory        *)
(* (MemoryManager::read and write), with no caches in sight: a store       *)
(* loaded once and never written again, and for each core a set of words   *)
(* it wrote itself.  An access may make the core forget one word it wrote  *)
(* to another address, unless it finds a word of its own.  No core ever    *)
(* sees a word of another core, an older word of its own, or a word of     *)
(* another address.                                                        *)
(***************************************************************************)
EXTENDS Integers

CONSTANTS Address, Word, Marker, MainLimit, MainSize, DiskSize, NumCores

VARIABLES memory, running, own, last

absVars == <<memory, running, own, last>>

HasCell(a) == IF a < MainLimit THEN a < MainSize ELSE a - MainLimit < DiskSize

Stored(a) == IF a \in DOMAIN memory THEN memory[a] ELSE Marker

Init ==
  /\ memory = [a \in {} |-> Marker]
  /\ running = FALSE
  /\ own = [c \in 1..NumCores |-> [a \in {} |-> Marker]]
  /\ last = [op |-> "none", core |-> 0, address |-> 0, word |-> Marker]

Load(a, w) ==
  /\ ~running
  /\ memory' = IF HasCell(a)
               THEN [x \in DOMAIN memory \cup {a} |-> IF x = a THEN w ELSE memory[x]]
               ELSE memory
  /\ UNCHANGED <<running, own, last>>

StartCores ==
  /\ ~running
  /\ running' = TRUE
  /\ UNCHANGED <<memory, own, last>>

(* f without the addresses in F.                                           *)
Without(f, F) == [a \in DOMAIN f \ F |-> f[a]]

(* The word a core wrote to the address it reads is forgotten only if it   *)
(* is the marker.                                                          *)
Known(c, a) == a \in DOMAIN own[c] /\ own[c][a] # Marker

Read(c, a) ==
  /\ running
  /\ last' = [op |-> "read", core |-> c, address |-> a,
              word |-> IF Known(c, a) THEN own[c][a] ELSE Stored(a)]
  /\ IF Known(c, a)
     THEN UNCHANGED own
     ELSE \E b \in Address : own' = [own EXCEPT ![c] = Without(@, {a, b})]
  /\ UNCHANGED <<memory, running>>

Write(c, a, w) ==
  /\ running
  /\ \E b \in IF Known(c, a) THEN {a} ELSE Address :
       own' = [own EXCEPT ![c] =
                 [x \in (DOMAIN @ \ {b}) \cup {a} |-> IF x = a THEN w ELSE @[x]]]
  /\ last' = [op |-> "write", core |-> c, address |-> a, word |-> w]
  /\ UNCHANGED <<memory, running>>

Next ==
  \/ \E a \in Address, w \in Word : Load(a, w)
  \/ StartCores
  \/ \E c \in 1..NumCores, a \in Address : Read(c, a)
  \/ \E c \in 1..NumCores, a \in Address, w \in Word : Write(c, a, w)

Spec == Init /\ [][Next]_absVars
=============================================================================
