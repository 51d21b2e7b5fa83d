------------------------------ MODULE Machine ------------------------------
(***************************************************************************)
(* The von Neumann machine: main.cpp loads the programs into one memory,   *)
(* and the cores run them, each through its own L1 cache: Control_Unit's   *)
(* Fetch, Decode, Execute, Memory_Acess and Write_Back, called in that     *)
(* order by Core::run_process.  Which ready process goes to which idle     *)
(* core is left open, so the module covers all four schedulers.  Memory is *)
(* not written once the cores run and a cache is used by one thread at a   *)
(* time, so one instruction is one step.                                   *)
(***************************************************************************)
EXTENDS L1Cache, ProgramMeaning

CONSTANTS
  NumCores,    (* the --cores option                                       *)
  Quantum,     (* PCB.quantum, the same for every process                  *)
  Stride,      (* distance of two programs in memory, 1024 in the code     *)
  Scenarios,   (* bound: the lists of program files main.cpp is given      *)
  MaxProcs,    (* bound: the length of these lists                         *)
  MaxSteps     (* bound: the instructions a program executes               *)

ASSUME CoresAssumption   == NumCores \in Nat \ {0} /\ Quantum \in Nat \ {0}
ASSUME StrideAssumption  == Stride \in Nat /\ MaxProcs \in Nat /\ MaxSteps \in Nat

(* Registers and memory cells are uint32_t, and UINT32_MAX is the marker.  *)
ASSUME Word32Assumption == Word = 0..AllOnes /\ Marker = AllOnes

(* Program files: at least one instruction, and data words that exist.     *)
ASSUME ProgramAssumption ==
  \A s \in Scenarios :
    /\ s \in Seq([data: Seq(0..AllOnes), code: Seq(Instruction)])
    /\ Len(s) <= MaxProcs
    /\ \A p \in DOMAIN s :
         /\ s[p].code # <<>>
         /\ \A i \in Range(s[p].code) :
              i.via = "data" =>
                {i.imm, DataIndex(i)} \subseteq 0..(Len(s[p].data) - 1)

(* Where a program counter can point: one past an image, a jump's target.  *)
ASSUME ReachAssumption ==
  /\ 0..(TargetSize + 3) \subseteq Address
  /\ \A s \in Scenarios : \A p \in DOMAIN s :
       0..((p - 1) * Stride + 4 * (Len(s[p].data) + Len(s[p].code) + 1)) \subseteq Address

Cores == 1..NumCores

VARIABLES
  programs,   (* the program files                                         *)
  alias,      (* which name of opcode 8 the reverse look-up finds first    *)
  loaded,     (* how many programs are in memory                           *)
  memory,     (* the words of mainMemory and secondaryMemory               *)
  cache,      (* the L1 cache of each core                                 *)
  status,     (* PCB.state                                                 *)
  on,         (* the core of a running process, or the one it left last    *)
  cycles,     (* cycles_in_quantum                                         *)
  pc, regs,   (* PCB.regBank: the program counter, the other registers     *)
  ranOn,      (* history: the cores a process has been on                  *)
  touched     (* history: the addresses a core has accessed                *)

fixed == <<programs, alias>>

burst == <<status, on, cycles, ranOn>>

vars == <<programs, alias, loaded, memory, cache, status, on, cycles, pc, regs,
          ranOn, touched>>

Procs == DOMAIN programs

-----------------------------------------------------------------------------
(* The image of a program: its data and then its instructions.             *)

(* Mutant: a program begins on the last word of the one before.            *)
BaseOverlaps(p) == IF p = 1 THEN 0 ELSE (p - 1) * Stride - 16

Base(p) == (p - 1) * Stride

NumData(p) == Len(programs[p].data)

ImageSize(p) == NumData(p) + Len(programs[p].code)

(* Word number k (from 0) of the image.                                    *)
ImageWord(p, k) ==
  IF k < NumData(p)
  THEN programs[p].data[k + 1]
  ELSE LET n == k - NumData(p) IN Encode(programs[p].code[n + 1], n, Base(p))

DataAddresses(p)  == {Base(p) + 4 * k : k \in 0..(NumData(p) - 1)}
CodeAddresses(p)  == {Base(p) + 4 * k : k \in NumData(p)..(ImageSize(p) - 1)}
ImageAddresses(p) == {Base(p) + 4 * k : k \in 0..(ImageSize(p) - 1)}

Image(p) ==
  [a \in ImageAddresses(p) |-> ImageWord(p, (a - Base(p)) \div 4)]

ProgramEnd(p) == Base(p) + 4 * ImageSize(p)

-----------------------------------------------------------------------------

Init ==
  /\ programs \in Scenarios
  /\ alias \in Aliases
  /\ loaded = 0
  /\ memory = NoWords
  /\ cache = [c \in Cores |-> EmptyCache]
  /\ status = [p \in Procs |-> "Ready"]
  /\ on = [p \in Procs |-> 1]
  /\ cycles = [p \in Procs |-> 0]
  /\ pc = [p \in Procs |-> 0]
  /\ regs = [p \in Procs |-> [r \in Registers |-> 0]]
  /\ ranOn = [p \in Procs |-> {}]
  /\ touched = [c \in Cores |-> {}]

(* loadJsonProgram: the program counter starts at the data section.        *)
Load(p) ==
  /\ loaded = p - 1
  /\ loaded' = p
  /\ memory' =
       LET cells == {a \in ImageAddresses(p) : HasCell(a)}
       IN  [a \in DOMAIN memory \cup cells |->
              IF a \in cells THEN Image(p)[a] ELSE memory[a]]
  /\ pc' = [pc EXCEPT ![p] = Base(p)]
  /\ UNCHANGED <<fixed, cache, burst, regs, touched>>

(* A scheduler gives a ready process to a core that has none.              *)
Dispatch(p, c) ==
  /\ loaded = Len(programs)
  /\ status[p] = "Ready"
  /\ \A q \in Procs : status[q] = "Running" => on[q] # c
  /\ status' = [status EXCEPT ![p] = "Running"]
  /\ on' = [on EXCEPT ![p] = c]
  /\ cycles' = [cycles EXCEPT ![p] = 0]
  /\ ranOn' = [ranOn EXCEPT ![p] = @ \cup {c}]
  /\ UNCHANGED <<fixed, loaded, memory, cache, pc, regs, touched>>

(* The I/O manager has served the PRINT and the scheduler has noticed.     *)
Unblock(p) ==
  /\ status[p] = "Blocked"
  /\ status' = [status EXCEPT ![p] = "Ready"]
  /\ UNCHANGED <<fixed, loaded, memory, cache, on, cycles, pc, regs, ranOn, touched>>

-----------------------------------------------------------------------------
(* One turn of the loop of run_process.                                    *)

InLoop(p) == status[p] = "Running" /\ cycles[p] < Quantum

Preempt(p) ==
  /\ status[p] = "Running" /\ cycles[p] >= Quantum
  /\ status' = [status EXCEPT ![p] = "Ready"]
  /\ UNCHANGED <<fixed, loaded, memory, cache, on, cycles, pc, regs, ranOn, touched>>

(* The word that Fetch reads, and the cache after it.                      *)
Fetched(p)    == ReadValue(cache[on[p]], memory, pc[p])
AfterFetch(p) == AfterRead(cache[on[p]], memory, pc[p])

(* Mutant: so is the one before it.                                        *)
PastEndTooEarly(p) == pc[p] + 8 >= ProgramEnd(p)

(* The counter is compared after the increment: the last instruction of a  *)
(* program is fetched and not executed.                                    *)
PastEnd(p) == pc[p] + 4 >= ProgramEnd(p)

(* The core leaves cache ch behind and has accessed the addresses of S.    *)
UseCache(p, ch, S) ==
  /\ cache' = [cache EXCEPT ![on[p]] = ch]
  /\ touched' = [touched EXCEPT ![on[p]] = @ \cup {pc[p]} \cup S]

(* Mutant: the loop does not notice that Fetch has met END.                *)
EndUnnoticed(p) ==
  /\ InLoop(p)
  /\ Fetched(p) = EndWord \/ PastEnd(p)
  /\ IF Fetched(p) = EndWord
     THEN cycles' = [cycles EXCEPT ![p] = @ + 1] /\ UNCHANGED <<status, pc>>
     ELSE /\ status' = [status EXCEPT ![p] = "Finished"]
          /\ pc' = [pc EXCEPT ![p] = @ + 4]
          /\ UNCHANGED cycles
  /\ UseCache(p, AfterFetch(p), {})
  /\ UNCHANGED <<fixed, loaded, memory, on, regs, ranOn>>

(* Fetch sets endProgram.                                                  *)
End(p) ==
  /\ InLoop(p)
  /\ Fetched(p) = EndWord \/ PastEnd(p)
  /\ status' = [status EXCEPT ![p] = "Finished"]
  /\ pc' = [pc EXCEPT ![p] = IF Fetched(p) = EndWord THEN @ ELSE @ + 4]
  /\ UseCache(p, AfterFetch(p), {})
  /\ UNCHANGED <<fixed, loaded, memory, on, cycles, regs, ranOn>>

(* The other instructions, by the name that Decode finds.                  *)
Decoded(p) == Name(Fetched(p), alias)

Executes(p, names) ==
  /\ InLoop(p)
  /\ Fetched(p) # EndWord /\ ~PastEnd(p)
  /\ Decoded(p) \in names
  /\ cycles' = [cycles EXCEPT ![p] = @ + 1]
  /\ UNCHANGED <<fixed, loaded, memory, on, ranOn>>

Advance(p) == pc' = [pc EXCEPT ![p] = @ + 4]

(* writeRegister: nothing is written to $zero.                             *)
SetRegister(p, r, w) ==
  regs' = IF r = Zero THEN regs ELSE [regs EXCEPT ![p][r] = w]

Arithmetic(p) ==
  LET w == Fetched(p)
  IN  /\ Executes(p, {"add", "sub", "mult", "div"})
      /\ SetRegister(p, Rd(w), Alu(Decoded(p), regs[p][Rs(w)], regs[p][Rt(w)]))
      /\ Advance(p)
      /\ UseCache(p, AfterFetch(p), {})
      /\ UNCHANGED status

AddImmediate(p) ==
  LET w == Fetched(p)
  IN  /\ Executes(p, {"addi"})
      /\ SetRegister(p, Rt(w), Alu("add", regs[p][Rs(w)], Extended(w)))
      /\ Advance(p)
      /\ UseCache(p, AfterFetch(p), {})
      /\ UNCHANGED status

SetOnLess(p) ==
  LET w == Fetched(p)
  IN  /\ Executes(p, {"slti"})
      /\ SetRegister(p, Rt(w),
           IF Taken("blt", regs[p][Rs(w)], Extended(w)) THEN 1 ELSE 0)
      /\ Advance(p)
      /\ UseCache(p, AfterFetch(p), {})
      /\ UNCHANGED status

(* Execute writes the signed immediate, and Memory_Acess the unsigned one  *)
(* over it.                                                                *)
LoadImmediate(p) ==
  /\ Executes(p, {"li"})
  /\ SetRegister(p, Rt(Fetched(p)), Imm(Fetched(p)))
  /\ Advance(p)
  /\ UseCache(p, AfterFetch(p), {})
  /\ UNCHANGED status

(* The address is the immediate; the base register is not read.            *)
LoadWord(p) ==
  LET w == Fetched(p)
  IN  /\ Executes(p, {"lw"})
      /\ SetRegister(p, Rt(w), ReadValue(AfterFetch(p), memory, Imm(w)))
      /\ Advance(p)
      /\ UseCache(p, AfterRead(AfterFetch(p), memory, Imm(w)), {Imm(w)})
      /\ UNCHANGED status

StoreWord(p) ==
  LET w == Fetched(p)
  IN  /\ Executes(p, {"sw"})
      /\ Advance(p)
      /\ UseCache(p, AfterWrite(AfterFetch(p), memory, Imm(w), regs[p][Rt(w)]), {Imm(w)})
      /\ UNCHANGED <<status, regs>>

(* A taken branch goes to the address in its immediate, a jump to the one  *)
(* in its target, and both read the word there into the IR.                *)
Branch(p) ==
  LET w  == Fetched(p)
      to == IF Decoded(p) = "j" THEN Target(w) ELSE Imm(w)
  IN  /\ Executes(p, Branches \cup {"j"})
      /\ IF Taken(Decoded(p), regs[p][Rs(w)], regs[p][Rt(w)])
         THEN /\ pc' = [pc EXCEPT ![p] = to]
              /\ UseCache(p, AfterRead(AfterFetch(p), memory, to), {to})
         ELSE Advance(p) /\ UseCache(p, AfterFetch(p), {})
      /\ UNCHANGED <<status, regs>>

(* A request for the I/O manager, and the burst ends.                      *)
PrintRequest(p) ==
  /\ Executes(p, {"print"})
  /\ status' = [status EXCEPT ![p] = "Blocked"]
  /\ Advance(p)
  /\ UseCache(p, AfterFetch(p), {})
  /\ UNCHANGED regs

(* Names in the table that nobody executes.  END is one of them when the   *)
(* rest of the word is not zero.                                           *)
Unexecuted == {"and", "or", "jr", "andi", "ori", "jal", "end"}

(* Words without a name, such as data, are not executed either.            *)
Ignore(p) ==
  /\ Executes(p, Unexecuted \cup {""})
  /\ Advance(p)
  /\ UseCache(p, AfterFetch(p), {})
  /\ UNCHANGED <<status, regs>>

RunProcess(p) ==
  \/ Preempt(p) \/ End(p) \/ Arithmetic(p) \/ AddImmediate(p) \/ SetOnLess(p)
  \/ LoadImmediate(p) \/ LoadWord(p) \/ StoreWord(p) \/ Branch(p) \/ PrintRequest(p)
  \/ Ignore(p)

AllFinished == \A p \in Procs : status[p] = "Finished"

(* main.cpp returns.                                                       *)
Done == AllFinished /\ UNCHANGED vars

Next ==
  \/ \E p \in Procs : Load(p) \/ RunProcess(p) \/ Unblock(p)
  \/ \E p \in Procs, c \in Cores : Dispatch(p, c)
  \/ Done

Spec == Init /\ [][Next]_vars

(* The thread of a core goes on, and the queues let no ready process wait  *)
(* for ever, however often another one gets the core first.  Nothing is    *)
(* said of a blocked one: RoundRobinScheduler.cpp:106-113 may forget it.   *)
FairSpec ==
  /\ Spec
  /\ \A p \in 1..MaxProcs :
       /\ WF_vars(p \in Procs /\ (Load(p) \/ RunProcess(p)))
       /\ SF_vars(p \in Procs /\ \E c \in Cores : Dispatch(p, c))

-----------------------------------------------------------------------------
(* Safety.                                                                 *)

MachineTypeOK ==
  /\ programs \in Scenarios /\ alias \in Aliases /\ loaded \in 0..Len(programs)
  /\ DOMAIN memory \subseteq Address /\ memory \in [DOMAIN memory -> Word]
  /\ DOMAIN cache = Cores /\ \A c \in Cores : IsCache(cache[c])
  /\ status \in [Procs -> {"Ready", "Running", "Blocked", "Finished"}]
  /\ on \in [Procs -> Cores] /\ ranOn \in [Procs -> SUBSET Cores]
  /\ cycles \in [Procs -> 0..Quantum]
  /\ pc \in [Procs -> Address] /\ regs \in [Procs -> [Registers -> Word]]
  /\ touched \in [Cores -> SUBSET Address]

(* Words that do nothing when they are executed with zeros in the          *)
(* registers: the data section runs before the instructions.               *)
Harmless(w) == w # EndWord /\ NamesOf(w) \subseteq RType \cup Unexecuted

(* The instruction is one of those the control unit executes as written:   *)
(* numbers that their field can hold, addi and li under the name that the  *)
(* look-up finds, and loads and stores of labelled data, without an        *)
(* offset, at an address the immediate can hold.                           *)
AsWritten(p, i) ==
  /\ i.op \in {"add", "sub", "mult", "div", "slti", "addi", "li", "lw", "sw",
               "print", "end", "j"} \cup Branches
  /\ i.op \in Aliases \cup {"slti"} =>
       /\ i.via = "immediate"
       /\ IF i.op # "slti" /\ alias = "li"
          THEN i.rs = Zero /\ i.imm \in 0..(ImmSize - 1)
          ELSE i.imm + ImmSize \div 2 \in 0..(ImmSize - 1)
  /\ i.op \in Branches \cup {"j"} =>
       \/ i.via = "label"
       \/ i.via = "immediate" /\ i.imm \in 0..((IF i.op = "j" THEN TargetSize ELSE ImmSize) - 1)
  /\ i.op \in {"lw", "sw"} =>
       i.via = "data" /\ i.offset = 0 /\ Base(p) + 4 * i.imm < ImmSize

Instructions(p) == Range(programs[p].code)

Portable(p) == \A i \in Instructions(p) : AsWritten(p, i)

UsesLabels(p) == \E i \in Instructions(p) : i.via = "label"

EndsWithEnd(p) == programs[p].code[Len(programs[p].code)].op = "end"

NeverPrints(p) == \A i \in Instructions(p) : i.op # "print"

(* The programs fit their places, and none stores outside its own data.    *)
WellPlaced ==
  \A p \in Procs :
    /\ 4 * ImageSize(p) <= Stride
    /\ \A a \in ImageAddresses(p) : HasCell(a)
    /\ \A d \in Range(programs[p].data) : Harmless(d)
    /\ \A i \in Instructions(p) : i.op = "sw" => AsWritten(p, i)

(* Branches, to labels or to addresses, lead to instructions of the same   *)
(* program: one that runs into a word it has stored runs what it likes.    *)
BranchesStay ==
  \A p \in Procs : \A k \in NumData(p)..(ImageSize(p) - 1) :
    LET op == programs[p].code[k - NumData(p) + 1].op
        w  == ImageWord(p, k)
    IN  /\ op \in Branches => Imm(w) \in CodeAddresses(p)
        /\ op = "j" => Target(w) \in CodeAddresses(p)

Meaning(p) == RefRun(programs[p], Base(p), MaxSteps)

(* The process has stayed on one core, and the core had a line to spare.   *)
KeptItsLines(p) ==
  \E c \in Cores : ranOn[p] = {c} /\ Cardinality(touched[c]) < Capacity

Agrees(p) ==
  /\ Meaning(p).done
  /\ \A r \in Registers : Signed(regs[p][r], WordSize) = Meaning(p).reg[r]

(* A program that finishes has computed what its file says, on whatever    *)
(* cores it ran and whoever it shared them with - if the file ends with    *)
(* END, branches to addresses and not to labels, and has kept the lines of *)
(* its cache in case it reads what it stored.                              *)
ResultIsMeaning ==
  \A p \in Procs :
    /\ status[p] = "Finished" /\ WellPlaced /\ BranchesStay
    /\ Portable(p) /\ ~UsesLabels(p) /\ EndsWithEnd(p)
    /\ Meaning(p).reloads => KeptItsLines(p) /\ ~Meaning(p).marked
    => Agrees(p)

(* No core ever sees other instructions than those of the program files,   *)
(* although stores go to absolute addresses and caches outlive processes.  *)
CodeIsIntact ==
  WellPlaced /\ BranchesStay =>
    \A p \in 1..loaded, c \in Cores : \A k \in NumData(p)..(ImageSize(p) - 1) :
      ReadValue(cache[c], memory, Base(p) + 4 * k) = ImageWord(p, k)

(* As ResultIsMeaning, for programs that branch to labels.                 *)
LabelsAreReached ==
  \A p \in Procs :
    /\ status[p] = "Finished" /\ WellPlaced
    /\ Portable(p) /\ EndsWithEnd(p) /\ ~Meaning(p).reloads
    => Agrees(p)

(* As ResultIsMeaning, for programs whose lines were replaced.             *)
StoresAreKept ==
  \A p \in Procs :
    /\ status[p] = "Finished" /\ WellPlaced
    /\ Portable(p) /\ ~UsesLabels(p) /\ EndsWithEnd(p)
    /\ Cardinality(ranOn[p]) = 1 /\ ~Meaning(p).marked
    => Agrees(p)

(* As ResultIsMeaning, for programs that may do without END: the bound     *)
(* that Fetch checks lets them run to their last instruction.              *)
LastInstructionRuns ==
  \A p \in Procs :
    /\ status[p] = "Finished" /\ WellPlaced /\ BranchesStay
    /\ Portable(p) /\ ~UsesLabels(p) /\ ~Meaning(p).reloads
    => Agrees(p)

-----------------------------------------------------------------------------
(* Liveness.                                                               *)

(* A program that never prints, and whose file ends by what it says, is    *)
(* brought to its end, whatever becomes of the others.                     *)
SilentProgramsEnd ==
  \A p \in 1..MaxProcs :
    <>(p \in Procs
       => \/ status[p] = "Finished"
          \/ ~(/\ WellPlaced /\ BranchesStay /\ NeverPrints(p)
               /\ Portable(p) /\ ~UsesLabels(p)
               /\ Meaning(p).done /\ ~Meaning(p).reloads))
=============================================================================
