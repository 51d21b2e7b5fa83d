---------------------------- MODULE MachineProofs ----------------------------
(***************************************************************************)
(* Theorems about the machine, for any number of registers and cores, any  *)
(* quantum, any cache and memory sizes and any program files.              *)
(***************************************************************************)
EXTENDS Machine, L1CacheProofs, InstructionSetProofs

-----------------------------------------------------------------------------
(* Program files.                                                          *)

LEMMA Elements ==
  ASSUME NEW S, NEW s \in Seq(S)
  PROVE  DOMAIN s = 1..Len(s) /\ \A j \in 1..Len(s) : s[j] \in S
OBVIOUS

(* Where the program counter of a process that has not ended can point.    *)
Reach(p) == 0..(TargetSize - 1) \cup 0..ProgramEnd(p)

LEMMA ProgramFacts ==
  ASSUME programs \in Scenarios, NEW p \in Procs
  PROVE  /\ Procs = 1..Len(programs) /\ Len(programs) \in Nat /\ p \in Nat \ {0}
         /\ programs[p].data \in Seq(0..AllOnes) /\ NumData(p) \in Nat
         /\ programs[p].code \in Seq(Instruction)
         /\ Len(programs[p].code) \in Nat \ {0}
         /\ ImageSize(p) = NumData(p) + Len(programs[p].code)
         /\ ImageSize(p) \in Nat \ {0} /\ NumData(p) < ImageSize(p)
         /\ Base(p) \in Nat
         /\ ProgramEnd(p) \in Nat /\ ProgramEnd(p) = Base(p) + 4 * ImageSize(p)
         /\ \A n \in Nat : n <= ProgramEnd(p) + 4 => n \in Address
<1> DEFINE P == [data: Seq(0..AllOnes), code: Seq(Instruction)]
<1>1. programs \in Seq(P) /\ programs[p].code # <<>>
  BY ProgramAssumption DEF Procs
<1>2. programs[p] \in P /\ Procs = 1..Len(programs) /\ Len(programs) \in Nat
  <2> HIDE DEF P
  <2> QED
    BY <1>1 DEF Procs
<1>3. /\ programs[p].data \in Seq(0..AllOnes) /\ programs[p].code \in Seq(Instruction)
      /\ p \in Nat \ {0}
  BY <1>2
<1> HIDE DEF P
<1>4. NumData(p) \in Nat /\ Len(programs[p].code) \in Nat \ {0}
  <2>1. NumData(p) = Len(programs[p].data)
    BY DEF NumData
  <2> DEFINE d == programs[p].data
             e == programs[p].code
  <2>2. d \in Seq(0..AllOnes) /\ e \in Seq(Instruction) /\ e # <<>>
    BY <1>1, <1>3
  <2> HIDE DEF d, e
  <2>3. Len(d) \in Nat /\ Len(e) \in Nat \ {0}
    BY <2>2
  <2> QED
    BY <2>1, <2>3 DEF d, e
<1>5. ImageSize(p) = NumData(p) + Len(programs[p].code)
  BY DEF ImageSize
<1>6. Base(p) \in Nat
  <2>1. Stride \in Nat /\ p - 1 \in Nat
    BY <1>3, StrideAssumption
  <2> QED
    BY <2>1 DEF Base
<1>7. ProgramEnd(p) = Base(p) + 4 * ImageSize(p)
  BY DEF ProgramEnd
<1>8. ProgramEnd(p) \in Nat
  <2>1. \A b, d, c \in Nat : b + 4 * (d + c) \in Nat
    OBVIOUS
  <2> QED
    BY <1>4, <1>5, <1>6, <1>7, <2>1
<1>9. 0..(ProgramEnd(p) + 4) \subseteq Address
  <2>1. 0..(Base(p) + 4 * (NumData(p) + Len(programs[p].code) + 1)) \subseteq Address
    BY ReachAssumption DEF Procs, Base, NumData
  <2>2. Base(p) + 4 * (NumData(p) + Len(programs[p].code) + 1) = ProgramEnd(p) + 4
    <3> DEFINE b == Base(p)
               m == NumData(p)
               n == Len(programs[p].code)
    <3>1. b \in Nat /\ m \in Nat /\ n \in Nat /\ ProgramEnd(p) = b + 4 * (m + n)
      BY <1>4, <1>5, <1>6, <1>7
    <3> HIDE DEF b, m, n
    <3>2. b + 4 * (m + n + 1) = ProgramEnd(p) + 4
      BY <3>1
    <3> QED
      BY <3>2 DEF b, m, n
  <2> QED
    BY <2>1, <2>2
<1>10. \A n \in Nat : n <= ProgramEnd(p) + 4 => n \in Address
  BY <1>8, <1>9
<1>11. ImageSize(p) \in Nat \ {0} /\ NumData(p) < ImageSize(p)
  <2> DEFINE m == NumData(p)
             n == Len(programs[p].code)
  <2>1. m \in Nat /\ n \in Nat \ {0} /\ ImageSize(p) = m + n
    BY <1>4, <1>5
  <2> HIDE DEF m, n
  <2>2. ImageSize(p) \in Nat \ {0} /\ m < ImageSize(p)
    BY <2>1
  <2> QED
    BY <2>2 DEF m
<1> QED
  BY <1>2, <1>3, <1>4, <1>5, <1>6, <1>7, <1>8, <1>10, <1>11

(* The image holds words, the data and then the encoded instructions.      *)
LEMMA ImageFacts ==
  ASSUME programs \in Scenarios, NEW p \in Procs, NEW k \in 0..(ImageSize(p) - 1)
  PROVE  /\ ImageWord(p, k) \in 0..AllOnes
         /\ k < NumData(p) => ImageWord(p, k) = programs[p].data[k + 1]
                              /\ k + 1 \in DOMAIN programs[p].data
         /\ k >= NumData(p) =>
              LET n == k - NumData(p)
                  i == programs[p].code[n + 1]
              IN  /\ n \in Nat /\ n + 1 \in DOMAIN programs[p].code
                  /\ i \in Instruction /\ i \in Instructions(p)
                  /\ ImageWord(p, k) = Encode(i, n, Base(p))
<1> DEFINE d == programs[p].data
           e == programs[p].code
           n == k - NumData(p)
<1>1. /\ d \in Seq(0..AllOnes) /\ e \in Seq(Instruction) /\ NumData(p) = Len(d)
      /\ Len(d) \in Nat /\ ImageSize(p) = Len(d) + Len(e) /\ Len(e) \in Nat /\ Base(p) \in Nat
  BY ProgramFacts DEF NumData
<1>2. ImageWord(p, k) = IF k < NumData(p) THEN d[k + 1] ELSE Encode(e[n + 1], n, Base(p))
  BY DEF ImageWord
<1>3. CASE k < NumData(p)
  <2> HIDE DEF d, e
  <2>1. k + 1 \in 1..Len(d)
    BY <1>1, <1>3
  <2>2. k + 1 \in DOMAIN d /\ d[k + 1] \in 0..AllOnes
    <3>1. d \in Seq(0..AllOnes)
      BY <1>1
    <3>2. DOMAIN d = 1..Len(d) /\ \A j \in 1..Len(d) : d[j] \in 0..AllOnes
      BY <3>1, Elements
    <3> QED
      BY <2>1, <3>2
  <2>3. ~(k >= NumData(p))
    BY <1>1, <1>3
  <2> QED
    BY <1>2, <1>3, <2>2, <2>3 DEF d
<1>4. CASE ~(k < NumData(p))
  <2>1. Instructions(p) = Range(e)
    BY DEF Instructions
  <2> HIDE DEF d, e
  <2>2. n \in Nat /\ n + 1 \in 1..Len(e)
    BY <1>1, <1>4
  <2>3. n + 1 \in DOMAIN e /\ e[n + 1] \in Instruction /\ e[n + 1] \in Range(e)
    BY <1>1, <2>2 DEF Range
  <2>4. Encode(e[n + 1], n, Base(p)) \in 0..AllOnes
    BY <1>1, <2>2, <2>3, Encoded
  <2> QED
    BY <1>2, <1>4, <2>1, <2>2, <2>3, <2>4 DEF e
<1> QED
  BY <1>3, <1>4

-----------------------------------------------------------------------------
(* Words.                                                                  *)

LEMMA Words ==
  /\ Word = 0..AllOnes /\ Marker = AllOnes /\ AllOnes \in Nat
  /\ AllOnes = WordSize - 1 /\ Zero \in Word /\ 1 \in Word
BY Word32Assumption, Sizes DEF AllOnes, Zero

(* A number cut to a word.                                                 *)
LEMMA CutToWord ==
  ASSUME NEW n \in Int
  PROVE  n % WordSize \in Word
BY Words, Sizes, DivModOf

LEMMA SignedInt ==
  ASSUME NEW n \in Int, NEW size \in Nat
  PROVE  Signed(n, size) \in Int
BY DEF Signed

LEMMA QuotientInt ==
  ASSUME NEW x \in Int, NEW y \in Int
  PROVE  Quotient(x, y) \in Int
<1>1. Magnitude(x) \in Nat /\ Magnitude(y) \in Nat /\ (y # 0 => Magnitude(y) # 0)
  BY DEF Magnitude
<1>2. y # 0 => Magnitude(x) \div Magnitude(y) \in Int
  BY <1>1, DivModOf
<1> QED
  BY <1>2 DEF Quotient

LEMMA AluWord ==
  ASSUME NEW op \in {"add", "sub", "mult", "div"}, NEW a \in Word, NEW b \in Word
  PROVE  Alu(op, a, b) \in Word
<1> DEFINE x == Signed(a, WordSize)
           y == Signed(b, WordSize)
<1>1. x \in Int /\ y \in Int
  <2>1. a \in Int /\ b \in Int /\ WordSize \in Nat
    BY Words, Sizes
  <2> QED
    BY <2>1, SignedInt
<1> HIDE DEF x, y
<1>2. x + y \in Int /\ x - y \in Int /\ x * y \in Int /\ Quotient(x, y) \in Int
  BY <1>1, QuotientInt
<1>3. /\ (x + y) % WordSize \in Word /\ (x - y) % WordSize \in Word
      /\ (x * y) % WordSize \in Word /\ Quotient(x, y) % WordSize \in Word
  BY <1>2, CutToWord
<1> QED
  BY <1>3 DEF Alu, x, y

LEMMA FieldWords ==
  ASSUME NEW w \in Word
  PROVE  /\ Rs(w) \in Registers /\ Rt(w) \in Registers /\ Rd(w) \in Registers
         /\ Imm(w) \in 0..(ImmSize - 1) /\ Imm(w) \in 0..(TargetSize - 1) /\ Imm(w) \in Word
         /\ Target(w) \in 0..(TargetSize - 1)
         /\ Extended(w) \in Word
<1>1. /\ w \in Int /\ NumRegs \in Nat \ {0} /\ ImmSize \in Nat \ {0} /\ TargetSize \in Nat \ {0}
      /\ NumRegs * ImmSize \in Nat \ {0} /\ LowSize \in Nat \ {0}
  BY Words, Sizes, LowBits
<1>2. /\ w \div (NumRegs * ImmSize) \in Int /\ w \div ImmSize \in Int /\ w \div LowSize \in Int
      /\ Imm(w) \in 0..(ImmSize - 1) /\ Target(w) \in 0..(TargetSize - 1)
  BY <1>1, DivModOf DEF Imm, Target
<1>3. Rs(w) \in Registers /\ Rt(w) \in Registers /\ Rd(w) \in Registers
  BY <1>1, <1>2, DivModOf DEF Rs, Rt, Rd, Registers
<1>4. Imm(w) \in 0..(TargetSize - 1) /\ Imm(w) \in Word
  BY <1>1, <1>2, Sizes, Words
<1>5. Extended(w) \in Word
  BY <1>1, <1>2, SignedInt, CutToWord DEF Extended
<1> QED
  BY <1>2, <1>3, <1>4, <1>5

-----------------------------------------------------------------------------
(* Typing.                                                                 *)

(* The program counter of a process that has not ended never leaves the    *)
(* addresses that programs can name, which is why it can be advanced.      *)
Typed ==
  MachineTypeOK /\ \A p \in Procs : status[p] # "Finished" => pc[p] \in Reach(p)

(* Where Branch goes when it is taken.                                     *)
BranchGoal(p) == IF Decoded(p) = "j" THEN Target(Fetched(p)) ELSE Imm(Fetched(p))

(* The cache that a core leaves behind when it has accessed its program    *)
(* counter and S: they were only read, or the instruction is a store,      *)
(* which is made to a line that was read before.                           *)
Leaves(p, ch, S) ==
  \/ Follows(cache[on[p]], memory, {pc[p]} \cup S, ch)
  \/ \E r :
       /\ Decoded(p) = "sw"
       /\ Follows(cache[on[p]], memory, {pc[p]} \cup S, r)
       /\ Imm(Fetched(p)) \in DOMAIN r.lines
       /\ ch = Update(r, Imm(Fetched(p)), regs[p][Rt(Fetched(p))])

(* What every turn of the loop of run_process that fetches a word does: st *)
(* is the state of the process after it, v its program counter, ch the     *)
(* cache of its core, and S are the addresses that were accessed.          *)
Turn(p, st, v, ch, S) ==
  /\ InLoop(p)
  /\ UNCHANGED <<programs, alias, loaded, memory, on, ranOn>>
  /\ status' = [status EXCEPT ![p] = st]
  /\ st \in {"Running", "Blocked", "Finished"}
  /\ pc' = [pc EXCEPT ![p] = v]
  /\ v \in Address
  /\ \/ v = pc[p] /\ st = "Finished"
     \/ v = pc[p] + 4
     \/ v = BranchGoal(p) /\ Decoded(p) \in Branches \cup {"j"}
  /\ st # "Finished" => Fetched(p) # EndWord /\ ~PastEnd(p) /\ v \in Reach(p)
  /\ UseCache(p, ch, S)
  /\ IsCache(ch) /\ Leaves(p, ch, S)
  /\ S \subseteq Address /\ IsFiniteSet(S)
  /\ cycles' \in [Procs -> 0..Quantum]
  /\ regs' \in [Procs -> [Registers -> Word]]

LEMMA FetchFacts ==
  ASSUME Typed, NEW p \in Procs, InLoop(p)
  PROVE  /\ on[p] \in Cores /\ IsMemory(memory)
         /\ pc[p] \in Reach(p) /\ pc[p] \in Address /\ pc[p] + 4 \in Address
         /\ IsCache(cache[on[p]])
         /\ Fetched(p) \in Word
         /\ Follows(cache[on[p]], memory, {pc[p]}, AfterFetch(p))
<1>1. on[p] \in Cores /\ IsCache(cache[on[p]]) /\ IsMemory(memory)
  BY DEF Typed, MachineTypeOK, IsMemory
<1>2. status[p] # "Finished" /\ pc[p] \in Reach(p) /\ pc[p] \in Address
  BY DEF Typed, MachineTypeOK, InLoop
<1>3. pc[p] + 4 \in Address
  <2>1. /\ programs \in Scenarios /\ ProgramEnd(p) \in Nat
        /\ \A n \in Nat : n <= ProgramEnd(p) + 4 => n \in Address
    BY ProgramFacts DEF Typed, MachineTypeOK
  <2>2. CASE pc[p] \in 0..ProgramEnd(p)
    BY <2>1, <2>2
  <2>3. CASE pc[p] \in 0..(TargetSize - 1)
    <3>1. pc[p] + 4 \in 0..(TargetSize + 3)
      BY <2>3, Sizes
    <3> QED
      BY <3>1, ReachAssumption
  <2> QED
    BY <1>2, <2>2, <2>3 DEF Reach
<1>4. Fetched(p) \in Word
  BY <1>1, <1>2, ReadValueWord DEF Fetched
<1>5. Follows(cache[on[p]], memory, {pc[p]}, AfterFetch(p))
  <2>1. Follows(cache[on[p]], memory, {}, cache[on[p]])
    BY <1>1, SameFollows
  <2>2. {} \subseteq {pc[p]} /\ pc[p] \in {pc[p]}
    OBVIOUS
  <2> QED
    BY <1>1, <1>2, <2>1, <2>2, ReadFollows DEF AfterFetch
<1> QED
  BY <1>1, <1>2, <1>3, <1>4, <1>5

LEMMA FetchLeaves ==
  ASSUME Typed, NEW p \in Procs, InLoop(p)
  PROVE  IsCache(AfterFetch(p)) /\ Leaves(p, AfterFetch(p), {})
<1>1. Follows(cache[on[p]], memory, {pc[p]}, AfterFetch(p))
  BY FetchFacts
<1>2. {pc[p]} \cup {} = {pc[p]}
  OBVIOUS
<1> QED
  BY <1>1, <1>2 DEF Leaves, Follows

(* A read of another address.                                              *)
LEMMA ReadLeaves ==
  ASSUME Typed, NEW p \in Procs, InLoop(p), NEW a \in Address
  PROVE  LET r == AfterRead(AfterFetch(p), memory, a)
         IN  /\ Follows(cache[on[p]], memory, {pc[p]} \cup {a}, r)
             /\ a \in DOMAIN r.lines
             /\ IsCache(r) /\ Leaves(p, r, {a})
<1> DEFINE r == AfterRead(AfterFetch(p), memory, a)
           T == {pc[p]}
           V == T \cup {a}
<1>1. Follows(cache[on[p]], memory, T, AfterFetch(p)) /\ IsMemory(memory)
  BY FetchFacts
<1>2. T \subseteq V /\ a \in V
  OBVIOUS
<1> HIDE DEF T, V, r
<1>3. Follows(cache[on[p]], memory, V, r) /\ a \in DOMAIN r.lines
  BY <1>1, <1>2, ReadFollows DEF r
<1>4. IsCache(r) /\ Leaves(p, r, {a})
  BY <1>3 DEF Leaves, Follows, V, T
<1> QED
  BY <1>3, <1>4 DEF r, V, T

(* The value a function has at x already.                                  *)
LEMMA SameValue ==
  ASSUME NEW D, NEW R, NEW f \in [D -> R], NEW x \in D
  PROVE  f = [f EXCEPT ![x] = f[x]]
OBVIOUS

LEMMA RegisterSet ==
  ASSUME Typed, NEW p \in Procs, NEW r \in Registers, NEW w \in Word,
         SetRegister(p, r, w)
  PROVE  regs' \in [Procs -> [Registers -> Word]]
<1>1. regs \in [Procs -> [Registers -> Word]]
  BY DEF Typed, MachineTypeOK
<1>2. [regs EXCEPT ![p][r] = w] \in [Procs -> [Registers -> Word]]
  BY <1>1
<1> QED
  BY <1>1, <1>2 DEF SetRegister

LEMMA ExecuteFacts ==
  ASSUME Typed, NEW p \in Procs, NEW names, Executes(p, names)
  PROVE  /\ InLoop(p) /\ Decoded(p) \in names
         /\ Fetched(p) # EndWord /\ ~PastEnd(p)
         /\ UNCHANGED <<programs, alias, loaded, memory, on, ranOn>>
         /\ pc[p] + 4 \in Reach(p)
         /\ cycles' \in [Procs -> 0..Quantum]
         /\ regs[p][Rs(Fetched(p))] \in Word /\ regs[p][Rt(Fetched(p))] \in Word
         /\ regs \in [Procs -> [Registers -> Word]]
         /\ status = [status EXCEPT ![p] = "Running"]
<1>1. /\ InLoop(p) /\ Decoded(p) \in names /\ Fetched(p) # EndWord /\ ~PastEnd(p)
      /\ UNCHANGED <<programs, alias, loaded, memory, on, ranOn>>
  BY DEF Executes, fixed
<1>2. pc[p] + 4 \in Reach(p)
  <2>1. pc[p] + 4 < ProgramEnd(p) /\ pc[p] \in Nat /\ ProgramEnd(p) \in Nat
    <3>1. ~(pc[p] + 4 >= ProgramEnd(p))
      BY <1>1 DEF PastEnd
    <3>2. pc[p] \in Nat
      BY <1>1, FetchFacts, AddressAssumption
    <3>3. ProgramEnd(p) \in Nat
      BY ProgramFacts DEF Typed, MachineTypeOK
    <3> QED
      BY <3>1, <3>2, <3>3
  <2>2. pc[p] + 4 \in 0..ProgramEnd(p)
    BY <2>1
  <2> QED
    BY <2>2 DEF Reach
<1>3. cycles' \in [Procs -> 0..Quantum]
  <2>1. cycles \in [Procs -> 0..Quantum] /\ cycles[p] < Quantum /\ Quantum \in Nat
    BY <1>1, CoresAssumption DEF Typed, MachineTypeOK, InLoop
  <2>2. cycles' = [cycles EXCEPT ![p] = @ + 1]
    BY DEF Executes
  <2>3. cycles[p] + 1 \in 0..Quantum
    BY <2>1
  <2> QED
    BY <2>1, <2>2, <2>3
<1>4. regs \in [Procs -> [Registers -> Word]]
  BY DEF Typed, MachineTypeOK
<1>5. Rs(Fetched(p)) \in Registers /\ Rt(Fetched(p)) \in Registers
  BY <1>1, FetchFacts, FieldWords
<1>6. status = [status EXCEPT ![p] = "Running"]
  <2>1. status \in [Procs -> {"Ready", "Running", "Blocked", "Finished"}]
        /\ status[p] = "Running"
    BY <1>1 DEF Typed, MachineTypeOK, InLoop
  <2> QED
    BY <2>1, SameValue
<1> QED
  BY <1>1, <1>2, <1>3, <1>4, <1>5, <1>6

(* The instructions that go on to the next one.                            *)
LEMMA AdvanceTurns ==
  ASSUME Typed, NEW p \in Procs, NEW names, Executes(p, names), Advance(p),
         NEW st \in {"Running", "Blocked"}, status' = [status EXCEPT ![p] = st],
         NEW S \in SUBSET Address, IsFiniteSet(S),
         NEW ch, IsCache(ch), Leaves(p, ch, S),
         UseCache(p, ch, S),
         regs' \in [Procs -> [Registers -> Word]]
  PROVE  Turn(p, st, pc[p] + 4, ch, S)
<1>1. pc[p] + 4 \in Address
  BY ExecuteFacts, FetchFacts
<1>2. pc' = [pc EXCEPT ![p] = pc[p] + 4]
  BY DEF Advance
<1> QED
  BY <1>1, <1>2, ExecuteFacts DEF Turn

(* Those that access memory for the instruction only.                      *)
LEMMA AdvanceOnly ==
  ASSUME Typed, NEW p \in Procs, NEW names, Executes(p, names), Advance(p),
         NEW st \in {"Running", "Blocked"}, status' = [status EXCEPT ![p] = st],
         UseCache(p, AfterFetch(p), {}), regs' \in [Procs -> [Registers -> Word]]
  PROVE  Turn(p, st, pc[p] + 4, AfterFetch(p), {})
<1>1. IsCache(AfterFetch(p)) /\ Leaves(p, AfterFetch(p), {})
  BY ExecuteFacts, FetchLeaves
<1>2. {} \in SUBSET Address /\ IsFiniteSet({})
  BY FS_EmptySet
<1> QED
  BY <1>1, <1>2, AdvanceTurns

LEMMA RegisterInstructions ==
  ASSUME Typed, NEW p \in Procs,
         Arithmetic(p) \/ AddImmediate(p) \/ SetOnLess(p) \/ LoadImmediate(p)
  PROVE  Turn(p, "Running", pc[p] + 4, AfterFetch(p), {})
<1> DEFINE w == Fetched(p)
<1> SUFFICES ASSUME NEW names, NEW r \in Registers, NEW v \in Word,
                    Executes(p, names), SetRegister(p, r, v),
                    Advance(p), UseCache(p, AfterFetch(p), {}), UNCHANGED status
             PROVE  Turn(p, "Running", pc[p] + 4, AfterFetch(p), {})
  <2>1. CASE Arithmetic(p)
    <3> DEFINE names == {"add", "sub", "mult", "div"}
               v == Alu(Decoded(p), regs[p][Rs(w)], regs[p][Rt(w)])
    <3>1. /\ Executes(p, names) /\ SetRegister(p, Rd(w), v) /\ Advance(p)
          /\ UseCache(p, AfterFetch(p), {}) /\ UNCHANGED status
      BY <2>1 DEF Arithmetic
    <3>2. /\ InLoop(p) /\ Decoded(p) \in names
          /\ regs[p][Rs(w)] \in Word /\ regs[p][Rt(w)] \in Word
      BY <3>1, ExecuteFacts
    <3>3. Rd(w) \in Registers
      BY <3>2, FetchFacts, FieldWords
    <3>4. v \in Word
      BY <3>2, AluWord
    <3> QED
      BY <3>1, <3>3, <3>4
  <2>2. CASE AddImmediate(p)
    <3> DEFINE v == Alu("add", regs[p][Rs(w)], Extended(w))
    <3>1. /\ Executes(p, {"addi"}) /\ SetRegister(p, Rt(w), v) /\ Advance(p)
          /\ UseCache(p, AfterFetch(p), {}) /\ UNCHANGED status
      BY <2>2 DEF AddImmediate
    <3>2. Rt(w) \in Registers /\ Extended(w) \in Word /\ regs[p][Rs(w)] \in Word
      BY <3>1, ExecuteFacts, FetchFacts, FieldWords
    <3>3. v \in Word
      BY <3>2, AluWord
    <3> QED
      BY <3>1, <3>2, <3>3
  <2>3. CASE SetOnLess(p)
    <3> DEFINE v == IF Taken("blt", regs[p][Rs(w)], Extended(w)) THEN 1 ELSE 0
    <3>1. /\ Executes(p, {"slti"}) /\ SetRegister(p, Rt(w), v) /\ Advance(p)
          /\ UseCache(p, AfterFetch(p), {}) /\ UNCHANGED status
      BY <2>3 DEF SetOnLess
    <3>2. Rt(w) \in Registers
      BY <3>1, ExecuteFacts, FetchFacts, FieldWords
    <3>3. v \in Word
      BY Words DEF Zero
    <3> QED
      BY <3>1, <3>2, <3>3
  <2>4. CASE LoadImmediate(p)
    <3>1. /\ Executes(p, {"li"}) /\ SetRegister(p, Rt(w), Imm(w)) /\ Advance(p)
          /\ UseCache(p, AfterFetch(p), {}) /\ UNCHANGED status
      BY <2>4 DEF LoadImmediate
    <3>2. Rt(w) \in Registers /\ Imm(w) \in Word
      BY <3>1, ExecuteFacts, FetchFacts, FieldWords
    <3> QED
      BY <3>1, <3>2
  <2> QED
    BY <2>1, <2>2, <2>3, <2>4
<1>1. regs' \in [Procs -> [Registers -> Word]]
  BY RegisterSet
<1>2. status' = [status EXCEPT ![p] = "Running"]
  BY ExecuteFacts
<1> QED
  BY <1>1, <1>2, AdvanceOnly

LEMMA LoadWordTurns ==
  ASSUME Typed, NEW p \in Procs, LoadWord(p)
  PROVE  LET a == Imm(Fetched(p))
         IN  Turn(p, "Running", pc[p] + 4, AfterRead(AfterFetch(p), memory, a), {a})
<1> DEFINE w == Fetched(p)
           a == Imm(w)
           ch == AfterRead(AfterFetch(p), memory, a)
           v == ReadValue(AfterFetch(p), memory, a)
<1>1. /\ Executes(p, {"lw"}) /\ SetRegister(p, Rt(w), v) /\ Advance(p)
      /\ UseCache(p, ch, {a}) /\ UNCHANGED status
  BY DEF LoadWord
<1>2. /\ Rt(w) \in Registers /\ a \in Address /\ IsMemory(memory)
      /\ IsCache(AfterFetch(p)) /\ InLoop(p)
  <2>1. a \in 0..(TargetSize - 1)
    BY <1>1, ExecuteFacts, FetchFacts, FieldWords
  <2>2. a \in Address
    BY <2>1, ReachAssumption, Sizes
  <2> QED
    BY <1>1, <2>2, ExecuteFacts, FetchFacts, FetchLeaves, FieldWords
<1> HIDE DEF a
<1>4. IsCache(ch) /\ Leaves(p, ch, {a})
  BY <1>2, ReadLeaves
<1>5. v \in Word
  BY <1>2, ReadValueWord
<1>6. regs' \in [Procs -> [Registers -> Word]]
  BY <1>1, <1>2, <1>5, RegisterSet
<1>7. status' = [status EXCEPT ![p] = "Running"]
  BY <1>1, ExecuteFacts
<1>8. {a} \in SUBSET Address /\ IsFiniteSet({a})
  BY <1>2, FS_Singleton
<1>9. Turn(p, "Running", pc[p] + 4, ch, {a})
  <2> HIDE DEF ch, v, w
  <2> QED
    BY <1>1, <1>4, <1>6, <1>7, <1>8, AdvanceTurns
<1> QED
  BY <1>9 DEF a

LEMMA StoreWordTurns ==
  ASSUME Typed, NEW p \in Procs, StoreWord(p)
  PROVE  LET w == Fetched(p)
         IN  Turn(p, "Running", pc[p] + 4,
                  AfterWrite(AfterFetch(p), memory, Imm(w), regs[p][Rt(w)]), {Imm(w)})
<1> DEFINE w == Fetched(p)
           a == Imm(w)
           v == regs[p][Rt(w)]
           r == AfterRead(AfterFetch(p), memory, a)
           ch == AfterWrite(AfterFetch(p), memory, a, v)
<1>1. /\ Executes(p, {"sw"}) /\ Advance(p)
      /\ UseCache(p, ch, {a}) /\ UNCHANGED <<status, regs>>
  BY DEF StoreWord
<1>2. a \in Address /\ v \in Word /\ InLoop(p) /\ Decoded(p) = "sw"
  <2>1. a \in 0..(TargetSize - 1)
    BY <1>1, ExecuteFacts, FetchFacts, FieldWords
  <2>2. a \in Address
    BY <2>1, ReachAssumption, Sizes
  <2> QED
    BY <1>1, <2>2, ExecuteFacts
<1>3. Follows(cache[on[p]], memory, {pc[p]} \cup {a}, r) /\ a \in DOMAIN r.lines /\ IsCache(r)
  <2> HIDE DEF a
  <2> QED
    BY <1>2, ReadLeaves
<1>4. ch = Update(r, a, v)
  BY DEF AfterWrite
<1>5. IsCache(ch) /\ Leaves(p, ch, {a})
  <2>1. Leaves(p, ch, {a})
    BY <1>2, <1>3, <1>4 DEF Leaves
  <2> HIDE DEF r, ch, a, v
  <2>2. IsCache(ch)
    BY <1>2, <1>3, <1>4, UpdateFacts
  <2> QED
    BY <2>1, <2>2
<1>6. regs' \in [Procs -> [Registers -> Word]] /\ status' = [status EXCEPT ![p] = "Running"]
  BY <1>1, ExecuteFacts
<1>7. {a} \in SUBSET Address /\ IsFiniteSet({a})
  BY <1>2, FS_Singleton
<1>8. Turn(p, "Running", pc[p] + 4, ch, {a})
  <2> HIDE DEF ch, v, a
  <2> QED
    BY <1>1, <1>5, <1>6, <1>7, AdvanceTurns
<1> QED
  BY <1>8

LEMMA BranchTurns ==
  ASSUME Typed, NEW p \in Procs, Branch(p)
  PROVE  \E v, ch, S : Turn(p, "Running", v, ch, S)
<1> DEFINE w  == Fetched(p)
           to == BranchGoal(p)
           names == Branches \cup {"j"}
<1>1. /\ Executes(p, names) /\ UNCHANGED <<status, regs>>
      /\ IF Taken(Decoded(p), regs[p][Rs(w)], regs[p][Rt(w)])
         THEN /\ pc' = [pc EXCEPT ![p] = to]
              /\ UseCache(p, AfterRead(AfterFetch(p), memory, to), {to})
         ELSE Advance(p) /\ UseCache(p, AfterFetch(p), {})
  BY DEF Branch, BranchGoal
<1>2. regs' \in [Procs -> [Registers -> Word]] /\ status' = [status EXCEPT ![p] = "Running"]
  BY <1>1, ExecuteFacts
<1>3. CASE Taken(Decoded(p), regs[p][Rs(w)], regs[p][Rt(w)])
  <2> DEFINE ch == AfterRead(AfterFetch(p), memory, to)
  <2>1. pc' = [pc EXCEPT ![p] = to] /\ UseCache(p, ch, {to})
    BY <1>1, <1>3
  <2>2. to \in 0..(TargetSize - 1)
    BY <1>1, ExecuteFacts, FetchFacts, FieldWords DEF BranchGoal
  <2>3. to \in Address /\ to \in Reach(p)
    BY <2>2, ReachAssumption, Sizes DEF Reach
  <2>4. InLoop(p)
    BY <1>1, ExecuteFacts
  <2>5. IsCache(ch) /\ Leaves(p, ch, {to})
    <3> HIDE DEF to
    <3> QED
      BY <2>3, <2>4, ReadLeaves
  <2>6. Decoded(p) \in names /\ IsFiniteSet({to})
    BY <1>1, ExecuteFacts, FS_Singleton
  <2> HIDE DEF ch
  <2>7. Turn(p, "Running", to, ch, {to})
    BY <1>1, <1>2, <2>1, <2>3, <2>5, <2>6, ExecuteFacts DEF Turn
  <2> QED
    BY <2>7
<1>4. CASE ~Taken(Decoded(p), regs[p][Rs(w)], regs[p][Rt(w)])
  <2>1. Turn(p, "Running", pc[p] + 4, AfterFetch(p), {})
    BY <1>1, <1>2, <1>4, AdvanceOnly
  <2> QED
    BY <2>1
<1> QED
  BY <1>3, <1>4

LEMMA EndTurns ==
  ASSUME Typed, NEW p \in Procs, End(p)
  PROVE  \E v : Turn(p, "Finished", v, AfterFetch(p), {})
<1> DEFINE v == IF Fetched(p) = EndWord THEN pc[p] ELSE pc[p] + 4
<1>1. /\ InLoop(p) /\ status' = [status EXCEPT ![p] = "Finished"]
      /\ pc' = [pc EXCEPT ![p] = v] /\ UseCache(p, AfterFetch(p), {})
      /\ UNCHANGED <<programs, alias, loaded, memory, on, cycles, regs, ranOn>>
  BY DEF End, fixed
<1>2. v \in Address /\ IsCache(AfterFetch(p)) /\ Leaves(p, AfterFetch(p), {})
  BY <1>1, FetchFacts, FetchLeaves
<1>3. cycles' \in [Procs -> 0..Quantum] /\ regs' \in [Procs -> [Registers -> Word]]
  BY <1>1 DEF Typed, MachineTypeOK
<1>4. (v = pc[p] \/ v = pc[p] + 4) /\ IsFiniteSet({})
  BY FS_EmptySet
<1> HIDE DEF v
<1>5. Turn(p, "Finished", v, AfterFetch(p), {})
  BY <1>1, <1>2, <1>3, <1>4 DEF Turn
<1> QED
  BY <1>5

(* Every turn of the loop is one of these.                                 *)
LEMMA RunIsTurn ==
  ASSUME Typed, NEW p \in Procs, RunProcess(p), ~Preempt(p)
  PROVE  \E st, v, ch, S : Turn(p, st, v, ch, S)
<1>1. CASE Arithmetic(p) \/ AddImmediate(p) \/ SetOnLess(p) \/ LoadImmediate(p)
  BY <1>1, RegisterInstructions
<1>2. CASE LoadWord(p)
  BY <1>2, LoadWordTurns
<1>3. CASE StoreWord(p)
  BY <1>3, StoreWordTurns
<1>4. CASE Branch(p)
  BY <1>4, BranchTurns
<1>5. CASE PrintRequest(p)
  <2>1. /\ Executes(p, {"print"}) /\ status' = [status EXCEPT ![p] = "Blocked"]
        /\ Advance(p) /\ UseCache(p, AfterFetch(p), {}) /\ UNCHANGED regs
    BY <1>5 DEF PrintRequest
  <2>2. regs' \in [Procs -> [Registers -> Word]]
    BY <2>1, ExecuteFacts
  <2>3. Turn(p, "Blocked", pc[p] + 4, AfterFetch(p), {})
    BY <2>1, <2>2, AdvanceOnly
  <2> QED
    BY <2>3
<1>6. CASE Ignore(p)
  <2>1. /\ Executes(p, Unexecuted \cup {""}) /\ UNCHANGED <<status, regs>>
        /\ Advance(p) /\ UseCache(p, AfterFetch(p), {})
    BY <1>6 DEF Ignore
  <2>2. regs' \in [Procs -> [Registers -> Word]] /\ status' = [status EXCEPT ![p] = "Running"]
    BY <2>1, ExecuteFacts
  <2>3. Turn(p, "Running", pc[p] + 4, AfterFetch(p), {})
    BY <2>1, <2>2, AdvanceOnly
  <2> QED
    BY <2>3
<1>7. CASE End(p)
  BY <1>7, EndTurns
<1> QED
  BY <1>1, <1>2, <1>3, <1>4, <1>5, <1>6, <1>7 DEF RunProcess

LEMMA SamePlaces ==
  ASSUME programs' = programs
  PROVE  /\ Procs' = Procs
         /\ \A p : /\ NumData(p)' = NumData(p) /\ ImageSize(p)' = ImageSize(p)
                   /\ Base(p)' = Base(p) /\ Reach(p)' = Reach(p)
                   /\ DataAddresses(p)' = DataAddresses(p)
                   /\ CodeAddresses(p)' = CodeAddresses(p)
                   /\ ImageAddresses(p)' = ImageAddresses(p)
                   /\ \A k : ImageWord(p, k)' = ImageWord(p, k)
BY DEF Procs, NumData, ImageSize, Base, Reach, ProgramEnd, DataAddresses, CodeAddresses,
       ImageAddresses, ImageWord

LEMMA TypedInit == Init => Typed
<1> SUFFICES ASSUME Init PROVE Typed
  OBVIOUS
<1> USE DEF Init
<1>1. programs \in Scenarios
  OBVIOUS
<1>2. loaded \in 0..Len(programs)
  <2>1. programs \in Seq([data: Seq(0..AllOnes), code: Seq(Instruction)])
    BY <1>1, ProgramAssumption
  <2> DEFINE P == [data: Seq(0..AllOnes), code: Seq(Instruction)]
  <2> HIDE DEF P
  <2>2. Len(programs) \in Nat
    BY <2>1 DEF P
  <2> QED
    BY <2>2
<1>3. DOMAIN memory = {} /\ memory \in [DOMAIN memory -> Word]
  BY DEF NoWords
<1>4. DOMAIN cache = Cores /\ \A c \in Cores : IsCache(cache[c])
  BY EmptyIsCache
<1>5. /\ 0 \in Word /\ 0 \in 0..Quantum /\ 0 \in Address /\ 1 \in Cores
  BY Words, CoresAssumption, ReachAssumption, Sizes DEF Zero, Cores
<1>6. /\ status \in [Procs -> {"Ready", "Running", "Blocked", "Finished"}]
      /\ on \in [Procs -> Cores] /\ ranOn \in [Procs -> SUBSET Cores]
      /\ cycles \in [Procs -> 0..Quantum]
      /\ pc \in [Procs -> Address] /\ regs \in [Procs -> [Registers -> Word]]
      /\ touched \in [Cores -> SUBSET Address]
  BY <1>5
<1>7. \A p \in Procs : pc[p] \in Reach(p)
  <2>1. 0 \in 0..(TargetSize - 1)
    BY Sizes
  <2> QED
    BY <2>1 DEF Reach
<1> QED
  BY <1>1, <1>2, <1>3, <1>4, <1>6, <1>7 DEF Typed, MachineTypeOK

LEMMA TurnIsTyped ==
  ASSUME Typed, NEW p \in Procs, NEW st, NEW v, NEW ch, NEW S, Turn(p, st, v, ch, S)
  PROVE  Typed'
<1> USE DEF Turn
<1>1. /\ UNCHANGED <<programs, alias, loaded, memory, on, ranOn>>
      /\ Procs' = Procs /\ \A q : Reach(q)' = Reach(q)
  BY SamePlaces
<1>2. /\ programs \in Scenarios /\ alias \in Aliases /\ loaded \in 0..Len(programs)
      /\ DOMAIN memory \subseteq Address /\ memory \in [DOMAIN memory -> Word]
      /\ on \in [Procs -> Cores] /\ ranOn \in [Procs -> SUBSET Cores]
      /\ DOMAIN cache = Cores /\ \A c \in Cores : IsCache(cache[c])
      /\ status \in [Procs -> {"Ready", "Running", "Blocked", "Finished"}]
      /\ pc \in [Procs -> Address] /\ touched \in [Cores -> SUBSET Address]
      /\ \A q \in Procs : status[q] # "Finished" => pc[q] \in Reach(q)
  BY DEF Typed, MachineTypeOK
<1>3. /\ status' = [status EXCEPT ![p] = st] /\ pc' = [pc EXCEPT ![p] = v]
      /\ st \in {"Running", "Blocked", "Finished"} /\ v \in Address
      /\ st # "Finished" => v \in Reach(p)
  OBVIOUS
<1>4. status' \in [Procs -> {"Ready", "Running", "Blocked", "Finished"}]
  BY <1>2, <1>3
<1>5. pc' \in [Procs -> Address]
  BY <1>2, <1>3
<1>6. \A q \in Procs : status'[q] # "Finished" => pc'[q] \in Reach(q)
  BY <1>2, <1>3
<1>7. DOMAIN cache' = Cores /\ \A c \in Cores : IsCache(cache'[c])
  <2>1. cache' = [cache EXCEPT ![on[p]] = ch] /\ IsCache(ch)
    BY DEF UseCache
  <2> QED
    BY <1>2, <2>1
<1>8. touched' \in [Cores -> SUBSET Address]
  <2>1. /\ touched' = [touched EXCEPT ![on[p]] = @ \cup {pc[p]} \cup S]
        /\ S \in SUBSET Address /\ pc[p] \in Address /\ on[p] \in Cores
    BY <1>2 DEF UseCache
  <2>2. touched[on[p]] \cup {pc[p]} \cup S \in SUBSET Address
    BY <1>2, <2>1
  <2> QED
    BY <1>2, <2>1, <2>2
<1>9. cycles' \in [Procs -> 0..Quantum] /\ regs' \in [Procs -> [Registers -> Word]]
  OBVIOUS
<1> QED
  BY <1>1, <1>2, <1>4, <1>5, <1>6, <1>7, <1>8, <1>9 DEF Typed, MachineTypeOK

(* The cells that Load writes hold the words of the image.                 *)
LEMMA LoadedMemory ==
  ASSUME Typed, NEW p \in Procs, Load(p)
  PROVE  /\ DOMAIN memory' = DOMAIN memory \cup {a \in ImageAddresses(p) : HasCell(a)}
         /\ \A a \in DOMAIN memory :
              a \notin ImageAddresses(p) => memory'[a] = memory[a]
         /\ \A k \in 0..(ImageSize(p) - 1) :
              HasCell(Base(p) + 4 * k) => memory'[Base(p) + 4 * k] = ImageWord(p, k)
         /\ ImageAddresses(p) \subseteq Address
         /\ IsMemory(memory')
<1> DEFINE cells == {a \in ImageAddresses(p) : HasCell(a)}
<1>1. memory' = [a \in DOMAIN memory \cup cells |->
                  IF a \in cells THEN Image(p)[a] ELSE memory[a]]
  BY DEF Load
<1>2. /\ programs \in Scenarios /\ memory \in [DOMAIN memory -> Word]
  BY DEF Typed, MachineTypeOK
<1>3. /\ Base(p) \in Nat /\ ImageSize(p) \in Nat /\ ProgramEnd(p) = Base(p) + 4 * ImageSize(p)
      /\ \A n \in Nat : n <= ProgramEnd(p) + 4 => n \in Address
  BY <1>2, ProgramFacts
<1>4. ASSUME NEW k \in 0..(ImageSize(p) - 1)
      PROVE  /\ Base(p) + 4 * k \in ImageAddresses(p) /\ Base(p) + 4 * k \in Address
             /\ Image(p)[Base(p) + 4 * k] = ImageWord(p, k)
  <2>1. Base(p) + 4 * k \in ImageAddresses(p)
    BY DEF ImageAddresses
  <2>2. Base(p) + 4 * k \in Nat /\ Base(p) + 4 * k <= ProgramEnd(p) + 4
    BY <1>3
  <2>3. ((Base(p) + 4 * k) - Base(p)) \div 4 = k
    BY <1>3
  <2>4. Image(p)[Base(p) + 4 * k] = ImageWord(p, ((Base(p) + 4 * k) - Base(p)) \div 4)
    BY <2>1 DEF Image
  <2> QED
    BY <1>3, <2>1, <2>2, <2>3, <2>4
<1>5. \A a \in ImageAddresses(p) : \E k \in 0..(ImageSize(p) - 1) : a = Base(p) + 4 * k
  BY DEF ImageAddresses
<1>6. \A a \in ImageAddresses(p) : a \in Address /\ Image(p)[a] \in Word
  BY <1>2, <1>4, <1>5, ImageFacts, Words
<1>7. DOMAIN memory' = DOMAIN memory \cup cells
  BY <1>1
<1>8. \A a \in DOMAIN memory' : memory'[a] \in Word
  BY <1>1, <1>2, <1>6
<1>9. IsMemory(memory')
  BY <1>1, <1>7, <1>8 DEF IsMemory
<1>10. \A a \in DOMAIN memory : a \notin ImageAddresses(p) => memory'[a] = memory[a]
  BY <1>1
<1>11. ASSUME NEW k \in 0..(ImageSize(p) - 1), HasCell(Base(p) + 4 * k)
       PROVE  memory'[Base(p) + 4 * k] = ImageWord(p, k)
  <2>1. Base(p) + 4 * k \in cells
    BY <1>4, <1>11
  <2> QED
    BY <1>1, <1>4, <2>1
<1> QED
  BY <1>6, <1>7, <1>9, <1>10, <1>11

LEMMA LoadIsTyped ==
  ASSUME Typed, NEW p \in Procs, Load(p)
  PROVE  Typed'
<1>1. /\ UNCHANGED <<programs, alias, cache, status, on, cycles, ranOn, regs, touched>>
      /\ loaded' = p /\ pc' = [pc EXCEPT ![p] = Base(p)]
      /\ Procs' = Procs /\ \A q : Reach(q)' = Reach(q)
  BY SamePlaces DEF Load, fixed, burst
<1>2. /\ programs \in Scenarios /\ pc \in [Procs -> Address]
      /\ DOMAIN memory \subseteq Address
      /\ \A q \in Procs : status[q] # "Finished" => pc[q] \in Reach(q)
  BY DEF Typed, MachineTypeOK
<1>3. DOMAIN memory' \subseteq Address /\ memory' \in [DOMAIN memory' -> Word]
  BY <1>2, LoadedMemory DEF IsMemory
<1>4. p \in 0..Len(programs)
  BY <1>2, ProgramFacts
<1>5. Base(p) \in Reach(p) /\ Base(p) \in Address
  <2>1. /\ Base(p) \in Nat /\ Base(p) <= ProgramEnd(p) /\ ProgramEnd(p) \in Nat
        /\ \A n \in Nat : n <= ProgramEnd(p) + 4 => n \in Address
    BY <1>2, ProgramFacts
  <2> QED
    BY <2>1 DEF Reach
<1>6. pc' \in [Procs -> Address]
  BY <1>1, <1>2, <1>5
<1>7. \A q \in Procs : status[q] # "Finished" => pc'[q] \in Reach(q)
  BY <1>1, <1>2, <1>5
<1> QED
  BY <1>1, <1>3, <1>4, <1>6, <1>7 DEF Typed, MachineTypeOK

LEMMA TypedStep == Typed /\ [Next]_vars => Typed'
<1> SUFFICES ASSUME Typed, [Next]_vars PROVE Typed'
  OBVIOUS
<1>1. CASE UNCHANGED vars
  BY <1>1, SamePlaces DEF vars, Typed, MachineTypeOK
<1>2. ASSUME NEW p \in Procs, Load(p)
      PROVE  Typed'
  BY <1>2, LoadIsTyped
<1>3. ASSUME NEW p \in Procs, Preempt(p) \/ Unblock(p)
      PROVE  Typed'
  <2>1. /\ status' = [status EXCEPT ![p] = "Ready"] /\ status[p] # "Finished"
        /\ UNCHANGED <<programs, alias, loaded, memory, cache, on, cycles, pc, regs, ranOn, touched>>
    BY <1>3 DEF Preempt, Unblock, fixed
  <2>2. /\ status \in [Procs -> {"Ready", "Running", "Blocked", "Finished"}]
        /\ \A q \in Procs : status[q] # "Finished" => pc[q] \in Reach(q)
    BY DEF Typed, MachineTypeOK
  <2>3. status' \in [Procs -> {"Ready", "Running", "Blocked", "Finished"}]
    BY <2>1, <2>2
  <2>4. \A q \in Procs : status'[q] # "Finished" => pc[q] \in Reach(q)
    BY <2>1, <2>2
  <2> QED
    BY <2>1, <2>3, <2>4, SamePlaces DEF Typed, MachineTypeOK
<1>4. ASSUME NEW p \in Procs, RunProcess(p), ~Preempt(p)
      PROVE  Typed'
  BY <1>4, RunIsTurn, TurnIsTyped
<1>5. ASSUME NEW p \in Procs, NEW c \in Cores, Dispatch(p, c)
      PROVE  Typed'
  <2>1. /\ status[p] = "Ready" /\ status' = [status EXCEPT ![p] = "Running"]
        /\ on' = [on EXCEPT ![p] = c] /\ cycles' = [cycles EXCEPT ![p] = 0]
        /\ ranOn' = [ranOn EXCEPT ![p] = @ \cup {c}]
        /\ UNCHANGED <<programs, alias, loaded, memory, cache, pc, regs, touched>>
    BY <1>5 DEF Dispatch, fixed
  <2>2. /\ status \in [Procs -> {"Ready", "Running", "Blocked", "Finished"}]
        /\ on \in [Procs -> Cores] /\ ranOn \in [Procs -> SUBSET Cores]
        /\ cycles \in [Procs -> 0..Quantum] /\ 0 \in 0..Quantum
        /\ \A q \in Procs : status[q] # "Finished" => pc[q] \in Reach(q)
    BY CoresAssumption DEF Typed, MachineTypeOK
  <2>3. /\ status' \in [Procs -> {"Ready", "Running", "Blocked", "Finished"}]
        /\ on' \in [Procs -> Cores] /\ cycles' \in [Procs -> 0..Quantum]
    BY <2>1, <2>2
  <2>4. ranOn' \in [Procs -> SUBSET Cores]
    BY <2>1, <2>2
  <2>5. \A q \in Procs : status'[q] # "Finished" => pc[q] \in Reach(q)
    BY <2>1, <2>2
  <2> QED
    BY <2>1, <2>3, <2>4, <2>5, SamePlaces DEF Typed, MachineTypeOK
<1> QED
  BY <1>1, <1>2, <1>3, <1>4, <1>5 DEF Next, Done

(* Words stay words and addresses addresses: whatever the programs compute *)
(* and wherever they branch, the machine only ever reads addresses that    *)
(* its program counters and immediates can hold.                           *)
THEOREM MachineIsTyped == Spec => []MachineTypeOK
<1>1. Typed => MachineTypeOK
  BY DEF Typed
<1> QED
  BY <1>1, TypedInit, TypedStep, PTL DEF Spec

-----------------------------------------------------------------------------
(* The instructions of the program files stay what they are.               *)

(* No process runs before the last program is in memory.                   *)
NotStarted ==
  loaded < Len(programs) =>
    /\ \A p \in Procs : status[p] = "Ready"
    /\ \A c \in Cores : cache[c] = EmptyCache

CleanIsMemory ==
  \A c \in Cores : \A a \in DOMAIN cache[c].lines :
    ~cache[c].lines[a].dirty => cache[c].lines[a].data = ReadMem(memory, a)

(* Memory holds the programs that were loaded.                             *)
ImagesAreLoaded ==
  \A p \in 1..loaded : \A k \in 0..(ImageSize(p) - 1) :
    ReadMem(memory, Base(p) + 4 * k) = ImageWord(p, k)

(* What a core has written belongs to the data of a process that has done  *)
(* with its data section.  This is why instructions are never overwritten, *)
(* and why the data section is over before it is.                          *)
WritesAreData ==
  \A c \in Cores : \A a \in DOMAIN cache[c].lines :
    cache[c].lines[a].dirty =>
      \E q \in 1..loaded : a \in DataAddresses(q) /\ pc[q] >= Base(q) + 4 * NumData(q)

(* A process is inside its own image until it ends.                        *)
InsideImage ==
  \A p \in 1..loaded :
    status[p] # "Finished" => \E k \in 0..(ImageSize(p) - 1) : pc[p] = Base(p) + 4 * k

Intact ==
  /\ Typed /\ NotStarted /\ CleanIsMemory
  /\ WellPlaced /\ BranchesStay => ImagesAreLoaded /\ WritesAreData /\ InsideImage

(* Two words at one address are the same word of the same program.         *)
LEMMA ImagesApart ==
  ASSUME programs \in Scenarios, WellPlaced,
         NEW p \in Procs, NEW k \in 0..(ImageSize(p) - 1),
         NEW q \in Procs, NEW l \in 0..(ImageSize(q) - 1),
         Base(p) + 4 * k = Base(q) + 4 * l
  PROVE  p = q /\ k = l
<1>1. /\ p \in Nat \ {0} /\ q \in Nat \ {0} /\ ImageSize(p) \in Nat /\ ImageSize(q) \in Nat
      /\ Stride \in Nat
  BY ProgramFacts, StrideAssumption
<1>2. 4 * ImageSize(p) <= Stride /\ 4 * ImageSize(q) <= Stride
  BY DEF WellPlaced
<1>3. ASSUME NEW x \in Nat \ {0}, NEW y \in Nat \ {0}, x < y
      PROVE  Base(x) + Stride <= Base(y)
  <2>1. y - 1 = (x - 1) + 1 + (y - x - 1) /\ y - x - 1 \in Nat /\ x - 1 \in Nat
    BY <1>3
  <2> DEFINE d == y - x - 1
             e == x - 1
  <2> HIDE DEF d, e
  <2>2. (e + 1 + d) * Stride >= e * Stride + Stride
    <3>1. d \in Nat /\ e \in Nat
      BY <2>1 DEF d, e
    <3>2. (e + 1 + d) * Stride = e * Stride + Stride + d * Stride /\ d * Stride \in Nat
          /\ e * Stride \in Nat
      BY <1>1, <3>1
    <3> QED
      BY <1>1, <3>2
  <2>3. (y - 1) * Stride >= (x - 1) * Stride + Stride
    BY <2>1, <2>2 DEF d, e
  <2>4. (y - 1) * Stride \in Nat /\ (x - 1) * Stride \in Nat
    BY <1>1, <1>3
  <2> QED
    BY <1>1, <2>3, <2>4 DEF Base
<1>4. /\ Base(p) \in Nat /\ Base(q) \in Nat
  BY ProgramFacts
<1>5. ~(p < q) /\ ~(q < p)
  BY <1>1, <1>2, <1>3, <1>4
<1>6. p = q
  BY <1>1, <1>5
<1>7. k = l
  BY <1>1, <1>4, <1>6
<1> QED
  BY <1>6, <1>7

(* The word that is fetched is the one of the program file.                *)
LEMMA FetchedIsWritten ==
  ASSUME Intact, WellPlaced, BranchesStay, NEW p \in Procs, InLoop(p),
         NEW k \in 0..(ImageSize(p) - 1), pc[p] = Base(p) + 4 * k
  PROVE  Fetched(p) = ImageWord(p, k)
<1> DEFINE a == pc[p]
           ch == cache[on[p]]
<1>1. /\ programs \in Scenarios /\ on[p] \in Cores /\ loaded \in 0..Len(programs)
      /\ status[p] = "Running"
  BY DEF Intact, Typed, MachineTypeOK, InLoop
<1>2. /\ Procs = 1..Len(programs) /\ Len(programs) \in Nat /\ Base(p) \in Nat
      /\ NumData(p) \in Nat /\ ImageSize(p) \in Nat
  BY <1>1, ProgramFacts
<1>3. loaded = Len(programs)
  <2>1. ~(loaded < Len(programs))
    BY <1>1 DEF Intact, NotStarted
  <2> QED
    BY <1>1, <1>2, <2>1
<1>4. p \in 1..loaded
  BY <1>2, <1>3
<1>5. ReadMem(memory, a) = ImageWord(p, k)
  BY <1>4 DEF Intact, ImagesAreLoaded
<1>6. a \in DOMAIN ch.lines => ~ch.lines[a].dirty
  <2> SUFFICES ASSUME a \in DOMAIN ch.lines, ch.lines[a].dirty PROVE FALSE
    OBVIOUS
  <2>1. PICK q \in 1..loaded : a \in DataAddresses(q) /\ pc[q] >= Base(q) + 4 * NumData(q)
    BY <1>1 DEF Intact, WritesAreData
  <2>2. PICK l \in 0..(NumData(q) - 1) : a = Base(q) + 4 * l
    BY <2>1 DEF DataAddresses
  <2>3. q \in Procs
    BY <1>2, <1>3
  <2>4. l \in 0..(ImageSize(q) - 1) /\ Base(q) \in Nat /\ NumData(q) \in Nat
    <3>1. /\ NumData(q) \in Nat /\ ImageSize(q) \in Nat /\ NumData(q) < ImageSize(q)
          /\ Base(q) \in Nat
      BY <1>1, <2>3, ProgramFacts
    <3> QED
      BY <2>2, <3>1
  <2>5. q = p /\ l = k
    BY <1>1, <2>2, <2>3, <2>4, ImagesApart
  <2>6. pc[p] >= Base(p) + 4 * NumData(p) /\ k < NumData(p)
    BY <2>1, <2>2, <2>4, <2>5
  <2> QED
    BY <1>2, <2>6
<1>7. CASE Hit(ch, a)
  BY <1>1, <1>5, <1>6, <1>7 DEF Hit, Intact, CleanIsMemory, Fetched, ReadValue
<1>8. CASE ~Hit(ch, a)
  BY <1>5, <1>8 DEF Fetched, ReadValue
<1> QED
  BY <1>7, <1>8

(* What the control unit makes of the words of an image: data words are    *)
(* not stores and no branches, and the others are the instructions of the  *)
(* program, but for addi and li.                                           *)
LEMMA DecodedIsWritten ==
  ASSUME Typed, WellPlaced, NEW p \in Procs, NEW k \in 0..(ImageSize(p) - 1),
         Fetched(p) = ImageWord(p, k)
  PROVE  /\ k < NumData(p) => Decoded(p) \in RType \cup Unexecuted \cup {""}
         /\ k >= NumData(p) =>
              LET i == programs[p].code[k - NumData(p) + 1]
              IN  Decoded(p) = IF i.op \in Aliases THEN alias ELSE i.op
<1> DEFINE w == ImageWord(p, k)
<1>1. programs \in Scenarios /\ alias \in Aliases
  BY DEF Typed, MachineTypeOK
<1>2. Decoded(p) = Name(w, alias)
  BY DEF Decoded
<1>3. CASE k < NumData(p)
  <2>1. w \in Range(programs[p].data)
    BY <1>1, <1>3, ImageFacts DEF Range
  <2>2. NamesOf(w) \subseteq RType \cup Unexecuted
    BY <2>1 DEF WellPlaced, Harmless
  <2>3. NamesOf(w) # Aliases
    BY <2>2 DEF Aliases, RType, Unexecuted
  <2>4. NamesOf(w) # {} => (CHOOSE m \in NamesOf(w) : TRUE) \in NamesOf(w)
    OBVIOUS
  <2>5. Name(w, alias) \in RType \cup Unexecuted \cup {""}
    BY <2>2, <2>3, <2>4 DEF Name
  <2>6. ~(k >= NumData(p))
    BY <1>1, <1>3, ProgramFacts
  <2> QED
    BY <1>2, <1>3, <2>5, <2>6
<1>4. CASE ~(k < NumData(p))
  <2> DEFINE n == k - NumData(p)
             i == programs[p].code[n + 1]
  <2>1. k >= NumData(p)
    BY <1>1, <1>4, ProgramFacts
  <2>2. n \in Nat /\ i \in Instruction /\ w = Encode(i, n, Base(p)) /\ Base(p) \in Int
    <3>1. n \in Nat /\ i \in Instruction /\ w = Encode(i, n, Base(p))
      BY <1>1, <2>1, ImageFacts
    <3>2. Base(p) \in Int
      BY <1>1, ProgramFacts
    <3> QED
      BY <3>1, <3>2
  <2> HIDE DEF i, n, w
  <2>3. Name(w, alias) = IF i.op \in Aliases THEN alias ELSE i.op
    BY <1>1, <2>2, NameOfEncoded
  <2> QED
    BY <1>2, <1>4, <2>3 DEF i, n, w
<1> QED
  BY <1>3, <1>4

(* Stores go to the data of the program, branches to its instructions.     *)
LEMMA OwnAddresses ==
  ASSUME Intact, WellPlaced, BranchesStay, NEW p \in Procs, InLoop(p),
         NEW k \in 0..(ImageSize(p) - 1), pc[p] = Base(p) + 4 * k
  PROVE  /\ Decoded(p) = "sw" => k >= NumData(p) /\ Imm(Fetched(p)) \in DataAddresses(p)
         /\ Decoded(p) \in Branches \cup {"j"} => BranchGoal(p) \in CodeAddresses(p)
<1> DEFINE w == ImageWord(p, k)
           n == k - NumData(p)
           i == programs[p].code[n + 1]
<1>1. Fetched(p) = w
  BY FetchedIsWritten
<1>2. /\ programs \in Scenarios /\ alias \in Aliases
      /\ NumData(p) \in Nat /\ Base(p) \in Nat /\ ImageSize(p) \in Nat
  BY ProgramFacts DEF Intact, Typed, MachineTypeOK
<1>3. k < NumData(p) => Decoded(p) \in RType \cup Unexecuted \cup {""}
  BY <1>1, DecodedIsWritten DEF Intact
<1>4. CASE k < NumData(p)
  BY <1>3, <1>4 DEF RType, Unexecuted, Branches
<1>5. CASE k >= NumData(p)
  <2>1. Decoded(p) = IF i.op \in Aliases THEN alias ELSE i.op
    BY <1>1, <1>5, DecodedIsWritten DEF Intact
  <2>2. /\ n \in Nat /\ i \in Instruction /\ i \in Instructions(p)
        /\ w = Encode(i, n, Base(p))
    BY <1>2, <1>5, ImageFacts
  <2>3. Decoded(p) = "sw" => i.op = "sw"
    BY <1>2, <2>1 DEF Aliases
  <2>4. ASSUME i.op = "sw"
        PROVE  Imm(w) \in DataAddresses(p)
    <3>1. i.via = "data" /\ Base(p) + 4 * i.imm < ImmSize
      BY <2>2, <2>4 DEF WellPlaced, AsWritten
    <3>2. i.imm \in 0..(NumData(p) - 1)
      BY <1>2, <2>2, <3>1, ProgramAssumption DEF Instructions, NumData, Procs
    <3>3. Operand(i, n, Base(p)) = Base(p) + 4 * i.imm
      BY <3>1 DEF Operand
    <3>4. Imm(w) = (Base(p) + 4 * i.imm) % ImmSize
      <4>1. n \in Int /\ Base(p) \in Int
        BY <1>2, <2>2
      <4>2. i.op \notin RType \cup {"j", "jal", "end", "print"}
        BY <2>4 DEF RType
      <4> HIDE DEF n, i, w
      <4> QED
        BY <2>2, <3>3, <4>1, <4>2, Encoded
    <3> DEFINE d == i.imm
    <3>5. d \in Nat /\ Base(p) + 4 * d \in 0..(ImmSize - 1)
      BY <1>2, <3>1, <3>2, Sizes
    <3>6. (Base(p) + 4 * d) % ImmSize = Base(p) + 4 * d
      <4> DEFINE x == Base(p) + 4 * d
      <4> HIDE DEF x
      <4> QED
        BY <3>5, Sizes, ModOfSmall DEF x
    <3> QED
      BY <3>2, <3>4, <3>6 DEF DataAddresses
  <2>5. Decoded(p) = "j" => i.op = "j"
    BY <1>2, <2>1 DEF Aliases
  <2>6. Decoded(p) \in Branches => i.op \in Branches
    BY <1>2, <2>1 DEF Aliases, Branches
  <2>7. k \in NumData(p)..(ImageSize(p) - 1)
    BY <1>2, <1>5
  <2>8. /\ i.op \in Branches => Imm(w) \in CodeAddresses(p)
        /\ i.op = "j" => Target(w) \in CodeAddresses(p)
    BY <2>7 DEF BranchesStay
  <2>9. "j" \notin Branches
    BY DEF Branches
  <2> HIDE DEF w, i, n
  <2> QED
    BY <1>1, <1>5, <2>3, <2>4, <2>5, <2>6, <2>8, <2>9 DEF BranchGoal
<1> QED
  BY <1>2, <1>4, <1>5

(* The lines of the cache after a turn.                                    *)
LEMMA LinesLeft ==
  ASSUME NEW p, NEW ch, NEW S, Leaves(p, ch, S), NEW a \in DOMAIN ch.lines
  PROVE  \/ a \in DOMAIN cache[on[p]].lines /\ ch.lines[a] = cache[on[p]].lines[a]
         \/ ch.lines[a] = [data |-> ReadMem(memory, a), dirty |-> FALSE]
         \/ /\ Decoded(p) = "sw" /\ a = Imm(Fetched(p))
            /\ ch.lines[a] = [data |-> regs[p][Rt(Fetched(p))], dirty |-> TRUE]
<1>1. CASE Follows(cache[on[p]], memory, {pc[p]} \cup S, ch)
  BY <1>1 DEF Follows
<1>2. CASE ~Follows(cache[on[p]], memory, {pc[p]} \cup S, ch)
  <2> DEFINE x == Imm(Fetched(p))
             v == regs[p][Rt(Fetched(p))]
  <2>1. PICK r : /\ Decoded(p) = "sw" /\ Follows(cache[on[p]], memory, {pc[p]} \cup S, r)
                 /\ x \in DOMAIN r.lines /\ ch = Update(r, x, v)
    BY <1>2 DEF Leaves
  <2> HIDE DEF x, v
  <2>2. r = [lines |-> r.lines, fifo |-> r.fifo]
    BY <2>1 DEF Follows, IsCache
  <2>3. ch = [r EXCEPT !.lines[x] = [data |-> v, dirty |-> TRUE]]
    BY <2>1 DEF Update
  <2>4. ch.lines = [r.lines EXCEPT ![x] = [data |-> v, dirty |-> TRUE]]
    BY <2>2, <2>3
  <2>5. a \in DOMAIN r.lines
    BY <2>4
  <2>6. CASE a = x
    BY <2>1, <2>4, <2>5, <2>6 DEF x, v
  <2>7. CASE a # x
    <3>1. ch.lines[a] = r.lines[a]
      BY <2>4, <2>5, <2>7
    <3> QED
      BY <2>1, <2>5, <3>1 DEF Follows
  <2> QED
    BY <2>6, <2>7
<1> QED
  BY <1>1, <1>2

LEMMA SameHypotheses ==
  ASSUME programs' = programs, alias' = alias
  PROVE  WellPlaced' = WellPlaced /\ BranchesStay' = BranchesStay
<1>1. Procs' = Procs
  BY SamePlaces
<1>2. WellPlaced' = WellPlaced
  BY <1>1 DEF WellPlaced, ImageSize, NumData, ImageAddresses, Base, Instructions, AsWritten
<1>3. BranchesStay' = BranchesStay
  BY <1>1 DEF BranchesStay, ImageSize, NumData, CodeAddresses, Base, ImageWord
<1> QED
  BY <1>2, <1>3

LEMMA IntactInit == Init => Intact
<1> SUFFICES ASSUME Init PROVE Intact
  OBVIOUS
<1>1. Typed
  BY TypedInit
<1>2. NotStarted
  BY DEF Init, NotStarted
<1>3. CleanIsMemory
  BY EmptyIsCache DEF Init, CleanIsMemory
<1>4. loaded = 0 /\ 1..0 = {}
  BY DEF Init
<1>5. ImagesAreLoaded /\ InsideImage
  BY <1>4 DEF ImagesAreLoaded, InsideImage
<1>6. WritesAreData
  BY EmptyIsCache DEF Init, WritesAreData
<1> QED
  BY <1>1, <1>2, <1>3, <1>5, <1>6 DEF Intact

(* The last program is in memory when a process runs.                      *)
LEMMA AllLoaded ==
  ASSUME Typed, NotStarted, NEW p \in Procs, status[p] # "Ready"
  PROVE  loaded = Len(programs) /\ Procs = 1..loaded /\ Len(programs) \in Nat
<1>1. programs \in Scenarios /\ loaded \in 0..Len(programs)
  BY DEF Typed, MachineTypeOK
<1>2. Procs = 1..Len(programs) /\ Len(programs) \in Nat
  BY <1>1, ProgramFacts
<1>3. ~(loaded < Len(programs))
  BY DEF NotStarted
<1> QED
  BY <1>1, <1>2, <1>3

LEMMA LoadedAreProcs ==
  ASSUME Typed
  PROVE  1..loaded \subseteq Procs
<1>1. programs \in Scenarios /\ loaded \in 0..Len(programs)
  BY DEF Typed, MachineTypeOK
<1> DEFINE P == [data: Seq(0..AllOnes), code: Seq(Instruction)]
<1>2. programs \in Seq(P)
  BY <1>1, ProgramAssumption
<1> HIDE DEF P
<1>3. Procs = 1..Len(programs) /\ Len(programs) \in Nat
  BY <1>2 DEF Procs
<1> QED
  BY <1>1, <1>3

LEMMA IntactTurn ==
  ASSUME Intact, NEW p \in Procs, NEW st, NEW v, NEW ch, NEW S, Turn(p, st, v, ch, S)
  PROVE  Intact'
<1>1. /\ UNCHANGED <<programs, alias, loaded, memory, on>>
      /\ InLoop(p) /\ status[p] = "Running"
      /\ status' = [status EXCEPT ![p] = st] /\ pc' = [pc EXCEPT ![p] = v]
      /\ cache' = [cache EXCEPT ![on[p]] = ch] /\ Leaves(p, ch, S)
      /\ \/ v = pc[p] /\ st = "Finished"
         \/ v = pc[p] + 4
         \/ v = BranchGoal(p) /\ Decoded(p) \in Branches \cup {"j"}
      /\ st # "Finished" => ~PastEnd(p)
  BY DEF Turn, UseCache, InLoop
<1>2. /\ programs \in Scenarios /\ on[p] \in Cores /\ DOMAIN cache = Cores
      /\ status \in [Procs -> {"Ready", "Running", "Blocked", "Finished"}]
      /\ pc \in [Procs -> Address] /\ Address \subseteq Nat
  BY AddressAssumption DEF Intact, Typed, MachineTypeOK
<1>3. loaded = Len(programs) /\ Procs = 1..loaded /\ Len(programs) \in Nat
  BY <1>1, AllLoaded DEF Intact
<1>4. Typed'
  BY TurnIsTyped DEF Intact
<1>5. NotStarted'
  BY <1>1, <1>3 DEF NotStarted
<1>6. /\ Procs' = Procs
      /\ \A q : /\ NumData(q)' = NumData(q) /\ ImageSize(q)' = ImageSize(q)
                /\ Base(q)' = Base(q) /\ DataAddresses(q)' = DataAddresses(q)
                /\ \A k : ImageWord(q, k)' = ImageWord(q, k)
  BY <1>1, SamePlaces
<1>7. CleanIsMemory'
  <2> SUFFICES ASSUME NEW c \in Cores, NEW a \in DOMAIN cache'[c].lines,
                      ~cache'[c].lines[a].dirty
               PROVE  cache'[c].lines[a].data = ReadMem(memory', a)
    BY DEF CleanIsMemory
  <2>1. CASE c # on[p]
    BY <1>1, <1>2, <2>1 DEF Intact, CleanIsMemory
  <2>2. CASE c = on[p]
    <3>1. cache'[c] = ch
      BY <1>1, <1>2, <2>2
    <3>2. a \in DOMAIN ch.lines /\ ~ch.lines[a].dirty
      BY <3>1
    <3>3. \/ a \in DOMAIN cache[c].lines /\ ch.lines[a] = cache[c].lines[a]
          \/ ch.lines[a] = [data |-> ReadMem(memory, a), dirty |-> FALSE]
          \/ ch.lines[a] = [data |-> regs[p][Rt(Fetched(p))], dirty |-> TRUE]
      BY <1>1, <2>2, <3>2, LinesLeft
    <3>4. CASE a \in DOMAIN cache[c].lines /\ ch.lines[a] = cache[c].lines[a]
      BY <1>1, <3>1, <3>2, <3>4 DEF Intact, CleanIsMemory
    <3>5. CASE ch.lines[a] = [data |-> ReadMem(memory, a), dirty |-> FALSE]
      BY <1>1, <3>1, <3>5
    <3>6. CASE ch.lines[a] = [data |-> regs[p][Rt(Fetched(p))], dirty |-> TRUE]
      BY <3>2, <3>6
    <3> QED
      BY <3>3, <3>4, <3>5, <3>6
  <2> QED
    BY <2>1, <2>2
<1>8. ASSUME WellPlaced, BranchesStay
      PROVE  ImagesAreLoaded' /\ WritesAreData' /\ InsideImage'
  <2>1. ImagesAreLoaded'
    BY <1>1, <1>6, <1>8 DEF Intact, ImagesAreLoaded
  <2>2. PICK k \in 0..(ImageSize(p) - 1) : pc[p] = Base(p) + 4 * k
    BY <1>1, <1>3, <1>8 DEF Intact, InsideImage
  <2>3. /\ Decoded(p) = "sw" => k >= NumData(p) /\ Imm(Fetched(p)) \in DataAddresses(p)
        /\ Decoded(p) \in Branches \cup {"j"} => BranchGoal(p) \in CodeAddresses(p)
    BY <1>1, <1>8, <2>2, OwnAddresses
  <2>4. /\ Base(p) \in Nat /\ NumData(p) \in Nat /\ ImageSize(p) \in Nat
        /\ ProgramEnd(p) = Base(p) + 4 * ImageSize(p) /\ NumData(p) < ImageSize(p)
    BY <1>2, ProgramFacts
  <2>5. InsideImage'
    <3> SUFFICES ASSUME NEW q \in 1..loaded, status'[q] # "Finished"
                 PROVE  \E l \in 0..(ImageSize(q) - 1) : pc'[q] = Base(q) + 4 * l
      BY <1>1, <1>6 DEF InsideImage
    <3>1. CASE q # p
      BY <1>1, <1>2, <1>3, <1>8, <3>1 DEF Intact, InsideImage
    <3>2. CASE q = p
      <4>1. st # "Finished" /\ pc'[p] = v
        BY <1>1, <1>2, <3>2
      <4>2. CASE v = pc[p] + 4
        <5>1. ~(pc[p] + 4 >= ProgramEnd(p))
          BY <1>1, <4>1 DEF PastEnd
        <5>2. k + 1 \in 0..(ImageSize(p) - 1) /\ v = Base(p) + 4 * (k + 1)
          BY <2>2, <2>4, <4>2, <5>1
        <5> QED
          BY <3>2, <4>1, <5>2
      <4>3. CASE v = BranchGoal(p) /\ Decoded(p) \in Branches \cup {"j"}
        <5>1. PICK l \in NumData(p)..(ImageSize(p) - 1) : v = Base(p) + 4 * l
          BY <2>3, <4>3 DEF CodeAddresses
        <5>2. l \in 0..(ImageSize(p) - 1)
          BY <2>4
        <5> QED
          BY <3>2, <4>1, <5>1, <5>2
      <4> QED
        BY <1>1, <4>1, <4>2, <4>3
    <3> QED
      BY <3>1, <3>2
  <2>6. ASSUME pc[p] >= Base(p) + 4 * NumData(p)
        PROVE  v >= Base(p) + 4 * NumData(p)
    <3>1. CASE v \in {pc[p], pc[p] + 4}
      BY <2>2, <2>4, <2>6, <3>1
    <3>2. CASE v = BranchGoal(p) /\ Decoded(p) \in Branches \cup {"j"}
      <4>1. PICK l \in NumData(p)..(ImageSize(p) - 1) : v = Base(p) + 4 * l
        BY <2>3, <3>2 DEF CodeAddresses
      <4> QED
        BY <2>4, <4>1
    <3> QED
      BY <1>1, <3>1, <3>2
  <2>7. ASSUME NEW a, NEW q \in 1..loaded,
               a \in DataAddresses(q), pc[q] >= Base(q) + 4 * NumData(q)
        PROVE  \E r \in 1..loaded : a \in DataAddresses(r) /\ pc'[r] >= Base(r) + 4 * NumData(r)
    <3>1. pc'[q] >= Base(q) + 4 * NumData(q)
      BY <1>1, <1>2, <1>3, <2>6, <2>7
    <3> QED
      BY <2>7, <3>1
  <2>8. WritesAreData'
    <3> SUFFICES ASSUME NEW c \in Cores, NEW a \in DOMAIN cache'[c].lines,
                        cache'[c].lines[a].dirty
                 PROVE  \E q \in 1..loaded :
                          a \in DataAddresses(q) /\ pc'[q] >= Base(q) + 4 * NumData(q)
      BY <1>1, <1>6 DEF WritesAreData
    <3>1. CASE a \in DOMAIN cache[c].lines /\ cache'[c].lines[a] = cache[c].lines[a]
      <4>1. PICK q \in 1..loaded : a \in DataAddresses(q) /\ pc[q] >= Base(q) + 4 * NumData(q)
        BY <1>8, <3>1 DEF Intact, WritesAreData
      <4> QED
        BY <2>7, <4>1
    <3>2. CASE c = on[p] /\ Decoded(p) = "sw" /\ a = Imm(Fetched(p))
      <4>1. p \in 1..loaded /\ a \in DataAddresses(p) /\ pc[p] >= Base(p) + 4 * NumData(p)
        BY <1>3, <2>2, <2>3, <2>4, <3>2
      <4> QED
        BY <2>7, <4>1
    <3>3. \/ a \in DOMAIN cache[c].lines /\ cache'[c].lines[a] = cache[c].lines[a]
          \/ c = on[p] /\ Decoded(p) = "sw" /\ a = Imm(Fetched(p))
      <4>1. CASE c # on[p]
        BY <1>1, <1>2, <4>1
      <4>2. CASE c = on[p]
        <5>1. cache'[c] = ch
          BY <1>1, <1>2, <4>2
        <5>2. a \in DOMAIN ch.lines /\ ch.lines[a].dirty
          BY <5>1
        <5>3. ch.lines[a] # [data |-> ReadMem(memory, a), dirty |-> FALSE]
          BY <5>2
        <5> QED
          BY <1>1, <4>2, <5>1, <5>2, <5>3, LinesLeft
      <4> QED
        BY <4>1, <4>2
    <3> QED
      BY <3>1, <3>2, <3>3
  <2> QED
    BY <2>1, <2>5, <2>8
<1>9. WellPlaced' = WellPlaced /\ BranchesStay' = BranchesStay
  BY <1>1, SameHypotheses
<1> QED
  BY <1>4, <1>5, <1>7, <1>8, <1>9 DEF Intact

LEMMA IntactLoad ==
  ASSUME Intact, NEW p \in Procs, Load(p)
  PROVE  Intact'
<1>1. /\ UNCHANGED <<programs, alias, cache, status>>
      /\ loaded = p - 1 /\ loaded' = p /\ pc' = [pc EXCEPT ![p] = Base(p)]
  BY DEF Load, fixed, burst
<1>2. programs \in Scenarios /\ pc \in [Procs -> Address]
  BY DEF Intact, Typed, MachineTypeOK
<1>3. Procs = 1..Len(programs) /\ Len(programs) \in Nat /\ p \in Nat \ {0}
  BY <1>2, ProgramFacts
<1>4. loaded < Len(programs)
  BY <1>1, <1>3
<1>5. (\A q \in Procs : status[q] = "Ready") /\ \A c \in Cores : cache[c] = EmptyCache
  BY <1>4 DEF Intact, NotStarted
<1>6. \A c \in Cores : DOMAIN cache'[c].lines = {}
  BY <1>1, <1>5, EmptyIsCache
<1>7. /\ Procs' = Procs
      /\ \A q : /\ ImageSize(q)' = ImageSize(q) /\ Base(q)' = Base(q)
                /\ \A k : ImageWord(q, k)' = ImageWord(q, k)
  BY <1>1, SamePlaces
<1>8. Typed'
  BY LoadIsTyped DEF Intact
<1>9. NotStarted'
  BY <1>1, <1>5, <1>7 DEF NotStarted
<1>10. CleanIsMemory'
  BY <1>6 DEF CleanIsMemory
<1>11. ASSUME WellPlaced, BranchesStay
       PROVE  ImagesAreLoaded' /\ WritesAreData' /\ InsideImage'
  <2>1. WritesAreData'
    BY <1>6 DEF WritesAreData
  <2>2. InsideImage'
    <3> SUFFICES ASSUME NEW q \in 1..p, status'[q] # "Finished"
                 PROVE  \E k \in 0..(ImageSize(q) - 1) : pc'[q] = Base(q) + 4 * k
      BY <1>1, <1>7 DEF InsideImage
    <3>1. CASE q = p
      <4>1. 0 \in 0..(ImageSize(p) - 1) /\ Base(p) = Base(p) + 4 * 0
        BY <1>2, ProgramFacts
      <4>2. pc'[p] = Base(p)
        BY <1>1, <1>2
      <4> QED
        BY <3>1, <4>1, <4>2
    <3>2. CASE q # p
      <4>1. q \in 1..loaded /\ status[q] # "Finished" /\ pc'[q] = pc[q]
        BY <1>1, <1>2, <1>3, <3>2
      <4> QED
        BY <1>11, <4>1 DEF Intact, InsideImage
    <3> QED
      BY <3>1, <3>2
  <2>3. ImagesAreLoaded'
    <3> SUFFICES ASSUME NEW q \in 1..p, NEW k \in 0..(ImageSize(q) - 1)
                 PROVE  ReadMem(memory', Base(q) + 4 * k) = ImageWord(q, k)
      BY <1>1, <1>7 DEF ImagesAreLoaded
    <3> DEFINE a == Base(q) + 4 * k
    <3>0. q \in Procs
      BY <1>3
    <3>1. a \in ImageAddresses(q) /\ HasCell(a)
      BY <1>11, <3>0 DEF ImageAddresses, WellPlaced
    <3>2. CASE q = p
      <4>1. a \in DOMAIN memory' /\ memory'[a] = ImageWord(p, k)
        BY <3>1, <3>2, LoadedMemory DEF Intact
      <4> QED
        BY <3>2, <4>1 DEF ReadMem
    <3>3. CASE q # p
      <4>1. q \in 1..loaded
        BY <1>1, <1>3, <3>3
      <4>2. ReadMem(memory, a) = ImageWord(q, k)
        BY <1>11, <4>1 DEF Intact, ImagesAreLoaded
      <4>3. a \notin ImageAddresses(p)
        BY <1>2, <1>11, <3>0, <3>3, ImagesApart DEF ImageAddresses
      <4>4. /\ DOMAIN memory' = DOMAIN memory \cup {x \in ImageAddresses(p) : HasCell(x)}
            /\ \A x \in DOMAIN memory : x \notin ImageAddresses(p) => memory'[x] = memory[x]
        BY LoadedMemory DEF Intact
      <4> HIDE DEF a
      <4>5. ReadMem(memory', a) = ReadMem(memory, a)
        BY <4>3, <4>4 DEF ReadMem
      <4> QED
        BY <4>2, <4>5 DEF a
    <3> QED
      BY <3>2, <3>3
  <2> QED
    BY <2>1, <2>2, <2>3
<1>12. WellPlaced' = WellPlaced /\ BranchesStay' = BranchesStay
  BY <1>1, SameHypotheses
<1> QED
  BY <1>8, <1>9, <1>10, <1>11, <1>12 DEF Intact

(* The steps of the scheduler do not touch memory, caches and counters.    *)
LEMMA IntactSchedule ==
  ASSUME Intact, Typed', UNCHANGED <<programs, alias, loaded, memory, cache, pc>>,
         loaded < Len(programs) => \A q \in Procs : status'[q] = status[q],
         \A q \in Procs : status'[q] # "Finished" => status[q] # "Finished"
  PROVE  Intact'
<1>1. /\ Procs' = Procs
      /\ \A q : /\ NumData(q)' = NumData(q) /\ ImageSize(q)' = ImageSize(q)
                /\ Base(q)' = Base(q) /\ DataAddresses(q)' = DataAddresses(q)
                /\ \A k : ImageWord(q, k)' = ImageWord(q, k)
  BY SamePlaces
<1>2. NotStarted'
  BY <1>1 DEF Intact, NotStarted
<1>3. CleanIsMemory'
  BY DEF Intact, CleanIsMemory
<1>4. 1..loaded \subseteq Procs
  BY LoadedAreProcs DEF Intact
<1>5. ASSUME WellPlaced, BranchesStay
      PROVE  ImagesAreLoaded' /\ WritesAreData' /\ InsideImage'
  <2>1. ImagesAreLoaded'
    BY <1>1, <1>5 DEF Intact, ImagesAreLoaded
  <2>2. WritesAreData'
    BY <1>1, <1>5 DEF Intact, WritesAreData
  <2>3. InsideImage'
    BY <1>1, <1>4, <1>5 DEF Intact, InsideImage
  <2> QED
    BY <2>1, <2>2, <2>3
<1>6. WellPlaced' = WellPlaced /\ BranchesStay' = BranchesStay
  BY SameHypotheses
<1> QED
  BY <1>2, <1>3, <1>5, <1>6 DEF Intact

LEMMA IntactStep == Intact /\ [Next]_vars => Intact'
<1> SUFFICES ASSUME Intact, [Next]_vars PROVE Intact'
  OBVIOUS
<1>1. Typed'
  BY TypedStep DEF Intact
<1>2. status \in [Procs -> {"Ready", "Running", "Blocked", "Finished"}]
  BY DEF Intact, Typed, MachineTypeOK
<1>3. CASE UNCHANGED vars
  BY <1>1, <1>3, IntactSchedule DEF vars
<1>4. ASSUME NEW p \in Procs, Load(p)
      PROVE  Intact'
  BY <1>4, IntactLoad
<1>5. ASSUME NEW p \in Procs, Preempt(p) \/ Unblock(p)
      PROVE  Intact'
  <2>1. /\ status' = [status EXCEPT ![p] = "Ready"] /\ status[p] \in {"Running", "Blocked"}
        /\ UNCHANGED <<programs, alias, loaded, memory, cache, pc>>
    BY <1>5 DEF Preempt, Unblock, fixed
  <2>2. ~(loaded < Len(programs))
    BY <2>1 DEF Intact, NotStarted
  <2>3. \A q \in Procs : status'[q] # "Finished" => status[q] # "Finished"
    BY <1>2, <2>1
  <2> QED
    BY <1>1, <2>1, <2>2, <2>3, IntactSchedule
<1>6. ASSUME NEW p \in Procs, RunProcess(p), ~Preempt(p)
      PROVE  Intact'
  BY <1>6, RunIsTurn, IntactTurn DEF Intact
<1>7. ASSUME NEW p \in Procs, NEW c \in Cores, Dispatch(p, c)
      PROVE  Intact'
  <2>1. /\ status' = [status EXCEPT ![p] = "Running"] /\ status[p] = "Ready"
        /\ loaded = Len(programs)
        /\ UNCHANGED <<programs, alias, loaded, memory, cache, pc>>
    BY <1>7 DEF Dispatch, fixed
  <2>2. ~(loaded < Len(programs))
    BY <2>1, <1>1 DEF Intact, Typed, MachineTypeOK
  <2>3. \A q \in Procs : status'[q] # "Finished" => status[q] # "Finished"
    BY <1>2, <2>1
  <2> QED
    BY <1>1, <2>1, <2>2, <2>3, IntactSchedule
<1> QED
  BY <1>3, <1>4, <1>5, <1>6, <1>7 DEF Next, Done

(* Whatever the programs store and wherever the caches keep it, every core *)
(* sees the instructions of every program that is in memory as they were   *)
(* encoded: stores go to the data of the process that makes them, and a    *)
(* line that was not stored to is a copy of memory.                        *)
THEOREM InstructionsAreIntact == Spec => []CodeIsIntact
<1>1. Intact => CodeIsIntact
  <2> SUFFICES ASSUME Intact, WellPlaced, BranchesStay, NEW p \in 1..loaded, NEW c \in Cores,
                      NEW k \in NumData(p)..(ImageSize(p) - 1)
               PROVE  ReadValue(cache[c], memory, Base(p) + 4 * k) = ImageWord(p, k)
    BY DEF CodeIsIntact
  <2> DEFINE a == Base(p) + 4 * k
             ch == cache[c]
  <2>1. programs \in Scenarios /\ loaded \in 0..Len(programs)
    BY DEF Intact, Typed, MachineTypeOK
  <2>2. 1..loaded \subseteq Procs
    BY LoadedAreProcs DEF Intact
  <2>3. k \in 0..(ImageSize(p) - 1) /\ p \in Procs
    <3>1. p \in Procs
      BY <2>2
    <3>2. NumData(p) \in Nat /\ ImageSize(p) \in Nat
      BY <2>1, <3>1, ProgramFacts
    <3> QED
      BY <3>1, <3>2
  <2>4. ReadMem(memory, a) = ImageWord(p, k)
    BY <2>3 DEF Intact, ImagesAreLoaded
  <2>5. a \in DOMAIN ch.lines => ~ch.lines[a].dirty
    <3> SUFFICES ASSUME a \in DOMAIN ch.lines, ch.lines[a].dirty PROVE FALSE
      OBVIOUS
    <3>1. PICK q \in 1..loaded : a \in DataAddresses(q)
      BY DEF Intact, WritesAreData
    <3>2. PICK l \in 0..(NumData(q) - 1) : a = Base(q) + 4 * l
      BY <3>1 DEF DataAddresses
    <3>3. q \in Procs
      BY <2>2
    <3>4. NumData(q) \in Nat /\ ImageSize(q) \in Nat /\ NumData(q) < ImageSize(q)
      BY <2>1, <3>3, ProgramFacts
    <3>5. l \in 0..(ImageSize(q) - 1)
      BY <3>2, <3>4
    <3>6. q = p /\ l = k
      BY <2>1, <2>3, <3>2, <3>3, <3>5, ImagesApart
    <3>7. k < NumData(p) /\ k >= NumData(p)
      BY <3>2, <3>4, <3>6
    <3> QED
      BY <3>4, <3>6, <3>7
  <2>6. CASE Hit(ch, a)
    BY <2>4, <2>5, <2>6 DEF Hit, Intact, CleanIsMemory, ReadValue
  <2>7. CASE ~Hit(ch, a)
    BY <2>4, <2>7 DEF ReadValue
  <2> QED
    BY <2>6, <2>7
<1> QED
  BY <1>1, IntactInit, IntactStep, PTL DEF Spec

-----------------------------------------------------------------------------
(* A process computes what its program means.                              *)

(* The state of the meaning of p after n instructions.                     *)
State(p, n) == RefRun(programs[p], Base(p), n)

StateOf(p, s) ==
  /\ IsState(s)
  /\ s.reg \in [Registers -> Int] /\ s.reg[Zero] = 0
  /\ s.data \in [1..NumData(p) -> Int]
  /\ s.stored \subseteq 0..(NumData(p) - 1)

(* The process is in its data section and has not begun, or it is at the   *)
(* instruction that the meaning is at.                                     *)
At(p, s) ==
  \/ s = RefInit(programs[p]) /\ \E k \in 0..(NumData(p) - 1) : pc[p] = Base(p) + 4 * k
  \/ /\ s.k \in 0..(Len(programs[p].code) - 1)
     /\ pc[p] = Base(p) + 4 * (NumData(p) + s.k)

DataAddress(p, d) == Base(p) + 4 * d

(* The words of p's data in the caches: what was written is what the       *)
(* meaning has stored, and as long as the process stays on its core with   *)
(* a line to spare, the core has it.                                       *)
StoresFollow(p, s) ==
  /\ \A c \in Cores : \A d \in 0..(NumData(p) - 1) :
       /\ DataAddress(p, d) \in DOMAIN cache[c].lines
       /\ cache[c].lines[DataAddress(p, d)].dirty
       => d \in s.stored
  /\ ~s.marked => \A d \in s.stored : s.data[d + 1] # -1
  /\ \A c \in Cores :
       ranOn[p] = {c} /\ Cardinality(touched[c]) < Capacity /\ ~s.marked =>
         \A d \in s.stored :
           /\ DataAddress(p, d) \in DOMAIN cache[c].lines
           /\ cache[c].lines[DataAddress(p, d)].dirty
           /\ Signed(cache[c].lines[DataAddress(p, d)].data, WordSize) = s.data[d + 1]

Matches(p, s) ==
  /\ StateOf(p, s)
  /\ \A r \in Registers : Signed(regs[p][r], WordSize) = s.reg[r]
  /\ IF status[p] = "Finished" THEN s.done ELSE ~s.done /\ At(p, s)
  /\ \A d \in 0..(NumData(p) - 1) :
       d \notin s.stored => s.data[d + 1] = Signed(programs[p].data[d + 1], WordSize)
  /\ StoresFollow(p, s)
  /\ ranOn[p] = {} => s.stored = {}

(* The process has read a word it stored, and the word may have been lost: *)
(* nothing is claimed of it any more.                                      *)
Excused(p, s) == s.reloads /\ (s.marked \/ ~KeptItsLines(p)) /\ ranOn[p] # {}

Follower(p) == Portable(p) /\ ~UsesLabels(p) /\ EndsWithEnd(p)

(* The history of cores and addresses is that of what happened.            *)
History ==
  /\ \A p \in Procs : status[p] = "Running" => on[p] \in ranOn[p]
  /\ \A c \in Cores : DOMAIN cache[c].lines \subseteq touched[c] /\ IsFiniteSet(touched[c])
  /\ loaded < Len(programs) =>
       \A p \in Procs : ranOn[p] = {} /\ \A r \in Registers : regs[p][r] = 0

OnCourse(p) == \E n \in Nat : Matches(p, State(p, n)) \/ Excused(p, State(p, n))

Meant ==
  /\ Intact /\ History
  /\ WellPlaced /\ BranchesStay => \A p \in 1..loaded : Follower(p) => OnCourse(p)

LEMMA LineKept ==
  ASSUME NEW q, NEW ch, NEW S, Leaves(q, ch, S),
         NEW U, IsFiniteSet(U), Cardinality(U) < Capacity,
         DOMAIN cache[on[q]].lines \cup ({pc[q]} \cup S) \subseteq U,
         NEW a \in DOMAIN cache[on[q]].lines, Hit(cache[on[q]], a),
         Decoded(q) = "sw" => a # Imm(Fetched(q))
  PROVE  a \in DOMAIN ch.lines /\ ch.lines[a] = cache[on[q]].lines[a]
<1> DEFINE old == cache[on[q]]
           T == {pc[q]} \cup S
<1>1. CASE Follows(old, memory, T, ch)
  BY <1>1 DEF Follows
<1>2. CASE ~Follows(old, memory, T, ch)
  <2> DEFINE x == Imm(Fetched(q))
             v == regs[q][Rt(Fetched(q))]
  <2>1. PICK r : /\ Decoded(q) = "sw" /\ Follows(old, memory, T, r)
                 /\ x \in DOMAIN r.lines /\ ch = Update(r, x, v)
    BY <1>2 DEF Leaves
  <2>2. a \in DOMAIN r.lines /\ r.lines[a] = old.lines[a]
    BY <2>1 DEF Follows
  <2>3. a # x
    BY <2>1
  <2> HIDE DEF x, v, old, T
  <2>4. r = [lines |-> r.lines, fifo |-> r.fifo]
    BY <2>1 DEF Follows, IsCache
  <2>5. ch = [r EXCEPT !.lines[x] = [data |-> v, dirty |-> TRUE]]
    BY <2>1 DEF Update
  <2>6. ch.lines = [r.lines EXCEPT ![x] = [data |-> v, dirty |-> TRUE]]
    BY <2>4, <2>5
  <2>7. a \in DOMAIN ch.lines /\ ch.lines[a] = r.lines[a]
    BY <2>2, <2>3, <2>6
  <2> QED
    BY <2>2, <2>7 DEF old
<1> QED
  BY <1>1, <1>2

LEMMA HistoryTurn ==
  ASSUME Meant, NEW q \in Procs, NEW st, NEW v, NEW ch, NEW S, Turn(q, st, v, ch, S)
  PROVE  /\ History'
         /\ touched'[on[q]] = touched[on[q]] \cup ({pc[q]} \cup S)
         /\ \A c \in Cores : touched[c] \subseteq touched'[c] /\ IsFiniteSet(touched'[c])
         /\ \A c \in Cores : c # on[q] => touched'[c] = touched[c] /\ cache'[c] = cache[c]
         /\ cache'[on[q]] = ch /\ on[q] \in Cores /\ on[q] \in ranOn[q]
<1>1. /\ InLoop(q) /\ UNCHANGED <<programs, alias, loaded, memory, on, ranOn>>
      /\ status' = [status EXCEPT ![q] = st]
      /\ cache' = [cache EXCEPT ![on[q]] = ch]
      /\ touched' = [touched EXCEPT ![on[q]] = @ \cup {pc[q]} \cup S]
      /\ IsFiniteSet(S)
  BY DEF Turn, UseCache
<1>2. /\ status \in [Procs -> {"Ready", "Running", "Blocked", "Finished"}]
      /\ DOMAIN cache = Cores /\ touched \in [Cores -> SUBSET Address] /\ on[q] \in Cores
      /\ status[q] = "Running" /\ Procs' = Procs
  BY <1>1, SamePlaces DEF Meant, Intact, Typed, MachineTypeOK, InLoop
<1>3. loaded = Len(programs)
  BY <1>2, AllLoaded DEF Meant, Intact
<1>4. /\ cache'[on[q]] = ch
      /\ touched'[on[q]] = touched[on[q]] \cup ({pc[q]} \cup S)
      /\ \A c \in Cores : c # on[q] => touched'[c] = touched[c] /\ cache'[c] = cache[c]
  BY <1>1, <1>2
<1>5. IsFiniteSet(touched[on[q]] \cup ({pc[q]} \cup S))
  <2>1. IsFiniteSet({pc[q]} \cup S)
    BY <1>1, FS_Singleton, FS_Union
  <2>2. IsFiniteSet(touched[on[q]])
    BY <1>2 DEF Meant, History
  <2> QED
    BY <2>1, <2>2, FS_Union
<1>6. \A c \in Cores : touched[c] \subseteq touched'[c] /\ IsFiniteSet(touched'[c])
  BY <1>4, <1>5 DEF Meant, History
<1>7. DOMAIN ch.lines \subseteq DOMAIN cache[on[q]].lines \cup ({pc[q]} \cup S)
  <2>1. Leaves(q, ch, S)
    BY DEF Turn
  <2>2. CASE Follows(cache[on[q]], memory, {pc[q]} \cup S, ch)
    BY <2>2 DEF Follows
  <2>3. CASE ~Follows(cache[on[q]], memory, {pc[q]} \cup S, ch)
    <3>1. PICK r : /\ Follows(cache[on[q]], memory, {pc[q]} \cup S, r)
                   /\ Imm(Fetched(q)) \in DOMAIN r.lines
                   /\ ch = Update(r, Imm(Fetched(q)), regs[q][Rt(Fetched(q))])
      BY <2>1, <2>3 DEF Leaves
    <3>2. r = [lines |-> r.lines, fifo |-> r.fifo]
      BY <3>1 DEF Follows, IsCache
    <3>3. DOMAIN ch.lines = DOMAIN r.lines
      BY <3>1, <3>2 DEF Update
    <3> QED
      BY <3>1, <3>3 DEF Follows
  <2> QED
    BY <2>2, <2>3
<1>8. on[q] \in ranOn[q]
  BY <1>2 DEF Meant, History
<1>9. \A c \in Cores : DOMAIN cache'[c].lines \subseteq touched'[c]
  <2> SUFFICES ASSUME NEW c \in Cores PROVE DOMAIN cache'[c].lines \subseteq touched'[c]
    OBVIOUS
  <2>1. CASE c = on[q]
    BY <1>2, <1>4, <1>7, <2>1 DEF Meant, History
  <2>2. CASE c # on[q]
    BY <1>4, <2>2 DEF Meant, History
  <2> QED
    BY <2>1, <2>2
<1>10. \A p \in Procs : status'[p] = "Running" => on[p] \in ranOn[p]
  BY <1>1, <1>2, <1>8 DEF Meant, History
<1>11. History'
  <2>1. Len(programs) \in Nat
    BY <1>2, AllLoaded DEF Meant, Intact
  <2>2. ~(loaded < Len(programs))' /\ on' = on /\ ranOn' = ranOn
    BY <1>1, <1>3, <2>1
  <2>3. /\ \A c \in Cores : DOMAIN cache'[c].lines \subseteq touched'[c] /\ IsFiniteSet(touched'[c])
        /\ \A p \in Procs' : status'[p] = "Running" => on'[p] \in ranOn'[p]
    BY <1>2, <1>6, <1>9, <1>10, <2>2
  <2> QED
    BY <2>2, <2>3 DEF History
<1> QED
  BY <1>2, <1>4, <1>6, <1>8, <1>11

(* The instruction that a process is at.                                   *)
LEMMA OwnInstruction ==
  ASSUME Intact, WellPlaced, BranchesStay, NEW p \in Procs, InLoop(p),
         NEW k \in 0..(Len(programs[p].code) - 1), pc[p] = Base(p) + 4 * (NumData(p) + k)
  PROVE  LET i == programs[p].code[k + 1]
         IN  /\ i \in Instruction /\ i \in Instructions(p)
             /\ Fetched(p) = Encode(i, k, Base(p))
             /\ Decoded(p) = IF i.op \in Aliases THEN alias ELSE i.op
             /\ Fetched(p) = EndWord <=> i.op = "end"
             /\ PastEnd(p) <=> k + 1 = Len(programs[p].code)
<1> DEFINE len == Len(programs[p].code)
           nd == NumData(p)
           n == nd + k
           i == programs[p].code[k + 1]
<1>1. /\ programs \in Scenarios /\ nd \in Nat /\ len \in Nat \ {0}
      /\ ImageSize(p) = nd + len /\ Base(p) \in Nat
      /\ ProgramEnd(p) = Base(p) + 4 * ImageSize(p) /\ k \in Nat
  <2>1. programs \in Scenarios
    BY DEF Intact, Typed, MachineTypeOK
  <2>2. /\ nd \in Nat /\ len \in Nat \ {0} /\ ImageSize(p) = nd + len /\ Base(p) \in Nat
        /\ ProgramEnd(p) = Base(p) + 4 * ImageSize(p)
    BY <2>1, ProgramFacts
  <2> QED
    BY <2>1, <2>2
<1>2. n \in 0..(ImageSize(p) - 1) /\ n >= nd /\ n - nd = k /\ ~(n < nd)
  <2>1. k \in 0..(len - 1)
    OBVIOUS
  <2> HIDE DEF nd, len
  <2> QED
    BY <1>1, <2>1
<1>3. Fetched(p) = ImageWord(p, n)
  BY <1>2, FetchedIsWritten
<1>4. i \in Instruction /\ i \in Instructions(p) /\ ImageWord(p, n) = Encode(i, k, Base(p))
  BY <1>1, <1>2, ImageFacts
<1>5. Decoded(p) = IF i.op \in Aliases THEN alias ELSE i.op
  BY <1>2, <1>3, DecodedIsWritten DEF Intact
<1>6. Fetched(p) = EndWord <=> i.op = "end"
  <2>1. k \in Int /\ Base(p) \in Int
    BY <1>1
  <2> HIDE DEF i
  <2> QED
    BY <1>3, <1>4, <2>1, Encoded
<1>7. PastEnd(p) <=> k + 1 = len
  <2> DEFINE b == Base(p)
             e == ProgramEnd(p)
  <2>1. PastEnd(p) <=> pc[p] + 4 >= e
    BY DEF PastEnd
  <2>2. pc[p] = b + 4 * (nd + k) /\ e = b + 4 * (nd + len)
    BY <1>1
  <2>3. b \in Nat /\ nd \in Nat /\ k \in Nat /\ len \in Nat /\ k <= len - 1
    BY <1>1
  <2> HIDE DEF b, nd, e, len
  <2> QED
    BY <2>1, <2>2, <2>3
<1> QED
  BY <1>3, <1>4, <1>5, <1>6, <1>7

(* The registers of a process that sets one of them, and the meaning's.    *)
LEMMA RegistersFollow ==
  ASSUME Typed, NEW p \in Procs, NEW s, StateOf(p, s),
         \A r \in Registers : Signed(regs[p][r], WordSize) = s.reg[r],
         NEW r \in Registers, NEW w \in Word, NEW n \in Int,
         SetRegister(p, r, w), Signed(w, WordSize) = Wrapped(n)
  PROVE  LET t == SetReg(s, r, n)
         IN  /\ StateOf(p, t)
             /\ t.k = s.k + 1 /\ t.done = s.done /\ t.data = s.data
             /\ t.stored = s.stored /\ t.reloads = s.reloads /\ t.marked = s.marked
             /\ \A x \in Registers : Signed(regs'[p][x], WordSize) = t.reg[x]
<1> DEFINE R == IF r = Zero THEN s.reg ELSE [s.reg EXCEPT ![r] = Wrapped(n)]
           t == SetReg(s, r, n)
<1>1. IsState(s) /\ s.reg \in [Registers -> Int] /\ s.reg[Zero] = 0
  BY DEF StateOf
<1>2. t = [k |-> s.k + 1, done |-> s.done, reg |-> R, data |-> s.data,
           stored |-> s.stored, reloads |-> s.reloads, marked |-> s.marked]
  <2>1. t = [s EXCEPT !.reg = R, !.k = s.k + 1]
    BY DEF SetReg
  <2> HIDE DEF R, t
  <2> QED
    BY <1>1, <2>1 DEF IsState
<1>3. Wrapped(n) \in Int
  BY WrappedInRange, SignedInt, Sizes, CutToWord, Words
<1>4. R \in [Registers -> Int] /\ R[Zero] = 0
  BY <1>1, <1>3
<1>5. regs \in [Procs -> [Registers -> Word]]
  BY DEF Typed, MachineTypeOK
<1>6. \A x \in Registers : Signed(regs'[p][x], WordSize) = R[x]
  <2>1. CASE r = Zero
    BY <1>5, <2>1 DEF SetRegister
  <2>2. CASE r # Zero
    <3>1. regs' = [regs EXCEPT ![p][r] = w]
      BY <2>2 DEF SetRegister
    <3>2. \A x \in Registers : regs'[p][x] = IF x = r THEN w ELSE regs[p][x]
      BY <1>5, <3>1
    <3>3. \A x \in Registers : R[x] = IF x = r THEN Wrapped(n) ELSE s.reg[x]
      BY <1>1, <2>2
    <3> HIDE DEF R
    <3> QED
      BY <3>2, <3>3
  <2> QED
    BY <2>1, <2>2
<1>7. /\ t.k = s.k + 1 /\ t.done = s.done /\ t.data = s.data /\ t.reg = R
      /\ t.stored = s.stored /\ t.reloads = s.reloads /\ t.marked = s.marked
  <2> HIDE DEF t, R
  <2> QED
    BY <1>2
<1>8. StateOf(p, t)
  <2> HIDE DEF t, R
  <2>1. IsState(t)
    BY <1>2, <1>7 DEF IsState
  <2> QED
    BY <1>4, <1>7, <2>1 DEF StateOf
<1> QED
  BY <1>6, <1>7, <1>8

LEMMA ExtendedIs ==
  ASSUME NEW w, NEW n \in Int, n + ImmSize \div 2 \in 0..(ImmSize - 1),
         Imm(w) = n % ImmSize
  PROVE  Extended(w) \in Word /\ Signed(Extended(w), WordSize) = n
<1> DEFINE h == ImmSize \div 2
           H == WordSize \div 2
           I == ImmSize
           W == WordSize
<1>1. /\ h \in Nat /\ I = 2 * h /\ H \in Nat /\ W = 2 * H /\ I <= H
      /\ I \in Nat \ {0} /\ W \in Nat \ {0} /\ n + h \in 0..(I - 1)
  BY Halves, Sizes
<1>2. Extended(w) = Signed(n % I, I) % W
  BY DEF Extended
<1> HIDE DEF h, H, I, W
<1>3. n \in (-h)..(h - 1) /\ n \in (-H)..(H - 1)
  BY <1>1
<1>4. Signed(n % I, I) = n
  BY <1>1, <1>3, SignedInRange
<1>5. (n % W) \in 0..(W - 1) /\ Signed(n % W, W) = n
  BY <1>1, <1>3, SignedInRange
<1>6. Extended(w) = n % W
  BY <1>2, <1>4
<1>7. 0..(W - 1) = Word
  BY Words DEF W
<1> QED
  BY <1>5, <1>6, <1>7 DEF W

(* An immediate that its field can hold, taken as it is.                   *)
LEMMA PlainIs ==
  ASSUME NEW n \in 0..(ImmSize - 1)
  PROVE  n % ImmSize = n /\ n \in Word /\ Signed(n, WordSize) = n /\ Wrapped(n) = n
<1> DEFINE H == WordSize \div 2
           W == WordSize
<1>1. H \in Nat /\ W = 2 * H /\ ImmSize <= H /\ ImmSize \in Nat \ {0} /\ W \in Nat \ {0}
  BY Halves, Sizes
<1>2. n % ImmSize = n
  BY <1>1, ModOfSmall
<1>3. Word = 0..(W - 1)
  BY Words
<1>4. n \in (-H)..(H - 1) => Wrapped(n) = n
  BY WrappedInRange
<1>5. n < H => Signed(n, W) = n
  BY DEF Signed
<1> HIDE DEF H, W
<1>6. n \in (-H)..(H - 1) /\ n < H /\ n \in 0..(W - 1)
  BY <1>1
<1> QED
  BY <1>2, <1>3, <1>4, <1>5, <1>6 DEF W

AtInstruction(p, s) ==
  /\ s.k \in 0..(Len(programs[p].code) - 1)
  /\ pc[p] = Base(p) + 4 * (NumData(p) + s.k)

(* A process that is at an instruction of its program, with the registers  *)
(* that the meaning has there.                                             *)
Stands(p, s) ==
  /\ Intact /\ WellPlaced /\ BranchesStay /\ Follower(p)
  /\ StateOf(p, s) /\ ~s.done
  /\ \A r \in Registers : Signed(regs[p][r], WordSize) = s.reg[r]
  /\ AtInstruction(p, s)

(* It goes to the instruction that the meaning t is at, in the same way.   *)
Reaches(p, s, t) ==
  /\ StateOf(p, t) /\ ~t.done
  /\ t.data = s.data /\ t.stored = s.stored /\ t.marked = s.marked
  /\ \A r \in Registers : Signed(regs'[p][r], WordSize) = t.reg[r]
  /\ t.k \in 0..(Len(programs[p].code) - 1)
  /\ pc'[p] = Base(p) + 4 * (NumData(p) + t.k)

(* The process that goes to the next instruction.                          *)
LEMMA NextInstruction ==
  ASSUME Typed, NEW p \in Procs, NEW s, AtInstruction(p, s), Advance(p),
         s.k + 1 # Len(programs[p].code)
  PROVE  /\ s.k + 1 \in 0..(Len(programs[p].code) - 1)
         /\ pc'[p] = Base(p) + 4 * (NumData(p) + (s.k + 1))
<1> DEFINE len == Len(programs[p].code)
           nd == NumData(p)
           b == Base(p)
           k == s.k
<1>1. nd \in Nat /\ len \in Nat \ {0} /\ b \in Nat
  BY ProgramFacts DEF Typed, MachineTypeOK
<1>2. k \in 0..(len - 1) /\ pc[p] = b + 4 * (nd + k) /\ k + 1 # len
  BY DEF AtInstruction
<1>3. pc'[p] = pc[p] + 4
  BY DEF Advance, Typed, MachineTypeOK
<1> HIDE DEF len, nd, b, k
<1>4. k + 1 \in 0..(len - 1) /\ pc'[p] = b + 4 * (nd + (k + 1))
  BY <1>1, <1>2, <1>3
<1> QED
  BY <1>4 DEF len, nd, b, k

LEMMA RegisterReaches ==
  ASSUME NEW p \in Procs, NEW s, Stands(p, s), Advance(p),
         s.k + 1 # Len(programs[p].code),
         NEW r \in Registers, NEW w \in Word, NEW n \in Int,
         SetRegister(p, r, w), Signed(w, WordSize) = Wrapped(n)
  PROVE  Reaches(p, s, SetReg(s, r, n))
<1> DEFINE t == SetReg(s, r, n)
<1>1. Typed /\ StateOf(p, s) /\ AtInstruction(p, s) /\ ~s.done
      /\ \A x \in Registers : Signed(regs[p][x], WordSize) = s.reg[x]
  BY DEF Stands, Intact
<1>2. /\ StateOf(p, t)
      /\ t.k = s.k + 1 /\ t.done = s.done /\ t.data = s.data
      /\ t.stored = s.stored /\ t.marked = s.marked
      /\ \A x \in Registers : Signed(regs'[p][x], WordSize) = t.reg[x]
  BY <1>1, RegistersFollow
<1>3. /\ s.k + 1 \in 0..(Len(programs[p].code) - 1)
      /\ pc'[p] = Base(p) + 4 * (NumData(p) + (s.k + 1))
  BY <1>1, NextInstruction
<1> HIDE DEF t
<1>4. Reaches(p, s, t)
  BY <1>1, <1>2, <1>3 DEF Reaches
<1> QED
  BY <1>4 DEF t

LEMMA Standing ==
  ASSUME NEW p \in Procs, NEW s, Stands(p, s), NEW names, Executes(p, names)
  PROVE  LET i == programs[p].code[s.k + 1]
             w == Fetched(p)
             m == Operand(i, s.k, Base(p))
         IN  /\ i \in Instruction /\ AsWritten(p, i) /\ i.via # "label"
             /\ alias \in Aliases /\ w \in Word
             /\ Decoded(p) = (IF i.op \in Aliases THEN alias ELSE i.op) /\ Decoded(p) \in names
             /\ s.k + 1 # Len(programs[p].code)
             /\ RefStep(programs[p], Base(p), s) = RefExecute(programs[p], Base(p), s)
             /\ i.op \in RType => Rs(w) = i.rs /\ Rt(w) = i.rt /\ Rd(w) = i.rd
             /\ i.op = "j" => Target(w) = m % TargetSize
             /\ i.op \notin RType \cup {"j", "jal", "end", "print"} =>
                  /\ Rs(w) = (IF i.op = "li" THEN Zero ELSE i.rs) /\ Rt(w) = i.rt
                  /\ Imm(w) = m % ImmSize
<1> DEFINE i == programs[p].code[s.k + 1]
           w == Fetched(p)
           k == s.k
           b == Base(p)
<1>1. /\ Intact /\ Typed /\ WellPlaced /\ BranchesStay /\ Follower(p) /\ ~s.done
      /\ k \in 0..(Len(programs[p].code) - 1)
      /\ pc[p] = Base(p) + 4 * (NumData(p) + k)
  BY DEF Stands, Intact, AtInstruction
<1>2. InLoop(p) /\ Decoded(p) \in names /\ w # EndWord /\ ~PastEnd(p)
  BY DEF Executes
<1>3. /\ i \in Instruction /\ i \in Instructions(p)
      /\ w = Encode(i, k, b)
      /\ Decoded(p) = IF i.op \in Aliases THEN alias ELSE i.op
      /\ w = EndWord <=> i.op = "end"
      /\ PastEnd(p) <=> k + 1 = Len(programs[p].code)
  BY <1>1, <1>2, OwnInstruction
<1>4. /\ AsWritten(p, i) /\ i.via # "label"
  BY <1>1, <1>3 DEF Follower, Portable, UsesLabels
<1>5. RefStep(programs[p], Base(p), s) = RefExecute(programs[p], Base(p), s)
  <2> DEFINE len == Len(programs[p].code)
  <2>1. len \in Nat \ {0} /\ k \in 0..(len - 1)
    BY <1>1, ProgramFacts DEF Typed, MachineTypeOK
  <2>2. k # len
    <3> HIDE DEF len, k
    <3> QED
      BY <2>1
  <2>3. ~s.done /\ i.op # "end"
    BY <1>1, <1>2, <1>3
  <2> QED
    BY <2>2, <2>3 DEF RefStep
<1>6. /\ w \in Word
      /\ i.op \in RType => Rs(w) = i.rs /\ Rt(w) = i.rt /\ Rd(w) = i.rd
      /\ i.op = "j" => Target(w) = Operand(i, k, b) % TargetSize
      /\ i.op \notin RType \cup {"j", "jal", "end", "print"} =>
           /\ Rs(w) = (IF i.op = "li" THEN Zero ELSE i.rs) /\ Rt(w) = i.rt
           /\ Imm(w) = Operand(i, k, b) % ImmSize
  <2>1. k \in Int /\ b \in Int
    BY <1>1, ProgramFacts DEF Typed, MachineTypeOK
  <2> HIDE DEF i, k, b, w
  <2> QED
    BY <1>3, <2>1, Encoded, Words
<1>7. alias \in Aliases
  BY <1>1 DEF Typed, MachineTypeOK
<1> QED
  BY <1>2, <1>3, <1>4, <1>5, <1>6, <1>7

(* The integer that the reference computes where the machine has its ALU.  *)
Result(op, x, y) ==
  CASE op = "add"  -> x + y
    [] op = "sub"  -> x - y
    [] op = "mult" -> x * y
    [] op = "div"  -> Divided(x, y)

(* What the meaning does with each instruction on registers.               *)
LEMMA RegisterMeanings ==
  ASSUME NEW prog, NEW base, NEW s
  PROVE  LET i == prog.code[s.k + 1]
             x == s.reg[i.rs]
             y == s.reg[i.rt]
             t == RefExecute(prog, base, s)
         IN  /\ i.op \in {"add", "sub", "mult", "div"} =>
                  t = SetReg(s, i.rd, Result(i.op, x, y))
             /\ i.op = "addi" => t = SetReg(s, i.rt, x + i.imm)
             /\ i.op = "li"   => t = SetReg(s, i.rt, i.imm)
             /\ i.op = "slti" => t = SetReg(s, i.rt, IF x < i.imm THEN 1 ELSE 0)
BY DEF RefExecute, Branches, Result

LEMMA ResultIsInt ==
  ASSUME NEW op \in {"add", "sub", "mult", "div"}, NEW x \in Int, NEW y \in Int
  PROVE  Result(op, x, y) \in Int
<1>1. x + y \in Int /\ x - y \in Int /\ x * y \in Int
  OBVIOUS
<1>2. Divided(x, y) \in Int
  BY QuotientIsDivided, QuotientInt
<1>3. /\ op = "add"  => Result(op, x, y) = x + y
      /\ op = "sub"  => Result(op, x, y) = x - y
      /\ op = "mult" => Result(op, x, y) = x * y
      /\ op = "div"  => Result(op, x, y) = Divided(x, y)
  BY DEF Result
<1> QED
  BY <1>1, <1>2, <1>3

LEMMA ArithmeticReaches ==
  ASSUME NEW p \in Procs, NEW s, Stands(p, s), Arithmetic(p)
  PROVE  Reaches(p, s, RefStep(programs[p], Base(p), s))
<1> DEFINE i == programs[p].code[s.k + 1]
           w == Fetched(p)
           a == regs[p][i.rs]
           c == regs[p][i.rt]
           x == s.reg[i.rs]
           y == s.reg[i.rt]
           t == RefExecute(programs[p], Base(p), s)
<1>1. /\ Executes(p, {"add", "sub", "mult", "div"}) /\ Advance(p)
      /\ SetRegister(p, Rd(w), Alu(Decoded(p), regs[p][Rs(w)], regs[p][Rt(w)]))
  BY DEF Arithmetic
<1>2. /\ i \in Instruction /\ alias \in Aliases
      /\ Decoded(p) = (IF i.op \in Aliases THEN alias ELSE i.op)
      /\ Decoded(p) \in {"add", "sub", "mult", "div"}
      /\ s.k + 1 # Len(programs[p].code)
      /\ RefStep(programs[p], Base(p), s) = t
      /\ i.op \in RType => Rs(w) = i.rs /\ Rt(w) = i.rt /\ Rd(w) = i.rd
  BY <1>1, Standing
<1>3. i.op \in {"add", "sub", "mult", "div"} /\ Decoded(p) = i.op
  BY <1>2 DEF Aliases
<1>4. Rs(w) = i.rs /\ Rt(w) = i.rt /\ Rd(w) = i.rd
  BY <1>2, <1>3 DEF RType
<1>5. i.rs \in Registers /\ i.rt \in Registers /\ i.rd \in Registers
  BY <1>2 DEF Instruction
<1>6. /\ a \in Word /\ c \in Word /\ Signed(a, WordSize) = x /\ Signed(c, WordSize) = y
      /\ x \in Int /\ y \in Int
  BY <1>5 DEF Stands, Intact, Typed, MachineTypeOK, StateOf
<1>7. SetRegister(p, i.rd, Alu(i.op, a, c))
  BY <1>1, <1>3, <1>4
<1>8. Signed(Alu(i.op, a, c), WordSize) = Wrapped(Result(i.op, x, y))
  <2>1. Word = 0..AllOnes
    BY Words
  <2> HIDE DEF a, c, x, y, i
  <2>2. /\ Signed(Alu("add", a, c), WordSize) = Wrapped(Signed(a, WordSize) + Signed(c, WordSize))
        /\ Signed(Alu("sub", a, c), WordSize) = Wrapped(Signed(a, WordSize) - Signed(c, WordSize))
        /\ Signed(Alu("mult", a, c), WordSize) = Wrapped(Signed(a, WordSize) * Signed(c, WordSize))
        /\ Signed(Alu("div", a, c), WordSize)
              = Wrapped(Divided(Signed(a, WordSize), Signed(c, WordSize)))
    BY <1>6, <2>1, AluMeaning
  <2> QED
    BY <1>3, <1>6, <2>2 DEF Result
<1>9. Alu(i.op, a, c) \in Word
  BY <1>3, <1>6, AluWord
<1>10. ASSUME NEW n \in Int, Signed(Alu(i.op, a, c), WordSize) = Wrapped(n)
       PROVE  Reaches(p, s, SetReg(s, i.rd, n))
  <2> HIDE DEF i, a, c
  <2> QED
    BY <1>1, <1>2, <1>5, <1>7, <1>9, <1>10, RegisterReaches
<1>11. t = SetReg(s, i.rd, Result(i.op, x, y))
  BY <1>3, RegisterMeanings
<1>12. Result(i.op, x, y) \in Int
  BY <1>3, <1>6, ResultIsInt
<1> HIDE DEF i, w, a, c, x, y, t
<1>13. Reaches(p, s, t)
  BY <1>8, <1>10, <1>11, <1>12
<1> QED
  BY <1>2, <1>13

LEMMA SetOnLessReaches ==
  ASSUME NEW p \in Procs, NEW s, Stands(p, s), SetOnLess(p)
  PROVE  Reaches(p, s, RefStep(programs[p], Base(p), s))
<1> DEFINE i == programs[p].code[s.k + 1]
           w == Fetched(p)
           a == regs[p][i.rs]
           x == s.reg[i.rs]
           t == RefExecute(programs[p], Base(p), s)
           v == IF Taken("blt", a, Extended(w)) THEN 1 ELSE 0
<1>1. /\ Executes(p, {"slti"}) /\ Advance(p)
      /\ SetRegister(p, Rt(w), IF Taken("blt", regs[p][Rs(w)], Extended(w)) THEN 1 ELSE 0)
  BY DEF SetOnLess
<1>2. /\ i \in Instruction /\ alias \in Aliases /\ AsWritten(p, i)
      /\ Decoded(p) = (IF i.op \in Aliases THEN alias ELSE i.op)
      /\ Decoded(p) \in {"slti"}
      /\ s.k + 1 # Len(programs[p].code)
      /\ RefStep(programs[p], Base(p), s) = t
      /\ i.op \notin RType \cup {"j", "jal", "end", "print"} =>
           /\ Rs(w) = (IF i.op = "li" THEN Zero ELSE i.rs) /\ Rt(w) = i.rt
           /\ Imm(w) = Operand(i, s.k, Base(p)) % ImmSize
  BY <1>1, Standing
<1>3. i.op = "slti"
  BY <1>2 DEF Aliases
<1>4. Rs(w) = i.rs /\ Rt(w) = i.rt /\ Imm(w) = Operand(i, s.k, Base(p)) % ImmSize
  BY <1>2, <1>3 DEF RType
<1>5. i.rs \in Registers /\ i.rt \in Registers /\ i.imm \in Int
  BY <1>2 DEF Instruction
<1>6. i.via = "immediate" /\ i.imm + ImmSize \div 2 \in 0..(ImmSize - 1)
  BY <1>2, <1>3 DEF AsWritten
<1>7. Operand(i, s.k, Base(p)) = i.imm
  BY <1>6 DEF Operand
<1>8. Extended(w) \in Word /\ Signed(Extended(w), WordSize) = i.imm
  <2> HIDE DEF i, w
  <2> QED
    BY <1>4, <1>5, <1>6, <1>7, ExtendedIs
<1>9. a \in Word /\ Signed(a, WordSize) = x /\ x \in Int
  BY <1>5 DEF Stands, Intact, Typed, MachineTypeOK, StateOf
<1>10. Taken("blt", a, Extended(w)) <=> x < i.imm
  <2>1. Taken("blt", a, Extended(w)) <=> Holds("blt", x, i.imm)
    <3> HIDE DEF a, w, x, i
    <3> QED
      BY <1>8, <1>9, AluMeaning, Words
  <2> QED
    BY <2>1 DEF Holds
<1>11. v \in Word /\ Signed(v, WordSize) = Wrapped(v) /\ v \in Int
       /\ v = IF x < i.imm THEN 1 ELSE 0
  <2>1. v \in 0..(ImmSize - 1)
    <3> HIDE DEF v
    <3>1. v \in {0, 1}
      BY DEF v
    <3>2. ImmSize >= 2
      <4>1. NumRegs \in Nat \ {0} /\ LowSize \in Nat /\ 64 <= LowSize
        BY Sizes, LowBits
      <4>2. NumRegs * LowSize >= LowSize
        BY <4>1
      <4> QED
        BY <4>1, <4>2, LowBits
    <3> QED
      BY <3>1, <3>2, Sizes
  <2>2. v = IF x < i.imm THEN 1 ELSE 0
    BY <1>10
  <2> HIDE DEF v
  <2> QED
    BY <2>1, <2>2, PlainIs
<1>12. SetRegister(p, i.rt, v)
  BY <1>1, <1>4
<1>13. t = SetReg(s, i.rt, v)
  <2>1. t = SetReg(s, i.rt, IF x < i.imm THEN 1 ELSE 0)
    BY <1>3, RegisterMeanings
  <2> QED
    BY <1>11, <2>1
<1> HIDE DEF i, w, a, x, t, v
<1>14. Reaches(p, s, SetReg(s, i.rt, v))
  BY <1>1, <1>2, <1>5, <1>11, <1>12, RegisterReaches DEF i
<1> QED
  BY <1>2, <1>13, <1>14

(* addi and li: their word, whichever of the two names the look-up finds.  *)
LEMMA ImmediateFacts ==
  ASSUME NEW p \in Procs, NEW s, Stands(p, s), NEW names \in SUBSET Aliases,
         Executes(p, names)
  PROVE  LET i == programs[p].code[s.k + 1]
             w == Fetched(p)
         IN  /\ alias \in names
             /\ s.k + 1 # Len(programs[p].code)
             /\ \E n \in Int :
                  /\ RefStep(programs[p], Base(p), s) = SetReg(s, i.rt, n)
                  /\ n = s.reg[Rs(w)] + i.imm
                  /\ alias = "li" => n = i.imm
             /\ i.rt \in Registers /\ i.imm \in Int
             /\ Rt(w) = i.rt /\ Imm(w) = i.imm % ImmSize /\ Rs(w) \in Registers
             /\ alias = "li" => i.imm \in 0..(ImmSize - 1)
             /\ alias = "addi" => i.imm + ImmSize \div 2 \in 0..(ImmSize - 1)
<1> DEFINE i == programs[p].code[s.k + 1]
           w == Fetched(p)
           t == RefExecute(programs[p], Base(p), s)
           n == IF i.op = "addi" THEN s.reg[i.rs] + i.imm ELSE i.imm
<1>1. /\ i \in Instruction /\ alias \in Aliases /\ AsWritten(p, i)
      /\ Decoded(p) = (IF i.op \in Aliases THEN alias ELSE i.op)
      /\ Decoded(p) \in names
      /\ s.k + 1 # Len(programs[p].code)
      /\ RefStep(programs[p], Base(p), s) = t
      /\ i.op \notin RType \cup {"j", "jal", "end", "print"} =>
           /\ Rs(w) = (IF i.op = "li" THEN Zero ELSE i.rs) /\ Rt(w) = i.rt
           /\ Imm(w) = Operand(i, s.k, Base(p)) % ImmSize
  BY Standing
<1>2. i.op \in Aliases /\ alias \in names
  BY <1>1
<1>3. /\ Rs(w) = (IF i.op = "li" THEN Zero ELSE i.rs) /\ Rt(w) = i.rt
      /\ Imm(w) = Operand(i, s.k, Base(p)) % ImmSize
  BY <1>1, <1>2 DEF RType, Aliases
<1>4. i.rs \in Registers /\ i.rt \in Registers /\ i.imm \in Int
  BY <1>1 DEF Instruction
<1>5. /\ i.via = "immediate"
      /\ IF alias = "li" THEN i.rs = Zero /\ i.imm \in 0..(ImmSize - 1)
         ELSE i.imm + ImmSize \div 2 \in 0..(ImmSize - 1)
  BY <1>1, <1>2 DEF AsWritten, Aliases
<1>6. Operand(i, s.k, Base(p)) = i.imm
  BY <1>5 DEF Operand
<1>7. Zero \in Registers /\ s.reg \in [Registers -> Int] /\ s.reg[Zero] = 0
  BY RegistersAssumption DEF Registers, Zero, Stands, StateOf
<1>8. t = SetReg(s, i.rt, n)
  <2>1. /\ i.op = "addi" => t = SetReg(s, i.rt, s.reg[i.rs] + i.imm)
        /\ i.op = "li"   => t = SetReg(s, i.rt, i.imm)
    BY RegisterMeanings
  <2> QED
    BY <1>2, <2>1 DEF Aliases
<1>9. /\ Rs(w) \in Registers /\ n = s.reg[Rs(w)] + i.imm /\ n \in Int
      /\ alias = "li" => n = i.imm
  <2>1. s.reg[i.rs] \in Int
    BY <1>4, <1>7
  <2>2. i.op \in {"addi", "li"} /\ "addi" # "li"
    BY <1>2 DEF Aliases
  <2>3. /\ i.op = "addi" => n = s.reg[i.rs] + i.imm /\ Rs(w) = i.rs
        /\ i.op = "li" => n = i.imm /\ Rs(w) = Zero
    BY <1>3, <2>2
  <2> HIDE DEF i, n, w
  <2> QED
    BY <1>4, <1>5, <1>7, <2>1, <2>2, <2>3
<1>10. alias = "addi" => alias # "li"
  OBVIOUS
<1>11. /\ RefStep(programs[p], Base(p), s) = SetReg(s, i.rt, n)
       /\ n = s.reg[Rs(w)] + i.imm /\ n \in Int
       /\ alias = "li" => n = i.imm
  BY <1>1, <1>8, <1>9
<1>12. /\ alias = "li" => i.imm \in 0..(ImmSize - 1)
       /\ alias = "addi" => i.imm + ImmSize \div 2 \in 0..(ImmSize - 1)
  BY <1>5, <1>10
<1>13. Imm(w) = i.imm % ImmSize
  BY <1>3, <1>6
<1> HIDE DEF n, t
<1> QED
  BY <1>1, <1>2, <1>3, <1>4, <1>9, <1>11, <1>12, <1>13

LEMMA AddImmediateReaches ==
  ASSUME NEW p \in Procs, NEW s, Stands(p, s), AddImmediate(p)
  PROVE  Reaches(p, s, RefStep(programs[p], Base(p), s))
<1> DEFINE i == programs[p].code[s.k + 1]
           w == Fetched(p)
           a == regs[p][Rs(w)]
           e == Extended(w)
<1>1. /\ Executes(p, {"addi"}) /\ Advance(p)
      /\ SetRegister(p, Rt(w), Alu("add", a, e))
  BY DEF AddImmediate
<1>2. /\ alias \in {"addi"}
      /\ s.k + 1 # Len(programs[p].code)
      /\ \E n \in Int : /\ RefStep(programs[p], Base(p), s) = SetReg(s, i.rt, n)
                        /\ n = s.reg[Rs(w)] + i.imm
      /\ i.rt \in Registers /\ i.imm \in Int
      /\ Rt(w) = i.rt /\ Imm(w) = i.imm % ImmSize /\ Rs(w) \in Registers
      /\ alias = "addi" => i.imm + ImmSize \div 2 \in 0..(ImmSize - 1)
  <2>1. {"addi"} \in SUBSET Aliases
    BY DEF Aliases
  <2> QED
    BY <1>1, <2>1, ImmediateFacts
<1>3. PICK n \in Int : /\ RefStep(programs[p], Base(p), s) = SetReg(s, i.rt, n)
                      /\ n = s.reg[Rs(w)] + i.imm
  BY <1>2
<1>4. e \in Word /\ Signed(e, WordSize) = i.imm
  <2> HIDE DEF i, w
  <2> QED
    BY <1>2, ExtendedIs
<1>5. a \in Word /\ Signed(a, WordSize) = s.reg[Rs(w)]
  BY <1>2 DEF Stands, Intact, Typed, MachineTypeOK
<1>6. Signed(Alu("add", a, e), WordSize) = Wrapped(n) /\ Alu("add", a, e) \in Word
  <2>1. Word = 0..AllOnes
    BY Words
  <2> HIDE DEF i, w, a, e
  <2>2. Signed(Alu("add", a, e), WordSize) = Wrapped(Signed(a, WordSize) + Signed(e, WordSize))
    BY <1>4, <1>5, <2>1, AluMeaning
  <2> QED
    BY <1>3, <1>4, <1>5, <2>2, AluWord
<1> HIDE DEF i, w, a, e
<1>7. Reaches(p, s, SetReg(s, i.rt, n))
  BY <1>1, <1>2, <1>6, RegisterReaches
<1> QED
  BY <1>3, <1>7

LEMMA LoadImmediateReaches ==
  ASSUME NEW p \in Procs, NEW s, Stands(p, s), LoadImmediate(p)
  PROVE  Reaches(p, s, RefStep(programs[p], Base(p), s))
<1> DEFINE i == programs[p].code[s.k + 1]
           w == Fetched(p)
           n == i.imm
<1>1. Executes(p, {"li"}) /\ Advance(p) /\ SetRegister(p, Rt(w), Imm(w))
  BY DEF LoadImmediate
<1>2. /\ alias \in {"li"}
      /\ s.k + 1 # Len(programs[p].code)
      /\ \E m \in Int : /\ RefStep(programs[p], Base(p), s) = SetReg(s, i.rt, m)
                        /\ alias = "li" => m = n
      /\ i.rt \in Registers /\ n \in Int
      /\ Rt(w) = i.rt /\ Imm(w) = n % ImmSize
      /\ alias = "li" => n \in 0..(ImmSize - 1)
  <2>1. {"li"} \in SUBSET Aliases
    BY DEF Aliases
  <2> QED
    BY <1>1, <2>1, ImmediateFacts
<1> HIDE DEF i, w, n
<1>3. RefStep(programs[p], Base(p), s) = SetReg(s, i.rt, n) /\ n \in 0..(ImmSize - 1)
  BY <1>2
<1>4. n % ImmSize = n /\ n \in Word /\ Signed(n, WordSize) = n /\ Wrapped(n) = n
  BY <1>3, PlainIs
<1>5. Imm(w) = n
  BY <1>2, <1>4
<1>6. SetRegister(p, i.rt, n)
  BY <1>1, <1>2, <1>5
<1>7. Reaches(p, s, SetReg(s, i.rt, n))
  BY <1>1, <1>2, <1>4, <1>6, RegisterReaches
<1> QED
  BY <1>3, <1>7

(* An instruction that sets no register goes to number n.                  *)
LEMMA CounterReaches ==
  ASSUME NEW p \in Procs, NEW s, Stands(p, s), UNCHANGED regs,
         NEW n \in 0..(Len(programs[p].code) - 1),
         pc'[p] = Base(p) + 4 * (NumData(p) + n)
  PROVE  Reaches(p, s, [s EXCEPT !.k = n])
<1> DEFINE t == [s EXCEPT !.k = n]
<1>1. StateOf(p, s) /\ ~s.done
      /\ \A r \in Registers : Signed(regs[p][r], WordSize) = s.reg[r]
  BY DEF Stands
<1>2. /\ t.k = n /\ t.done = s.done /\ t.reg = s.reg /\ t.data = s.data
      /\ t.stored = s.stored /\ t.marked = s.marked /\ IsState(t)
  <2>1. IsState(s)
    BY <1>1 DEF StateOf
  <2> QED
    BY <2>1 DEF IsState
<1> HIDE DEF t
<1>3. StateOf(p, t)
  BY <1>1, <1>2 DEF StateOf
<1>4. Reaches(p, s, t)
  BY <1>1, <1>2, <1>3 DEF Reaches
<1> QED
  BY <1>4 DEF t

LEMMA PrintReaches ==
  ASSUME NEW p \in Procs, NEW s, Stands(p, s), PrintRequest(p)
  PROVE  Reaches(p, s, RefStep(programs[p], Base(p), s))
<1> DEFINE i == programs[p].code[s.k + 1]
<1>1. Executes(p, {"print"}) /\ Advance(p) /\ UNCHANGED regs
  BY DEF PrintRequest
<1>2. /\ alias \in Aliases /\ Decoded(p) = (IF i.op \in Aliases THEN alias ELSE i.op)
      /\ Decoded(p) \in {"print"} /\ s.k + 1 # Len(programs[p].code)
      /\ RefStep(programs[p], Base(p), s) = RefExecute(programs[p], Base(p), s)
  BY <1>1, Standing
<1>3. i.op = "print"
  BY <1>2 DEF Aliases
<1>4. RefExecute(programs[p], Base(p), s) = [s EXCEPT !.k = s.k + 1]
  BY <1>3 DEF RefExecute, Branches
<1>5. /\ s.k + 1 \in 0..(Len(programs[p].code) - 1)
      /\ pc'[p] = Base(p) + 4 * (NumData(p) + (s.k + 1))
  BY <1>1, <1>2, NextInstruction DEF Stands, Intact
<1> QED
  BY <1>1, <1>2, <1>4, <1>5, CounterReaches

(* The goal of a branch to an address is the instruction at that address.  *)
LEMMA GoalIs ==
  ASSUME Typed, NEW p \in Procs, NEW i, i.via # "label", i.imm \in CodeAddresses(p)
  PROVE  LET n == Goal(programs[p], Base(p), i)
         IN  /\ n \in 0..(Len(programs[p].code) - 1)
             /\ i.imm = Base(p) + 4 * (NumData(p) + n)
<1> DEFINE nd == NumData(p)
           len == Len(programs[p].code)
           b == Base(p)
           n == Goal(programs[p], b, i)
           m == i.imm
<1>1. nd \in Nat /\ len \in Nat \ {0} /\ b \in Nat /\ ImageSize(p) = nd + len
  BY ProgramFacts DEF Typed, MachineTypeOK
<1>2. n = (m - b) \div 4 - nd
  BY DEF Goal, NumData
<1>3. PICK l \in nd..(ImageSize(p) - 1) : m = b + 4 * l
  BY DEF CodeAddresses
<1> HIDE DEF nd, len, b, m, n
<1>4. l \in nd..(nd + len - 1) /\ l \in Int
  BY <1>1, <1>3
<1>5. m - b = l * 4 + 0
  BY <1>1, <1>3, <1>4
<1>6. (l * 4 + 0) \div 4 = l
  BY <1>4, DivMod
<1>7. n = l - nd
  BY <1>2, <1>5, <1>6
<1>8. n \in 0..(len - 1) /\ m = b + 4 * (nd + n)
  BY <1>1, <1>3, <1>4, <1>7
<1> QED
  BY <1>8 DEF nd, len, b, m, n

LEMMA BranchReaches ==
  ASSUME NEW p \in Procs, NEW s, Stands(p, s), Branch(p)
  PROVE  Reaches(p, s, RefStep(programs[p], Base(p), s))
<1> DEFINE i == programs[p].code[s.k + 1]
           w == Fetched(p)
           x == s.reg[i.rs]
           y == s.reg[i.rt]
           t == RefExecute(programs[p], Base(p), s)
           g == Goal(programs[p], Base(p), i)
           taken == Taken(Decoded(p), regs[p][Rs(w)], regs[p][Rt(w)])
           k == s.k
<1>1. /\ Executes(p, Branches \cup {"j"}) /\ UNCHANGED regs
      /\ taken => pc' = [pc EXCEPT ![p] = BranchGoal(p)]
      /\ ~taken => Advance(p)
  BY DEF Branch, BranchGoal
<1>2. /\ i \in Instruction /\ alias \in Aliases /\ AsWritten(p, i) /\ i.via # "label"
      /\ Decoded(p) = (IF i.op \in Aliases THEN alias ELSE i.op)
      /\ Decoded(p) \in Branches \cup {"j"}
      /\ s.k + 1 # Len(programs[p].code)
      /\ RefStep(programs[p], Base(p), s) = t
      /\ i.op = "j" => Target(w) = Operand(i, k, Base(p)) % TargetSize
      /\ i.op \notin RType \cup {"j", "jal", "end", "print"} =>
           /\ Rs(w) = (IF i.op = "li" THEN Zero ELSE i.rs) /\ Rt(w) = i.rt
           /\ Imm(w) = Operand(i, k, Base(p)) % ImmSize
  BY <1>1, Standing
<1>3. i.op \in Branches \cup {"j"} /\ Decoded(p) = i.op
  BY <1>2 DEF Aliases, Branches
<1>4. t = [s EXCEPT !.k = IF Holds(i.op, x, y) THEN g ELSE k + 1]
  <2>1. i.op \notin {"add", "sub", "mult", "div", "addi", "li", "slti", "lw", "sw"}
    BY <1>3 DEF Branches
  <2>2. t = [s EXCEPT !.k = IF Holds(i.op, x, y) THEN g ELSE @ + 1]
    BY <1>3, <2>1 DEF RefExecute
  <2> QED
    BY <2>2
<1>5. /\ i.via = "immediate" /\ i.imm \in Int
      /\ i.imm \in 0..((IF i.op = "j" THEN TargetSize ELSE ImmSize) - 1)
      /\ Operand(i, k, Base(p)) = i.imm
  <2>1. i.via = "immediate" /\ i.imm \in 0..((IF i.op = "j" THEN TargetSize ELSE ImmSize) - 1)
    BY <1>2, <1>3 DEF AsWritten
  <2> QED
    BY <1>2, <2>1 DEF Operand, Instruction
<1>6. BranchGoal(p) = i.imm
  <2> DEFINE n == i.imm
  <2>1. CASE i.op = "j"
    <3>1. n \in 0..(TargetSize - 1) /\ Target(w) = n % TargetSize
      BY <1>2, <1>5, <2>1
    <3>2. BranchGoal(p) = Target(w)
      BY <1>3, <2>1 DEF BranchGoal
    <3> HIDE DEF n
    <3> QED
      BY <3>1, <3>2, Sizes, ModOfSmall DEF n
  <2>2. CASE i.op # "j"
    <3>1. i.op \notin RType \cup {"j", "jal", "end", "print"}
      BY <1>3, <2>2 DEF RType, Branches
    <3>2. n \in 0..(ImmSize - 1) /\ Imm(w) = n % ImmSize
      BY <1>2, <1>5, <2>2, <3>1
    <3>3. BranchGoal(p) = Imm(w)
      BY <1>3, <2>2 DEF BranchGoal
    <3> HIDE DEF n
    <3> QED
      BY <3>2, <3>3, Sizes, ModOfSmall DEF n
  <2> QED
    BY <2>1, <2>2
<1>7. taken <=> Holds(i.op, x, y)
  <2>1. CASE i.op = "j"
    BY <1>3, <2>1 DEF Taken, Holds
  <2>2. CASE i.op # "j"
    <3>1. Rs(w) = i.rs /\ Rt(w) = i.rt
      BY <1>2, <1>3, <2>2 DEF RType, Branches
    <3>2. i.rs \in Registers /\ i.rt \in Registers
      BY <1>2 DEF Instruction
    <3> DEFINE a == regs[p][i.rs]
               c == regs[p][i.rt]
    <3>3. a \in Word /\ c \in Word /\ Signed(a, WordSize) = x /\ Signed(c, WordSize) = y
      BY <3>2 DEF Stands, Intact, Typed, MachineTypeOK
    <3>4. taken <=> Taken(i.op, a, c)
      BY <1>3, <3>1
    <3>5. Word = 0..AllOnes
      BY Words
    <3> HIDE DEF a, c, x, y, taken
    <3>6. Taken(i.op, a, c) <=> Holds(i.op, Signed(a, WordSize), Signed(c, WordSize))
      BY <3>3, <3>5, AluMeaning
    <3> QED
      BY <3>3, <3>4, <3>6
  <2> QED
    BY <2>1, <2>2
<1>8. CASE taken
  <2>1. InLoop(p) /\ Intact /\ Typed /\ WellPlaced /\ BranchesStay /\ AtInstruction(p, s)
    BY <1>1 DEF Stands, Intact, Executes
  <2>2. NumData(p) + k \in 0..(ImageSize(p) - 1) /\ pc[p] = Base(p) + 4 * (NumData(p) + k)
    <3>1. /\ NumData(p) \in Nat /\ Len(programs[p].code) \in Nat
          /\ ImageSize(p) = NumData(p) + Len(programs[p].code)
      BY <2>1, ProgramFacts DEF Typed, MachineTypeOK
    <3>2. k \in 0..(Len(programs[p].code) - 1) /\ pc[p] = Base(p) + 4 * (NumData(p) + k)
      BY <2>1 DEF AtInstruction
    <3> DEFINE nd == NumData(p)
               len == Len(programs[p].code)
    <3> HIDE DEF nd, len, k
    <3>3. k \in 0..(len - 1) /\ nd \in Nat /\ len \in Nat => nd + k \in 0..(nd + len - 1)
      OBVIOUS
    <3> QED
      BY <3>1, <3>2, <3>3 DEF nd, len
  <2>3. i.imm \in CodeAddresses(p)
    <3> HIDE DEF i, k
    <3> QED
      BY <1>2, <1>6, <2>1, <2>2, OwnAddresses
  <2>4. g \in 0..(Len(programs[p].code) - 1) /\ i.imm = Base(p) + 4 * (NumData(p) + g)
    BY <1>2, <2>1, <2>3, GoalIs
  <2>5. pc'[p] = i.imm
    BY <1>1, <1>6, <1>8, <2>1 DEF Typed, MachineTypeOK
  <2>6. t = [s EXCEPT !.k = g]
    BY <1>4, <1>7, <1>8
  <2> HIDE DEF t, g, i
  <2>7. Reaches(p, s, t)
    BY <1>1, <2>4, <2>5, <2>6, CounterReaches
  <2> QED
    BY <1>2, <2>7 DEF t
<1>9. CASE ~taken
  <2>1. /\ k + 1 \in 0..(Len(programs[p].code) - 1)
        /\ pc'[p] = Base(p) + 4 * (NumData(p) + (k + 1))
    BY <1>1, <1>2, <1>9, NextInstruction DEF Stands, Intact
  <2>2. t = [s EXCEPT !.k = k + 1]
    BY <1>4, <1>7, <1>9
  <2> HIDE DEF t, k
  <2>3. Reaches(p, s, t)
    BY <1>1, <2>1, <2>2, CounterReaches
  <2> QED
    BY <1>2, <2>3 DEF t
<1> QED
  BY <1>8, <1>9

(* A turn that leaves behind the cache ch has not written the line of a,   *)
(* or has written none.                                                    *)
Spares(p, ch, S, a) ==
  \/ Follows(cache[on[p]], memory, {pc[p]} \cup S, ch)
  \/ ~(Decoded(p) = "sw" /\ a = Imm(Fetched(p)))

OnlyReads(p, ch, S) ==
  \/ Follows(cache[on[p]], memory, {pc[p]} \cup S, ch)
  \/ Decoded(p) # "sw"

(* A turn keeps the lines it does not write: none becomes dirty, and none  *)
(* is lost as long as the core has a line to spare.                        *)
LEMMA LineTurn ==
  ASSUME Meant, NEW q \in Procs, NEW st, NEW v, NEW ch, NEW S, Turn(q, st, v, ch, S),
         NEW a, NEW c \in Cores, Spares(q, ch, S, a)
  PROVE  /\ a \in DOMAIN cache'[c].lines /\ cache'[c].lines[a].dirty =>
              a \in DOMAIN cache[c].lines /\ cache[c].lines[a].dirty
         /\ Cardinality(touched'[c]) < Capacity =>
              /\ Cardinality(touched[c]) < Capacity
              /\ Hit(cache[c], a) => /\ a \in DOMAIN cache'[c].lines
                                     /\ cache'[c].lines[a] = cache[c].lines[a]
<1>1. /\ touched'[on[q]] = touched[on[q]] \cup ({pc[q]} \cup S)
      /\ touched[c] \subseteq touched'[c] /\ IsFiniteSet(touched'[c])
      /\ c # on[q] => cache'[c] = cache[c]
      /\ cache'[on[q]] = ch
  BY HistoryTurn
<1>2. Leaves(q, ch, S)
  BY DEF Turn
<1>3. ASSUME a \in DOMAIN cache'[c].lines, cache'[c].lines[a].dirty
      PROVE  a \in DOMAIN cache[c].lines /\ cache[c].lines[a].dirty
  <2>1. CASE c # on[q]
    BY <1>1, <1>3, <2>1
  <2>2. CASE c = on[q]
    <3>1. a \in DOMAIN ch.lines /\ ch.lines[a].dirty
      BY <1>1, <1>3, <2>2
    <3>2. \/ a \in DOMAIN cache[on[q]].lines /\ ch.lines[a] = cache[on[q]].lines[a]
          \/ ch.lines[a] = [data |-> ReadMem(memory, a), dirty |-> FALSE]
      BY <1>2, <3>1, LinesLeft DEF Follows, Spares
    <3>3. [data |-> ReadMem(memory, a), dirty |-> FALSE].dirty = FALSE
      OBVIOUS
    <3> QED
      BY <2>2, <3>1, <3>2, <3>3
  <2> QED
    BY <2>1, <2>2
<1>4. ASSUME Cardinality(touched'[c]) < Capacity
      PROVE  Cardinality(touched[c]) < Capacity
  <2>1. /\ IsFiniteSet(touched[c]) /\ Cardinality(touched[c]) <= Cardinality(touched'[c])
    BY <1>1, FS_Subset
  <2>2. Cardinality(touched[c]) \in Nat /\ Cardinality(touched'[c]) \in Nat
    BY <1>1, <2>1, FS_CardinalityType
  <2> QED
    BY <1>4, <2>1, <2>2, CapacityAssumption
<1>5. ASSUME Cardinality(touched'[c]) < Capacity, Hit(cache[c], a)
      PROVE  a \in DOMAIN cache'[c].lines /\ cache'[c].lines[a] = cache[c].lines[a]
  <2>1. CASE c # on[q]
    BY <1>1, <1>5, <2>1 DEF Hit
  <2>2. CASE c = on[q]
    <3>1. DOMAIN cache[c].lines \subseteq touched[c]
      BY DEF Meant, History
    <3>2. DOMAIN cache[on[q]].lines \cup ({pc[q]} \cup S) \subseteq touched'[c]
      BY <1>1, <2>2, <3>1
    <3>3. a \in DOMAIN cache[on[q]].lines /\ Hit(cache[on[q]], a)
      BY <1>5, <2>2 DEF Hit
    <3>4. a \in DOMAIN ch.lines /\ ch.lines[a] = cache[on[q]].lines[a]
      <4>1. CASE Follows(cache[on[q]], memory, {pc[q]} \cup S, ch)
        BY <1>1, <1>5, <3>2, <3>3, <4>1 DEF Follows
      <4>2. CASE ~(Decoded(q) = "sw" /\ a = Imm(Fetched(q)))
        BY <1>1, <1>2, <1>5, <3>2, <3>3, <4>2, LineKept
      <4> QED
        BY <4>1, <4>2 DEF Spares
    <3> QED
      BY <1>1, <2>2, <3>4
  <2> QED
    BY <2>1, <2>2
<1> QED
  BY <1>3, <1>4, <1>5

(* Another process's store is not to p's data.                             *)
LEMMA StoreIsOwn ==
  ASSUME Intact, WellPlaced, BranchesStay, NEW q \in Procs, InLoop(q), Decoded(q) = "sw",
         NEW p \in Procs, NEW d \in 0..(NumData(p) - 1), DataAddress(p, d) = Imm(Fetched(q))
  PROVE  p = q
<1>1. Typed /\ NotStarted /\ programs \in Scenarios
  BY DEF Intact, Typed, MachineTypeOK
<1>2. q \in 1..loaded /\ status[q] # "Finished"
  BY <1>1, AllLoaded DEF InLoop
<1>3. PICK k \in 0..(ImageSize(q) - 1) : pc[q] = Base(q) + 4 * k
  BY <1>2 DEF Intact, InsideImage
<1>4. Imm(Fetched(q)) \in DataAddresses(q)
  BY <1>3, OwnAddresses
<1>5. PICK l \in 0..(NumData(q) - 1) : Imm(Fetched(q)) = Base(q) + 4 * l
  BY <1>4 DEF DataAddresses
<1>6. /\ NumData(p) \in Nat /\ ImageSize(p) \in Nat /\ NumData(p) < ImageSize(p)
      /\ NumData(q) \in Nat /\ ImageSize(q) \in Nat /\ NumData(q) < ImageSize(q)
  BY <1>1, ProgramFacts
<1>7. d \in 0..(ImageSize(p) - 1) /\ l \in 0..(ImageSize(q) - 1)
  BY <1>6
<1>8. Base(p) + 4 * d = Base(q) + 4 * l
  BY <1>5 DEF DataAddress
<1> QED
  BY <1>1, <1>7, <1>8, ImagesApart

(* What the core of p still has of p's stores.                             *)
LEMMA Remembered ==
  ASSUME Typed, NEW p \in Procs, NEW s, StateOf(p, s), StoresFollow(p, s),
         NEW c \in Cores, ranOn[p] = {c}, Cardinality(touched[c]) < Capacity, ~s.marked,
         NEW d \in s.stored
  PROVE  /\ d \in 0..(NumData(p) - 1)
         /\ Hit(cache[c], DataAddress(p, d))
         /\ cache[c].lines[DataAddress(p, d)].dirty
         /\ Signed(cache[c].lines[DataAddress(p, d)].data, WordSize) = s.data[d + 1]
<1> DEFINE a == DataAddress(p, d)
<1>1. /\ a \in DOMAIN cache[c].lines /\ cache[c].lines[a].dirty
      /\ Signed(cache[c].lines[a].data, WordSize) = s.data[d + 1]
      /\ s.data[d + 1] # -1
  BY DEF StoresFollow
<1>2. cache[c].lines[a].data \in Word
  BY <1>1 DEF Typed, MachineTypeOK, IsCache, Line
<1>3. cache[c].lines[a].data # Marker
  BY <1>1, <1>2, SignedRange, Words
<1>4. d \in 0..(NumData(p) - 1)
  BY DEF StateOf
<1> QED
  BY <1>1, <1>3, <1>4 DEF Hit

LEMMA StoresKept ==
  ASSUME Meant, WellPlaced, BranchesStay, NEW q \in Procs,
         NEW st, NEW v, NEW ch, NEW S, Turn(q, st, v, ch, S),
         NEW p \in Procs, NEW s, StateOf(p, s), StoresFollow(p, s),
         p # q \/ OnlyReads(q, ch, S)
  PROVE  StoresFollow(p, s)'
<1>1. /\ programs' = programs /\ ranOn' = ranOn /\ InLoop(q)
  BY DEF Turn
<1>2. Intact /\ Typed /\ s' = s
  BY DEF Meant, Intact
<1>3. \A c \in Cores : \A d \in 0..(NumData(p) - 1) :
        Spares(q, ch, S, DataAddress(p, d))
  BY <1>1, <1>2, StoreIsOwn DEF Spares, OnlyReads
<1>4. ASSUME NEW c \in Cores, NEW d \in 0..(NumData(p) - 1),
             DataAddress(p, d) \in DOMAIN cache'[c].lines,
             cache'[c].lines[DataAddress(p, d)].dirty
      PROVE  d \in s.stored
  <2>1. /\ DataAddress(p, d) \in DOMAIN cache[c].lines
        /\ cache[c].lines[DataAddress(p, d)].dirty
    BY <1>3, <1>4, LineTurn
  <2> QED
    BY <2>1 DEF StoresFollow
<1>5. ASSUME NEW c \in Cores, ranOn[p] = {c}, Cardinality(touched'[c]) < Capacity, ~s.marked,
             NEW d \in s.stored
      PROVE  /\ DataAddress(p, d) \in DOMAIN cache'[c].lines
             /\ cache'[c].lines[DataAddress(p, d)].dirty
             /\ Signed(cache'[c].lines[DataAddress(p, d)].data, WordSize) = s.data[d + 1]
  <2>1. d \in 0..(NumData(p) - 1)
    BY DEF StateOf
  <2>2. Spares(q, ch, S, DataAddress(p, d))
    BY <1>3, <2>1
  <2>3. Cardinality(touched[c]) < Capacity
    BY <1>5, <2>2, LineTurn
  <2>4. /\ Hit(cache[c], DataAddress(p, d))
        /\ cache[c].lines[DataAddress(p, d)].dirty
        /\ Signed(cache[c].lines[DataAddress(p, d)].data, WordSize) = s.data[d + 1]
    BY <1>2, <1>5, <2>3, Remembered
  <2>5. /\ DataAddress(p, d) \in DOMAIN cache'[c].lines
        /\ cache'[c].lines[DataAddress(p, d)] = cache[c].lines[DataAddress(p, d)]
    BY <1>5, <2>2, <2>4, LineTurn
  <2> QED
    BY <2>4, <2>5
<1>6. \A d : DataAddress(p, d)' = DataAddress(p, d)
  BY <1>1, SamePlaces DEF DataAddress
<1>7. NumData(p)' = NumData(p)
  BY <1>1, SamePlaces
<1>8. ~s.marked => \A d \in s.stored : s.data[d + 1] # -1
  BY DEF StoresFollow
<1> QED
  BY <1>1, <1>2, <1>4, <1>5, <1>6, <1>7, <1>8 DEF StoresFollow

(* The parts of Matches after a step, in terms of the state before it.     *)
LEMMA MatchesAfter ==
  ASSUME programs' = programs, NEW p, NEW s, StateOf(p, s),
         \A r \in Registers : Signed(regs'[p][r], WordSize) = s.reg[r],
         IF status'[p] = "Finished" THEN s.done
         ELSE /\ ~s.done
              /\ \/ /\ s = RefInit(programs[p])
                    /\ \E k \in 0..(NumData(p) - 1) : pc'[p] = Base(p) + 4 * k
                 \/ /\ s.k \in 0..(Len(programs[p].code) - 1)
                    /\ pc'[p] = Base(p) + 4 * (NumData(p) + s.k),
         \A d \in 0..(NumData(p) - 1) :
           d \notin s.stored => s.data[d + 1] = Signed(programs[p].data[d + 1], WordSize),
         StoresFollow(p, s)',
         ranOn'[p] = {} => s.stored = {}
  PROVE  Matches(p, s)'
<1>1. NumData(p)' = NumData(p) /\ Base(p)' = Base(p) /\ s' = s
  BY SamePlaces
<1>2. StateOf(p, s)'
  BY <1>1 DEF StateOf
<1>3. status'[p] # "Finished" => At(p, s)'
  BY <1>1 DEF At
<1>4. \A d \in 0..(NumData(p)' - 1) :
        d \notin s.stored => s.data[d + 1] = Signed(programs'[p].data[d + 1], WordSize)
  BY <1>1
<1> HIDE DEF StateOf, At, StoresFollow
<1> QED
  BY <1>1, <1>2, <1>3, <1>4 DEF Matches

LEMMA ForeignMatches ==
  ASSUME Meant, WellPlaced, BranchesStay, NEW q \in Procs,
         NEW st, NEW v, NEW ch, NEW S, Turn(q, st, v, ch, S),
         NEW p \in Procs, p # q, regs'[p] = regs[p], NEW s, Matches(p, s)
  PROVE  Matches(p, s)'
<1>1. /\ programs' = programs /\ ranOn' = ranOn
      /\ status' = [status EXCEPT ![q] = st] /\ pc' = [pc EXCEPT ![q] = v]
  BY DEF Turn
<1>2. status'[p] = status[p] /\ pc'[p] = pc[p]
  BY <1>1 DEF Meant, Intact, Typed, MachineTypeOK
<1>3. /\ StateOf(p, s) /\ StoresFollow(p, s)
      /\ \A r \in Registers : Signed(regs[p][r], WordSize) = s.reg[r]
      /\ IF status[p] = "Finished" THEN s.done ELSE ~s.done /\ At(p, s)
      /\ \A d \in 0..(NumData(p) - 1) :
           d \notin s.stored => s.data[d + 1] = Signed(programs[p].data[d + 1], WordSize)
      /\ ranOn[p] = {} => s.stored = {}
  BY DEF Matches
<1>4. StoresFollow(p, s)'
  BY <1>3, StoresKept
<1>5. IF status'[p] = "Finished" THEN s.done
      ELSE /\ ~s.done
           /\ \/ /\ s = RefInit(programs[p])
                 /\ \E k \in 0..(NumData(p) - 1) : pc'[p] = Base(p) + 4 * k
              \/ /\ s.k \in 0..(Len(programs[p].code) - 1)
                 /\ pc'[p] = Base(p) + 4 * (NumData(p) + s.k)
  BY <1>2, <1>3 DEF At
<1>6. \A r \in Registers : Signed(regs'[p][r], WordSize) = s.reg[r]
  BY <1>3
<1> QED
  BY <1>1, <1>3, <1>4, <1>5, <1>6, MatchesAfter

(* A turn of p itself that stores nothing.                                 *)
LEMMA OwnMatches ==
  ASSUME Meant, WellPlaced, BranchesStay, NEW p \in Procs,
         NEW st, NEW v, NEW ch, NEW S, Turn(p, st, v, ch, S),
         OnlyReads(p, ch, S), NEW s, Matches(p, s),
         NEW t, StateOf(p, t), t.data = s.data, t.stored = s.stored, t.marked = s.marked,
         \A r \in Registers : Signed(regs'[p][r], WordSize) = t.reg[r],
         IF st = "Finished" THEN t.done
         ELSE /\ ~t.done
              /\ \/ /\ t = RefInit(programs[p])
                    /\ \E k \in 0..(NumData(p) - 1) : pc'[p] = Base(p) + 4 * k
                 \/ /\ t.k \in 0..(Len(programs[p].code) - 1)
                    /\ pc'[p] = Base(p) + 4 * (NumData(p) + t.k)
  PROVE  Matches(p, t)'
<1>1. /\ programs' = programs /\ ranOn' = ranOn
      /\ status' = [status EXCEPT ![p] = st]
  BY DEF Turn
<1>2. status'[p] = st
  BY <1>1 DEF Meant, Intact, Typed, MachineTypeOK
<1>3. /\ StateOf(p, s) /\ StoresFollow(p, s)
      /\ \A d \in 0..(NumData(p) - 1) :
           d \notin s.stored => s.data[d + 1] = Signed(programs[p].data[d + 1], WordSize)
      /\ ranOn[p] = {} => s.stored = {}
  BY DEF Matches
<1>4. StoresFollow(p, t)
  BY <1>3 DEF StoresFollow
<1>5. StoresFollow(p, t)'
  BY <1>4, StoresKept
<1>6. /\ \A d \in 0..(NumData(p) - 1) :
           d \notin t.stored => t.data[d + 1] = Signed(programs[p].data[d + 1], WordSize)
      /\ ranOn'[p] = {} => t.stored = {}
  BY <1>1, <1>3
<1>7. IF status'[p] = "Finished" THEN t.done
      ELSE /\ ~t.done
           /\ \/ /\ t = RefInit(programs[p])
                 /\ \E k \in 0..(NumData(p) - 1) : pc'[p] = Base(p) + 4 * k
              \/ /\ t.k \in 0..(Len(programs[p].code) - 1)
                 /\ pc'[p] = Base(p) + 4 * (NumData(p) + t.k)
  BY <1>2
<1> QED
  BY <1>1, <1>5, <1>6, <1>7, MatchesAfter

(* ... in particular one that reaches the next instruction.                *)
LEMMA ReachesMatches ==
  ASSUME Meant, WellPlaced, BranchesStay, NEW p \in Procs,
         NEW st, NEW v, NEW ch, NEW S, Turn(p, st, v, ch, S), st # "Finished",
         Decoded(p) # "sw", NEW s, Matches(p, s), NEW t, Reaches(p, s, t)
  PROVE  Matches(p, t)'
<1>1. OnlyReads(p, ch, S)
  BY DEF OnlyReads
<1>2. /\ StateOf(p, t) /\ ~t.done
      /\ t.data = s.data /\ t.stored = s.stored /\ t.marked = s.marked
      /\ \A r \in Registers : Signed(regs'[p][r], WordSize) = t.reg[r]
      /\ t.k \in 0..(Len(programs[p].code) - 1)
      /\ pc'[p] = Base(p) + 4 * (NumData(p) + t.k)
  BY DEF Reaches
<1> QED
  BY <1>1, <1>2, OwnMatches

(* A process in its data section: nothing happens to registers of zeros.   *)
LEMMA ZeroResults ==
  ASSUME NEW op \in {"add", "sub", "mult", "div"}
  PROVE  Alu(op, 0, 0) = 0
<1>1. Signed(0, WordSize) = 0
  <2>1. 0 \in 0..AllOnes
    BY Words
  <2> QED
    BY <2>1, SignedRange
<1>2. 0 % WordSize = 0
  BY Sizes, ModOfSmall
<1>3. Quotient(0, 0) = 0
  BY DEF Quotient
<1>4. Alu(op, 0, 0) = IF op = "div" THEN Quotient(0, 0) % WordSize ELSE 0 % WordSize
  BY <1>1 DEF Alu
<1> QED
  BY <1>2, <1>3, <1>4

LEMMA DataTurn ==
  ASSUME Meant, WellPlaced, BranchesStay, NEW p \in Procs,
         RunProcess(p), ~Preempt(p), NEW s, Matches(p, s),
         s = RefInit(programs[p]),
         NEW k \in 0..(NumData(p) - 1), pc[p] = Base(p) + 4 * k
  PROVE  Matches(p, s)'
<1>1. Intact /\ Typed /\ programs \in Scenarios
  BY DEF Meant, Intact, Typed, MachineTypeOK
<1>2. /\ NumData(p) \in Nat /\ Len(programs[p].code) \in Nat \ {0} /\ Base(p) \in Nat
      /\ ImageSize(p) = NumData(p) + Len(programs[p].code)
      /\ ProgramEnd(p) = Base(p) + 4 * ImageSize(p)
  BY <1>1, ProgramFacts
<1>3. InLoop(p)
  BY <1>1, RunIsTurn DEF Turn
<1>4. k \in 0..(ImageSize(p) - 1) /\ k < NumData(p) /\ ~PastEnd(p)
  <2> DEFINE nd == NumData(p)
             len == Len(programs[p].code)
             b == Base(p)
             e == ProgramEnd(p)
  <2>1. nd \in Nat /\ len \in Nat \ {0} /\ b \in Nat /\ e = b + 4 * (nd + len)
        /\ k \in 0..(nd - 1) /\ pc[p] = b + 4 * k
    BY <1>2
  <2>2. PastEnd(p) <=> pc[p] + 4 >= e
    BY DEF PastEnd
  <2> HIDE DEF nd, len, b, e
  <2>3. k \in 0..(nd + len - 1) /\ k < nd /\ ~(pc[p] + 4 >= e)
    BY <2>1
  <2> QED
    BY <1>2, <2>2, <2>3 DEF nd, len
<1>5. Fetched(p) = ImageWord(p, k)
  BY <1>1, <1>3, <1>4, FetchedIsWritten
<1>6. Decoded(p) \in RType \cup Unexecuted \cup {""}
  BY <1>1, <1>4, <1>5, DecodedIsWritten
<1>7. Fetched(p) # EndWord
  <2>1. Fetched(p) = programs[p].data[k + 1] /\ k + 1 \in DOMAIN programs[p].data
    BY <1>1, <1>4, <1>5, ImageFacts
  <2> QED
    BY <2>1 DEF WellPlaced, Harmless, Range
<1>8. Arithmetic(p) \/ Ignore(p)
  BY <1>4, <1>6, <1>7
     DEF RunProcess, End, AddImmediate, SetOnLess, LoadImmediate, LoadWord, StoreWord,
         Branch, PrintRequest, Executes, RType, Unexecuted, Branches
<1>9. PICK st, v, ch, S : Turn(p, st, v, ch, S)
  BY <1>1, RunIsTurn
<1>10. status' = status /\ Advance(p)
  BY <1>8 DEF Arithmetic, Ignore
<1>11. st = "Running"
  <2>1. status'[p] = st /\ status[p] = "Running"
    BY <1>1, <1>3, <1>9 DEF Turn, InLoop, Typed, MachineTypeOK
  <2> QED
    BY <1>10, <2>1
<1>12. pc'[p] = Base(p) + 4 * (k + 1)
  <2>1. pc'[p] = pc[p] + 4
    BY <1>1, <1>10 DEF Advance, Typed, MachineTypeOK
  <2> DEFINE b == Base(p)
  <2>2. b \in Nat /\ pc[p] = b + 4 * k /\ k \in Nat
    BY <1>2
  <2> HIDE DEF b
  <2>3. pc'[p] = b + 4 * (k + 1)
    BY <2>1, <2>2
  <2> QED
    BY <2>3 DEF b
<1>13. s.k = 0 /\ ~s.done /\ s.reg = [r \in Registers |-> 0] /\ StateOf(p, s)
       /\ \A r \in Registers : Signed(regs[p][r], WordSize) = s.reg[r]
  BY DEF RefInit, Matches
<1>14. regs \in [Procs -> [Registers -> Word]] /\ \A r \in Registers : regs[p][r] = 0
  <2>1. regs \in [Procs -> [Registers -> Word]]
    BY <1>1 DEF Typed, MachineTypeOK
  <2>2. \A r \in Registers : regs[p][r] \in 0..AllOnes /\ Signed(regs[p][r], WordSize) = 0
    BY <1>13, <2>1, Words
  <2> QED
    BY <2>1, <2>2, SignedRange
<1>15. \A r \in Registers : regs'[p][r] = 0
  <2>1. CASE Ignore(p)
    BY <1>14, <2>1 DEF Ignore
  <2>2. CASE Arithmetic(p)
    <3> DEFINE w == Fetched(p)
    <3>1. Rs(w) \in Registers /\ Rt(w) \in Registers
      BY <1>1, <1>3, FetchFacts, FieldWords
    <3>2. Decoded(p) \in {"add", "sub", "mult", "div"}
          /\ SetRegister(p, Rd(w), Alu(Decoded(p), regs[p][Rs(w)], regs[p][Rt(w)]))
      BY <2>2 DEF Arithmetic, Executes
    <3> HIDE DEF w
    <3>3. SetRegister(p, Rd(w), 0)
      BY <1>14, <3>1, <3>2, ZeroResults
    <3> QED
      BY <1>14, <3>3 DEF SetRegister
  <2> QED
    BY <1>8, <2>1, <2>2
<1>16. \A r \in Registers : Signed(regs'[p][r], WordSize) = s.reg[r]
  <2>1. \A r \in Registers : regs'[p][r] = regs[p][r]
    BY <1>14, <1>15
  <2> QED
    BY <1>13, <2>1
<1>17. \/ \E l \in 0..(NumData(p) - 1) : pc'[p] = Base(p) + 4 * l
       \/ /\ s.k \in 0..(Len(programs[p].code) - 1)
          /\ pc'[p] = Base(p) + 4 * (NumData(p) + s.k)
  <2>1. CASE k + 1 < NumData(p)
    <3>1. k + 1 \in 0..(NumData(p) - 1)
      BY <1>2, <2>1
    <3> QED
      BY <1>12, <3>1
  <2>2. CASE ~(k + 1 < NumData(p))
    <3>1. k + 1 = NumData(p) + 0
      BY <1>2, <1>4, <2>2
    <3>2. 0 \in 0..(Len(programs[p].code) - 1)
      BY <1>2
    <3> QED
      BY <1>12, <1>13, <3>1, <3>2
  <2> QED
    BY <2>1, <2>2
<1>18. OnlyReads(p, ch, S)
  BY <1>6 DEF RType, Unexecuted, OnlyReads
<1> HIDE DEF RunProcess, Preempt, RefInit
<1> QED
  BY <1>9, <1>11, <1>13, <1>16, <1>17, <1>18, OwnMatches

LEMMA EndMatches ==
  ASSUME Meant, WellPlaced, BranchesStay, NEW p \in Procs, End(p),
         NEW s, Matches(p, s), Stands(p, s)
  PROVE  \E t : t = RefStep(programs[p], Base(p), s) /\ Matches(p, t)'
<1> DEFINE i == programs[p].code[s.k + 1]
<1>0. PICK t : t = RefStep(programs[p], Base(p), s)
  OBVIOUS
<1>1. Intact /\ Typed /\ AtInstruction(p, s) /\ StateOf(p, s) /\ ~s.done
      /\ \A r \in Registers : Signed(regs[p][r], WordSize) = s.reg[r]
  BY DEF Stands, Intact
<1>2. InLoop(p) /\ (Fetched(p) = EndWord \/ PastEnd(p)) /\ UNCHANGED regs
  BY DEF End
<1>3. /\ Fetched(p) = EndWord <=> i.op = "end"
      /\ PastEnd(p) <=> s.k + 1 = Len(programs[p].code)
      /\ Decoded(p) = IF i.op \in Aliases THEN alias ELSE i.op
      /\ i \in Instructions(p)
  BY <1>1, <1>2, OwnInstruction DEF AtInstruction
<1>4. t = [s EXCEPT !.done = TRUE]
  <2>1. EndsWithEnd(p)
    BY DEF Stands, Follower
  <2>2. PastEnd(p) => i = programs[p].code[Len(programs[p].code)]
    BY <1>3
  <2>3. i.op = "end"
    BY <1>2, <1>3, <2>1, <2>2 DEF EndsWithEnd
  <2> QED
    BY <1>0, <1>1, <2>3 DEF RefStep
<1>5. /\ t.done /\ t.k = s.k /\ t.reg = s.reg /\ t.data = s.data
      /\ t.stored = s.stored /\ t.marked = s.marked /\ IsState(t)
  <2>1. IsState(s)
    BY <1>1 DEF StateOf
  <2> QED
    BY <1>4, <2>1 DEF IsState
<1>6. StateOf(p, t)
  BY <1>1, <1>5 DEF StateOf
<1>7. \A r \in Registers : Signed(regs'[p][r], WordSize) = t.reg[r]
  BY <1>1, <1>2, <1>5
<1>8. PICK v : Turn(p, "Finished", v, AfterFetch(p), {})
  BY <1>1, EndTurns
<1>9. OnlyReads(p, AfterFetch(p), {})
  <2>1. {pc[p]} \cup {} = {pc[p]}
    OBVIOUS
  <2> QED
    BY <1>1, <1>2, <2>1, FetchFacts DEF OnlyReads
<1>10. Matches(p, t)'
  BY <1>5, <1>6, <1>7, <1>8, <1>9, OwnMatches
<1> QED
  BY <1>0, <1>10

(* What a load of the word d of p's data, at address a, and a store to it  *)
(* find in the instruction.                                                *)
LEMMA DataInstruction ==
  ASSUME NEW p \in Procs, NEW s, Stands(p, s), NEW op \in {"lw", "sw"}, Executes(p, {op})
  PROVE  LET i == programs[p].code[s.k + 1]
             d == i.imm
             w == Fetched(p)
         IN  /\ i.op = op /\ Decoded(p) = op
             /\ d \in 0..(NumData(p) - 1) /\ i.rt \in Registers /\ DataIndex(i) = d
             /\ Rt(w) = i.rt /\ Imm(w) = DataAddress(p, d) /\ Imm(w) \in Address
             /\ s.k + 1 # Len(programs[p].code)
             /\ RefStep(programs[p], Base(p), s) = RefExecute(programs[p], Base(p), s)
<1> DEFINE i == programs[p].code[s.k + 1]
           d == i.imm
           w == Fetched(p)
           m == Operand(i, s.k, Base(p))
<1>1. /\ i \in Instruction /\ AsWritten(p, i) /\ alias \in Aliases /\ w \in Word
      /\ Decoded(p) = (IF i.op \in Aliases THEN alias ELSE i.op) /\ Decoded(p) \in {op}
      /\ s.k + 1 # Len(programs[p].code)
      /\ RefStep(programs[p], Base(p), s) = RefExecute(programs[p], Base(p), s)
      /\ i.op \notin RType \cup {"j", "jal", "end", "print"} =>
           /\ Rt(w) = i.rt /\ Imm(w) = m % ImmSize
  BY Standing
<1>2. Intact /\ Typed /\ programs \in Scenarios
  BY DEF Stands, Intact, Typed, MachineTypeOK
<1>3. i.op = op /\ Decoded(p) = op
  BY <1>1 DEF Aliases
<1>4. i.via = "data" /\ Base(p) + 4 * d < ImmSize /\ i.offset = 0
  BY <1>1, <1>3 DEF AsWritten
<1>5. Rt(w) = i.rt /\ Imm(w) = m % ImmSize /\ i.rt \in Registers
  BY <1>1, <1>3 DEF RType, Instruction
<1>6. m = Base(p) + 4 * d
  BY <1>4 DEF Operand
<1>7. i \in Range(programs[p].code)
  <2>1. s.k \in 0..(Len(programs[p].code) - 1)
    BY DEF Stands, AtInstruction
  <2>2. DOMAIN programs[p].code = 1..Len(programs[p].code) /\ Len(programs[p].code) \in Nat
    BY <1>2, ProgramFacts, Elements
  <2>3. s.k + 1 \in 1..Len(programs[p].code)
    BY <2>1, <2>2
  <2> QED
    BY <2>2, <2>3 DEF Range
<1>8. d \in 0..(NumData(p) - 1)
  BY <1>2, <1>4, <1>7, ProgramAssumption DEF NumData, Procs
<1>9. /\ Base(p) \in Nat /\ NumData(p) \in Nat
      /\ DataIndex(i) = d
  <2>1. Base(p) \in Nat /\ NumData(p) \in Nat
    BY <1>2, ProgramFacts
  <2>2. DataIndex(i) = d + 0
    BY <1>4 DEF DataIndex
  <2> HIDE DEF d
  <2>3. d + 0 = d
    BY <1>8, <2>1
  <2> QED
    BY <2>1, <2>2, <2>3
<1>10. m % ImmSize = m
  <2> DEFINE b == Base(p)
  <2>1. b + 4 * d \in 0..(ImmSize - 1)
    <3>1. d \in Nat /\ b \in Nat /\ b + 4 * d < ImmSize
      BY <1>4, <1>8, <1>9
    <3> HIDE DEF b, d
    <3> QED
      BY <3>1, Sizes
  <2> HIDE DEF m, b, d
  <2>2. m \in 0..(ImmSize - 1)
    BY <1>6, <2>1 DEF b
  <2> QED
    BY <2>2, Sizes, ModOfSmall
<1>11. Imm(w) = DataAddress(p, d)
  BY <1>5, <1>6, <1>10 DEF DataAddress
<1>12. Imm(w) \in Address
  <2>1. Imm(w) \in 0..(TargetSize - 1)
    BY <1>1, FieldWords
  <2> QED
    BY <2>1, ReachAssumption, Sizes
<1> QED
  BY <1>1, <1>3, <1>5, <1>8, <1>9, <1>11, <1>12

(* The word that a load reads, unless it was stored and lost.              *)
LEMMA LoadedValue ==
  ASSUME Meant, WellPlaced, BranchesStay, NEW p \in Procs,
         NEW st, NEW v, NEW ch, NEW S, Turn(p, st, v, ch, S),
         NEW s, Matches(p, s), NEW d \in 0..(NumData(p) - 1),
         DataAddress(p, d) \in Address,
         d \in s.stored =>
           ~s.marked /\ \E c \in Cores : ranOn[p] = {c} /\ Cardinality(touched'[c]) < Capacity
  PROVE  LET w == ReadValue(AfterFetch(p), memory, DataAddress(p, d))
         IN  w \in Word /\ Signed(w, WordSize) = s.data[d + 1]
<1> DEFINE a == DataAddress(p, d)
           old == cache[on[p]]
           new == AfterFetch(p)
           w == ReadValue(new, memory, a)
<1>1. Intact /\ Typed /\ CleanIsMemory /\ InLoop(p) /\ NotStarted /\ programs \in Scenarios
      /\ StateOf(p, s) /\ StoresFollow(p, s)
  BY DEF Meant, Intact, Typed, MachineTypeOK, Turn, Matches
<1>2. on[p] \in Cores /\ IsMemory(memory) /\ IsCache(old) /\ Follows(old, memory, {pc[p]}, new)
  BY <1>1, FetchFacts
<1>3. IsCache(new)
  BY <1>2 DEF Follows
<1>4. w \in Word
  BY <1>2, <1>3, ReadValueWord
<1>5. CASE d \notin s.stored
  <2>1. a \in DOMAIN old.lines => old.lines[a].data = ReadMem(memory, a)
    <3>1. a \in DOMAIN old.lines => ~old.lines[a].dirty
      BY <1>1, <1>2, <1>5 DEF StoresFollow
    <3> QED
      BY <1>1, <1>2, <3>1 DEF CleanIsMemory
  <2>2. a \in DOMAIN new.lines => new.lines[a].data = ReadMem(memory, a)
    <3> HIDE DEF a, old, new
    <3>1. a \in DOMAIN new.lines =>
            \/ a \in DOMAIN old.lines /\ new.lines[a] = old.lines[a]
            \/ new.lines[a] = [data |-> ReadMem(memory, a), dirty |-> FALSE]
      BY <1>2 DEF Follows
    <3>2. [data |-> ReadMem(memory, a), dirty |-> FALSE].data = ReadMem(memory, a)
      OBVIOUS
    <3> QED
      BY <2>1, <3>1, <3>2
  <2>3. w = ReadMem(memory, a)
    BY <2>2 DEF ReadValue, Hit
  <2>4. p \in 1..loaded
    BY <1>1, AllLoaded DEF InLoop
  <2>5. d \in 0..(ImageSize(p) - 1) /\ d < NumData(p)
    BY <1>1, ProgramFacts
  <2>6. ReadMem(memory, a) = ImageWord(p, d)
    BY <1>1, <2>4, <2>5 DEF Intact, ImagesAreLoaded, DataAddress
  <2>7. ImageWord(p, d) = programs[p].data[d + 1]
    BY <1>1, <2>5, ImageFacts
  <2>8. s.data[d + 1] = Signed(programs[p].data[d + 1], WordSize)
    BY <1>5 DEF Matches
  <2> QED
    BY <1>4, <2>3, <2>6, <2>7, <2>8
<1>6. CASE d \in s.stored
  <2>1. PICK c \in Cores : ranOn[p] = {c} /\ Cardinality(touched'[c]) < Capacity
    BY <1>6
  <2>2. c = on[p]
    BY <2>1, HistoryTurn
  <2>3. /\ touched'[c] = touched[c] \cup ({pc[p]} \cup S)
        /\ IsFiniteSet(touched'[c]) /\ touched[c] \subseteq touched'[c]
        /\ DOMAIN old.lines \subseteq touched[c]
    BY <2>2, HistoryTurn DEF Meant, History
  <2>4. Cardinality(touched[c]) < Capacity
    <3>1. /\ IsFiniteSet(touched[c]) /\ Cardinality(touched[c]) <= Cardinality(touched'[c])
      BY <2>3, FS_Subset
    <3>2. Cardinality(touched[c]) \in Nat /\ Cardinality(touched'[c]) \in Nat
      BY <2>3, <3>1, FS_CardinalityType
    <3> QED
      BY <2>1, <3>1, <3>2, CapacityAssumption
  <2>5. Hit(old, a) /\ Signed(old.lines[a].data, WordSize) = s.data[d + 1]
    BY <1>1, <1>6, <2>1, <2>2, <2>4, Remembered
  <2>6. DOMAIN old.lines \cup {pc[p]} \subseteq touched'[c]
    BY <2>3
  <2>7. a \in DOMAIN new.lines /\ new.lines[a] = old.lines[a]
    BY <1>2, <2>1, <2>3, <2>5, <2>6 DEF Follows, Hit
  <2>8. w = old.lines[a].data
    BY <2>5, <2>7 DEF ReadValue, Hit
  <2> QED
    BY <1>4, <2>5, <2>8
<1> QED
  BY <1>5, <1>6

LEMMA KeptAfter ==
  ASSUME ranOn' = ranOn, NEW p
  PROVE  KeptItsLines(p)' <=>
           \E c \in Cores : ranOn[p] = {c} /\ Cardinality(touched'[c]) < Capacity
BY DEF KeptItsLines

LEMMA LoadMatches ==
  ASSUME Meant, WellPlaced, BranchesStay, NEW p \in Procs, LoadWord(p),
         NEW s, Matches(p, s), Stands(p, s)
  PROVE  \E t : /\ t = RefStep(programs[p], Base(p), s)
                /\ Matches(p, t)' \/ Excused(p, t)'
<1> DEFINE i == programs[p].code[s.k + 1]
           d == i.imm
           w == Fetched(p)
           a == DataAddress(p, d)
           n == s.data[d + 1]
           x == ReadValue(AfterFetch(p), memory, a)
           ch == AfterRead(AfterFetch(p), memory, a)
           u == SetReg(s, i.rt, n)
<1>0. PICK t : t = RefStep(programs[p], Base(p), s)
  OBVIOUS
<1>1. /\ Executes(p, {"lw"}) /\ Advance(p)
      /\ SetRegister(p, Rt(w), ReadValue(AfterFetch(p), memory, Imm(w)))
  BY DEF LoadWord
<1>2. /\ i.op = "lw" /\ Decoded(p) = "lw" /\ d \in 0..(NumData(p) - 1) /\ i.rt \in Registers
      /\ DataIndex(i) = d /\ Rt(w) = i.rt /\ Imm(w) = a /\ a \in Address
      /\ s.k + 1 # Len(programs[p].code)
      /\ RefStep(programs[p], Base(p), s) = RefExecute(programs[p], Base(p), s)
  BY <1>1, DataInstruction
<1>3. Typed /\ StateOf(p, s)
  BY DEF Stands, Intact
<1>4. Turn(p, "Running", pc[p] + 4, ch, {a})
  BY <1>2, <1>3, LoadWordTurns
<1>5. ranOn' = ranOn /\ on[p] \in ranOn[p]
  BY <1>4, HistoryTurn DEF Turn
<1>6. t = [u EXCEPT !.reloads = @ \/ d \in s.stored]
  <2>1. RefExecute(programs[p], Base(p), s)
          = [SetReg(s, i.rt, s.data[DataIndex(i) + 1])
             EXCEPT !.reloads = @ \/ DataIndex(i) \in s.stored]
    BY <1>2 DEF RefExecute, Branches
  <2> QED
    BY <1>0, <1>2, <2>1
<1>7. n \in Int
  <2>1. NumData(p) \in Nat /\ s.data \in [1..NumData(p) -> Int]
    BY <1>3, ProgramFacts DEF Typed, MachineTypeOK, StateOf
  <2>2. d + 1 \in 1..NumData(p)
    <3> HIDE DEF d
    <3> QED
      BY <1>2, <2>1
  <2> QED
    BY <2>1, <2>2
<1>8. IsState(u) /\ u.reloads = s.reloads /\ u.marked = s.marked
  <2>1. IsState(s)
    BY <1>3 DEF StateOf
  <2> DEFINE R == IF i.rt = Zero THEN s.reg ELSE [s.reg EXCEPT ![i.rt] = Wrapped(n)]
  <2>2. u = [s EXCEPT !.reg = R, !.k = s.k + 1]
    BY DEF SetReg
  <2> HIDE DEF u, R
  <2> QED
    BY <2>1, <2>2 DEF IsState
<1>9. /\ t.k = u.k /\ t.done = u.done /\ t.reg = u.reg /\ t.data = u.data
      /\ t.stored = u.stored /\ t.marked = u.marked /\ IsState(t)
      /\ t.reloads <=> u.reloads \/ d \in s.stored
  <2> HIDE DEF u, d
  <2> QED
    BY <1>6, <1>8 DEF IsState
<1>10. CASE d \in s.stored =>
              ~s.marked /\ \E c \in Cores : ranOn[p] = {c} /\ Cardinality(touched'[c]) < Capacity
  <2>1. x \in Word /\ Signed(x, WordSize) = n
    <3> HIDE DEF d, ch
    <3> QED
      BY <1>2, <1>4, <1>10, LoadedValue
  <2>2. Signed(x, WordSize) = Wrapped(n)
    <3> DEFINE H == WordSize \div 2
    <3>1. x \in 0..AllOnes
      BY <2>1, Words
    <3>2. Signed(x, WordSize) \in (-H)..(H - 1)
      BY <3>1, SignedRange
    <3> HIDE DEF x, n, H
    <3>3. n \in (-H)..(H - 1)
      BY <2>1, <3>2
    <3>4. Wrapped(n) = n
      BY <1>7, <3>3, WrappedInRange DEF H
    <3> QED
      BY <2>1, <3>4
  <2>3. SetRegister(p, i.rt, x)
    BY <1>1, <1>2
  <2> HIDE DEF i, d, n, x, a, ch
  <2>4. Reaches(p, s, u)
    BY <1>1, <1>2, <1>7, <2>1, <2>2, <2>3, RegisterReaches DEF i
  <2> HIDE DEF u
  <2>5. Reaches(p, s, t)
    BY <1>9, <2>4 DEF Reaches, StateOf
  <2>6. Matches(p, t)'
    BY <1>2, <1>4, <2>5, ReachesMatches
  <2> QED
    BY <1>0, <2>6
<1>11. CASE ~(d \in s.stored =>
              ~s.marked /\ \E c \in Cores : ranOn[p] = {c} /\ Cardinality(touched'[c]) < Capacity)
  <2>1. t.reloads /\ (s.marked => t.marked)
    BY <1>8, <1>9, <1>11
  <2>2. s.marked \/ ~KeptItsLines(p)'
    BY <1>5, <1>11, KeptAfter
  <2>3. ranOn'[p] # {}
    BY <1>5
  <2>4. Excused(p, t)'
    BY <2>1, <2>2, <2>3 DEF Excused
  <2> QED
    BY <1>0, <2>4
<1> QED
  BY <1>10, <1>11

(* The meaning of a store, field by field.                                 *)
LEMMA StoreMeaning ==
  ASSUME NEW prog, NEW base, NEW s, IsState(s),
         NEW i, i = prog.code[s.k + 1], i.op = "sw",
         DataIndex(i) = i.imm, NEW t, t = RefExecute(prog, base, s)
  PROVE  /\ IsState(t) /\ t.k = s.k + 1 /\ t.done = s.done /\ t.reg = s.reg
         /\ t.data = [s.data EXCEPT ![i.imm + 1] = s.reg[i.rt]]
         /\ t.stored = s.stored \cup {i.imm}
         /\ t.marked <=> s.marked \/ s.reg[i.rt] = -1
<1>1. t = [s EXCEPT !.data[DataIndex(i) + 1] = s.reg[i.rt],
                    !.stored = @ \cup {DataIndex(i)},
                    !.marked = @ \/ s.reg[i.rt] = -1,
                    !.k      = @ + 1]
  BY DEF RefExecute, Branches
<1>2. t = [s EXCEPT !.data[i.imm + 1] = s.reg[i.rt],
                    !.stored = s.stored \cup {i.imm},
                    !.marked = s.marked \/ s.reg[i.rt] = -1,
                    !.k      = s.k + 1]
  BY <1>1, Zenon
<1> QED
  BY <1>2 DEF IsState

LEMMA StoreMatches ==
  ASSUME Meant, WellPlaced, BranchesStay, NEW p \in Procs, StoreWord(p),
         NEW s, Matches(p, s), Stands(p, s)
  PROVE  \E t : t = RefStep(programs[p], Base(p), s) /\ Matches(p, t)'
<1> DEFINE i == programs[p].code[s.k + 1]
           d == i.imm
           w == Fetched(p)
           a == DataAddress(p, d)
           y == s.reg[i.rt]
           x == regs[p][i.rt]
           r == AfterRead(AfterFetch(p), memory, a)
           ch == AfterWrite(AfterFetch(p), memory, a, x)
<1>0. PICK t : t = RefStep(programs[p], Base(p), s)
  OBVIOUS
<1>1. Executes(p, {"sw"}) /\ Advance(p) /\ UNCHANGED regs
  BY DEF StoreWord
<1>2. /\ i.op = "sw" /\ Decoded(p) = "sw" /\ d \in 0..(NumData(p) - 1) /\ i.rt \in Registers
      /\ DataIndex(i) = d /\ Rt(w) = i.rt /\ Imm(w) = a /\ a \in Address
      /\ s.k + 1 # Len(programs[p].code)
      /\ RefStep(programs[p], Base(p), s) = RefExecute(programs[p], Base(p), s)
  BY <1>1, DataInstruction
<1>3. /\ Intact /\ Typed /\ StateOf(p, s) /\ StoresFollow(p, s) /\ AtInstruction(p, s) /\ ~s.done
      /\ \A q \in Registers : Signed(regs[p][q], WordSize) = s.reg[q]
      /\ \A e \in 0..(NumData(p) - 1) :
           e \notin s.stored => s.data[e + 1] = Signed(programs[p].data[e + 1], WordSize)
  BY DEF Stands, Intact, Matches
<1>4. Turn(p, "Running", pc[p] + 4, ch, {a})
  BY <1>2, <1>3, StoreWordTurns
<1>5. /\ ranOn' = ranOn /\ on[p] \in ranOn[p] /\ on[p] \in Cores /\ cache'[on[p]] = ch
      /\ programs' = programs /\ status' = [status EXCEPT ![p] = "Running"] /\ InLoop(p)
  <2> HIDE DEF ch, a
  <2>1. on[p] \in ranOn[p] /\ on[p] \in Cores /\ cache'[on[p]] = ch
    BY <1>4, HistoryTurn
  <2>2. /\ ranOn' = ranOn /\ programs' = programs /\ InLoop(p)
        /\ status' = [status EXCEPT ![p] = "Running"]
    BY <1>4 DEF Turn
  <2> QED
    BY <2>1, <2>2
<1>6. status'[p] # "Finished"
  BY <1>3, <1>5 DEF Typed, MachineTypeOK
<1>7. /\ IsState(t) /\ t.k = s.k + 1 /\ t.done = s.done /\ t.reg = s.reg
      /\ t.data = [s.data EXCEPT ![d + 1] = y]
      /\ t.stored = s.stored \cup {d}
      /\ t.marked <=> s.marked \/ y = -1
  <2>1. IsState(s)
    BY <1>3 DEF StateOf
  <2>2. PICK j, prog, b : j = i /\ prog = programs[p] /\ b = Base(p)
    OBVIOUS
  <2>3. /\ j = prog.code[s.k + 1] /\ j.op = "sw" /\ DataIndex(j) = j.imm
        /\ t = RefExecute(prog, b, s)
    BY <1>0, <1>2, <2>2
  <2> HIDE DEF i, d, w, a, y, x, r, ch
  <2>4. /\ IsState(t) /\ t.k = s.k + 1 /\ t.done = s.done /\ t.reg = s.reg
        /\ t.data = [s.data EXCEPT ![j.imm + 1] = s.reg[j.rt]]
        /\ t.stored = s.stored \cup {j.imm}
        /\ t.marked <=> s.marked \/ s.reg[j.rt] = -1
    BY <2>1, <2>3, StoreMeaning
  <2> QED
    BY <2>2, <2>4 DEF d, y
<1>8. /\ NumData(p) \in Nat /\ Base(p) \in Nat
      /\ s.data \in [1..NumData(p) -> Int] /\ s.reg \in [Registers -> Int]
      /\ s.stored \subseteq 0..(NumData(p) - 1)
  BY <1>3, ProgramFacts DEF Typed, MachineTypeOK, StateOf
<1>9. /\ d \in 0..(NumData(p) - 1) /\ y \in Int /\ Signed(x, WordSize) = y
  BY <1>2, <1>3, <1>8
<1>10. /\ t.data \in [1..NumData(p) -> Int] /\ t.data[d + 1] = y
       /\ \A e \in 0..(NumData(p) - 1) : e # d => t.data[e + 1] = s.data[e + 1]
  <2> HIDE DEF d, y
  <2>1. d + 1 \in 1..NumData(p) /\ \A e \in 0..(NumData(p) - 1) : e + 1 \in 1..NumData(p)
    BY <1>8, <1>9
  <2>2. \A e \in 0..(NumData(p) - 1) : e # d => e + 1 # d + 1
    BY <1>8, <1>9
  <2> QED
    BY <1>7, <1>8, <1>9, <2>1, <2>2
<1>11. StateOf(p, t)
  <2> HIDE DEF d, y
  <2> QED
    BY <1>3, <1>7, <1>8, <1>9, <1>10 DEF StateOf
<1>12. ch.lines[a] = [data |-> x, dirty |-> TRUE] /\ a \in DOMAIN ch.lines
  <2>1. a \in DOMAIN r.lines /\ IsCache(r)
    BY <1>2, <1>3, <1>5, ReadLeaves
  <2>2. ch = Update(r, a, x)
    BY DEF AfterWrite
  <2> HIDE DEF ch, r, a, x
  <2>3. r = [lines |-> r.lines, fifo |-> r.fifo]
    BY <2>1 DEF IsCache
  <2>4. ch = [r EXCEPT !.lines[a] = [data |-> x, dirty |-> TRUE]]
    BY <2>1, <2>2 DEF Update
  <2>5. ch.lines = [r.lines EXCEPT ![a] = [data |-> x, dirty |-> TRUE]]
    BY <2>3, <2>4
  <2> QED
    BY <2>1, <2>5
<1>13. \A e \in 0..(NumData(p) - 1) : e # d => Spares(p, ch, {a}, DataAddress(p, e))
  <2> SUFFICES ASSUME NEW e \in 0..(NumData(p) - 1), e # d
               PROVE  DataAddress(p, e) # a
    BY <1>2 DEF Spares
  <2> HIDE DEF d
  <2> QED
    BY <1>8, <1>9 DEF DataAddress
<1> HIDE DEF d, y, x, w, i, r
<1>14. ASSUME NEW c \in Cores, NEW e \in 0..(NumData(p) - 1),
              DataAddress(p, e) \in DOMAIN cache'[c].lines,
              cache'[c].lines[DataAddress(p, e)].dirty
       PROVE  e \in t.stored
  <2>1. CASE e = d
    BY <1>7, <2>1
  <2>2. CASE e # d
    <3>1. /\ DataAddress(p, e) \in DOMAIN cache[c].lines
          /\ cache[c].lines[DataAddress(p, e)].dirty
      <4> HIDE DEF ch, a
      <4> QED
        BY <1>4, <1>13, <1>14, <2>2, LineTurn
    <3>2. e \in s.stored
      BY <1>3, <3>1 DEF StoresFollow
    <3> QED
      BY <1>7, <3>2
  <2> QED
    BY <2>1, <2>2
<1>15. ~t.marked => \A e \in t.stored : t.data[e + 1] # -1
  <2>1. ~s.marked => \A e \in s.stored : s.data[e + 1] # -1
    BY <1>3 DEF StoresFollow
  <2> QED
    BY <1>7, <1>8, <1>10, <2>1
<1>16. ASSUME NEW c \in Cores, ranOn[p] = {c}, Cardinality(touched'[c]) < Capacity, ~t.marked,
              NEW e \in t.stored
       PROVE  /\ DataAddress(p, e) \in DOMAIN cache'[c].lines
              /\ cache'[c].lines[DataAddress(p, e)].dirty
              /\ Signed(cache'[c].lines[DataAddress(p, e)].data, WordSize) = t.data[e + 1]
  <2>1. c = on[p] /\ cache'[c] = ch
    BY <1>5, <1>16
  <2>2. CASE e = d
    <3>1. cache'[c].lines[a] = [data |-> x, dirty |-> TRUE] /\ a \in DOMAIN cache'[c].lines
      BY <1>12, <2>1
    <3>2. DataAddress(p, e) = a
      BY <2>2
    <3> HIDE DEF a
    <3>3. cache'[c].lines[a].dirty /\ cache'[c].lines[a].data = x
      BY <3>1
    <3> QED
      BY <1>9, <1>10, <2>2, <3>1, <3>2, <3>3
  <2>3. CASE e # d
    <3>1. e \in s.stored /\ ~s.marked /\ e \in 0..(NumData(p) - 1)
      BY <1>7, <1>8, <1>16, <2>3
    <3> HIDE DEF a, ch
    <3>2. Spares(p, ch, {a}, DataAddress(p, e))
      BY <1>13, <2>3, <3>1
    <3>3. Cardinality(touched[c]) < Capacity
      BY <1>4, <1>16, <3>2, LineTurn
    <3>4. /\ Hit(cache[c], DataAddress(p, e))
          /\ cache[c].lines[DataAddress(p, e)].dirty
          /\ Signed(cache[c].lines[DataAddress(p, e)].data, WordSize) = s.data[e + 1]
      BY <1>3, <1>16, <3>1, <3>3, Remembered
    <3>5. /\ DataAddress(p, e) \in DOMAIN cache'[c].lines
          /\ cache'[c].lines[DataAddress(p, e)] = cache[c].lines[DataAddress(p, e)]
      BY <1>4, <1>16, <3>2, <3>4, LineTurn
    <3> QED
      BY <1>10, <2>3, <3>1, <3>4, <3>5
  <2> QED
    BY <2>2, <2>3
<1>17. StoresFollow(p, t)'
  <2>1. NumData(p)' = NumData(p) /\ t' = t /\ \A e : DataAddress(p, e)' = DataAddress(p, e)
    BY <1>5, SamePlaces DEF DataAddress
  <2> QED
    BY <1>5, <1>14, <1>15, <1>16, <2>1 DEF StoresFollow
<1>18. /\ t.k \in 0..(Len(programs[p].code) - 1)
       /\ pc'[p] = Base(p) + 4 * (NumData(p) + t.k)
  BY <1>1, <1>2, <1>3, <1>7, NextInstruction
<1>19. \A q \in Registers : Signed(regs'[p][q], WordSize) = t.reg[q]
  BY <1>1, <1>3, <1>7
<1>20. \A e \in 0..(NumData(p) - 1) :
         e \notin t.stored => t.data[e + 1] = Signed(programs[p].data[e + 1], WordSize)
  BY <1>3, <1>7, <1>10
<1>21. ranOn'[p] # {}
  BY <1>5
<1>22. ~t.done
  BY <1>3, <1>7
<1>23. Matches(p, t)'
  BY <1>5, <1>6, <1>11, <1>17, <1>18, <1>19, <1>20, <1>21, <1>22, MatchesAfter
<1> QED
  BY <1>0, <1>23

(* A turn of a process is a step of its meaning, or it is in its data.     *)
LEMMA OwnTurn ==
  ASSUME Meant, WellPlaced, BranchesStay, NEW p \in Procs, Follower(p),
         RunProcess(p), ~Preempt(p), NEW s, Matches(p, s)
  PROVE  \E t : /\ t = s \/ t = RefStep(programs[p], Base(p), s)
                /\ Matches(p, t)' \/ Excused(p, t)'
<1>1. Intact /\ Typed
  BY DEF Meant, Intact
<1>2. PICK st, v, ch, S : Turn(p, st, v, ch, S)
  BY <1>1, RunIsTurn
<1>3. InLoop(p) /\ status' = [status EXCEPT ![p] = st] /\ status[p] = "Running"
      /\ status'[p] = st
  BY <1>1, <1>2 DEF Turn, InLoop, Typed, MachineTypeOK
<1>4. ~s.done /\ At(p, s) /\ StateOf(p, s)
      /\ \A r \in Registers : Signed(regs[p][r], WordSize) = s.reg[r]
  BY <1>3 DEF Matches
<1>5. CASE s = RefInit(programs[p]) /\ \E k \in 0..(NumData(p) - 1) : pc[p] = Base(p) + 4 * k
  <2>1. Matches(p, s)'
    BY <1>5, DataTurn
  <2> QED
    BY <2>1
<1>6. CASE AtInstruction(p, s)
  <2>1. Stands(p, s)
    BY <1>1, <1>4, <1>6 DEF Stands
  <2> DEFINE i == programs[p].code[s.k + 1]
             r == RefStep(programs[p], Base(p), s)
  <2>2. ASSUME Reaches(p, s, r), status' = status \/ PrintRequest(p), Decoded(p) # "sw"
        PROVE  \E t : t = r /\ Matches(p, t)'
    <3>1. PICK t : t = r
      OBVIOUS
    <3>2. st # "Finished"
      <4>1. PrintRequest(p) => status'[p] = "Blocked"
        BY <1>1 DEF PrintRequest, Typed, MachineTypeOK
      <4> QED
        BY <1>3, <2>2, <4>1
    <3>3. Reaches(p, s, t)
      BY <2>2, <3>1
    <3>4. Matches(p, t)'
      BY <1>2, <2>2, <3>2, <3>3, ReachesMatches
    <3> QED
      BY <3>1, <3>4
  <2>3. CASE End(p)
    BY <2>1, <2>3, EndMatches
  <2>4. CASE Arithmetic(p)
    <3>1. Reaches(p, s, r)
      BY <2>1, <2>4, ArithmeticReaches
    <3>2. status' = status /\ Decoded(p) # "sw"
      BY <2>4 DEF Arithmetic, Executes
    <3> QED
      BY <2>2, <3>1, <3>2
  <2>5. CASE AddImmediate(p)
    <3>1. Reaches(p, s, r)
      BY <2>1, <2>5, AddImmediateReaches
    <3>2. status' = status /\ Decoded(p) # "sw"
      BY <2>5 DEF AddImmediate, Executes
    <3> QED
      BY <2>2, <3>1, <3>2
  <2>6. CASE SetOnLess(p)
    <3>1. Reaches(p, s, r)
      BY <2>1, <2>6, SetOnLessReaches
    <3>2. status' = status /\ Decoded(p) # "sw"
      BY <2>6 DEF SetOnLess, Executes
    <3> QED
      BY <2>2, <3>1, <3>2
  <2>7. CASE LoadImmediate(p)
    <3>1. Reaches(p, s, r)
      BY <2>1, <2>7, LoadImmediateReaches
    <3>2. status' = status /\ Decoded(p) # "sw"
      BY <2>7 DEF LoadImmediate, Executes
    <3> QED
      BY <2>2, <3>1, <3>2
  <2>8. CASE LoadWord(p)
    BY <2>1, <2>8, LoadMatches
  <2>9. CASE StoreWord(p)
    BY <2>1, <2>9, StoreMatches
  <2>10. CASE Branch(p)
    <3>1. Reaches(p, s, r)
      BY <2>1, <2>10, BranchReaches
    <3>2. status' = status /\ Decoded(p) # "sw"
      BY <2>10 DEF Branch, Executes, Branches
    <3> QED
      BY <2>2, <3>1, <3>2
  <2>11. CASE PrintRequest(p)
    <3>1. Reaches(p, s, r)
      BY <2>1, <2>11, PrintReaches
    <3>2. Decoded(p) # "sw"
      BY <2>11 DEF PrintRequest, Executes
    <3> QED
      BY <2>2, <2>11, <3>1, <3>2
  <2>12. CASE Ignore(p)
    <3>1. Executes(p, Unexecuted \cup {""})
      BY <2>12 DEF Ignore
    <3>2. /\ AsWritten(p, i) /\ alias \in Aliases
          /\ Decoded(p) = (IF i.op \in Aliases THEN alias ELSE i.op)
          /\ Decoded(p) \in Unexecuted \cup {""}
      BY <2>1, <3>1, Standing
    <3>3. i.op \in {"add", "sub", "mult", "div", "slti", "addi", "li", "lw", "sw",
                    "print", "end", "j"} \cup Branches
      BY <3>2 DEF AsWritten
    <3>4. i.op = "end"
      BY <3>2, <3>3 DEF Aliases, Unexecuted, Branches
    <3>5. Fetched(p) = EndWord
      BY <1>1, <1>3, <1>6, <3>4, OwnInstruction DEF AtInstruction
    <3> QED
      BY <3>1, <3>5 DEF Executes
  <2> HIDE DEF r
  <2> QED
    BY <2>3, <2>4, <2>5, <2>6, <2>7, <2>8, <2>9, <2>10, <2>11, <2>12 DEF RunProcess, r
<1> QED
  BY <1>4, <1>5, <1>6 DEF At, AtInstruction

(* What was lost stays lost.                                               *)
LEMMA ExcusedKept ==
  ASSUME NEW p, NEW s, Excused(p, s), ranOn[p] \subseteq ranOn'[p],
         \A c \in Cores : /\ touched[c] \subseteq touched'[c] /\ IsFiniteSet(touched'[c])
  PROVE  Excused(p, s)'
<1>1. s.reloads /\ (s.marked \/ ~KeptItsLines(p)) /\ ranOn[p] # {}
  BY DEF Excused
<1>2. ASSUME KeptItsLines(p)'
      PROVE  KeptItsLines(p)
  <2>1. PICK c \in Cores : ranOn'[p] = {c} /\ Cardinality(touched'[c]) < Capacity
    BY <1>2 DEF KeptItsLines
  <2>2. ranOn[p] = {c}
    BY <1>1, <2>1
  <2>3. /\ IsFiniteSet(touched[c]) /\ Cardinality(touched[c]) <= Cardinality(touched'[c])
    BY FS_Subset
  <2>4. Cardinality(touched[c]) \in Nat /\ Cardinality(touched'[c]) \in Nat
    BY <2>3, FS_CardinalityType
  <2>5. Cardinality(touched[c]) < Capacity
    BY <2>1, <2>3, <2>4, CapacityAssumption
  <2> QED
    BY <2>2, <2>5 DEF KeptItsLines
<1>3. ranOn'[p] # {} /\ s' = s
  BY <1>1
<1> QED
  BY <1>1, <1>2, <1>3 DEF Excused

(* A process writes into its own registers.                                *)
LEMMA OwnRegisters ==
  ASSUME Typed, NEW q \in Procs, RunProcess(q), NEW p \in Procs, p # q
  PROVE  regs'[p] = regs[p]
<1>1. regs \in [Procs -> [Registers -> Word]]
  BY DEF Typed, MachineTypeOK
<1>2. \A r, w : SetRegister(q, r, w) => regs'[p] = regs[p]
  BY <1>1 DEF SetRegister
<1>3. \/ UNCHANGED regs
      \/ \E r, w : SetRegister(q, r, w)
  BY DEF RunProcess, Preempt, End, Arithmetic, AddImmediate, SetOnLess, LoadImmediate, LoadWord,
         StoreWord, Branch, PrintRequest, Ignore
<1> QED
  BY <1>2, <1>3

LEMMA SameFollower ==
  ASSUME programs' = programs, alias' = alias, NEW p
  PROVE  Follower(p)' = Follower(p) /\ \A n : State(p, n)' = State(p, n)
<1>1. Portable(p)' = Portable(p)
  BY DEF Portable, Instructions, AsWritten, Base
<1>2. UsesLabels(p)' = UsesLabels(p) /\ EndsWithEnd(p)' = EndsWithEnd(p)
  BY DEF UsesLabels, Instructions, EndsWithEnd
<1> QED
  BY <1>1, <1>2 DEF Follower, State, Base

LEMMA CourseKept ==
  ASSUME programs' = programs, alias' = alias, NEW p, NEW n \in Nat, NEW s, s = State(p, n),
         Matches(p, s)' \/ Excused(p, s)'
  PROVE  OnCourse(p)'
<1>1. State(p, n)' = s
  BY SameFollower
<1>2. Matches(p, State(p, n))' \/ Excused(p, State(p, n))'
  BY <1>1 DEF Matches, Excused, StateOf, At, StoresFollow
<1> QED
  BY <1>2 DEF OnCourse

LEMMA MeantTurn ==
  ASSUME Meant, NEW q \in Procs, RunProcess(q), ~Preempt(q)
  PROVE  Meant'
<1>1. Intact /\ Typed
  BY DEF Meant, Intact
<1>2. PICK st, v, ch, S : Turn(q, st, v, ch, S)
  BY <1>1, RunIsTurn
<1>3. Intact'
  BY <1>1, <1>2, IntactTurn
<1>4. /\ History'
      /\ \A c \in Cores : touched[c] \subseteq touched'[c] /\ IsFiniteSet(touched'[c])
  BY <1>2, HistoryTurn
<1>5. programs' = programs /\ alias' = alias /\ loaded' = loaded /\ ranOn' = ranOn
  BY <1>2 DEF Turn
<1>6. WellPlaced' = WellPlaced /\ BranchesStay' = BranchesStay
  BY <1>5, SameHypotheses
<1>7. ASSUME WellPlaced, BranchesStay, NEW p \in 1..loaded, Follower(p)
      PROVE  OnCourse(p)'
  <2>1. PICK n \in Nat : Matches(p, State(p, n)) \/ Excused(p, State(p, n))
    BY <1>7 DEF Meant, OnCourse
  <2>2. PICK s : s = State(p, n)
    OBVIOUS
  <2>3. p \in Procs
    BY <1>1, LoadedAreProcs
  <2>4. Matches(p, s) \/ Excused(p, s)
    BY <2>1, <2>2
  <2>5. CASE Excused(p, s)
    <3>1. Excused(p, s)'
      BY <1>4, <1>5, <2>5, ExcusedKept
    <3> QED
      BY <1>5, <2>2, <3>1, CourseKept
  <2>6. CASE Matches(p, s) /\ p # q
    <3>1. regs'[p] = regs[p]
      BY <1>1, <2>3, <2>6, OwnRegisters
    <3>2. Matches(p, s)'
      BY <1>2, <1>7, <2>3, <2>6, <3>1, ForeignMatches
    <3> QED
      BY <1>5, <2>2, <3>2, CourseKept
  <2>7. CASE Matches(p, s) /\ p = q
    <3>1. PICK t : /\ t = s \/ t = RefStep(programs[p], Base(p), s)
                   /\ Matches(p, t)' \/ Excused(p, t)'
      BY <1>7, <2>7, OwnTurn
    <3>2. RefStep(programs[p], Base(p), s) = State(p, n + 1)
      BY <2>2, RunStep DEF State
    <3>3. t = State(p, n) \/ t = State(p, n + 1)
      BY <2>2, <3>1, <3>2
    <3>4. n + 1 \in Nat
      OBVIOUS
    <3> QED
      BY <1>5, <3>1, <3>3, <3>4, CourseKept
  <2> QED
    BY <2>4, <2>5, <2>6, <2>7
<1>8. \A p : Follower(p)' = Follower(p)
  BY <1>5, SameFollower
<1> QED
  BY <1>3, <1>4, <1>5, <1>6, <1>7, <1>8 DEF Meant

(* The steps of the scheduler.                                             *)
LEMMA MeantSchedule ==
  ASSUME Meant, Intact', UNCHANGED <<programs, alias, loaded, cache, pc, regs, touched>>,
         \A p \in Procs : status'[p] = "Finished" <=> status[p] = "Finished",
         \A p \in Procs : ranOn[p] \subseteq ranOn'[p],
         \A p \in Procs : status'[p] = "Running" => on'[p] \in ranOn'[p],
         loaded < Len(programs) => ranOn' = ranOn
  PROVE  Meant'
<1>1. Intact /\ Typed /\ History
  BY DEF Meant, Intact
<1>2. Procs' = Procs
  BY SamePlaces
<1>3. History'
  BY <1>1, <1>2 DEF History
<1>4. WellPlaced' = WellPlaced /\ BranchesStay' = BranchesStay
  BY SameHypotheses
<1>5. ASSUME WellPlaced, BranchesStay, NEW p \in 1..loaded, Follower(p)
      PROVE  OnCourse(p)'
  <2>1. PICK n \in Nat : Matches(p, State(p, n)) \/ Excused(p, State(p, n))
    BY <1>5 DEF Meant, OnCourse
  <2>2. PICK s : s = State(p, n)
    OBVIOUS
  <2>3. p \in Procs
    BY <1>1, LoadedAreProcs
  <2>4. Matches(p, s) \/ Excused(p, s)
    BY <2>1, <2>2
  <2>5. CASE Excused(p, s)
    <3>1. \A c \in Cores : touched[c] \subseteq touched'[c] /\ IsFiniteSet(touched'[c])
      BY <1>1 DEF History
    <3>2. Excused(p, s)'
      BY <2>3, <2>5, <3>1, ExcusedKept
    <3> QED
      BY <2>2, <3>2, CourseKept
  <2>6. CASE Matches(p, s)
    <3>1. /\ StateOf(p, s) /\ StoresFollow(p, s)
          /\ \A r \in Registers : Signed(regs[p][r], WordSize) = s.reg[r]
          /\ IF status[p] = "Finished" THEN s.done ELSE ~s.done /\ At(p, s)
          /\ \A d \in 0..(NumData(p) - 1) :
               d \notin s.stored => s.data[d + 1] = Signed(programs[p].data[d + 1], WordSize)
          /\ ranOn[p] = {} => s.stored = {}
      BY <2>6 DEF Matches
    <3>2. \A c \in Cores : ranOn'[p] = {c} => ranOn[p] = {c} \/ s.stored = {}
      BY <2>3, <3>1
    <3>3. StoresFollow(p, s)'
      <4>1. NumData(p)' = NumData(p) /\ s' = s /\ \A d : DataAddress(p, d)' = DataAddress(p, d)
        BY SamePlaces DEF DataAddress
      <4> QED
        BY <3>1, <3>2, <4>1 DEF StoresFollow
    <3>4. ranOn'[p] = {} => s.stored = {}
      BY <2>3, <3>1
    <3>5. IF status'[p] = "Finished" THEN s.done
          ELSE /\ ~s.done
               /\ \/ /\ s = RefInit(programs[p])
                     /\ \E k \in 0..(NumData(p) - 1) : pc'[p] = Base(p) + 4 * k
                  \/ /\ s.k \in 0..(Len(programs[p].code) - 1)
                     /\ pc'[p] = Base(p) + 4 * (NumData(p) + s.k)
      BY <2>3, <3>1 DEF At
    <3>6. \A r \in Registers : Signed(regs'[p][r], WordSize) = s.reg[r]
      BY <3>1
    <3>7. Matches(p, s)'
      BY <3>1, <3>3, <3>4, <3>5, <3>6, MatchesAfter
    <3> QED
      BY <2>2, <3>7, CourseKept
  <2> QED
    BY <2>4, <2>5, <2>6
<1>6. \A p : Follower(p)' = Follower(p)
  BY SameFollower
<1> QED
  BY <1>3, <1>4, <1>5, <1>6 DEF Meant

(* The meaning of a program that has just been loaded.                     *)
LEMMA MeaningBegins ==
  ASSUME programs \in Scenarios, NEW p \in Procs, NEW s, s = RefInit(programs[p])
  PROVE  /\ StateOf(p, s) /\ ~s.done /\ s.k = 0 /\ s.stored = {}
         /\ s.reg = [r \in Registers |-> 0]
         /\ \A d \in 0..(NumData(p) - 1) :
              s.data[d + 1] = Signed(programs[p].data[d + 1], WordSize)
<1> DEFINE data == programs[p].data
<1>1. /\ NumData(p) \in Nat /\ data \in Seq(0..AllOnes)
  BY ProgramFacts
<1>2. NumData(p) = Len(data)
  BY DEF NumData
<1>3. \A d \in 1..Len(data) : data[d] \in 0..AllOnes
  BY <1>1, Elements
<1>4. \A d \in 1..Len(data) :
        Wrapped(data[d]) = Signed(data[d], WordSize) /\ Wrapped(data[d]) \in Int
  <2> SUFFICES ASSUME NEW v \in 0..AllOnes
               PROVE  Wrapped(v) = Signed(v, WordSize) /\ Wrapped(v) \in Int
    BY <1>3
  <2>1. v % WordSize = v
    BY Sizes, ModOfSmall, Words
  <2> QED
    BY <2>1, SignedRange DEF Wrapped
<1>5. /\ s.k = 0 /\ s.done = FALSE /\ s.stored = {} /\ s.reg = [r \in Registers |-> 0]
      /\ s.data = [d \in 1..Len(data) |-> Wrapped(data[d])] /\ IsState(s)
  BY DEF RefInit, IsState
<1>6. Zero \in Registers
  BY Sizes DEF Registers, Zero
<1>7. StateOf(p, s)
  BY <1>2, <1>4, <1>5, <1>6 DEF StateOf
<1>8. \A d \in 0..(NumData(p) - 1) : s.data[d + 1] = Signed(data[d + 1], WordSize)
  <2> HIDE DEF data
  <2>1. \A d \in 0..(NumData(p) - 1) : d + 1 \in 1..NumData(p)
    BY <1>1
  <2> QED
    BY <1>2, <1>4, <1>5, <2>1
<1> QED
  BY <1>5, <1>7, <1>8

LEMMA MeantLoad ==
  ASSUME Meant, Intact', NEW q \in Procs, Load(q)
  PROVE  Meant'
<1>1. Intact /\ Typed /\ NotStarted /\ History /\ programs \in Scenarios
  BY DEF Meant, Intact, Typed, MachineTypeOK
<1>2. /\ loaded = q - 1 /\ loaded' = q /\ pc' = [pc EXCEPT ![q] = Base(q)]
      /\ UNCHANGED <<programs, alias, cache, status, on, cycles, ranOn, regs, touched>>
  BY DEF Load, fixed, burst
<1>3. Procs = 1..Len(programs) /\ Len(programs) \in Nat /\ loaded < Len(programs)
  BY <1>1, <1>2, ProgramFacts
<1>4. /\ \A p \in Procs : status[p] = "Ready" /\ ranOn[p] = {} /\ \A r \in Registers : regs[p][r] = 0
      /\ \A c \in Cores : cache[c] = EmptyCache
  BY <1>1, <1>3 DEF NotStarted, History
<1>5. Procs' = Procs
  BY <1>2, SamePlaces
<1>6. History'
  BY <1>1, <1>2, <1>3, <1>4, <1>5 DEF History
<1>7. WellPlaced' = WellPlaced /\ BranchesStay' = BranchesStay
  BY <1>2, SameHypotheses
<1>8. ASSUME NEW p \in Procs, NEW s, StateOf(p, s), s.stored = {}
      PROVE  StoresFollow(p, s)'
  <2>1. \A c \in Cores : DOMAIN cache[c].lines = {}
    BY <1>4 DEF EmptyCache
  <2>2. s' = s /\ \A c \in Cores : DOMAIN cache'[c].lines = {}
    BY <1>2, <2>1
  <2> QED
    BY <1>8, <2>2 DEF StoresFollow
<1>9. ASSUME NEW p \in 1..q, WellPlaced, BranchesStay, Follower(p)
      PROVE  OnCourse(p)'
  <2>1. p \in Procs
    BY <1>3
  <2>2. CASE p # q
    <3>1. p \in 1..loaded
      BY <1>2, <1>3, <2>2
    <3>2. PICK n \in Nat : Matches(p, State(p, n)) \/ Excused(p, State(p, n))
      BY <1>9, <3>1 DEF Meant, OnCourse
    <3>3. PICK s : s = State(p, n)
      OBVIOUS
    <3>4. Matches(p, s)
      BY <1>4, <2>1, <3>2, <3>3 DEF Excused
    <3>5. /\ StateOf(p, s) /\ s.stored = {} /\ pc'[p] = pc[p]
          /\ \A r \in Registers : Signed(regs[p][r], WordSize) = s.reg[r]
          /\ ~s.done /\ At(p, s)
          /\ \A d \in 0..(NumData(p) - 1) :
               d \notin s.stored => s.data[d + 1] = Signed(programs[p].data[d + 1], WordSize)
      BY <1>1, <1>2, <1>4, <2>1, <2>2, <3>4 DEF Matches, Typed, MachineTypeOK
    <3>6. StoresFollow(p, s)'
      BY <1>8, <2>1, <3>5
    <3>7. IF status'[p] = "Finished" THEN s.done
          ELSE /\ ~s.done
               /\ \/ /\ s = RefInit(programs[p])
                     /\ \E k \in 0..(NumData(p) - 1) : pc'[p] = Base(p) + 4 * k
                  \/ /\ s.k \in 0..(Len(programs[p].code) - 1)
                     /\ pc'[p] = Base(p) + 4 * (NumData(p) + s.k)
      BY <1>2, <1>4, <2>1, <3>5 DEF At
    <3>8. \A r \in Registers : Signed(regs'[p][r], WordSize) = s.reg[r]
      BY <1>2, <3>5
    <3>9. Matches(p, s)'
      BY <1>2, <3>5, <3>6, <3>7, <3>8, MatchesAfter
    <3> QED
      BY <1>2, <3>3, <3>9, CourseKept
  <2>3. CASE p = q
    <3>1. PICK s : s = RefInit(programs[p])
      OBVIOUS
    <3>2. s = State(p, 0)
      BY <3>1, RunStep DEF State
    <3>3. /\ StateOf(p, s) /\ ~s.done /\ s.k = 0 /\ s.stored = {}
          /\ s.reg = [r \in Registers |-> 0]
          /\ \A d \in 0..(NumData(p) - 1) :
               s.data[d + 1] = Signed(programs[p].data[d + 1], WordSize)
      BY <1>1, <2>1, <3>1, MeaningBegins
    <3>4. StoresFollow(p, s)'
      BY <1>8, <2>1, <3>3
    <3>5. \A r \in Registers : Signed(regs'[p][r], WordSize) = s.reg[r]
      <4>1. Signed(0, WordSize) = 0
        <5>1. 0 \in 0..AllOnes
          BY Words
        <5> QED
          BY <5>1, SignedRange
      <4> QED
        BY <1>2, <1>4, <2>1, <3>3, <4>1
    <3>6. pc'[p] = Base(p)
      BY <1>1, <1>2, <2>1, <2>3 DEF Typed, MachineTypeOK
    <3>7. \/ \E k \in 0..(NumData(p) - 1) : pc'[p] = Base(p) + 4 * k
          \/ /\ s.k \in 0..(Len(programs[p].code) - 1)
             /\ pc'[p] = Base(p) + 4 * (NumData(p) + s.k)
      <4>1. NumData(p) \in Nat /\ Base(p) \in Nat /\ Len(programs[p].code) \in Nat \ {0}
        BY <1>1, <2>1, ProgramFacts
      <4>2. CASE NumData(p) = 0
        <5>1. 0 \in 0..(Len(programs[p].code) - 1)
          BY <4>1
        <5> QED
          BY <3>3, <3>6, <4>1, <4>2, <5>1
      <4>3. CASE NumData(p) # 0
        <5>1. 0 \in 0..(NumData(p) - 1) /\ pc'[p] = Base(p) + 4 * 0
          BY <3>6, <4>1, <4>3
        <5> QED
          BY <5>1
      <4> QED
        BY <4>2, <4>3
    <3>8. status'[p] # "Finished"
      BY <1>2, <1>4, <2>1
    <3>9. Matches(p, s)'
      <4> HIDE DEF RefInit
      <4> QED
        BY <1>2, <3>1, <3>3, <3>4, <3>5, <3>7, <3>8, MatchesAfter
    <3> QED
      BY <1>2, <3>2, <3>9, CourseKept
  <2> QED
    BY <2>2, <2>3
<1>10. \A p : Follower(p)' = Follower(p)
  BY <1>2, SameFollower
<1> QED
  BY <1>2, <1>6, <1>7, <1>9, <1>10 DEF Meant

LEMMA MeantInit == Init => Meant
<1> SUFFICES ASSUME Init PROVE Meant
  OBVIOUS
<1>1. Intact
  BY IntactInit
<1>2. Typed /\ programs \in Scenarios /\ loaded = 0
  BY <1>1 DEF Intact, Typed, MachineTypeOK, Init
<1>3. History
  <2>1. \A c \in Cores : DOMAIN cache[c].lines = {}
    BY DEF Init, EmptyCache
  <2>2. \A c \in Cores : touched[c] = {}
    BY DEF Init
  <2>3. \A p \in Procs : status[p] = "Ready" /\ ranOn[p] = {} /\ \A r \in Registers : regs[p][r] = 0
    BY DEF Init
  <2> QED
    BY <2>1, <2>2, <2>3, FS_EmptySet DEF History
<1>4. 1..loaded = {}
  BY <1>2
<1> QED
  BY <1>1, <1>3, <1>4 DEF Meant

LEMMA MeantStep == Meant /\ [Next]_vars => Meant'
<1> SUFFICES ASSUME Meant, [Next]_vars PROVE Meant'
  OBVIOUS
<1>1. Intact /\ Typed /\ History
  BY DEF Meant, Intact
<1>2. Intact'
  BY <1>1, IntactStep
<1>3. /\ status \in [Procs -> {"Ready", "Running", "Blocked", "Finished"}]
      /\ on \in [Procs -> Cores] /\ ranOn \in [Procs -> SUBSET Cores]
      /\ loaded \in 0..Len(programs)
  BY <1>1 DEF Typed, MachineTypeOK
<1>4. CASE UNCHANGED vars
  BY <1>1, <1>2, <1>4, MeantSchedule DEF vars, History
<1>5. ASSUME NEW p \in Procs, Load(p)
      PROVE  Meant'
  BY <1>2, <1>5, MeantLoad
<1>6. ASSUME NEW p \in Procs, Preempt(p) \/ Unblock(p)
      PROVE  Meant'
  <2>1. /\ status' = [status EXCEPT ![p] = "Ready"] /\ status[p] \in {"Running", "Blocked"}
        /\ UNCHANGED <<programs, alias, loaded, cache, pc, regs, touched, on, ranOn>>
    BY <1>6 DEF Preempt, Unblock, fixed
  <2>2. /\ \A q \in Procs : status'[q] = "Finished" <=> status[q] = "Finished"
        /\ \A q \in Procs : status'[q] = "Running" => status[q] = "Running"
    BY <1>3, <2>1
  <2>3. \A q \in Procs : status'[q] = "Running" => on'[q] \in ranOn'[q]
    BY <1>1, <2>1, <2>2 DEF History
  <2> QED
    BY <1>2, <2>1, <2>2, <2>3, MeantSchedule
<1>7. ASSUME NEW p \in Procs, RunProcess(p), ~Preempt(p)
      PROVE  Meant'
  BY <1>7, MeantTurn
<1>8. ASSUME NEW p \in Procs, NEW c \in Cores, Dispatch(p, c)
      PROVE  Meant'
  <2>1. /\ status' = [status EXCEPT ![p] = "Running"] /\ status[p] = "Ready"
        /\ on' = [on EXCEPT ![p] = c] /\ ranOn' = [ranOn EXCEPT ![p] = @ \cup {c}]
        /\ loaded = Len(programs)
        /\ UNCHANGED <<programs, alias, loaded, cache, pc, regs, touched>>
    BY <1>8 DEF Dispatch, fixed
  <2>2. ~(loaded < Len(programs))
    BY <1>3, <2>1
  <2>3. /\ \A q \in Procs : status'[q] = "Finished" <=> status[q] = "Finished"
        /\ \A q \in Procs : ranOn[q] \subseteq ranOn'[q]
    BY <1>3, <2>1
  <2>4. \A q \in Procs : status'[q] = "Running" => on'[q] \in ranOn'[q]
    BY <1>1, <1>3, <2>1 DEF History
  <2> QED
    BY <1>2, <2>1, <2>2, <2>3, <2>4, MeantSchedule
<1> QED
  BY <1>4, <1>5, <1>6, <1>7, <1>8 DEF Next, Done

(* What the model's bound on the reference must be for ResultIsMeaning to  *)
(* speak of whole runs: nothing more happens to a run after MaxSteps       *)
(* instructions that the property asks for.  A program that is done by     *)
(* then has such a run, and so has one that loops without storing.         *)
RunsSettle ==
  \A s \in Scenarios : \A p \in DOMAIN s : \A n \in Nat :
    LET later == RefRun(s[p], (p - 1) * Stride, n)
        run   == RefRun(s[p], (p - 1) * Stride, MaxSteps)
    IN  n >= MaxSteps =>
          /\ later.done => run.done
          /\ later.reloads => run.reloads
          /\ later.marked => run.marked

(* As ResultIsMeaning, without a bound on what the program executes.       *)
FinishedHasComputed ==
  \A p \in Procs :
    /\ status[p] = "Finished" /\ WellPlaced /\ BranchesStay
    /\ Portable(p) /\ ~UsesLabels(p) /\ EndsWithEnd(p)
    /\ \A n \in Nat : State(p, n).reloads => KeptItsLines(p) /\ ~State(p, n).marked
    => \E n \in Nat :
         /\ State(p, n).done
         /\ \A r \in Registers : Signed(regs[p][r], WordSize) = State(p, n).reg[r]

LEMMA FinishedIsOnCourse ==
  ASSUME Meant, NEW p \in Procs, status[p] = "Finished", WellPlaced, BranchesStay,
         Portable(p), ~UsesLabels(p), EndsWithEnd(p)
  PROVE  OnCourse(p)
<1>1. Typed /\ NotStarted
  BY DEF Meant, Intact
<1>2. p \in 1..loaded
  BY <1>1, AllLoaded
<1>3. Follower(p)
  BY DEF Follower
<1> QED
  BY <1>2, <1>3 DEF Meant

(* A process that finishes has run the program of its file to the end and  *)
(* holds the values that the instructions, executed one after the other on *)
(* integers, give the registers: whatever cores it ran on, whoever it      *)
(* shared them with, wherever it was preempted.  Its file must end with    *)
(* END, branch to addresses and not to labels, put no offset beside a data *)
(* label, and keep its lines in case it reads what it stored.              *)
THEOREM ProgramsComputeTheirMeaning == Spec => []FinishedHasComputed
<1>1. Meant => FinishedHasComputed
  <2> SUFFICES ASSUME Meant, NEW p \in Procs, status[p] = "Finished",
                      WellPlaced, BranchesStay,
                      Portable(p), ~UsesLabels(p), EndsWithEnd(p),
                      \A n \in Nat : State(p, n).reloads => KeptItsLines(p) /\ ~State(p, n).marked
               PROVE  \E n \in Nat :
                        /\ State(p, n).done
                        /\ \A r \in Registers : Signed(regs[p][r], WordSize) = State(p, n).reg[r]
    BY DEF FinishedHasComputed
  <2>1. PICK n \in Nat : Matches(p, State(p, n)) \/ Excused(p, State(p, n))
    BY FinishedIsOnCourse DEF OnCourse
  <2>2. ~Excused(p, State(p, n))
    BY DEF Excused
  <2> QED
    BY <2>1, <2>2 DEF Matches
<1> QED
  BY <1>1, MeantInit, MeantStep, PTL DEF Spec

(* The property that the run of Machine checks, which asks the same of the *)
(* reference after MaxSteps instructions, of files that end with END,      *)
(* branch to addresses and put no offset beside a data label.              *)
THEOREM ResultsAreMeanings ==
  ASSUME RunsSettle
  PROVE  Spec => []ResultIsMeaning
<1>1. Meant => ResultIsMeaning
  <2> SUFFICES ASSUME Meant, NEW p \in Procs, status[p] = "Finished",
                      WellPlaced, BranchesStay,
                      Portable(p), ~UsesLabels(p), EndsWithEnd(p),
                      Meaning(p).reloads => KeptItsLines(p) /\ ~Meaning(p).marked
               PROVE  Agrees(p)
    BY DEF ResultIsMeaning
  <2>1. PICK n \in Nat : Matches(p, State(p, n)) \/ Excused(p, State(p, n))
    BY FinishedIsOnCourse DEF OnCourse
  <2>2. MaxSteps \in Nat /\ Meaning(p) = State(p, MaxSteps) /\ programs \in Scenarios
    BY StrideAssumption DEF Meaning, State, Meant, Intact, Typed, MachineTypeOK
  <2>3. n >= MaxSteps =>
          /\ State(p, n).done => Meaning(p).done
          /\ State(p, n).reloads => Meaning(p).reloads
          /\ State(p, n).marked => Meaning(p).marked
    BY <2>2 DEF RunsSettle, State, Meaning, Base, Procs
  <2>4. n <= MaxSteps => Later(State(p, n), Meaning(p))
    <3> SUFFICES ASSUME n <= MaxSteps PROVE Later(State(p, n), Meaning(p))
      OBVIOUS
    <3>1. MaxSteps - n \in Nat /\ n + (MaxSteps - n) = MaxSteps
      BY <2>2
    <3> QED
      BY <2>2, <3>1, RunIsLater DEF State
  <2>5. n >= MaxSteps => Later(Meaning(p), State(p, n))
    <3> SUFFICES ASSUME n >= MaxSteps PROVE Later(Meaning(p), State(p, n))
      OBVIOUS
    <3>1. n - MaxSteps \in Nat /\ MaxSteps + (n - MaxSteps) = n
      BY <2>2
    <3> QED
      BY <2>2, <3>1, RunIsLater DEF State
  <2>6. n <= MaxSteps \/ n >= MaxSteps
    BY <2>2
  <2>7. /\ State(p, n).reloads => Meaning(p).reloads
        /\ State(p, n).marked => Meaning(p).marked
        /\ State(p, n).done => Meaning(p).done /\ Meaning(p) = State(p, n)
    BY <2>3, <2>4, <2>5, <2>6 DEF Later
  <2>8. ~Excused(p, State(p, n))
    BY <2>7 DEF Excused
  <2>9. /\ State(p, n).done
        /\ \A r \in Registers : Signed(regs[p][r], WordSize) = State(p, n).reg[r]
    BY <2>1, <2>8 DEF Matches
  <2> QED
    BY <2>7, <2>9 DEF Agrees
<1> QED
  BY <1>1, MeantInit, MeantStep, PTL DEF Spec
=============================================================================
