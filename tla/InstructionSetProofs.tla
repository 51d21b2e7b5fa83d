------------------------ MODULE InstructionSetProofs ------------------------
(***************************************************************************)
(* Lemmas on words, instructions and the meaning of programs, for any      *)
(* number of registers: the control unit takes out of a word what the      *)
(* loader has put in, the ALU computes on words what the meaning says of   *)
(* integers, and the run that gives a program its meaning exists.          *)
(***************************************************************************)
EXTENDS ProgramMeaning, WellFoundedInduction, TLAPS

-----------------------------------------------------------------------------
(* Division.                                                               *)

LEMMA DivMod ==
  ASSUME NEW q \in Int, NEW b \in Nat \ {0}, NEW r \in 0..(b - 1)
  PROVE  (q * b + r) \div b = q /\ (q * b + r) % b = r
OBVIOUS

LEMMA DivModOf ==
  ASSUME NEW a \in Int, NEW b \in Nat \ {0}
  PROVE  a = (a \div b) * b + (a % b) /\ a % b \in 0..(b - 1) /\ a \div b \in Int
OBVIOUS

LEMMA ModOfSmall ==
  ASSUME NEW b \in Nat \ {0}, NEW x \in 0..(b - 1)
  PROVE  x % b = x
OBVIOUS

(* A number below n with a digit below b appended is below n * b.          *)
LEMMA TwoDigits ==
  ASSUME NEW n \in Nat, NEW b \in Nat \ {0}, NEW q \in 0..(n - 1), NEW r \in 0..(b - 1)
  PROVE  q * b + r \in 0..(n * b - 1)
<1>1. q * b + b <= n * b
  OBVIOUS
<1>2. q * b \in Nat /\ n * b \in Nat
  OBVIOUS
<1> QED
  BY <1>1, <1>2

-----------------------------------------------------------------------------
(* The layout of a word.                                                   *)

LEMMA LowBits ==
  /\ NumShifts \in Nat /\ LowSize = NumShifts * 64
  /\ LowSize \in Nat \ {0} /\ 64 <= LowSize
  /\ ImmSize \in Nat \ {0} /\ ImmSize = NumRegs * LowSize
<1>1. NumRegs \in Nat \ {0} /\ NumShifts \in Nat \ {0}
  BY RegistersAssumption
<1>2. LowSize = NumShifts * 64 /\ LowSize \in Nat \ {0} /\ 64 <= LowSize
  BY <1>1 DEF LowSize
<1>3. ImmSize = NumRegs * LowSize /\ ImmSize \in Nat \ {0}
  BY <1>1, <1>2 DEF ImmSize
<1> QED
  BY <1>1, <1>2, <1>3

LEMMA Sizes ==
  /\ NumRegs \in Nat \ {0} /\ ImmSize \in Nat \ {0} /\ TargetSize \in Nat \ {0}
  /\ WordSize \in Nat \ {0}
  /\ NumRegs * ImmSize \in Nat \ {0}
  /\ TargetSize = NumRegs * (NumRegs * ImmSize)
  /\ TargetSize = (NumRegs * NumRegs) * ImmSize
  /\ WordSize = 64 * TargetSize
  /\ ImmSize <= TargetSize /\ 2 * TargetSize <= WordSize
<1>1. NumRegs \in Nat \ {0}
  BY RegistersAssumption
<1>2. ImmSize \in Nat \ {0}
  BY <1>1, LowBits
<1>3. NumRegs * ImmSize \in Nat \ {0} /\ NumRegs * NumRegs \in Nat \ {0}
  BY <1>1, <1>2
<1>4. TargetSize = NumRegs * (NumRegs * ImmSize) /\ TargetSize = (NumRegs * NumRegs) * ImmSize
  BY <1>1, <1>2 DEF TargetSize
<1>5. TargetSize \in Nat \ {0}
  BY <1>1, <1>3, <1>4
<1>6. ImmSize <= TargetSize
  BY <1>2, <1>3, <1>4
<1>7. WordSize \in Nat \ {0} /\ WordSize = 64 * TargetSize /\ 2 * TargetSize <= WordSize
  BY <1>5 DEF WordSize
<1> QED
  BY <1>1, <1>2, <1>3, <1>4, <1>5, <1>6, <1>7

(* A word from its opcode, the bits below it, and what Decode makes of it. *)
LEMMA OpcodeAndRest ==
  ASSUME NEW op \in 0..63, NEW t \in 0..(TargetSize - 1)
  PROVE  LET w == op * TargetSize + t
         IN  w \in 0..AllOnes /\ OpcodeOf(w) = op /\ Target(w) = t
<1>1. op * TargetSize + t \in 0..(64 * TargetSize - 1)
  BY Sizes, TwoDigits
<1> QED
  BY <1>1, Sizes, DivMod DEF AllOnes, OpcodeOf, Target, WordSize

(* The same with the registers rs and rt and the bits below them.          *)
LEMMA Fields ==
  ASSUME NEW op \in 0..63, NEW rs \in Registers, NEW rt \in Registers,
         NEW m \in 0..(ImmSize - 1)
  PROVE  LET w == op * TargetSize + ((rs * NumRegs + rt) * ImmSize + m)
         IN  /\ w \in 0..AllOnes
             /\ OpcodeOf(w) = op /\ Rs(w) = rs /\ Rt(w) = rt /\ Imm(w) = m
<1> DEFINE r == rs * NumRegs + rt
           t == r * ImmSize + m
           w == op * TargetSize + t
<1>0. rs \in 0..(NumRegs - 1) /\ rt \in 0..(NumRegs - 1)
  BY DEF Registers
<1>1. r \in 0..(NumRegs * NumRegs - 1)
  BY <1>0, Sizes, TwoDigits
<1>2. t \in 0..(TargetSize - 1)
  <2>1. NumRegs * NumRegs \in Nat
    BY Sizes
  <2> HIDE DEF r
  <2>2. r * ImmSize + m \in 0..((NumRegs * NumRegs) * ImmSize - 1)
    BY <1>1, <2>1, Sizes, TwoDigits
  <2> QED
    BY <2>2, Sizes
<1>3. w \in 0..AllOnes /\ OpcodeOf(w) = op
  <2> HIDE DEF t
  <2> QED
    BY <1>2, OpcodeAndRest
<1>4. w = (op * (NumRegs * NumRegs) + r) * ImmSize + m
  <2> HIDE DEF r
  <2>1. op * TargetSize = (op * (NumRegs * NumRegs)) * ImmSize
    BY Sizes
  <2>2. (op * (NumRegs * NumRegs) + r) * ImmSize = (op * (NumRegs * NumRegs)) * ImmSize + r * ImmSize
    BY <1>1, Sizes
  <2>3. r * ImmSize \in Int /\ op * TargetSize \in Int
    BY <1>1, Sizes
  <2> QED
    BY <2>1, <2>2, <2>3, Sizes
<1>5. Imm(w) = m /\ w \div ImmSize = op * (NumRegs * NumRegs) + r
  <2> DEFINE q == op * (NumRegs * NumRegs) + r
  <2>1. q \in Int
    BY <1>1, Sizes
  <2> HIDE DEF w, q, r
  <2> QED
    BY <1>4, <2>1, Sizes, DivMod DEF Imm, q
<1>6. Rt(w) = rt
  <2>1. op * (NumRegs * NumRegs) + r = (op * NumRegs + rs) * NumRegs + rt
    BY <1>0, Sizes
  <2> DEFINE q == op * NumRegs + rs
  <2>2. q \in Int
    BY <1>0, Sizes
  <2> HIDE DEF w, r, q
  <2>3. (q * NumRegs + rt) % NumRegs = rt
    BY <1>0, <2>2, Sizes, DivMod
  <2>4. Rt(w) = (q * NumRegs + rt) % NumRegs
    BY <1>5, <2>1 DEF Rt, q
  <2> QED
    BY <2>3, <2>4
<1>7. Rs(w) = rs
  <2> DEFINE z == rt * ImmSize + m
  <2>1. w = (op * NumRegs + rs) * (NumRegs * ImmSize) + z
    <3>1. r * ImmSize = rs * (NumRegs * ImmSize) + rt * ImmSize
      BY <1>0, Sizes
    <3>2. op * TargetSize = (op * NumRegs) * (NumRegs * ImmSize)
      BY Sizes
    <3>3. (op * NumRegs + rs) * (NumRegs * ImmSize)
            = (op * NumRegs) * (NumRegs * ImmSize) + rs * (NumRegs * ImmSize)
      BY <1>0, Sizes
    <3>4. /\ rs * (NumRegs * ImmSize) \in Int /\ rt * ImmSize \in Int
          /\ (op * NumRegs) * (NumRegs * ImmSize) \in Int
      BY <1>0, Sizes
    <3> QED
      BY <3>1, <3>2, <3>3, <3>4, Sizes
  <2>2. z \in 0..(NumRegs * ImmSize - 1)
    BY <1>0, Sizes, TwoDigits
  <2>3. op * NumRegs + rs \in Int
    BY <1>0, Sizes
  <2> HIDE DEF w, z
  <2>4. w \div (NumRegs * ImmSize) = op * NumRegs + rs
    BY <2>1, <2>2, <2>3, Sizes, DivMod
  <2>5. (op * NumRegs + rs) % NumRegs = rs
    BY <1>0, Sizes, DivMod
  <2> QED
    BY <2>4, <2>5 DEF Rs
<1> QED
  BY <1>3, <1>5, <1>6, <1>7

(* Of an instruction on three registers.                                   *)
LEMMA ThreeRegisters ==
  ASSUME NEW rs \in Registers, NEW rt \in Registers, NEW rd \in Registers,
         NEW fn \in 0..63
  PROVE  LET w == ((rs * NumRegs + rt) * NumRegs + rd) * LowSize + fn
         IN  /\ w \in 0..AllOnes
             /\ OpcodeOf(w) = 0 /\ Rs(w) = rs /\ Rt(w) = rt
             /\ Rd(w) = rd /\ Funct(w) = fn
<1> DEFINE r == rs * NumRegs + rt
           m == rd * LowSize + fn
           w == (r * NumRegs + rd) * LowSize + fn
<1>0. rs \in 0..(NumRegs - 1) /\ rt \in 0..(NumRegs - 1) /\ rd \in 0..(NumRegs - 1)
  BY DEF Registers
<1>1. m \in 0..(ImmSize - 1) /\ fn \in 0..(LowSize - 1)
  <2>1. fn \in 0..(LowSize - 1)
    BY LowBits
  <2>2. NumRegs \in Nat
    BY Sizes
  <2>3. m \in 0..(NumRegs * LowSize - 1)
    BY <1>0, <2>1, <2>2, LowBits, TwoDigits
  <2> QED
    BY <2>1, <2>3, LowBits
<1>2. r \in Nat
  BY <1>0, Sizes
<1>3. w = 0 * TargetSize + (r * ImmSize + m)
  <2> HIDE DEF r
  <2>1. (r * NumRegs + rd) * LowSize = r * ImmSize + rd * LowSize
    <3>1. /\ r \in Int /\ rd \in Int /\ NumRegs \in Int /\ LowSize \in Int
          /\ ImmSize = NumRegs * LowSize
      BY <1>0, <1>2, Sizes, LowBits
    <3> QED
      BY <3>1
  <2>2. r * ImmSize \in Int /\ rd * LowSize \in Int /\ 0 * TargetSize = 0
    BY <1>0, <1>2, Sizes, LowBits
  <2> QED
    BY <2>1, <2>2
<1>4. w \in 0..AllOnes /\ OpcodeOf(w) = 0 /\ Rs(w) = rs /\ Rt(w) = rt
  <2> HIDE DEF w, m
  <2> QED
    BY <1>1, <1>3, Fields DEF r
<1>5. r * NumRegs + rd \in Int
  BY <1>0, <1>2, Sizes
<1>6. w \div LowSize = r * NumRegs + rd /\ Funct(w) = fn
  <2> DEFINE q == r * NumRegs + rd
  <2> HIDE DEF r, q
  <2>1. q \in Int
    BY <1>5 DEF q
  <2>2. (q * LowSize + fn) \div LowSize = q
    BY <1>1, <2>1, LowBits, DivMod
  <2>3. (q * LowSize + fn) % 64 = fn
    <3>1. q * LowSize = (q * NumShifts) * 64 /\ q * NumShifts \in Int
      BY <2>1, LowBits
    <3>2. ((q * NumShifts) * 64 + fn) % 64 = fn
      BY <3>1, DivMod
    <3> QED
      BY <3>1, <3>2
  <2> QED
    BY <2>2, <2>3 DEF q, Funct
<1>7. Rd(w) = rd
  <2> HIDE DEF w, r
  <2>0. r \in Int /\ NumRegs \in Nat \ {0} /\ rd \in 0..(NumRegs - 1)
    BY <1>0, <1>2, Sizes
  <2>1. (r * NumRegs + rd) % NumRegs = rd
    BY <2>0, DivMod
  <2> QED
    BY <1>6, <2>1 DEF Rd
<1> QED
  BY <1>4, <1>6, <1>7

-----------------------------------------------------------------------------
(* Encoding and decoding.                                                  *)

LEMMA TableCodes ==
  ASSUME NEW m \in DOMAIN Table
  PROVE  /\ Table[m].opcode \in 0..63 /\ Table[m].funct \in 0..63
         /\ m \in RType <=> Table[m].opcode = 0
BY DEF Table, Code, RType

(* Two names with one code are addi and li.                                *)
LEMMA TableIsInjective ==
  ASSUME NEW m \in DOMAIN Table, NEW n \in DOMAIN Table,
         Table[m].opcode = Table[n].opcode,
         m \in RType => Table[m].funct = Table[n].funct
  PROVE  m = n \/ {m, n} = Aliases
BY DEF Table, Code, RType, Aliases

(* What Decode takes out of the word of instruction i.                     *)
LEMMA Encoded ==
  ASSUME NEW i \in Instruction, NEW k \in Int, NEW base \in Int
  PROVE  LET w == Encode(i, k, base)
             n == Operand(i, k, base)
         IN  /\ w \in 0..AllOnes /\ OpcodeOf(w) = Table[i.op].opcode
             /\ w = EndWord <=> i.op = "end"
             /\ i.op \in RType =>
                  /\ Rs(w) = i.rs /\ Rt(w) = i.rt /\ Rd(w) = i.rd
                  /\ Funct(w) = Table[i.op].funct
             /\ i.op \in {"j", "jal"} => Target(w) = n % TargetSize
             /\ i.op \notin RType \cup {"j", "jal", "end", "print"} =>
                  /\ Rs(w) = (IF i.op = "li" THEN Zero ELSE i.rs) /\ Rt(w) = i.rt
                  /\ Imm(w) = n % ImmSize
<1> DEFINE w == Encode(i, k, base)
           n == Operand(i, k, base)
           op == Table[i.op].opcode
<1>1. /\ i.op \in DOMAIN Table /\ i.rs \in Registers /\ i.rt \in Registers
      /\ i.rd \in Registers /\ Zero \in Registers
  BY Sizes DEF Instruction, Registers, Zero
<1>2. op \in 0..63 /\ Table[i.op].funct \in 0..63 /\ (i.op \in RType <=> op = 0)
  BY <1>1, TableCodes
<1>3. n \in Int
  BY DEF Operand, Instruction
<1>4. op = 63 <=> i.op = "end"
  BY <1>1 DEF Table, Code
<1>5. OpcodeOf(EndWord) = 63
  <2>1. 0 \in 0..(TargetSize - 1) /\ 63 * TargetSize + 0 = 63 * TargetSize
    BY Sizes
  <2> QED
    BY <2>1, OpcodeAndRest DEF EndWord
<1>6. CASE i.op \in {"end", "print"}
  <2>1. i.op \notin RType /\ op \notin {0, 2, 3}
    BY <1>6 DEF RType, Table, Code
  <2>2. (Zero * NumRegs + Zero) * ImmSize + (0 % ImmSize) = 0
    BY Sizes DEF Zero
  <2>3. w = op * TargetSize + 0
    BY <1>6, <2>1, <2>2 DEF Encode, Build, Zero
  <2>4. 0 \in 0..(TargetSize - 1)
    BY Sizes
  <2>5. w \in 0..AllOnes /\ OpcodeOf(w) = op
    BY <1>2, <2>3, <2>4, OpcodeAndRest
  <2>6. i.op = "end" => w = EndWord
    <3>1. 63 * TargetSize + 0 = 63 * TargetSize
      BY Sizes
    <3> QED
      BY <1>4, <2>3, <3>1 DEF EndWord
  <2> QED
    BY <1>4, <1>5, <1>6, <2>1, <2>5, <2>6
<1>7. CASE i.op \in RType
  <2>1. i.op \notin {"end", "print", "j", "jal"}
    BY <1>7 DEF RType
  <2>2. w = 0 * TargetSize + (((i.rs * NumRegs + i.rt) * NumRegs + i.rd) * LowSize + Table[i.op].funct)
    BY <1>7, <2>1 DEF Encode, Build
  <2>3. ((i.rs * NumRegs + i.rt) * NumRegs + i.rd) * LowSize + Table[i.op].funct \in Int
    <3>1. /\ i.rs \in Int /\ i.rt \in Int /\ i.rd \in Int /\ NumRegs \in Int
          /\ LowSize \in Int /\ Table[i.op].funct \in Int
      BY <1>1, <1>2, Sizes, LowBits DEF Registers
    <3> QED
      BY <3>1
  <2>4. w = ((i.rs * NumRegs + i.rt) * NumRegs + i.rd) * LowSize + Table[i.op].funct
    BY <2>2, <2>3, Sizes
  <2>5. /\ w \in 0..AllOnes /\ OpcodeOf(w) = 0 /\ Rs(w) = i.rs /\ Rt(w) = i.rt
        /\ Rd(w) = i.rd /\ Funct(w) = Table[i.op].funct
    <3> DEFINE a == i.rs
               b == i.rt
               c == i.rd
               f == Table[i.op].funct
               v == ((a * NumRegs + b) * NumRegs + c) * LowSize + f
    <3>1. a \in Registers /\ b \in Registers /\ c \in Registers /\ f \in 0..63
      BY <1>1, <1>2
    <3> HIDE DEF a, b, c, f
    <3>2. /\ v \in 0..AllOnes /\ OpcodeOf(v) = 0 /\ Rs(v) = a /\ Rt(v) = b
          /\ Rd(v) = c /\ Funct(v) = f
      BY <3>1, ThreeRegisters
    <3> HIDE DEF w
    <3> QED
      BY <2>4, <3>2 DEF a, b, c, f
  <2> QED
    BY <1>2, <1>4, <1>5, <1>7, <2>1, <2>5
<1>8. CASE i.op \in {"j", "jal"}
  <2>1. i.op \notin RType \cup {"end", "print"} /\ op \in {2, 3} /\ op # 0
    BY <1>8 DEF RType, Table, Code
  <2>2. w = op * TargetSize + (n % TargetSize)
    BY <1>8, <2>1 DEF Encode, Build
  <2>3. n % TargetSize \in 0..(TargetSize - 1)
    BY <1>3, Sizes, DivModOf
  <2>4. w \in 0..AllOnes /\ OpcodeOf(w) = op /\ Target(w) = n % TargetSize
    BY <1>2, <2>2, <2>3, OpcodeAndRest
  <2> QED
    BY <1>4, <1>5, <1>8, <2>1, <2>4
<1>9. CASE i.op \notin RType \cup {"j", "jal", "end", "print"}
  <2>1. op \notin {0, 2, 3}
    BY <1>1, <1>9 DEF RType, Table, Code
  <2> DEFINE rs == IF i.op = "li" THEN Zero ELSE i.rs
  <2>2. w = op * TargetSize + ((rs * NumRegs + i.rt) * ImmSize + (n % ImmSize))
    BY <1>9, <2>1 DEF Encode, EncodeImmediate, Build
  <2>3. n % ImmSize \in 0..(ImmSize - 1)
    BY <1>3, Sizes, DivModOf
  <2>4. rs \in Registers
    BY <1>1
  <2>5. /\ w \in 0..AllOnes /\ OpcodeOf(w) = op /\ Rs(w) = rs /\ Rt(w) = i.rt
        /\ Imm(w) = n % ImmSize
    <3> DEFINE b == i.rt
               m == n % ImmSize
               v == op * TargetSize + ((rs * NumRegs + b) * ImmSize + m)
    <3>1. op \in 0..63 /\ rs \in Registers /\ b \in Registers /\ m \in 0..(ImmSize - 1)
      BY <1>1, <1>2, <2>3, <2>4
    <3> HIDE DEF rs, op, n, b, m
    <3>2. v \in 0..AllOnes /\ OpcodeOf(v) = op /\ Rs(v) = rs /\ Rt(v) = b /\ Imm(v) = m
      BY <3>1, Fields, SMTT(20)
    <3> HIDE DEF w
    <3> QED
      BY <2>2, <3>2 DEF b, m
  <2> QED
    BY <1>4, <1>5, <1>9, <2>1, <2>5
<1> QED
  BY <1>6, <1>7, <1>8, <1>9

(* The name that the reverse look-up finds is the one written in the file, *)
(* but for addi and li.                                                    *)
LEMMA NameOfEncoded ==
  ASSUME NEW i \in Instruction, NEW k \in Int, NEW base \in Int, NEW alias \in Aliases
  PROVE  LET w == Encode(i, k, base)
         IN  Name(w, alias) = IF i.op \in Aliases THEN alias ELSE i.op
<1> DEFINE w == Encode(i, k, base)
           N == NamesOf(w)
<1>1. i.op \in DOMAIN Table
  BY DEF Instruction
<1>2. /\ OpcodeOf(w) = Table[i.op].opcode
      /\ i.op \in RType => Funct(w) = Table[i.op].funct
  BY Encoded
<1> HIDE DEF w
<1>3. i.op \in N
  BY <1>1, <1>2 DEF NamesOf
<1>4. \A m \in N : m = i.op \/ {m, i.op} = Aliases
  <2> SUFFICES ASSUME NEW m \in N PROVE m = i.op \/ {m, i.op} = Aliases
    OBVIOUS
  <2>1. /\ m \in DOMAIN Table /\ Table[m].opcode = Table[i.op].opcode
        /\ m \in RType => Table[m].funct = Funct(w)
    BY <1>2 DEF NamesOf
  <2>2. m \in RType => i.op \in RType
    BY <1>1, <2>1, TableCodes
  <2>3. m \in RType => Table[m].funct = Table[i.op].funct
    BY <1>2, <2>1, <2>2
  <2> QED
    BY <1>1, <2>1, <2>3, TableIsInjective
<1>5. CASE i.op \in Aliases
  <2>1. \A m \in Aliases : m \in DOMAIN Table /\ Table[m].opcode = 8 /\ m \notin RType
    BY DEF Aliases, Table, Code, RType
  <2>2. Aliases \subseteq N
    BY <1>2, <1>5, <2>1 DEF NamesOf
  <2>3. N = Aliases /\ N # {}
    BY <1>4, <1>5, <2>2 DEF Aliases
  <2>4. Name(w, alias) = alias
    BY <2>3 DEF Name
  <2> QED
    BY <1>5, <2>4 DEF w
<1>6. CASE i.op \notin Aliases
  <2>1. N = {i.op}
    BY <1>3, <1>4, <1>6 DEF Aliases
  <2>2. N # {} /\ N # Aliases
    BY <1>6, <2>1
  <2>3. (CHOOSE m \in N : TRUE) = i.op
    BY <2>1
  <2>4. Name(w, alias) = i.op
    BY <2>2, <2>3 DEF Name
  <2> QED
    BY <1>6, <2>4 DEF w
<1> QED
  BY <1>5, <1>6

-----------------------------------------------------------------------------
(* The run that gives a program its meaning.                               *)

LEMMA Induction ==
  ASSUME NEW S \in SUBSET Nat, 0 \in S, \A n \in S : n + 1 \in S
  PROVE  S = Nat
<1> SUFFICES ASSUME S # Nat PROVE FALSE
  OBVIOUS
<1> DEFINE T == Nat \ S
           less == {ss \in Nat \X Nat : ss[1] < ss[2]}
<1>1. IsWellFoundedOn(less, Nat)
  BY NatLessThanWellFounded DEF OpToRel
<1>2. \A a, b \in Nat : a < b => <<a, b>> \in less
  OBVIOUS
<1>3. T # {} /\ T \subseteq Nat
  OBVIOUS
<1> HIDE DEF less, T
<1>4. PICK x \in T : \A y \in T : ~(<<y, x>> \in less)
  BY <1>1, <1>3, WFMin
<1>5. x \in Nat \ {0} /\ x - 1 \in Nat /\ x - 1 < x /\ (x - 1) + 1 = x
  BY <1>4 DEF T
<1>6. x - 1 \notin T
  BY <1>2, <1>3, <1>4, <1>5, Zenon
<1>7. x \in S
  BY <1>5, <1>6 DEF T
<1> QED
  BY <1>4, <1>7 DEF T

(* The states of the run, as the function that RefRun defines.             *)
IsRun(prog, base, n, f) ==
  f = [m \in 0..n |->
        IF m = 0 THEN RefInit(prog) ELSE RefStep(prog, base, f[m - 1])]

LEMMA RunExists ==
  ASSUME NEW prog, NEW base, NEW n \in Nat
  PROVE  \E f : IsRun(prog, base, n, f)
<1> DEFINE S == {m \in Nat : \E f : IsRun(prog, base, m, f)}
<1>1. 0 \in S
  <2> DEFINE f == [m \in 0..0 |-> RefInit(prog)]
  <2>1. f = [m \in 0..0 |->
              IF m = 0 THEN RefInit(prog) ELSE RefStep(prog, base, f[m - 1])]
    OBVIOUS
  <2> QED
    BY <2>1 DEF IsRun
<1>2. ASSUME NEW m \in S
      PROVE  m + 1 \in S
  <2>1. m \in Nat /\ \E f : IsRun(prog, base, m, f)
    OBVIOUS
  <2>2. PICK f : IsRun(prog, base, m, f)
    BY <2>1
  <2> DEFINE next == RefStep(prog, base, f[m])
             g == [l \in 0..(m + 1) |-> IF l = m + 1 THEN next ELSE f[l]]
  <2>3. \A l \in 0..m : g[l] = f[l]
    BY <2>1
  <2>4. \A l \in 0..m : f[l] = IF l = 0 THEN RefInit(prog) ELSE RefStep(prog, base, f[l - 1])
    BY <2>2 DEF IsRun
  <2>5. ASSUME NEW l \in 0..(m + 1)
        PROVE  g[l] = IF l = 0 THEN RefInit(prog) ELSE RefStep(prog, base, g[l - 1])
    <3>1. CASE l = m + 1
      <4>1. l # 0 /\ l - 1 = m /\ m \in 0..m /\ g[l] = next
        BY <2>1, <3>1
      <4> HIDE DEF g
      <4>2. g[l - 1] = f[m]
        BY <2>3, <4>1
      <4> QED
        BY <4>1, <4>2
    <3>2. CASE l # m + 1
      <4>1. l \in 0..m
        BY <2>1, <3>2
      <4>2. l # 0 => l - 1 \in 0..m
        BY <2>1, <4>1
      <4> HIDE DEF g
      <4> QED
        BY <2>3, <2>4, <4>1, <4>2
    <3> QED
      BY <3>1, <3>2
  <2>6. IsRun(prog, base, m + 1, g)
    <3>1. g = [l \in 0..(m + 1) |-> g[l]]
      OBVIOUS
    <3> HIDE DEF g
    <3> QED
      BY <2>5, <3>1 DEF IsRun
  <2> QED
    BY <2>1, <2>6
<1>3. S = Nat
  <2>1. S \in SUBSET Nat
    OBVIOUS
  <2> HIDE DEF S
  <2> QED
    BY <1>1, <1>2, <2>1, Induction
<1> QED
  BY <1>3

(* There is but one.                                                       *)
LEMMA RunsAgree ==
  ASSUME NEW prog, NEW base, NEW n \in Nat, NEW f, NEW g, NEW l \in Nat,
         IsRun(prog, base, n, f), IsRun(prog, base, l, g)
  PROVE  \A m \in Nat : m <= n /\ m <= l => f[m] = g[m]
<1> DEFINE S == {m \in Nat : m <= n /\ m <= l => f[m] = g[m]}
<1>1. /\ \A m \in 0..n : f[m] = IF m = 0 THEN RefInit(prog) ELSE RefStep(prog, base, f[m - 1])
      /\ \A m \in 0..l : g[m] = IF m = 0 THEN RefInit(prog) ELSE RefStep(prog, base, g[m - 1])
  BY DEF IsRun
<1>2. 0 \in S
  BY <1>1
<1>3. ASSUME NEW m \in S
      PROVE  m + 1 \in S
  <2> SUFFICES ASSUME m + 1 <= n, m + 1 <= l PROVE f[m + 1] = g[m + 1]
    OBVIOUS
  <2>1. f[m] = g[m]
    OBVIOUS
  <2>2. m + 1 \in 0..n /\ m + 1 \in 0..l /\ m + 1 # 0 /\ (m + 1) - 1 = m
    OBVIOUS
  <2> QED
    BY <1>1, <2>1, <2>2
<1>4. S = Nat
  <2>1. S \in SUBSET Nat
    OBVIOUS
  <2> HIDE DEF S
  <2> QED
    BY <1>2, <1>3, <2>1, Induction
<1> QED
  BY <1>4

LEMMA RefRunIs ==
  ASSUME NEW prog, NEW base, NEW n \in Nat
  PROVE  \E f : IsRun(prog, base, n, f) /\ RefRun(prog, base, n) = f[n]
<1> DEFINE f == CHOOSE g : IsRun(prog, base, n, g)
<1>1. IsRun(prog, base, n, f)
  BY RunExists
<1>2. RefRun(prog, base, n) = f[n]
  BY DEF RefRun, IsRun
<1> QED
  BY <1>1, <1>2

LEMMA RunStep ==
  ASSUME NEW prog, NEW base, NEW n \in Nat
  PROVE  /\ RefRun(prog, base, 0) = RefInit(prog)
         /\ RefRun(prog, base, n + 1) = RefStep(prog, base, RefRun(prog, base, n))
<1>1. PICK e : IsRun(prog, base, 0, e) /\ RefRun(prog, base, 0) = e[0]
  BY RefRunIs
<1>2. e[0] = RefInit(prog)
  BY <1>1 DEF IsRun
<1>3. PICK f : IsRun(prog, base, n, f) /\ RefRun(prog, base, n) = f[n]
  BY RefRunIs
<1>4. PICK g : IsRun(prog, base, n + 1, g) /\ RefRun(prog, base, n + 1) = g[n + 1]
  BY RefRunIs
<1>5. g[n] = f[n]
  BY <1>3, <1>4, RunsAgree
<1>6. n + 1 \in 0..(n + 1) /\ n + 1 # 0 /\ (n + 1) - 1 = n
  OBVIOUS
<1>7. g[n + 1] = RefStep(prog, base, g[n])
  BY <1>4, <1>6 DEF IsRun
<1> QED
  BY <1>1, <1>2, <1>3, <1>4, <1>5, <1>7

(* A record of the fields of a state.                                      *)
IsState(s) ==
  s = [k |-> s.k, done |-> s.done, reg |-> s.reg, data |-> s.data,
       stored |-> s.stored, reloads |-> s.reloads, marked |-> s.marked]

(* What later states of a run keep.                                        *)
Later(s, t) ==
  /\ IsState(t)
  /\ s.reloads => t.reloads
  /\ s.marked => t.marked
  /\ s.done => t = s

LEMMA StepIsLater ==
  ASSUME NEW prog, NEW base, NEW s, IsState(s)
  PROVE  Later(s, RefStep(prog, base, s))
<1> DEFINE i == prog.code[s.k + 1]
           t == RefExecute(prog, base, s)
<1>1. CASE s.done
  BY <1>1 DEF Later, RefStep
<1>2. CASE ~s.done /\ (s.k = Len(prog.code) \/ i.op = "end")
  BY <1>2 DEF Later, RefStep, IsState
<1>3. CASE ~s.done /\ ~(s.k = Len(prog.code) \/ i.op = "end")
  <2>1. RefStep(prog, base, s) = t
    BY <1>3 DEF RefStep
  <2>2. ASSUME NEW r, NEW n
        PROVE  LET u == SetReg(s, r, n)
               IN  IsState(u) /\ u.reloads = s.reloads /\ u.marked = s.marked
    <3> DEFINE u == SetReg(s, r, n)
               x == IF r = Zero THEN s.reg ELSE [s.reg EXCEPT ![r] = Wrapped(n)]
    <3>1. u = [s EXCEPT !.reg = x, !.k = s.k + 1]
      BY DEF SetReg
    <3> HIDE DEF x, u
    <3>2. IsState(u) /\ u.reloads = s.reloads /\ u.marked = s.marked
      BY <3>1 DEF IsState
    <3> QED
      BY <3>2 DEF u
  <2>3. IsState(t) /\ (s.reloads => t.reloads) /\ (s.marked => t.marked)
    <3>1. CASE i.op \in {"add", "sub", "mult", "div", "addi", "li", "slti"}
      <4>1. \E r, n : t = SetReg(s, r, n)
        BY <3>1 DEF RefExecute, Branches
      <4> QED
        BY <2>2, <4>1
    <3>2. CASE i.op = "lw"
      <4> DEFINE u == SetReg(s, i.rt, s.data[DataIndex(i) + 1])
      <4>1. t = [u EXCEPT !.reloads = @ \/ DataIndex(i) \in s.stored]
        BY <3>2 DEF RefExecute, Branches
      <4>2. IsState(u) /\ u.reloads = s.reloads /\ u.marked = s.marked
        BY <2>2
      <4> HIDE DEF u, t, i
      <4> QED
        BY <4>1, <4>2 DEF IsState
    <3>3. CASE i.op = "sw"
      <4>1. t = [s EXCEPT !.data[DataIndex(i) + 1] = s.reg[i.rt],
                          !.stored = @ \cup {DataIndex(i)},
                          !.marked = @ \/ s.reg[i.rt] = -1,
                          !.k      = @ + 1]
        BY <3>3 DEF RefExecute, Branches
      <4> HIDE DEF t, i
      <4> QED
        BY <4>1 DEF IsState
    <3>4. CASE i.op \notin {"add", "sub", "mult", "div", "addi", "li", "slti", "lw", "sw"}
      <4>1. \E k : t = [s EXCEPT !.k = k]
        BY <3>4 DEF RefExecute
      <4> HIDE DEF t, i
      <4> QED
        BY <4>1 DEF IsState
    <3> QED
      BY <3>1, <3>2, <3>3, <3>4
  <2> QED
    BY <1>3, <2>1, <2>3 DEF Later
<1> QED
  BY <1>1, <1>2, <1>3

LEMMA RunIsLater ==
  ASSUME NEW prog, NEW base, NEW m \in Nat, NEW n \in Nat
  PROVE  /\ IsState(RefRun(prog, base, m))
         /\ Later(RefRun(prog, base, m), RefRun(prog, base, m + n))
<1> DEFINE run(x) == RefRun(prog, base, x)
           A == {x \in Nat : IsState(run(x))}
           B == {x \in Nat : Later(run(m), run(m + x))}
<1>0. \A x \in Nat : run(x + 1) = RefStep(prog, base, run(x))
  BY RunStep
<1>1. A = Nat
  <2>1. 0 \in A
    BY RunStep DEF IsState, RefInit
  <2>2. ASSUME NEW x \in A
        PROVE  x + 1 \in A
    BY <1>0, StepIsLater DEF Later
  <2>3. A \in SUBSET Nat
    OBVIOUS
  <2> HIDE DEF A
  <2> QED
    BY <2>1, <2>2, <2>3, Induction
<1>2. B = Nat
  <2>1. 0 \in B
    BY <1>1 DEF Later
  <2>2. ASSUME NEW x \in B
        PROVE  x + 1 \in B
    <3>1. m + x \in Nat /\ m + (x + 1) = (m + x) + 1
      OBVIOUS
    <3>2. Later(run(m), run(m + x))
      OBVIOUS
    <3>3. Later(run(m + x), run((m + x) + 1))
      BY <1>0, <1>1, <3>1, StepIsLater
    <3>4. Later(run(m), run((m + x) + 1))
      <4> HIDE DEF run
      <4> QED
        BY <3>2, <3>3 DEF Later
    <3> QED
      BY <3>1, <3>4
  <2>3. B \in SUBSET Nat
    OBVIOUS
  <2> HIDE DEF B
  <2> QED
    BY <2>1, <2>2, <2>3, Induction
<1> QED
  BY <1>1, <1>2

-----------------------------------------------------------------------------
(* Words and the integers they stand for.                                  *)

(* Half of an even size.                                                   *)
LEMMA Halves ==
  /\ ImmSize \div 2 \in Nat /\ 2 * (ImmSize \div 2) = ImmSize
  /\ WordSize \div 2 \in Nat /\ 2 * (WordSize \div 2) = WordSize
  /\ ImmSize <= WordSize \div 2
<1>1. ASSUME NEW n \in Nat PROVE (n * 2) \div 2 = n
  BY DivMod
<1> DEFINE h == NumRegs * (NumShifts * 32)
           k == 32 * TargetSize
<1>2. h \in Nat /\ ImmSize = h * 2
  <2>1. NumRegs \in Nat /\ NumShifts * 32 \in Nat /\ LowSize = (NumShifts * 32) * 2
    BY Sizes, LowBits
  <2> QED
    BY <2>1, LowBits
<1>3. k \in Nat /\ WordSize = k * 2 /\ ImmSize <= k
  BY Sizes
<1> HIDE DEF h, k
<1> QED
  BY <1>1, <1>2, <1>3

LEMMA SignedRange ==
  ASSUME NEW v \in 0..AllOnes
  PROVE  /\ Signed(v, WordSize) \in (-(WordSize \div 2))..((WordSize \div 2) - 1)
         /\ Signed(v, WordSize) \in Int
         /\ Signed(v, WordSize) % WordSize = v
         /\ Signed(v, WordSize) = -1 <=> v = AllOnes
         /\ Signed(v, WordSize) = 0 <=> v = 0
<1> DEFINE h == WordSize \div 2
           x == Signed(v, WordSize)
<1>1. h \in Nat \ {0} /\ WordSize = 2 * h /\ v \in 0..(WordSize - 1) /\ AllOnes = WordSize - 1
      /\ WordSize \in Nat \ {0}
  BY Halves, Sizes DEF AllOnes
<1>2. x = IF v < h THEN v ELSE v - WordSize
  BY DEF Signed
<1> HIDE DEF h, x
<1>3. x \in (-h)..(h - 1) /\ x \in Int /\ (x = -1 <=> v = AllOnes) /\ (x = 0 <=> v = 0)
  BY <1>1, <1>2
<1>4. x % WordSize = v
  <2>1. CASE v < h
    BY <1>1, <1>2, <2>1, ModOfSmall
  <2>2. CASE ~(v < h)
    <3>1. x = (-1) * WordSize + v
      BY <1>1, <1>2, <2>2
    <3> QED
      BY <1>1, <3>1, DivMod
  <2> QED
    BY <2>1, <2>2
<1> QED
  BY <1>3, <1>4 DEF h, x

(* A number in the range of a word is its own value.                       *)
LEMMA SignedInRange ==
  ASSUME NEW size \in Nat \ {0}, NEW h \in Nat, size = 2 * h, NEW n \in (-h)..(h - 1)
  PROVE  n % size \in 0..(size - 1) /\ Signed(n % size, size) = n
<1>0. size \div 2 = h
  <2>1. (h * 2) \div 2 = h
    BY DivMod
  <2> QED
    BY <2>1
<1>1. CASE n >= 0
  <2>1. n % size = n
    BY <1>1, ModOfSmall
  <2> QED
    BY <1>0, <1>1, <2>1 DEF Signed
<1>2. CASE n < 0
  <2> DEFINE r == n + size
  <2>1. r \in 0..(size - 1) /\ n = (-1) * size + r /\ r >= h /\ r \in Int /\ r - size = n
    BY <1>2
  <2> HIDE DEF r
  <2>2. ((-1) * size + r) % size = r
    BY <2>1, DivMod
  <2>3. n % size = r
    BY <2>1, <2>2
  <2> QED
    BY <1>0, <2>1, <2>3 DEF Signed
<1> QED
  BY <1>1, <1>2

LEMMA WrappedInRange ==
  ASSUME NEW n \in Int
  PROVE  /\ n \in (-(WordSize \div 2))..((WordSize \div 2) - 1) => Wrapped(n) = n
         /\ n % WordSize \in 0..AllOnes /\ Wrapped(n) = Signed(n % WordSize, WordSize)
<1>1. n % WordSize \in 0..AllOnes
  BY Sizes, DivModOf DEF AllOnes
<1>2. WordSize \in Nat \ {0} /\ WordSize \div 2 \in Nat /\ WordSize = 2 * (WordSize \div 2)
  BY Sizes, Halves
<1> QED
  BY <1>1, <1>2, SignedInRange DEF Wrapped

(* The quotient that the meaning describes is the one of the ALU.          *)
LEMMA MagnitudeFacts ==
  ASSUME NEW n \in Int
  PROVE  Magnitude(n) \in Nat /\ (n < 0 => Magnitude(n) = -n) /\ (n >= 0 => Magnitude(n) = n)
         /\ Magnitude(-n) = Magnitude(n)
BY DEF Magnitude

LEMMA NaturalQuotient ==
  ASSUME NEW a \in Nat, NEW b \in Nat \ {0}, NEW q \in Int
  PROVE  Magnitude(a - q * b) < b /\ Magnitude(q * b) <= a <=> q = a \div b
<1> DEFINE d == a \div b
           r == a % b
<1>1. d \in Nat /\ r \in 0..(b - 1) /\ a = d * b + r
  <2>1. d \in Nat
    OBVIOUS
  <2>2. r \in 0..(b - 1) /\ a = d * b + r
    BY DivModOf
  <2> QED
    BY <2>1, <2>2
<1> HIDE DEF d, r
<1>2. d * b \in Nat /\ q * b \in Int
  BY <1>1
<1>3. ASSUME q = d
      PROVE  Magnitude(a - q * b) < b /\ Magnitude(q * b) <= a
  BY <1>1, <1>2, <1>3 DEF Magnitude
<1>4. ASSUME Magnitude(a - q * b) < b, Magnitude(q * b) <= a
      PROVE  q = d
  <2> DEFINE m == q * b
             l == d * b
  <2>1. m \in Int /\ l \in Nat /\ a - m < b /\ m <= a /\ -m <= a /\ m - a < b /\ a = l + r
    BY <1>1, <1>2, <1>4 DEF Magnitude
  <2>2. ASSUME q < d PROVE FALSE
    <3>1. CASE q >= 0
      <4>1. l - m >= b
        <5>1. d - q - 1 \in Nat /\ (d - q - 1) * b \in Nat
          BY <1>1, <2>2, <3>1
        <5>2. (d - q - 1) * b = l - m - b
          BY <1>1
        <5> HIDE DEF l, m
        <5> QED
          BY <2>1, <5>1, <5>2
      <4> HIDE DEF l, m
      <4> QED
        BY <1>1, <2>1, <4>1
    <3>2. CASE q < 0
      <4>1. m <= -b
        <5>1. -q - 1 \in Nat /\ (-q - 1) * b \in Nat
          BY <3>2
        <5>2. (-q - 1) * b = -m - b
          OBVIOUS
        <5> HIDE DEF l, m
        <5> QED
          BY <2>1, <5>1, <5>2
      <4> HIDE DEF l, m
      <4> QED
        BY <1>1, <2>1, <4>1
    <3> QED
      BY <3>1, <3>2
  <2>3. ASSUME q > d PROVE FALSE
    <3>1. m - l >= b
      <4>1. q - d - 1 \in Nat /\ (q - d - 1) * b \in Nat
        BY <1>1, <2>3
      <4>2. (q - d - 1) * b = m - l - b
        BY <1>1
      <4> HIDE DEF l, m
      <4> QED
        BY <2>1, <4>1, <4>2
    <3> HIDE DEF l, m
    <3> QED
      BY <1>1, <2>1, <3>1
  <2> QED
    BY <1>1, <2>2, <2>3
<1> QED
  BY <1>3, <1>4 DEF d

LEMMA QuotientIsDivided ==
  ASSUME NEW x \in Int, NEW y \in Int
  PROVE  Quotient(x, y) = Divided(x, y)
<1> DEFINE a == Magnitude(x)
           b == Magnitude(y)
           d == a \div b
           z == IF (x < 0) = (y < 0) THEN d ELSE -d
           C(q) == Magnitude(x - q * y) < b /\ Magnitude(q * y) <= a
<1>1. CASE y = 0
  BY <1>1 DEF Quotient, Divided
<1>2. CASE y # 0
  <2>1. /\ a \in Nat /\ b \in Nat \ {0}
        /\ x = (IF x < 0 THEN -a ELSE a) /\ y = (IF y < 0 THEN -b ELSE b)
    BY <1>2 DEF Magnitude
  <2>2. d \in Nat /\ d <= a
    <3> HIDE DEF a, b
    <3>1. d \in Nat
      BY <2>1
    <3>2. d = a \div b /\ a = d * b + (a % b) /\ a % b \in Nat
      BY <2>1, DivModOf
    <3> HIDE DEF d
    <3>3. d * b = d + d * (b - 1) /\ d * (b - 1) \in Nat
      BY <2>1, <3>1
    <3> QED
      BY <2>1, <3>1, <3>2, <3>3
  <2>3. ASSUME NEW q \in Int
        PROVE  C(q) <=> q = z
    <3> DEFINE e == IF (x < 0) = (y < 0) THEN q ELSE -q
    <3>1. e \in Int
      OBVIOUS
    <3>2. Magnitude(x - q * y) = Magnitude(a - e * b) /\ Magnitude(q * y) = Magnitude(e * b)
      <4> HIDE DEF a, b
      <4>1. CASE x < 0 /\ y < 0
        <5>1. x = -a /\ y = -b /\ e = q
          BY <2>1, <4>1
        <5> HIDE DEF e
        <5>2. q * y = -(e * b) /\ e * b \in Int
          BY <2>1, <5>1
        <5>3. x - q * y = -(a - e * b)
          BY <2>1, <5>1, <5>2
        <5> QED
          BY <2>1, <5>2, <5>3, MagnitudeFacts
      <4>2. CASE x < 0 /\ ~(y < 0)
        <5>1. x = -a /\ y = b /\ e = -q
          BY <2>1, <4>2
        <5> HIDE DEF e
        <5>2. q * y = -(e * b) /\ e * b \in Int
          BY <2>1, <5>1
        <5>3. x - q * y = -(a - e * b)
          BY <2>1, <5>1, <5>2
        <5> QED
          BY <2>1, <5>2, <5>3, MagnitudeFacts
      <4>3. CASE ~(x < 0) /\ y < 0
        <5>1. x = a /\ y = -b /\ e = -q
          BY <2>1, <4>3
        <5> HIDE DEF e
        <5>2. q * y = e * b
          BY <2>1, <5>1
        <5> QED
          BY <5>1, <5>2
      <4>4. CASE ~(x < 0) /\ ~(y < 0)
        BY <2>1, <4>4
      <4> QED
        BY <4>1, <4>2, <4>3, <4>4
    <3>3. Magnitude(a - e * b) < b /\ Magnitude(e * b) <= a <=> e = a \div b
      <4> HIDE DEF a, b, e
      <4> QED
        BY <2>1, <3>1, NaturalQuotient
    <3>4. e = d <=> q = z
      BY <2>2
    <3> HIDE DEF a, b, d, e, z
    <3> QED
      BY <3>2, <3>3, <3>4 DEF d
  <2>4. z \in (-a)..a
    BY <2>1, <2>2
  <2>5. Quotient(x, y) = z
    BY <1>2 DEF Quotient
  <2>6. Divided(x, y) = CHOOSE q \in (-a)..a : C(q)
    BY <1>2 DEF Divided
  <2>7. C(z)
    <3>1. z \in Int
      BY <2>2
    <3> HIDE DEF C, z
    <3> QED
      BY <2>3, <3>1
  <2>8. \A q \in (-a)..a : C(q) => q = z
    <3>1. \A q \in (-a)..a : q \in Int
      BY <2>1
    <3> HIDE DEF C, z, a
    <3> QED
      BY <2>3, <3>1
  <2> HIDE DEF C, z, a
  <2>9. (CHOOSE q \in (-a)..a : C(q)) = z
    BY <2>4, <2>7, <2>8
  <2> QED
    BY <2>5, <2>6, <2>9
<1> QED
  BY <1>1, <1>2

(* What the ALU and the comparison of branches compute, on integers.       *)
LEMMA AluMeaning ==
  ASSUME NEW a \in 0..AllOnes, NEW b \in 0..AllOnes
  PROVE  LET x == Signed(a, WordSize)
             y == Signed(b, WordSize)
         IN  /\ Signed(Alu("add", a, b), WordSize) = Wrapped(x + y)
             /\ Signed(Alu("sub", a, b), WordSize) = Wrapped(x - y)
             /\ Signed(Alu("mult", a, b), WordSize) = Wrapped(x * y)
             /\ Signed(Alu("div", a, b), WordSize) = Wrapped(Divided(x, y))
             /\ \A op : Taken(op, a, b) <=> Holds(op, x, y)
<1> DEFINE x == Signed(a, WordSize)
           y == Signed(b, WordSize)
<1>1. x \in Int /\ y \in Int
  BY SignedRange
<1>2. \A op : Taken(op, a, b) <=> Holds(op, x, y)
  BY DEF Taken, Holds
<1>3. Quotient(x, y) = Divided(x, y)
  <2> HIDE DEF x, y
  <2> QED
    BY <1>1, QuotientIsDivided
<1>4. /\ Alu("add", a, b) = (x + y) % WordSize /\ Alu("sub", a, b) = (x - y) % WordSize
      /\ Alu("mult", a, b) = (x * y) % WordSize /\ Alu("div", a, b) = Quotient(x, y) % WordSize
  BY DEF Alu
<1> HIDE DEF x, y
<1>5. /\ Signed(Alu("add", a, b), WordSize) = Wrapped(x + y)
      /\ Signed(Alu("sub", a, b), WordSize) = Wrapped(x - y)
      /\ Signed(Alu("mult", a, b), WordSize) = Wrapped(x * y)
      /\ Signed(Alu("div", a, b), WordSize) = Wrapped(Divided(x, y))
  BY <1>3, <1>4 DEF Wrapped
<1> QED
  BY <1>2, <1>5 DEF x, y
=============================================================================
