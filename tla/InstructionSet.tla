--------------------------- MODULE InstructionSet ---------------------------
(***************************************************************************)
(* Instructions as the program file writes them, the words the loader      *)
(* encodes them into (src/parser_json/parser_json.cpp), the fields the     *)
(* control unit takes back out of a word (src/cpu/CONTROL_UNIT.cpp), the   *)
(* table of codes both sides use (instruction_codes.hpp) and the ALU       *)
(* (ULA.cpp).                                                              *)
(*                                                                         *)
(* A word has the fields of the code: opcode (6 bits), rs, rt, and an      *)
(* immediate as wide as rd, shamt and funct (6 bits).  With 32 registers   *)
(* and 32 shift amounts it is the 32-bit word of the code.  The shamt      *)
(* field is always zero: sll and srl, which the control unit ignores, are  *)
(* left out.                                                               *)
(***************************************************************************)
EXTENDS Integers, FiniteSets

CONSTANTS
  NumRegs,     (* registers that a field can name, 32 in the code          *)
  NumShifts    (* values of the shamt field, 32 in the code                *)

ASSUME RegistersAssumption == NumRegs \in Nat \ {0} /\ NumShifts \in Nat \ {0}

Registers == 0..(NumRegs - 1)

Zero == 0          (* the number of $zero                                  *)

LowSize    == NumShifts * 64                (* 2^11 in the code            *)
ImmSize    == NumRegs * LowSize             (* 2^16 in the code            *)
TargetSize == NumRegs * NumRegs * ImmSize   (* 2^26 in the code            *)
WordSize   == 64 * TargetSize               (* 2^32 in the code            *)

AllOnes == WordSize - 1

(* The word that END is encoded into: END_SENTINEL.                        *)
EndWord == 63 * TargetSize

(* The value of the bits n, of which there are size, in two's complement.  *)
Signed(n, size) == IF n < size \div 2 THEN n ELSE n - size

-----------------------------------------------------------------------------
(* The table of codes.                                                     *)

RType == {"add", "sub", "and", "or", "mult", "div", "jr"}

Code(op, fn) == [opcode |-> op, funct |-> fn]

Table ==
  [add  |-> Code(0, 32), sub  |-> Code(0, 34), and   |-> Code(0, 36),
   or   |-> Code(0, 37), mult |-> Code(0, 24), div   |-> Code(0, 26),
   jr   |-> Code(0, 8),  addi |-> Code(8, 0),  li    |-> Code(8, 0),
   andi |-> Code(12, 0), ori  |-> Code(13, 0), slti  |-> Code(10, 0),
   lw   |-> Code(35, 0), sw   |-> Code(43, 0), beq   |-> Code(4, 0),
   bne  |-> Code(5, 0),  bgt  |-> Code(7, 0),  blt   |-> Code(9, 0),
   j    |-> Code(2, 0),  jal  |-> Code(3, 0),  print |-> Code(62, 0),
   end  |-> Code(63, 0)]

(* addi and li share an opcode, and which of the two the reverse look-up   *)
(* finds is the order of an unordered_map.                                 *)
Aliases == {"addi", "li"}

-----------------------------------------------------------------------------
(* The loader.  An instruction is a record: op is its mnemonic, rd, rs and *)
(* rt are register numbers, and imm is an integer that is read as via      *)
(* says: "immediate", the number itself; "label", the index of the         *)
(* labelled instruction; "data", the index of the data word with the label *)
(* that "base" names, which an "offset" beside it counts words from.       *)

Instruction ==
  [op: DOMAIN Table, rd: Registers, rs: Registers, rt: Registers, imm: Int,
   via: {"immediate", "label", "data"}, offset: Int]

Build(opcode, rs, rt, rd, funct, imm, target) ==
  opcode * TargetSize +
    (IF opcode = 0
     THEN ((rs * NumRegs + rt) * NumRegs + rd) * LowSize + funct
     ELSE IF opcode \in {2, 3}
     THEN target % TargetSize
     ELSE (rs * NumRegs + rt) * ImmSize + (imm % ImmSize))

Branches == {"beq", "bne", "bgt", "blt"}

(* encodeIType, with the immediate worked out.                             *)
EncodeImmediate(i, imm) ==
  Build(Table[i.op].opcode, IF i.op = "li" THEN Zero ELSE i.rs, i.rt, 0, 0, imm, 0)

(* The immediate or target of instruction number k (from 0) of a program  *)
(* whose data begins at address base: a branch to a label gets the         *)
(* distance in instructions, a jump the index of the label.  The offset    *)
(* beside a data label is not read.                                        *)
Operand(i, k, base) ==
  IF i.via = "data" THEN base + 4 * i.imm
  ELSE IF i.via = "label" /\ i.op \in Branches THEN i.imm - (k + 1)
  ELSE i.imm

(* parseInstruction.  print loses its operands.                            *)
Encode(i, k, base) ==
  LET imm == Operand(i, k, base)
  IN  IF i.op \in {"end", "print"}
      THEN Build(Table[i.op].opcode, 0, 0, 0, 0, 0, 0)
      ELSE IF i.op \in RType
      THEN Build(0, i.rs, i.rt, i.rd, Table[i.op].funct, 0, 0)
      ELSE IF i.op \in {"j", "jal"}
      THEN Build(Table[i.op].opcode, 0, 0, 0, 0, 0, imm)
      ELSE EncodeImmediate(i, imm)

-----------------------------------------------------------------------------
(* The fields of a word, as Decode takes them.                             *)

OpcodeOf(w) == w \div TargetSize
Rs(w)       == (w \div (NumRegs * ImmSize)) % NumRegs
Rt(w)       == (w \div ImmSize) % NumRegs
Rd(w)       == (w \div LowSize) % NumRegs
Funct(w)    == w % 64
Imm(w)      == w % ImmSize
Target(w)   == w % TargetSize

(* The immediate, sign-extended to a word.                                 *)
Extended(w) == Signed(Imm(w), ImmSize) % WordSize

NamesOf(w) ==
  {m \in DOMAIN Table : /\ Table[m].opcode = OpcodeOf(w)
                        /\ m \in RType => Table[m].funct = Funct(w)}

(* nameFromOpcodeFunct: the name of the instruction, or no name.           *)
Name(w, alias) ==
  IF NamesOf(w) = {} THEN ""
  ELSE IF NamesOf(w) = Aliases THEN alias
  ELSE CHOOSE m \in NamesOf(w) : TRUE

-----------------------------------------------------------------------------
(* The ALU on words.  The overflow flag is left out: nobody reads it.      *)

Magnitude(n) == IF n < 0 THEN -n ELSE n

(* C++ division: toward zero, and 0 for a divisor of 0.                    *)
Quotient(x, y) ==
  IF y = 0 THEN 0
  ELSE LET q == Magnitude(x) \div Magnitude(y)
       IN  IF (x < 0) = (y < 0) THEN q ELSE -q

(* Mutant: the result keeps the bits above the word.                       *)
AluKeepsCarry(op, a, b) ==
  LET x == Signed(a, WordSize)
      y == Signed(b, WordSize)
  IN  CASE op = "add" -> a + b
        [] op = "sub" -> (x - y) % WordSize
        [] op = "mult" -> (x * y) % WordSize
        [] op = "div" -> Quotient(x, y) % WordSize

(* The result is cut to a word, and so is that of the smallest number      *)
(* divided by -1, which is itself.                                         *)
Alu(op, a, b) ==
  LET x == Signed(a, WordSize)
      y == Signed(b, WordSize)
  IN  CASE op = "add" -> (x + y) % WordSize
        [] op = "sub" -> (x - y) % WordSize
        [] op = "mult" -> (x * y) % WordSize
        [] op = "div" -> Quotient(x, y) % WordSize

(* The comparison of a branch; J is always taken.                          *)
Taken(op, a, b) ==
  LET x == Signed(a, WordSize)
      y == Signed(b, WordSize)
  IN  \/ op = "j"
      \/ op = "beq" /\ x = y
      \/ op = "bne" /\ x # y
      \/ op = "blt" /\ x < y
      \/ op = "bgt" /\ x > y
=============================================================================
