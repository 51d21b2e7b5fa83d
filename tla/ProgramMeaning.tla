--------------------------- MODULE ProgramMeaning ---------------------------
(***************************************************************************)
(* What a program file means, as a reference for the machine: its          *)
(* instructions executed one after the other on integers, with the data    *)
(* section as the only memory, without words, addresses, caches or other   *)
(* programs.  It ends at an END, or behind the last instruction of a       *)
(* program that has none.                                                  *)
(***************************************************************************)
EXTENDS InstructionSet, Sequences

Wrapped(n) == Signed(n % WordSize, WordSize)

(* The quotient whose product with y stays within x and leaves less than y.*)
Divided(x, y) ==
  IF y = 0 THEN 0
  ELSE CHOOSE q \in (-Magnitude(x))..Magnitude(x) :
         /\ Magnitude(x - q * y) < Magnitude(y)
         /\ Magnitude(q * y) <= Magnitude(x)

(* A state: the index k of the next instruction, whether the end is        *)
(* reached, the registers, the data words, the data words written so far,  *)
(* whether one of them was read again (reloads), and whether a word of all *)
(* ones was written (marked).                                              *)
RefInit(prog) ==
  [k       |-> 0,
   done    |-> FALSE,
   reg     |-> [r \in Registers |-> 0],
   data    |-> [d \in 1..Len(prog.data) |-> Wrapped(prog.data[d])],
   stored  |-> {},
   reloads |-> FALSE,
   marked  |-> FALSE]

SetReg(s, r, n) ==
  [s EXCEPT !.reg = IF r = Zero THEN @ ELSE [@ EXCEPT ![r] = Wrapped(n)],
            !.k   = @ + 1]

Holds(op, x, y) ==
  \/ op = "j"
  \/ op = "beq" /\ x = y
  \/ op = "bne" /\ x # y
  \/ op = "blt" /\ x < y
  \/ op = "bgt" /\ x > y

(* The index of the instruction that a branch goes to, when the image of   *)
(* the program is at address base.                                         *)
Goal(prog, base, i) ==
  IF i.via = "label" THEN i.imm ELSE (i.imm - base) \div 4 - Len(prog.data)

(* The data word that a load or a store names, counted from its label.     *)
DataIndex(i) == i.imm + i.offset

RefExecute(prog, base, s) ==
  LET i == prog.code[s.k + 1]
      x == s.reg[i.rs]
      y == s.reg[i.rt]
  IN  CASE i.op = "add"  -> SetReg(s, i.rd, x + y)
        [] i.op = "sub"  -> SetReg(s, i.rd, x - y)
        [] i.op = "mult" -> SetReg(s, i.rd, x * y)
        [] i.op = "div"  -> SetReg(s, i.rd, Divided(x, y))
        [] i.op = "addi" -> SetReg(s, i.rt, x + i.imm)
        [] i.op = "li"   -> SetReg(s, i.rt, i.imm)
        [] i.op = "slti" -> SetReg(s, i.rt, IF x < i.imm THEN 1 ELSE 0)
        [] i.op = "lw"   -> [SetReg(s, i.rt, s.data[DataIndex(i) + 1])
                             EXCEPT !.reloads = @ \/ DataIndex(i) \in s.stored]
        [] i.op = "sw"   -> [s EXCEPT !.data[DataIndex(i) + 1] = y,
                                      !.stored = @ \cup {DataIndex(i)},
                                      !.marked = @ \/ y = -1,
                                      !.k      = @ + 1]
        [] i.op \in Branches \cup {"j"} ->
             [s EXCEPT !.k = IF Holds(i.op, x, y) THEN Goal(prog, base, i) ELSE @ + 1]
        [] OTHER -> [s EXCEPT !.k = @ + 1]

RefStep(prog, base, s) ==
  IF s.done THEN s
  ELSE IF s.k = Len(prog.code) \/ prog.code[s.k + 1].op = "end"
  THEN [s EXCEPT !.done = TRUE]
  ELSE RefExecute(prog, base, s)

(* The state after at most n instructions.                                 *)
RefRun(prog, base, n) ==
  LET state[m \in 0..n] ==
        IF m = 0 THEN RefInit(prog) ELSE RefStep(prog, base, state[m - 1])
  IN  state[n]
=============================================================================
