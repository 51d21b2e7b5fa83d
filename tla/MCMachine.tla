----------------------------- MODULE MCMachine -----------------------------
(***************************************************************************)
(* Instances of Machine for TLC: programs of a few instructions.           *)
(***************************************************************************)
EXTENDS Machine

T0 == 1
T1 == 2
T2 == 3

Instr(op, rd, rs, rt, imm, via) ==
  [op |-> op, rd |-> rd, rs |-> rs, rt |-> rt, imm |-> imm, via |-> via, offset |-> 0]

Three(op, rd, rs, rt) == Instr(op, rd, rs, rt, 0, "immediate")
Li(rt, n)             == Instr("li", 0, 0, rt, n, "immediate")
Immediate(op, rt, rs, n) == Instr(op, 0, rs, rt, n, "immediate")
Data(op, rt, d)       == Instr(op, 0, 0, rt, d, "data")
Jump(op, rs, rt, to, via) == Instr(op, 0, rs, rt, to, via)
Element(op, rt, d, n) == [Data(op, rt, d) EXCEPT !.offset = n]
Single(op)            == Instr(op, 0, 0, 0, 0, "immediate")

(* Signed arithmetic on data that is loaded, a word of all ones among it.  *)
Arith == [data |-> <<7, AllOnes - 1, AllOnes>>,
          code |-> <<Data("lw", T0, 0), Data("lw", T1, 1), Three("div", T2, T0, T1),
                     Data("lw", T1, 2), Three("mult", T0, T0, T1),
                     Three("add", T0, T0, T2), Immediate("slti", T1, T0, -9),
                     Single("end")>>]

(* A word is stored and loaded again.                                      *)
Store == [data |-> <<5>>,
          code |-> <<Li(T0, 9), Data("sw", T0, 0), Single("print"),
                     Data("lw", T1, 0), Three("sub", T2, T1, T0), Single("end")>>]

(* A loop with addresses, at the beginning of memory.                      *)
Loop == [data |-> <<>>,
         code |-> <<Li(T0, 2), Li(T1, 1), Three("sub", T0, T0, T1),
                    Jump("bne", T0, Zero, 8, "immediate"),
                    Jump("j", 0, 0, 24, "immediate"), Li(T0, 77), Single("end")>>]

(* Under the name of li, addi does not add.                                *)
Alias == [data |-> <<>>,
          code |-> <<Li(T0, 4), Immediate("addi", T0, T0, -1), Single("end")>>]

(* The second word behind a label is loaded, and there is no END.          *)
NoEnd == [data |-> <<8, 9>>,
          code |-> <<Element("lw", T0, 0, 1), Li(T1, 5), Li(T1, 6)>>]

(* Comparisons at the limit of a word, the program being the second one.   *)
Compare == [data |-> <<WordSize \div 2 - 1>>,
            code |-> <<Data("lw", T0, 0), Three("add", T1, T0, T0),
                       Jump("blt", T1, Zero, 68, "immediate"), Li(T2, 1),
                       Jump("bgt", T1, T0, 76, "immediate"), Li(T2, 3),
                       Jump("beq", Zero, Zero, 84, "immediate"), Li(T2, 4),
                       Single("end")>>]

SmallScenarios ==
  {<<Arith, Store>>, <<Store, Alias>>, <<Loop, Arith>>, <<NoEnd, Compare>>}

(* A jump over one instruction, to a label.                                *)
Labels == [data |-> <<>>,
           code |-> <<Li(T0, 1), Jump("beq", Zero, Zero, 3, "label"), Li(T0, 2),
                      Li(T1, 5), Single("end")>>]

LabelScenarios == {<<Labels, Alias>>}

(* A word is stored, and loaded when its line has been replaced.           *)
Forget == [data |-> <<5>>,
           code |-> <<Li(T0, 9), Data("sw", T0, 0), Li(T1, 1), Li(T1, 2),
                      Data("lw", T2, 0), Single("end")>>]

StoreScenarios == {<<Forget, Alias>>}

(* No END, and nothing else that the control unit changes.                 *)
ThreeWrites == [data |-> <<>>, code |-> <<Li(T0, 4), Li(T1, 5), Li(T1, 6)>>]

NoEndScenarios == {<<ThreeWrites, Alias>>}

Words == 0..AllOnes

Addresses == 0..(TargetSize + 3)
=============================================================================
