-------------------------- MODULE ProcessLifecycle --------------------------
(***************************************************************************)
(* What every scheduler of the simulator promises about the processes it   *)
(* is given, without queues, counters, collects or threads: a process is   *)
(* admitted once, at most NumCores run at a time, a running process does   *)
(* work, and leaves the core preempted, blocked or, with no work left,     *)
(* finished for good.                                                      *)
(***************************************************************************)
EXTENDS Integers, FiniteSets

CONSTANTS Procs, NumCores, Budget

VARIABLES place, work

Init ==
  /\ place = [p \in Procs |-> "new"]
  /\ work = Budget

In(where) == {p \in Procs : place[p] = where}

(* The processes of S, all at one place, go to another.                    *)
Move(S, from, to) ==
  /\ S # {} /\ \A p \in S : place[p] = from
  /\ place' = [p \in Procs |-> IF p \in S THEN to ELSE place[p]]
  /\ UNCHANGED work

Admit(p) == Move({p}, "new", "ready")

Run(p) == Move({p}, "ready", "running") /\ Cardinality(In("running")) < NumCores

Work(p) ==
  /\ place[p] = "running"
  /\ \E n \in 0..(work[p] - 1) : work' = [work EXCEPT ![p] = n]
  /\ UNCHANGED place

Preempt(p) == Move({p}, "running", "ready")

Block(p) == Move({p}, "running", "blocked")

Unblock(S) == Move(S, "blocked", "ready")

Finish(p) == work[p] = 0 /\ Move({p}, "running", "finished")

Next ==
  \/ \E p \in Procs : Admit(p) \/ Run(p) \/ Work(p) \/ Preempt(p) \/ Block(p)
                        \/ Finish(p)
  \/ \E S \in SUBSET Procs : Unblock(S)

Spec == Init /\ [][Next]_<<place, work>>
=============================================================================
