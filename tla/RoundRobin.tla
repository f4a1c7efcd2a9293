----------------------------- MODULE RoundRobin -----------------------------
(***************************************************************************)
(* What the task scheduler of kernel/process.c promises, without slots,    *)
(* links, saved stacks or interrupts: the live tasks take turns in the     *)
(* order they were created, whatever takes the processor from a task.      *)
(***************************************************************************)
EXTENDS Naturals

CONSTANT Pids            \* the process ids ever handed out

VARIABLES alive,         \* the tasks that may run
          running        \* the one that owns the processor

rrVars == <<alive, running>>

\* q is the first of the tasks in S that comes after p, going round.
IsNextAfter(p, S, q) ==
    /\ q \in S
    /\ IF \E r \in S : r > p
       THEN q > p /\ \A r \in S : r > p => q <= r
       ELSE \A r \in S : q <= r

Init == alive = {1} /\ running = 1

\* A new task gets a pid above every live one and does not run at once.
Spawn(p) ==
    /\ \A q \in alive : q < p
    /\ alive' = alive \cup {p}
    /\ UNCHANGED running

\* The running task loses the processor and keeps its place.
Rotate ==
    /\ \E q \in alive \ {running} : IsNextAfter(running, alive \ {running}, q) /\ running' = q
    /\ UNCHANGED alive

\* The running task ends; the next one in turn runs.
Retire ==
    /\ alive' = alive \ {running}
    /\ \E q \in alive' : IsNextAfter(running, alive', q) /\ running' = q

\* The running task ends others.
Kill ==
    /\ \E K \in SUBSET (alive \ {running, 1}) : K # {} /\ alive' = alive \ K
    /\ UNCHANGED running

Next == (\E p \in Pids : Spawn(p)) \/ Rotate \/ Retire \/ Kill

Spec == Init /\ [][Next]_rrVars
=============================================================================
