--------------------------- MODULE SchedulerProps ---------------------------
(***************************************************************************)
(* The correctness properties of the task scheduler.                       *)
(***************************************************************************)
EXTENDS Scheduler

\* kmain has a pid left for every task it still has to create.
PidsSuffice ==
    /\ todo \in Seq({"worker", "shell", "sti"})
    /\ next_pid \in Nat /\ next_pid >= 2 /\ next_pid + Len(todo) <= MaxPid + 1

\* Every variable keeps its type, and next_pid stays ahead of every pid given
\* to a slot (process.c: tasks[], current, next_pid).
TypeOK ==
    /\ state \in [Slots -> States]
    /\ pid \in [Slots -> 0 .. MaxPid]
    /\ name \in [Pids -> Names]
    /\ next \in [Slots -> Slots \cup {NULL}]
    /\ rsp \in [Slots -> Contexts]
    /\ current \in Slots
    /\ PidsSuffice
    /\ \A i \in Slots : pid[i] < next_pid
    /\ intr \in BOOLEAN /\ armed \in BOOLEAN /\ isr0 \in BOOLEAN
    /\ onCpu \in Pids
    /\ frame \in [Pids -> Frames]
    /\ ticks \in 0 .. Quantum - 1
    /\ cpu \in {"on", "halted", "hung", "wild"}
    /\ killed \subseteq Pids

Resumable == {"new", "yield", "sys", "irq"}

\* The rsp of a READY task is a context of that very task, one it can be
\* resumed from (process.h: "saved stack pointer"; process.c: schedule).
ContextOwned ==
    \A i \in Slots : state[i] = "READY" => rsp[i].thread = pid[i] /\ rsp[i].at \in Resumable

\* current names the slot of the thread that executes, and no other slot is
\* RUNNING: nobody is lost in state RUNNING (process.c: schedule).
RunningIsCurrent ==
    cpu = "on" =>
        /\ state[current] = "RUNNING" /\ pid[current] = onCpu
        /\ \A i \in Slots : state[i] = "RUNNING" => i = current

\* After every switch, wherever it was made, the saved contexts and current are
\* right together (process.c: schedule, context.asm: context_switch).
SwitchesAreExact == ContextOwned /\ RunningIsCurrent

\* Every task that may still run is reached from task_list, and the list ends:
\* neither schedule's search nor task_create's walk can miss it or run forever.
ListSound ==
    /\ \A i \in Slots : state[i] # "UNUSED" => i \in Listed
    /\ next[Hop(next)[MaxTasks]] = NULL

\* As long as IRQ0 waits for its EOI, some READY task will send it when it is
\* resumed: the timer is never masked for good while tasks take turns (idt.c: the
\* EOI follows timer_tick, and so follows whatever schedule() did).  Ctrl-C may end
\* the very task that owes it.
TimerRecoverable ==
    isr0 /\ killed = {} => \E i \in Slots : state[i] = "READY" /\ rsp[i].at = "irq"

\* At most one suspended thread owes an EOI and only while IRQ0 is in service,
\* so no EOI goes out for an interrupt that was already acknowledged.
NoSpuriousEoi ==
    LET owing == {i \in Slots : state[i] = "READY" /\ rsp[i].at = "irq"}
    IN  (owing # {} => isr0) /\ \A i, j \in owing : i = j

\* No context can be resumed twice: two READY slots never hold the same
\* thread's context, and none holds that of the thread that executes.
NoContextResumedTwice ==
    cpu = "on" =>
        \A i \in Slots : state[i] = "READY" =>
            /\ rsp[i].thread # onCpu
            /\ \A j \in Slots : state[j] = "READY" /\ rsp[j].thread = rsp[i].thread => i = j

\* A task ended by Ctrl-C never gets the processor again, whatever happens to
\* its slot and its context (shell.c: the Ctrl-C branch; process.c: slot reuse).
KilledStaysDead == onCpu \notin killed

\* Two tasks that may run never share a pid, slots being reused (process.c).
PidsUnique ==
    \A i, j \in Slots : state[i] # "UNUSED" /\ state[j] # "UNUSED" /\ pid[i] = pid[j] => i = j

Runnable(i) == state[i] \in {"READY", "RUNNING"}

\* The tasks take turns in the order of their pids (see RoundRobin).
RR == INSTANCE RoundRobin WITH
        alive <- {pid[i] : i \in {j \in Slots : Runnable(j)}}, running <- onCpu
TurnsInOrder == RR!Spec

\* A READY task gets the processor, is killed, or main has parked itself while
\* the timer interrupt is still unacknowledged (main.c: the last loop of kmain).
Starved == frame[1].pc = "parked" /\ onCpu = 1 /\ isr0
EveryTaskRuns ==
    \A i \in Slots : state[i] = "READY" ~> (current = i \/ state[i] = "UNUSED" \/ Starved)

\* The README's "preemptive": a READY task gets the processor although the
\* running one never offers it, as long as the PIT ticks.
Preemptive ==
    \A i \in Slots : (armed /\ state[i] = "READY") ~> (current = i \/ state[i] = "UNUSED")
=============================================================================
