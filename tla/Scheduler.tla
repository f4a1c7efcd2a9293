------------------------------ MODULE Scheduler ------------------------------
(***************************************************************************)
(* Tasks, the context switch and the timer interrupt of the kernel         *)
(* (kernel/process.c, timer.c, context.asm, isr.asm and the parts of       *)
(* idt.c, syscall.c, shell.c and main.c that create, switch and end        *)
(* tasks).  One processor runs one thread at a time.  Code that runs with  *)
(* interrupts masked (IF = 0: int 0x80, the timer handler, task_yield) is  *)
(* one action.  task_exit calls schedule() with interrupts on, so each of  *)
(* its statements is an action and the timer may come between them.        *)
(***************************************************************************)
EXTENDS Naturals, Sequences, FiniteSets

CONSTANTS
    MaxTasks,   \* MAX_TASKS: the length of tasks[]
    Boot,       \* what kmain creates: tasks, and "sti" after each cli section
    Quantum,    \* ticks between two calls of schedule() (10 in timer.c)
    Exits,      \* how a worker ends: "return" (task_exit), "syscall" (sys_exit)
    CtrlC       \* whether the user presses Ctrl-C at the shell's prompt

ASSUME SchedulerAssumption ==
    /\ MaxTasks \in Nat \ {0} /\ Quantum \in Nat \ {0}
    /\ Boot \in Seq({"worker", "shell", "sti"})
    /\ Exits \subseteq {"return", "syscall"} /\ CtrlC \in BOOLEAN

Slots  == 0 .. MaxTasks - 1
NULL   == MaxTasks                   \* the null task pointer
MaxPid == Len(Boot) + 1
Pids   == 1 .. MaxPid
Names  == {"main", "shell", "worker", "none"}   \* what Ctrl-C tells apart
States == {"UNUSED", "READY", "RUNNING", "BLOCKED"}

\* A saved context: whose stack it is and where that thread gave up the
\* processor: not started, task_yield, sys_yield, the timer handler, or an exit.
Contexts == [thread : 0 .. MaxPid, at : {"none", "new", "yield", "sys", "irq", "exit"}]
NoContext == [thread |-> 0, at |-> "none"]

\* Where a thread stands in its own code and, inside task_exit, schedule()'s
\* locals: old, next and the value of next->rsp once it is in a register.
Frames == [pc   : {"run", "parked", "search", "claim", "current", "load", "switch", "idle"},
           old  : Slots, next : Slots, sp : Contexts]
NewFrame == [pc |-> "run", old |-> 0, next |-> 0, sp |-> NoContext]

VARIABLES
    state, pid, next, rsp,         \* the fields of tasks[i]
    name,                          \* the name of the task with each pid
    current,                       \* current, as a slot
    next_pid,
    todo,                          \* the part of Boot kmain has not done
    onCpu,                         \* the thread (its pid) that executes
    frame,                         \* the frame of every thread
    intr,                          \* the interrupt flag, IF
    armed,                         \* timer_init has unmasked IRQ0
    ticks,                         \* ticks, modulo Quantum
    isr0,                          \* IRQ0 is in service at the PIC: no EOI yet
    cpu,                           \* "on", "halted" (cli; hlt), "hung", "wild"
    killed                         \* history: pids ended by Ctrl-C

taskVars == <<pid, name, next, next_pid>>
bootVars == <<todo, intr, armed>>
vars == <<state, rsp, current, taskVars, bootVars, onCpu, frame, ticks, isr0, cpu, killed>>

-----------------------------------------------------------------------------
(***************************************************************************)
(* The task list and the search of schedule().                             *)
(***************************************************************************)

\* Mutant of Succ: the search does not go back to the head of the list.
SuccWithoutWrap(i) == IF next[i] # NULL THEN next[i] ELSE i

\* x->next ? x->next : task_list, and task_list is always &tasks[0].
Succ(i) == IF next[i] # NULL THEN next[i] ELSE 0

\* The slot the search looks at in its k-th round.
Walk == LET w[k \in 0 .. MaxTasks] == IF k = 0 THEN Succ(current) ELSE Succ(w[k - 1])
        IN  w

\* The do-while ends in round k: a READY task, or the walk is back at its start.
Stops(st, k) == st[Walk[k]] = "READY" \/ (k > 0 /\ Walk[k] = Walk[0])
Ends(st, k) == Stops(st, k) /\ \A j \in 0 .. k - 1 : ~Stops(st, j)

\* Mutant of Picks: the next task in the list, READY or not.
PicksAnybody(st, n) == n # current /\ n = Succ(current) /\ st[n] # "RUNNING"

\* schedule() switches to n; it returns to its caller; it never ends.
Picks(st, n) == n # current /\ st[n] = "READY" /\ \E k \in 0 .. MaxTasks : Ends(st, k) /\ Walk[k] = n
Keeps(st) == \E k \in 0 .. MaxTasks : Ends(st, k) /\ (st[Walk[k]] # "READY" \/ Walk[k] = current)
Spins(st) == \A k \in 0 .. MaxTasks : ~Stops(st, k)

\* The list as task_create walks it: from task_list along nx to a null link.
Hop(nx) == LET h[k \in 0 .. MaxTasks] ==
                 IF k = 0 THEN 0 ELSE IF nx[h[k - 1]] = NULL THEN h[k - 1] ELSE nx[h[k - 1]]
           IN  h
Listed == {Hop(next)[k] : k \in 0 .. MaxTasks}

-----------------------------------------------------------------------------
Init ==
    /\ state = [i \in Slots |-> IF i = 0 THEN "RUNNING" ELSE "UNUSED"]
    /\ pid = [i \in Slots |-> IF i = 0 THEN 1 ELSE 0]
    /\ name = [p \in Pids |-> IF p = 1 THEN "main" ELSE "none"]
    /\ next = [i \in Slots |-> NULL]
    /\ rsp = [i \in Slots |-> NoContext]
    /\ current = 0 /\ next_pid = 2
    /\ todo = Boot /\ intr = TRUE /\ armed = FALSE
    /\ onCpu = 1 /\ frame = [p \in Pids |-> NewFrame]
    /\ ticks = 0 /\ isr0 = FALSE /\ cpu = "on" /\ killed = {}

At(pc) == cpu = "on" /\ frame[onCpu].pc = pc

\* The thread on the processor runs a worker's code: not kmain, not the shell.
IsWorker == onCpu # 1 /\ name[onCpu] # "shell"

\* Mutants of Switched: the task that is left stays RUNNING; the next one stays
\* READY.
SwitchedKeeping(st, n) == [st EXCEPT ![n] = "RUNNING"]
SwitchedUnclaimed(st, n) == [st EXCEPT ![current] = IF @ = "RUNNING" THEN "READY" ELSE @]

\* Mutants of StillInService: the EOI is lost; it is sent before the switch.
EoiLost(inService, context) == inService
EoiFirst(inService, context) == FALSE

\* The parts of a switch from current to n: the states, with st on entry; the
\* context this thread leaves in its slot; and IRQ0 at the PIC, because a thread
\* that the timer handler suspended sends its EOI as soon as it is resumed.
Switched(st, n) == [st EXCEPT ![current] = IF @ = "RUNNING" THEN "READY" ELSE @,
                              ![n] = "RUNNING"]
Saved(slot, n, at) == [rsp EXCEPT ![slot] = [thread |-> onCpu, at |-> at]]
StillInService(inService, context) == inService /\ context.at # "irq"

\* schedule() entered with IF = 0, the task states being st.
Reschedule(st, at, inService) ==
    /\ \/ \E n \in Slots :
             /\ Picks(st, n)
             /\ state' = Switched(st, n)
             /\ rsp' = Saved(current, n, at)
             /\ current' = n
             /\ onCpu' = rsp[n].thread
             /\ isr0' = StillInService(inService, rsp[n])
             /\ UNCHANGED cpu
       \/ /\ Keeps(st)
          /\ state' = st
          /\ cpu' = IF at = "exit" THEN "halted" ELSE cpu
          /\ UNCHANGED <<rsp, current, onCpu, isr0>>
       \/ /\ Spins(st)
          /\ state' = st
          /\ cpu' = "hung"
          /\ UNCHANGED <<rsp, current, onCpu, isr0>>
    /\ UNCHANGED <<taskVars, bootVars, frame, killed>>

TaskYield == At("run") /\ intr /\ Reschedule(state, "yield", isr0) /\ UNCHANGED ticks
SysYield  == At("run") /\ intr /\ Reschedule(state, "sys", isr0) /\ UNCHANGED ticks

\* sys_exit: the slot is freed and, if nobody else is READY, cli; hlt for good.
SysExit ==
    /\ At("run") /\ IsWorker /\ "syscall" \in Exits
    /\ Reschedule([state EXCEPT ![current] = "UNUSED"], "exit", isr0)
    /\ UNCHANGED ticks

\* IRQ0: timer_tick, with schedule() every Quantum ticks, and then the EOI.  The
\* PIC raises nothing more while the interrupt is in service.
TimerInterrupt ==
    /\ cpu = "on" /\ armed /\ intr /\ ~isr0
    /\ ticks' = (ticks + 1) % Quantum
    /\ IF ticks' = 0
       THEN Reschedule(state, "irq", TRUE)
       ELSE UNCHANGED <<state, rsp, current, onCpu, isr0, cpu, taskVars, bootVars, frame, killed>>

-----------------------------------------------------------------------------
(***************************************************************************)
(* task_exit: state = UNUSED, then schedule() with interrupts enabled.     *)
(***************************************************************************)
Step(f) == frame' = [frame EXCEPT ![onCpu] = f]

ExitMark ==
    /\ At("run") /\ IsWorker /\ "return" \in Exits
    /\ state' = [state EXCEPT ![current] = "UNUSED"]
    /\ Step([frame[onCpu] EXCEPT !.pc = "search"])
    /\ UNCHANGED <<rsp, current, onCpu, isr0, cpu, ticks, taskVars, bootVars, killed>>

\* The search; a timer interrupt inside it either changes nothing or takes the
\* processor from a thread whose slot is already UNUSED, for good.
ExitSearch ==
    /\ At("search")
    /\ \/ \E n \in Slots : Picks(state, n) /\ Step([frame[onCpu] EXCEPT !.pc = "claim", !.next = n])
       \/ Keeps(state) /\ Step([frame[onCpu] EXCEPT !.pc = "idle"])
    /\ UNCHANGED <<state, rsp, current, onCpu, isr0, cpu, ticks, taskVars, bootVars, killed>>

\* prev->state stays UNUSED; next->state = TASK_RUNNING.
ExitClaim ==
    /\ At("claim")
    /\ state' = [state EXCEPT ![frame[onCpu].next] = "RUNNING"]
    /\ Step([frame[onCpu] EXCEPT !.pc = "current"])
    /\ UNCHANGED <<rsp, current, onCpu, isr0, cpu, ticks, taskVars, bootVars, killed>>

\* old = current; current = next.
ExitSetCurrent ==
    /\ At("current")
    /\ current' = frame[onCpu].next
    /\ Step([frame[onCpu] EXCEPT !.pc = "load", !.old = current])
    /\ UNCHANGED <<state, rsp, onCpu, isr0, cpu, ticks, taskVars, bootVars, killed>>

\* The argument next->rsp is evaluated for the call.
ExitLoad ==
    /\ At("load")
    /\ Step([frame[onCpu] EXCEPT !.pc = "switch", !.sp = rsp[frame[onCpu].next]])
    /\ UNCHANGED <<state, rsp, current, onCpu, isr0, cpu, ticks, taskVars, bootVars, killed>>

\* context_switch.  A thread that loaded the context it was itself preempted
\* with returns into a stack it has overwritten.
ExitSwitch ==
    /\ At("switch")
    /\ LET f == frame[onCpu] IN
       /\ rsp' = Saved(f.old, f.next, "exit")
       /\ onCpu' = f.sp.thread
       /\ isr0' = StillInService(isr0, f.sp)
       /\ cpu' = IF f.sp.thread = onCpu THEN "wild" ELSE cpu
       /\ Step([f EXCEPT !.pc = "idle"])
    /\ UNCHANGED <<state, current, ticks, taskVars, bootVars, killed>>

-----------------------------------------------------------------------------
(***************************************************************************)
(* kmain: tasks are created between cli and sti; the first sti is followed *)
(* by timer_init; when all is created main halts in a loop.                *)
(***************************************************************************)
Free == {i \in Slots : state[i] = "UNUSED"}
IsFirstFree(i) == i \in Free /\ \A j \in Free : i <= j

\* Mutants of Linked: the new task is put behind the first one; it is not linked.
LinkedFirst(nx, last, i) == [nx EXCEPT ![i] = nx[0], ![0] = i]
NotLinked(nx, last, i) == nx

\* cur->next = t, at the last task of the list.
Linked(nx, last, i) == [nx EXCEPT ![last] = i]

\* Mutants of NewPid and NextPid: ++next_pid, and no increment at all.
NewPidTooBig == next_pid + 1
NextPidSame == next_pid

\* t->pid = next_pid++
NewPid == next_pid
NextPid == next_pid + 1

\* task_create(entry, n): the first UNUSED slot, whose old links stay in the
\* list; a walk that meets no null link never ends.
TaskCreate ==
    /\ At("run") /\ onCpu = 1 /\ todo # <<>> /\ Head(todo) # "sti"
    /\ todo' = Tail(todo) /\ intr' = FALSE
    /\ \/ Free = {} /\ UNCHANGED <<state, rsp, taskVars, cpu>>
       \/ \E i \in Slots :
            /\ IsFirstFree(i)
            /\ pid' = [pid EXCEPT ![i] = NewPid]
            /\ next_pid' = NextPid
            /\ \/ UNCHANGED <<state, name, next, rsp, cpu>>    \* no pages for a stack
               \/ LET cut == [next EXCEPT ![i] = NULL]
                      tail == Hop(cut)[MaxTasks] IN
                  /\ state' = [state EXCEPT ![i] = "READY"]
                  /\ name' = [name EXCEPT ![next_pid] = Head(todo)]
                  /\ rsp' = [rsp EXCEPT ![i] = [thread |-> next_pid, at |-> "new"]]
                  /\ next' = IF cut[tail] = NULL THEN Linked(cut, tail, i) ELSE cut
                  /\ cpu' = IF cut[tail] = NULL THEN cpu ELSE "hung"
    /\ UNCHANGED <<current, onCpu, frame, armed, ticks, isr0, killed>>

EndBatch ==
    /\ At("run") /\ onCpu = 1 /\ todo # <<>> /\ Head(todo) = "sti"
    /\ todo' = Tail(todo) /\ intr' = TRUE /\ armed' = TRUE
    /\ UNCHANGED <<state, rsp, current, onCpu, isr0, cpu, ticks, taskVars, frame, killed>>

Park ==
    /\ At("run") /\ onCpu = 1 /\ todo = <<>>
    /\ Step([frame[onCpu] EXCEPT !.pc = "parked"])
    /\ UNCHANGED <<state, rsp, current, onCpu, isr0, cpu, ticks, taskVars, bootVars, killed>>

\* Ctrl-C at the prompt: every runnable task but the shell and main loses its
\* slot; it stays in the list and keeps its stack.
Victims == {i \in Slots : state[i] \in {"READY", "RUNNING"} /\ name[pid[i]] \notin {"shell", "main"}}

KillForeground ==
    /\ CtrlC /\ At("run") /\ name[onCpu] = "shell" /\ Victims # {}
    /\ state' = [i \in Slots |-> IF i \in Victims THEN "UNUSED" ELSE state[i]]
    /\ killed' = killed \cup {pid[i] : i \in Victims}
    /\ UNCHANGED <<rsp, current, onCpu, isr0, cpu, ticks, taskVars, bootVars, frame>>

-----------------------------------------------------------------------------
ExitSteps == ExitMark \/ ExitSearch \/ ExitClaim \/ ExitSetCurrent \/ ExitLoad \/ ExitSwitch
Voluntary == TaskYield \/ SysYield \/ SysExit \/ ExitSteps \/ TaskCreate \/ EndBatch \/ Park

Next ==
    \/ TaskYield \/ SysYield \/ SysExit \/ TimerInterrupt
    \/ ExitMark \/ ExitSearch \/ ExitClaim \/ ExitSetCurrent \/ ExitLoad \/ ExitSwitch
    \/ TaskCreate \/ EndBatch \/ Park \/ KillForeground

Spec == Init /\ [][Next]_vars

\* The PIT keeps raising IRQ0; what a task does is its own business.
TimerFairness == WF_vars(TimerInterrupt)
PreemptSpec == Spec /\ TimerFairness

\* Tasks that cooperate: whoever has the processor gives it up some time.
CoopSpec == Spec /\ TimerFairness /\ WF_vars(Voluntary)
=============================================================================
