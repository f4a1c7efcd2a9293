--------------------------- MODULE SchedulerProofs ---------------------------
(***************************************************************************)
(* Proofs about the task scheduler, for every boot sequence, table size    *)
(* and quantum.                                                            *)
(***************************************************************************)
EXTENDS SchedulerProps, WellFoundedInduction, TLAPS

\* A context that is, or is about to be, resumed belongs to some thread.
Started ==
    /\ \A i \in Slots : state[i] = "READY" => rsp[i].thread \in Pids
    /\ \A p \in Pids : frame[p].pc \in {"claim", "current", "load"} =>
                         rsp[frame[p].next].thread \in Pids /\ pid[frame[p].next] \in Pids
    /\ \A p \in Pids : frame[p].pc = "switch" => frame[p].sp.thread \in Pids
    /\ \A i \in Slots : state[i] # "UNUSED" => pid[i] \in Pids

TypeInv == TypeOK /\ Started

\* What schedule() leaves behind when it is entered with interrupts masked.
LEMMA RescheduleOutcome ==
    ASSUME NEW st, NEW at, NEW inService, Reschedule(st, at, inService)
    PROVE  /\ UNCHANGED <<taskVars, bootVars, frame, killed>>
           /\ \/ \E n \in Slots : /\ n # current /\ st[n] = "READY"
                                  /\ state' = Switched(st, n)
                                  /\ rsp' = Saved(current, n, at)
                                  /\ current' = n /\ onCpu' = rsp[n].thread
                                  /\ isr0' = StillInService(inService, rsp[n])
                                  /\ cpu' = cpu
              \/ /\ state' = st /\ UNCHANGED <<rsp, current, onCpu, isr0>>
                 /\ \/ cpu' = cpu /\ at # "exit"
                    \/ cpu' \in {"halted", "hung"}
BY Zenon DEF Reschedule, Picks

LEMMA RescheduleKeepsPids ==
    ASSUME NEW st, NEW at, NEW inService, Reschedule(st, at, inService)
    PROVE  pid' = pid /\ next_pid' = next_pid
BY Zenon DEF Reschedule, taskVars

LEMMA RescheduleType ==
    ASSUME TypeInv, NEW st \in [Slots -> States], NEW inService \in BOOLEAN,
           NEW at \in {"yield", "sys", "irq", "exit"},
           \A i \in Slots : st[i] \in {state[i], "UNUSED"},
           Reschedule(st, at, inService), ticks' \in 0 .. Quantum - 1
    PROVE  TypeInv'
<1> DEFINE T == [thread |-> onCpu, at |-> at]
<1>0. T \in Contexts /\ T.thread \in Pids
  BY DEF TypeInv, TypeOK, Contexts, Pids
<1>1. CASE state' = st /\ UNCHANGED <<rsp, current, onCpu, isr0>> /\ (cpu' = cpu \/ cpu' \in {"halted", "hung"})
  <2>1. UNCHANGED <<taskVars, bootVars, frame, killed>>
    BY RescheduleOutcome
  <2>2. TypeOK'
    BY <1>1, <2>1 DEF TypeInv, TypeOK, PidsSuffice, taskVars, bootVars
  <2>3. Started'
    BY <1>1, <2>1 DEF TypeInv, Started, taskVars
  <2> QED BY <2>2, <2>3 DEF TypeInv
<1>2. ASSUME NEW n \in Slots, n # current, st[n] = "READY", state' = Switched(st, n),
             rsp' = Saved(current, n, at), current' = n, onCpu' = rsp[n].thread,
             isr0' = StillInService(inService, rsp[n]), cpu' = cpu
      PROVE  TypeInv'
  <2>1. UNCHANGED <<taskVars, bootVars, frame, killed>>
    BY RescheduleOutcome
  <2>2. state' \in [Slots -> States] /\ \A i \in Slots : state'[i] = "READY" => i = current \/ st[i] = "READY"
    BY <1>2 DEF Switched, States
  <2>3. rsp' \in [Slots -> Contexts] /\ current \in Slots /\ rsp \in [Slots -> Contexts]
    BY <1>0, <1>2 DEF Saved, TypeInv, TypeOK
  <2>4. /\ \A i \in Slots : rsp'[i] = IF i = current THEN T ELSE rsp[i]
        /\ rsp[n].thread \in Pids
    BY <1>2, <2>3 DEF Saved, TypeInv, Started
  <2>5. TypeOK'
    <3>1. onCpu' \in Pids /\ isr0' \in BOOLEAN
      BY <1>2, <2>4 DEF StillInService
    <3> QED BY <1>2, <2>1, <2>2, <2>3, <3>1 DEF TypeInv, TypeOK, PidsSuffice, taskVars, bootVars
  <2>6. Started'
    <3>1. \A i \in Slots : rsp[i].thread \in Pids => rsp'[i].thread \in Pids
      BY <1>0, <2>4
    <3>2. \A i \in Slots : state'[i] = "READY" => rsp'[i].thread \in Pids
      BY <1>0, <2>2, <2>4, <3>1 DEF TypeInv, Started
    <3>3. \A p \in Pids : frame[p].next \in Slots
      BY DEF TypeInv, TypeOK, Frames
    <3>4. \A i \in Slots : state'[i] # "UNUSED" => state[i] # "UNUSED"
      BY <1>2 DEF Switched, TypeInv, TypeOK
    <3> QED BY <2>1, <3>1, <3>2, <3>3, <3>4 DEF TypeInv, Started, taskVars
  <2> QED BY <2>5, <2>6 DEF TypeInv
<1> QED BY <1>1, <1>2, RescheduleOutcome

LEMMA TypeInit == Init => TypeInv
<1> SUFFICES ASSUME Init PROVE TypeInv
  OBVIOUS
<1> USE SchedulerAssumption
<1>1. MaxPid \in Nat /\ 1 \in Pids /\ 0 \in Slots /\ NoContext \in Contexts
  BY DEF MaxPid, Pids, Slots, NoContext, Contexts
<1>2. NewFrame \in Frames
  BY <1>1 DEF NewFrame, Frames
<1>3. TypeOK
  <2>1. todo = Boot /\ next_pid = 2
    BY Zenon DEF Init
  <2>2. Len(Boot) \in Nat /\ Boot \in Seq({"worker", "shell", "sti"}) /\ MaxTasks \in Nat /\ Quantum \in Nat \ {0}
    BY DEF SchedulerAssumption
  <2>3. PidsSuffice
    BY <2>1, <2>2 DEF PidsSuffice, MaxPid
  <2>4. 0 \in 0 .. MaxPid /\ 1 \in 0 .. MaxPid /\ 0 \in 0 .. Quantum - 1
    BY <1>1, <2>2 DEF Pids
  <2>5. /\ state \in [Slots -> States] /\ pid \in [Slots -> 0 .. MaxPid]
        /\ name \in [Pids -> Names] /\ next \in [Slots -> Slots \cup {NULL}]
        /\ \A i \in Slots : pid[i] < next_pid
    <3>1. state \in [Slots -> States]
      BY DEF Init, States
    <3>2. pid = [i \in Slots |-> IF i = 0 THEN 1 ELSE 0] /\ next_pid = 2
      BY Zenon DEF Init
    <3>3. name \in [Pids -> Names] /\ next \in [Slots -> Slots \cup {NULL}]
      BY DEF Init, Names
    <3> QED BY <2>4, <3>1, <3>2, <3>3
  <2>6. /\ rsp \in [Slots -> Contexts] /\ frame \in [Pids -> Frames]
        /\ current \in Slots /\ onCpu \in Pids
    BY <1>1, <1>2 DEF Init
  <2>7. /\ intr \in BOOLEAN /\ armed \in BOOLEAN /\ isr0 \in BOOLEAN /\ killed \subseteq Pids
        /\ ticks \in 0 .. Quantum - 1 /\ cpu \in {"on", "halted", "hung", "wild"}
    BY <2>4 DEF Init
  <2> QED BY <2>3, <2>5, <2>6, <2>7 DEF TypeOK
<1>4. Started
  BY <1>1 DEF Init, Started, NewFrame
<1> QED BY <1>3, <1>4 DEF TypeInv

LEMMA TypeStep == TypeInv /\ [Next]_vars => TypeInv'
<1> SUFFICES ASSUME TypeInv, [Next]_vars PROVE TypeInv'
  OBVIOUS
<1> USE SchedulerAssumption
<1>0. /\ onCpu \in Pids /\ current \in Slots /\ frame[onCpu] \in Frames
      /\ frame \in [Pids -> Frames] /\ rsp \in [Slots -> Contexts] /\ state \in [Slots -> States]
  BY DEF TypeInv, TypeOK
<1>1. CASE TaskYield
  BY <1>0, <1>1, RescheduleType DEF TaskYield, TypeInv, TypeOK
<1>2. CASE SysYield
  BY <1>0, <1>2, RescheduleType DEF SysYield, TypeInv, TypeOK
<1>3. CASE SysExit
  <2> DEFINE st == [state EXCEPT ![current] = "UNUSED"]
  <2>1. st \in [Slots -> States] /\ \A i \in Slots : st[i] \in {state[i], "UNUSED"}
    BY <1>0 DEF States
  <2>2. ticks' \in 0 .. Quantum - 1 /\ isr0 \in BOOLEAN /\ Reschedule(st, "exit", isr0)
    BY <1>3 DEF SysExit, TypeInv, TypeOK
  <2> QED BY <2>1, <2>2, RescheduleType
<1>4. CASE TimerInterrupt
  <2>1. ticks' \in 0 .. Quantum - 1
    BY <1>4 DEF TimerInterrupt, TypeInv, TypeOK
  <2>2. CASE ticks' = 0
    BY <1>0, <1>4, <2>1, <2>2, RescheduleType DEF TimerInterrupt
  <2>3. CASE ticks' # 0
    BY <1>4, <2>1, <2>3 DEF TimerInterrupt, TypeInv, TypeOK, PidsSuffice, Started, taskVars, bootVars
  <2> QED BY <2>2, <2>3
<1>5. CASE ExitMark
  <2>1. TypeOK'
    BY <1>0, <1>5 DEF ExitMark, Step, TypeInv, TypeOK, PidsSuffice, taskVars, bootVars, States, Frames
  <2>2. Started'
    BY <1>0, <1>5 DEF ExitMark, Step, TypeInv, Started, taskVars, States, Frames
  <2> QED BY <2>1, <2>2 DEF TypeInv
<1>6. CASE ExitSearch
  <2> DEFINE Found(n) == Picks(state, n) /\ Step([frame[onCpu] EXCEPT !.pc = "claim", !.next = n])
  <2>1. CASE \E n \in Slots : Found(n)
    <3>1. PICK n \in Slots : Found(n)
      BY <2>1
    <3>2. state[n] = "READY" /\ frame' = [frame EXCEPT ![onCpu] = [frame[onCpu] EXCEPT !.pc = "claim", !.next = n]]
      BY <3>1 DEF Picks, Step
    <3>3. TypeOK'
      BY <1>0, <1>6, <3>2 DEF ExitSearch, TypeInv, TypeOK, PidsSuffice, taskVars, bootVars, Frames
    <3>4. Started'
      BY <1>0, <1>6, <3>2 DEF ExitSearch, TypeInv, Started, taskVars, Frames
    <3> QED BY <3>3, <3>4 DEF TypeInv
  <2>2. CASE Step([frame[onCpu] EXCEPT !.pc = "idle"])
    <3>1. TypeOK'
      BY <1>0, <1>6, <2>2 DEF ExitSearch, Step, TypeInv, TypeOK, PidsSuffice, taskVars, bootVars, Frames
    <3>2. Started'
      BY <1>0, <1>6, <2>2 DEF ExitSearch, Step, TypeInv, Started, taskVars, Frames
    <3> QED BY <3>1, <3>2 DEF TypeInv
  <2> QED BY <1>6, <2>1, <2>2 DEF ExitSearch
<1>7. CASE ExitClaim
  <2>1. TypeOK'
    BY <1>0, <1>7 DEF ExitClaim, Step, TypeInv, TypeOK, PidsSuffice, taskVars, bootVars, States, Frames
  <2>2. Started'
    BY <1>0, <1>7 DEF ExitClaim, At, Step, TypeInv, Started, taskVars, States, Frames
  <2> QED BY <2>1, <2>2 DEF TypeInv
<1>8. CASE ExitSetCurrent
  <2>1. TypeOK'
    BY <1>0, <1>8 DEF ExitSetCurrent, Step, TypeInv, TypeOK, PidsSuffice, taskVars, bootVars, Frames
  <2>2. Started'
    BY <1>0, <1>8 DEF ExitSetCurrent, At, Step, TypeInv, Started, taskVars, Frames
  <2> QED BY <2>1, <2>2 DEF TypeInv
<1>9. CASE ExitLoad
  <2>1. TypeOK'
    BY <1>0, <1>9 DEF ExitLoad, Step, TypeInv, TypeOK, PidsSuffice, taskVars, bootVars, Frames
  <2>2. Started'
    BY <1>0, <1>9 DEF ExitLoad, At, Step, TypeInv, Started, taskVars, Frames
  <2> QED BY <2>1, <2>2 DEF TypeInv
<1>10. CASE ExitSwitch
  <2> DEFINE f == frame[onCpu]
             T == [thread |-> onCpu, at |-> "exit"]
  <2>1. f.sp \in Contexts /\ f.sp.thread \in Pids /\ f.old \in Slots /\ T \in Contexts
    BY <1>0, <1>10 DEF ExitSwitch, At, TypeInv, Started, taskVars, Frames, Contexts, Pids
  <2>2. /\ rsp' = [rsp EXCEPT ![f.old] = T] /\ onCpu' = f.sp.thread
        /\ frame' = [frame EXCEPT ![onCpu] = [f EXCEPT !.pc = "idle"]]
        /\ isr0' \in BOOLEAN /\ cpu' \in {"wild", cpu}
        /\ UNCHANGED <<state, current, ticks, taskVars, bootVars, killed>>
    BY <1>10 DEF ExitSwitch, Saved, Step, StillInService
  <2>3. TypeOK'
    BY <1>0, <2>1, <2>2 DEF TypeInv, TypeOK, PidsSuffice, taskVars, bootVars, Frames
  <2>4. Started'
    BY <1>0, <2>1, <2>2 DEF TypeInv, Started, Frames, taskVars
  <2> QED BY <2>3, <2>4 DEF TypeInv
<1>11. CASE TaskCreate
  <2>1. /\ UNCHANGED <<current, onCpu, frame, armed, ticks, isr0, killed>>
        /\ intr' = FALSE
    BY <1>11 DEF TaskCreate
  <2>2. /\ todo' \in Seq({"worker", "shell", "sti"}) /\ Head(todo) \in Names /\ Len(todo) >= 1
        /\ Len(todo') = Len(todo) - 1
    BY <1>11 DEF TaskCreate, NewPid, NextPid, TypeInv, TypeOK, PidsSuffice, Names
  <2>3. MaxPid \in Nat /\ next_pid \in Pids /\ next_pid \in Nat
    BY <2>2 DEF TypeInv, TypeOK, PidsSuffice, MaxPid, Pids
  <2>4. CASE UNCHANGED <<state, rsp, taskVars, cpu>>
    <3>1. PidsSuffice'
      BY <2>2, <2>3, <2>4 DEF TypeInv, TypeOK, PidsSuffice, taskVars
    <3>2. TypeOK'
      BY <1>0, <2>1, <2>4, <3>1 DEF TypeInv, TypeOK, taskVars
    <3> QED BY <2>1, <2>4, <3>2 DEF TypeInv, Started, taskVars
  <2>5. ASSUME NEW i \in Slots, pid' = [pid EXCEPT ![i] = next_pid], next_pid' = next_pid + 1
        PROVE  /\ PidsSuffice'
               /\ pid' \in [Slots -> 0 .. MaxPid]
               /\ \A j \in Slots : pid'[j] < next_pid' /\ (pid[j] \in Pids => pid'[j] \in Pids)
    BY <2>2, <2>3, <2>5 DEF TypeInv, TypeOK, PidsSuffice, Pids
  <2>6. ASSUME NEW i \in Slots, pid' = [pid EXCEPT ![i] = next_pid], next_pid' = next_pid + 1,
               UNCHANGED <<state, name, next, rsp, cpu>>
        PROVE  TypeInv'
    <3>1. TypeOK'
      BY <1>0, <2>1, <2>5, <2>6 DEF TypeInv, TypeOK
    <3> QED BY <1>0, <2>1, <2>5, <2>6, <3>1 DEF TypeInv, Started, Frames
  <2>7. ASSUME NEW i \in Slots, pid' = [pid EXCEPT ![i] = next_pid], next_pid' = next_pid + 1,
               state' = [state EXCEPT ![i] = "READY"],
               name' = [name EXCEPT ![next_pid] = Head(todo)],
               rsp' = [rsp EXCEPT ![i] = [thread |-> next_pid, at |-> "new"]],
               next' \in [Slots -> Slots \cup {NULL}], cpu' \in {cpu, "hung"}
        PROVE  TypeInv'
    <3>1. [thread |-> next_pid, at |-> "new"] \in Contexts
      BY <2>3 DEF Contexts, Pids
    <3>2. pid'[i] \in Pids
      BY <2>3, <2>7 DEF TypeInv, TypeOK
    <3>3. TypeOK'
      BY <1>0, <2>1, <2>2, <2>5, <2>7, <3>1 DEF TypeInv, TypeOK, States
    <3>4. Started'
      BY <1>0, <2>1, <2>3, <2>5, <2>7, <3>2 DEF TypeInv, Started, Frames
    <3> QED BY <3>3, <3>4 DEF TypeInv
  <2>8. ASSUME UNCHANGED <<state, rsp, taskVars, cpu>> => TypeInv'
        PROVE  TypeInv'
    <3> SUFFICES ASSUME ~ UNCHANGED <<state, rsp, taskVars, cpu>> PROVE TypeInv'
      BY <2>8
    <3>1. PICK i \in Slots :
            /\ pid' = [pid EXCEPT ![i] = next_pid] /\ next_pid' = next_pid + 1
            /\ \/ UNCHANGED <<state, name, next, rsp, cpu>>
               \/ LET cut == [next EXCEPT ![i] = NULL]
                      tail == Hop(cut)[MaxTasks] IN
                  /\ state' = [state EXCEPT ![i] = "READY"]
                  /\ name' = [name EXCEPT ![next_pid] = Head(todo)]
                  /\ rsp' = [rsp EXCEPT ![i] = [thread |-> next_pid, at |-> "new"]]
                  /\ next' = IF cut[tail] = NULL THEN Linked(cut, tail, i) ELSE cut
                  /\ cpu' = IF cut[tail] = NULL THEN cpu ELSE "hung"
      BY <1>11, Zenon DEF TaskCreate, NewPid, NextPid
    <3> DEFINE cut == [next EXCEPT ![i] = NULL]
    <3>2. cut \in [Slots -> Slots \cup {NULL}] /\ \A l : Linked(cut, l, i) \in [Slots -> Slots \cup {NULL}]
      BY DEF Linked, TypeInv, TypeOK
    <3>3. ASSUME ~ UNCHANGED next
          PROVE  next' \in {cut, Linked(cut, Hop(cut)[MaxTasks], i)}
      BY <3>1, <3>3
    <3> HIDE DEF cut
    <3>4. next' \in [Slots -> Slots \cup {NULL}] /\ cpu' \in {cpu, "hung"}
      BY <3>1, <3>2, <3>3 DEF TypeInv, TypeOK
    <3> QED BY <2>6, <2>7, <3>1, <3>4
  <2> QED BY <2>4, <2>8
<1>12. CASE EndBatch
  <2>1. todo' \in Seq({"worker", "shell", "sti"}) /\ Len(todo') = Len(todo) - 1 /\ Len(todo) >= 1
    BY <1>12 DEF EndBatch, TypeInv, TypeOK, PidsSuffice
  <2>2. PidsSuffice'
    BY <1>12, <2>1, SchedulerAssumption DEF EndBatch, TypeInv, TypeOK, PidsSuffice, taskVars, MaxPid
  <2>3. TypeOK'
    BY <1>12, <2>2 DEF EndBatch, TypeInv, TypeOK, taskVars
  <2> QED BY <1>12, <2>3 DEF EndBatch, TypeInv, Started, taskVars
<1>13. CASE Park
  <2>1. TypeOK'
    BY <1>0, <1>13 DEF Park, Step, TypeInv, TypeOK, PidsSuffice, taskVars, bootVars, Frames
  <2>2. Started'
    BY <1>0, <1>13 DEF Park, Step, TypeInv, Started, taskVars, Frames
  <2> QED BY <2>1, <2>2 DEF TypeInv
<1>14. CASE KillForeground
  <2>1. {pid[i] : i \in Victims} \subseteq Pids
    BY DEF Victims, TypeInv, Started
  <2>2. TypeOK'
    BY <1>0, <1>14, <2>1 DEF KillForeground, TypeInv, TypeOK, PidsSuffice, taskVars, bootVars, States
  <2>3. \A i \in Slots : state'[i] # "UNUSED" => state'[i] = state[i]
    BY <1>14 DEF KillForeground
  <2>4. Started'
    BY <1>14, <2>3 DEF KillForeground, TypeInv, Started, taskVars
  <2> QED BY <2>2, <2>4 DEF TypeInv
<1>15. CASE UNCHANGED vars
  BY <1>15 DEF vars, taskVars, bootVars, TypeInv, TypeOK, PidsSuffice, Started
<1> QED
  BY <1>1, <1>2, <1>3, <1>4, <1>5, <1>6, <1>7, <1>8, <1>9, <1>10, <1>11, <1>12, <1>13, <1>14,
     <1>15 DEF Next

\* Every variable keeps its type in every reachable state, whichever way the
\* workers end and however the timer interrupt falls between the statements.
THEOREM TypeCorrect == Spec => []TypeOK
<1>1. TypeInv => TypeOK
  BY DEF TypeInv
<1> QED BY <1>1, TypeInit, TypeStep, PTL DEF Spec

-----------------------------------------------------------------------------
(***************************************************************************)
(* Workers that end by sys_exit.  schedule() then always runs with         *)
(* interrupts masked, and the bookkeeping of the switch is exact.          *)
(***************************************************************************)
Undisturbed == \A p \in Pids : frame[p].pc \in {"run", "parked"}

\* The pids ended by Ctrl-C are old ones and belong to no slot in use.
KilledGone ==
    /\ \A p \in killed : p < next_pid
    /\ \A i \in Slots : state[i] # "UNUSED" => pid[i] \notin killed

Bookkeeping ==
    /\ TypeInv
    /\ Undisturbed
    /\ RunningIsCurrent
    /\ ContextOwned
    /\ PidsUnique
    /\ KilledGone
    /\ KilledStaysDead
    /\ TimerRecoverable
    /\ NoSpuriousEoi

LEMMA BookkeepingInit == Init => Bookkeeping
<1> SUFFICES ASSUME Init PROVE Bookkeeping
  OBVIOUS
<1>1. TypeInv
  BY TypeInit
<1>2. Undisturbed
  BY DEF Init, Undisturbed, NewFrame
<1>3. /\ state = [i \in Slots |-> IF i = 0 THEN "RUNNING" ELSE "UNUSED"]
      /\ pid = [i \in Slots |-> IF i = 0 THEN 1 ELSE 0]
      /\ current = 0 /\ onCpu = 1 /\ killed = {} /\ isr0 = FALSE
  BY Zenon DEF Init
<1>4. 0 \in Slots
  BY <1>1, <1>3 DEF TypeInv, TypeOK
<1>5. \A i \in Slots : state[i] # "UNUSED" => i = 0
  BY <1>3
<1> QED BY <1>1, <1>2, <1>3, <1>4, <1>5
  DEF Bookkeeping, RunningIsCurrent, ContextOwned, PidsUnique, KilledGone, KilledStaysDead,
      TimerRecoverable, NoSpuriousEoi

\* A switch that saves a context in the slot of the task it belongs to.
LEMMA RescheduleBookkeeping ==
    ASSUME Bookkeeping, TypeInv', cpu = "on",
           NEW st, NEW at, NEW inService \in BOOLEAN,
           \/ st = state /\ at \in {"yield", "sys"} /\ inService = isr0
           \/ st = state /\ at = "irq" /\ inService = TRUE /\ ~isr0
           \/ st = [state EXCEPT ![current] = "UNUSED"] /\ at = "exit" /\ inService = isr0,
           Reschedule(st, at, inService)
    PROVE  Bookkeeping'
<1> DEFINE T == [thread |-> onCpu, at |-> at]
<1>1. /\ UNCHANGED <<pid, next_pid, frame, killed>>
      /\ state \in [Slots -> States] /\ pid \in [Slots -> 0 .. MaxPid] /\ rsp \in [Slots -> Contexts]
      /\ current \in Slots /\ state[current] = "RUNNING" /\ pid[current] = onCpu
      /\ \A i \in Slots : state[i] = "RUNNING" => i = current
  BY RescheduleOutcome DEF taskVars, Bookkeeping, TypeInv, TypeOK, RunningIsCurrent
<1>2. CASE state' = st /\ UNCHANGED <<rsp, current, onCpu, isr0>>
           /\ ((cpu' = cpu /\ at # "exit") \/ cpu' \in {"halted", "hung"})
  <2>1. \A i \in Slots : state'[i] \in {state[i], "UNUSED"}
    BY <1>1, <1>2
  <2>2. \A i \in Slots : state'[i] = "READY" <=> state[i] = "READY"
    BY <1>1, <1>2
  <2>3. RunningIsCurrent'
    BY <1>1, <1>2 DEF Bookkeeping, RunningIsCurrent
  <2>4. ContextOwned' /\ TimerRecoverable' /\ NoSpuriousEoi'
    BY <1>1, <1>2, <2>2 DEF Bookkeeping, ContextOwned, TimerRecoverable, NoSpuriousEoi
  <2>5. PidsUnique' /\ KilledGone' /\ KilledStaysDead' /\ Undisturbed'
    BY <1>1, <1>2, <2>1
    DEF Bookkeeping, PidsUnique, KilledGone, KilledStaysDead, Undisturbed
  <2> QED BY <2>3, <2>4, <2>5 DEF Bookkeeping
<1>3. ASSUME NEW n \in Slots, n # current, st[n] = "READY", state' = Switched(st, n),
             rsp' = Saved(current, n, at), current' = n, onCpu' = rsp[n].thread,
             isr0' = StillInService(inService, rsp[n]), cpu' = cpu
      PROVE  Bookkeeping'
  <2>1. /\ \A i \in Slots : rsp'[i] = IF i = current THEN T ELSE rsp[i]
        /\ state[n] = "READY" /\ state'[n] = "RUNNING"
        /\ \A i \in Slots \ {n, current} : state'[i] = state[i]
        /\ state'[current] = IF at = "exit" THEN "UNUSED" ELSE "READY"
    BY <1>1, <1>3 DEF Saved, Switched
  <2>2. rsp[n].thread = pid[n] /\ rsp[n].at \in Resumable /\ onCpu' = pid[n]
    BY <1>3, <2>1 DEF Bookkeeping, ContextOwned
  <2>3. \A i \in Slots : state'[i] # "UNUSED" => state[i] # "UNUSED"
    BY <1>1, <2>1
  <2>4. RunningIsCurrent'
    BY <1>1, <1>3, <2>1, <2>2 DEF RunningIsCurrent
  <2>5. ContextOwned'
    BY <1>1, <1>3, <2>1 DEF Bookkeeping, ContextOwned, Resumable
  <2>6. PidsUnique' /\ KilledGone' /\ Undisturbed'
    BY <1>1, <2>3 DEF Bookkeeping, PidsUnique, KilledGone, Undisturbed
  <2>7. KilledStaysDead'
    BY <1>1, <2>1, <2>2 DEF Bookkeeping, KilledGone, KilledStaysDead
  <2>8. isr0' <=> inService /\ rsp[n].at # "irq"
    BY <1>3 DEF StillInService
  <2>9. TimerRecoverable'
    <3>1. CASE at = "irq"
      BY <1>1, <2>1, <3>1 DEF TimerRecoverable
    <3>2. CASE at # "irq"
      <4> SUFFICES ASSUME isr0', killed' = {}
                   PROVE  \E i \in Slots : state'[i] = "READY" /\ rsp'[i].at = "irq"
        BY DEF TimerRecoverable
      <4>1. PICK i \in Slots : state[i] = "READY" /\ rsp[i].at = "irq"
        BY <1>1, <2>8, <3>2 DEF Bookkeeping, TimerRecoverable
      <4>2. i # n /\ i # current
        BY <1>1, <2>8, <4>1
      <4> QED BY <2>1, <4>1, <4>2
    <3> QED BY <3>1, <3>2
  <2>10. NoSpuriousEoi'
    <3>1. \A i, j \in Slots : state[i] = "READY" /\ rsp[i].at = "irq" =>
            isr0 /\ (state[j] = "READY" /\ rsp[j].at = "irq" => i = j)
      BY DEF Bookkeeping, NoSpuriousEoi
    <3>2. \A i \in Slots : state'[i] = "READY" /\ rsp'[i].at = "irq" =>
            \/ i = current /\ at = "irq"
            \/ i # n /\ i # current /\ state[i] = "READY" /\ rsp[i].at = "irq"
      BY <1>1, <2>1
    <3>3. \A i, j \in Slots : state'[i] = "READY" /\ rsp'[i].at = "irq" =>
            isr0' /\ (state'[j] = "READY" /\ rsp'[j].at = "irq" => i = j)
      BY <2>1, <2>8, <3>1, <3>2
    <3> QED BY <3>3 DEF NoSpuriousEoi
  <2> QED BY <2>4, <2>5, <2>6, <2>7, <2>9, <2>10 DEF Bookkeeping
<1> QED BY <1>2, <1>3, RescheduleOutcome

LEMMA BookkeepingStep ==
    ASSUME "return" \notin Exits
    PROVE  Bookkeeping /\ [Next]_vars => Bookkeeping'
<1> SUFFICES ASSUME Bookkeeping, [Next]_vars PROVE Bookkeeping'
  OBVIOUS
<1>0. /\ TypeInv' /\ onCpu \in Pids /\ isr0 \in BOOLEAN
      /\ frame[onCpu].pc \in {"run", "parked"}
  BY TypeStep DEF Bookkeeping, TypeInv, TypeOK, Undisturbed
<1>1. CASE TaskYield
  <2>1. cpu = "on" /\ Reschedule(state, "yield", isr0)
    BY <1>1 DEF TaskYield, At
  <2> QED BY <1>0, <2>1, RescheduleBookkeeping
<1>2. CASE SysYield
  <2>1. cpu = "on" /\ Reschedule(state, "sys", isr0)
    BY <1>2 DEF SysYield, At
  <2> QED BY <1>0, <2>1, RescheduleBookkeeping
<1>3. CASE SysExit
  <2>1. cpu = "on" /\ Reschedule([state EXCEPT ![current] = "UNUSED"], "exit", isr0)
    BY <1>3 DEF SysExit, At
  <2> QED BY <1>0, <2>1, RescheduleBookkeeping
<1>4. CASE TimerInterrupt
  <2>1. CASE ticks' = 0
    <3>1. cpu = "on" /\ ~isr0 /\ Reschedule(state, "irq", TRUE)
      BY <1>4, <2>1 DEF TimerInterrupt
    <3> QED BY <1>0, <3>1, RescheduleBookkeeping
  <2>2. CASE ticks' # 0
    <3>1. UNCHANGED <<state, rsp, current, onCpu, isr0, cpu, taskVars, bootVars, frame, killed>>
      BY <1>4, <2>2 DEF TimerInterrupt
    <3> QED BY <1>0, <3>1
      DEF Bookkeeping, taskVars, Undisturbed, RunningIsCurrent, ContextOwned, PidsUnique,
          KilledGone, KilledStaysDead, TimerRecoverable, NoSpuriousEoi
  <2> QED BY <2>1, <2>2
<1>5. CASE ExitMark \/ ExitSearch \/ ExitClaim \/ ExitSetCurrent \/ ExitLoad \/ ExitSwitch
  BY <1>0, <1>5 DEF ExitMark, ExitSearch, ExitClaim, ExitSetCurrent, ExitLoad, ExitSwitch, At
<1>6. CASE TaskCreate
  <2>1. /\ UNCHANGED <<current, onCpu, frame, isr0, killed>>
        /\ cpu = "on" /\ state[current] = "RUNNING" /\ current \in Slots
        /\ state \in [Slots -> States] /\ pid \in [Slots -> 0 .. MaxPid] /\ next_pid \in Nat
        /\ rsp \in [Slots -> Contexts] /\ \A i \in Slots : pid[i] < next_pid
    BY <1>6 DEF TaskCreate, NewPid, NextPid, At, Bookkeeping, RunningIsCurrent, TypeInv, TypeOK, PidsSuffice
  <2>2. CASE UNCHANGED <<state, rsp, taskVars, cpu>>
    BY <1>0, <2>1, <2>2
    DEF Bookkeeping, taskVars, Undisturbed, RunningIsCurrent, ContextOwned, PidsUnique,
        KilledGone, KilledStaysDead, TimerRecoverable, NoSpuriousEoi
  <2>3. ASSUME NEW i \in Slots, state[i] = "UNUSED",
               pid' = [pid EXCEPT ![i] = next_pid], next_pid' = next_pid + 1,
               \/ UNCHANGED <<state, rsp>>
               \/ /\ state' = [state EXCEPT ![i] = "READY"]
                  /\ rsp' = [rsp EXCEPT ![i] = [thread |-> next_pid, at |-> "new"]]
        PROVE  Bookkeeping'
    <3>1. /\ \A j \in Slots \ {i} : state'[j] = state[j] /\ rsp'[j] = rsp[j] /\ pid'[j] = pid[j]
          /\ i # current /\ pid'[i] = next_pid /\ state'[i] \in {"UNUSED", "READY"}
          /\ state'[i] = "READY" => rsp'[i] = [thread |-> next_pid, at |-> "new"]
      BY <2>1, <2>3
    <3>2. RunningIsCurrent'
      BY <2>1, <3>1 DEF Bookkeeping, RunningIsCurrent
    <3>3. ContextOwned'
      BY <3>1 DEF Bookkeeping, ContextOwned, Resumable
    <3>4. PidsUnique'
      BY <2>1, <3>1 DEF Bookkeeping, PidsUnique
    <3>5. KilledGone' /\ KilledStaysDead' /\ Undisturbed'
      <4>1. \A p \in killed : p \in Nat /\ p < next_pid
        BY DEF Bookkeeping, TypeInv, TypeOK, KilledGone, Pids
      <4> QED BY <2>1, <2>3, <3>1, <4>1 DEF Bookkeeping, KilledGone, KilledStaysDead, Undisturbed
    <3>6. \A j \in Slots : state'[j] = "READY" /\ rsp'[j].at = "irq" <=>
                           state[j] = "READY" /\ rsp[j].at = "irq"
      BY <2>3, <3>1
    <3>7. TimerRecoverable' /\ NoSpuriousEoi'
      BY <2>1, <3>6 DEF Bookkeeping, TimerRecoverable, NoSpuriousEoi
    <3> QED BY <1>0, <3>2, <3>3, <3>4, <3>5, <3>7 DEF Bookkeeping
  <2> QED BY <1>6, <2>2, <2>3, Zenon DEF TaskCreate, NewPid, NextPid, IsFirstFree, Free
<1>7. CASE EndBatch \/ Park
  <2>1. /\ UNCHANGED <<state, rsp, current, onCpu, isr0, cpu, pid, next_pid, killed>>
        /\ \A p \in Pids : frame'[p].pc \in {frame[p].pc, "parked"}
    <3>1. CASE EndBatch
      BY <3>1 DEF EndBatch, taskVars
    <3>2. CASE Park
      <4>1. /\ UNCHANGED <<state, rsp, current, onCpu, isr0, cpu, taskVars, killed>>
            /\ frame' = [frame EXCEPT ![onCpu] = [frame[onCpu] EXCEPT !.pc = "parked"]]
        BY <3>2 DEF Park, Step
      <4>2. frame \in [Pids -> Frames]
        BY DEF Bookkeeping, TypeInv, TypeOK
      <4> QED BY <1>0, <4>1, <4>2 DEF taskVars, Frames
    <3> QED BY <1>7, <3>1, <3>2
  <2> QED BY <1>0, <2>1
    DEF Bookkeeping, Undisturbed, RunningIsCurrent, ContextOwned, PidsUnique,
        KilledGone, KilledStaysDead, TimerRecoverable, NoSpuriousEoi
<1>8. CASE KillForeground
  <2>1. /\ UNCHANGED <<rsp, current, onCpu, isr0, cpu, pid, next_pid, frame>>
        /\ state' = [i \in Slots |-> IF i \in Victims THEN "UNUSED" ELSE state[i]]
        /\ killed' = killed \cup {pid[i] : i \in Victims}
        /\ name[onCpu] = "shell" /\ Victims # {} /\ cpu = "on"
    BY <1>8 DEF KillForeground, At, taskVars
  <2>2. /\ current \in Slots /\ current \notin Victims /\ state[current] = "RUNNING"
        /\ pid[current] = onCpu
        /\ \A i \in Victims : i \in Slots /\ state[i] # "UNUSED" /\ pid[i] < next_pid
    BY <2>1 DEF Victims, Bookkeeping, RunningIsCurrent, TypeInv, TypeOK
  <2>3. \A i \in Slots : state'[i] # "UNUSED" => state'[i] = state[i] /\ i \notin Victims
    BY <2>1
  <2>4. RunningIsCurrent'
    BY <2>1, <2>2, <2>3 DEF Bookkeeping, RunningIsCurrent
  <2>5. ContextOwned' /\ PidsUnique' /\ Undisturbed'
    BY <2>1, <2>3 DEF Bookkeeping, ContextOwned, PidsUnique, Undisturbed
  <2>6. \A i \in Slots : state'[i] # "UNUSED" => pid[i] \notin killed'
    BY <2>1, <2>2, <2>3 DEF Bookkeeping, KilledGone, PidsUnique
  <2>7. KilledGone'
    BY <2>1, <2>2, <2>6 DEF Bookkeeping, KilledGone
  <2>8. KilledStaysDead'
    BY <2>1, <2>2, <2>4, <2>6 DEF RunningIsCurrent, KilledStaysDead
  <2>9. killed' # {}
    BY <2>1
  <2>10. TimerRecoverable' /\ NoSpuriousEoi'
    BY <2>1, <2>3, <2>9 DEF Bookkeeping, TimerRecoverable, NoSpuriousEoi
  <2> QED BY <1>0, <2>4, <2>5, <2>7, <2>8, <2>10 DEF Bookkeeping
<1>9. CASE UNCHANGED vars
  BY <1>0, <1>9
  DEF vars, taskVars, Bookkeeping, Undisturbed, RunningIsCurrent, ContextOwned, PidsUnique,
      KilledGone, KilledStaysDead, TimerRecoverable, NoSpuriousEoi
<1> QED
  BY <1>1, <1>2, <1>3, <1>4, <1>5, <1>6, <1>7, <1>8, <1>9 DEF Next

\* With workers that end by sys_exit, every READY task can be resumed from its
\* own saved stack pointer, and current is the task that executes.
THEOREM SwitchIsExact ==
    ASSUME "return" \notin Exits
    PROVE  Spec => []SwitchesAreExact
<1>1. Bookkeeping => SwitchesAreExact
  BY DEF Bookkeeping, SwitchesAreExact
<1>2. Bookkeeping /\ [Next]_vars => Bookkeeping'
  BY BookkeepingStep
<1> QED BY <1>1, <1>2, BookkeepingInit, PTL DEF Spec

\* With workers that end by sys_exit and no Ctrl-C so far, an interrupt in
\* service always finds somebody READY who will acknowledge it, and exactly one.
THEOREM TimerIsNeverLost ==
    ASSUME "return" \notin Exits
    PROVE  Spec => [](TimerRecoverable /\ NoSpuriousEoi)
<1>1. Bookkeeping => TimerRecoverable /\ NoSpuriousEoi
  BY DEF Bookkeeping
<1>2. Bookkeeping /\ [Next]_vars => Bookkeeping'
  BY BookkeepingStep
<1> QED BY <1>1, <1>2, BookkeepingInit, PTL DEF Spec

-----------------------------------------------------------------------------
\* The pids handed out so far are all different, in whatever slots they are.
PidsDistinct == \A i, j \in Slots : pid[i] = pid[j] /\ pid[i] # 0 => i = j

LEMMA PidsStep == TypeInv /\ PidsDistinct /\ [Next]_vars => PidsDistinct'
<1> SUFFICES ASSUME TypeInv, PidsDistinct, [Next]_vars PROVE PidsDistinct'
  OBVIOUS
<1>1. CASE TaskCreate
  <2>1. pid \in [Slots -> 0 .. MaxPid] /\ \A i \in Slots : pid[i] < next_pid
    BY DEF TypeInv, TypeOK
  <2>2. pid' = pid \/ \E i \in Slots : pid' = [pid EXCEPT ![i] = next_pid]
    BY <1>1 DEF TaskCreate, IsFirstFree, Free, NewPid, taskVars
  <2> QED BY <2>1, <2>2 DEF PidsDistinct
<1>2. CASE TaskYield \/ SysYield \/ SysExit
  BY <1>2, RescheduleKeepsPids DEF TaskYield, SysYield, SysExit, PidsDistinct
<1>3. CASE TimerInterrupt
  BY <1>3, RescheduleKeepsPids DEF TimerInterrupt, PidsDistinct, taskVars
<1>4. CASE ExitMark \/ ExitSearch \/ ExitClaim \/ ExitSetCurrent \/ ExitLoad \/ ExitSwitch
  BY <1>4 DEF ExitMark, ExitSearch, ExitClaim, ExitSetCurrent, ExitLoad, ExitSwitch,
              PidsDistinct, taskVars
<1>5. CASE EndBatch \/ Park \/ KillForeground \/ UNCHANGED vars
  BY <1>5 DEF EndBatch, Park, KillForeground, PidsDistinct, taskVars, vars
<1> QED BY <1>1, <1>2, <1>3, <1>4, <1>5 DEF Next

\* Two tasks that may run never share a pid, however tasks end and however the
\* schedule() inside task_exit is interrupted.
THEOREM PidsNeverShared == Spec => []PidsUnique
<1>1. Init => TypeInv /\ PidsDistinct
  BY TypeInit, SchedulerAssumption DEF Init, PidsDistinct
<1>2. TypeInv /\ PidsDistinct /\ [Next]_vars => TypeInv' /\ PidsDistinct'
  BY TypeStep, PidsStep
<1>3. TypeInv /\ PidsDistinct => PidsUnique
  BY DEF TypeInv, Started, PidsDistinct, PidsUnique, Pids
<1> QED BY <1>1, <1>2, <1>3, PTL DEF Spec
-----------------------------------------------------------------------------
(***************************************************************************)
(* Workers that return: schedule() runs inside task_exit with interrupts   *)
(* on, and may be interrupted between any two of its statements.  Every    *)
(* thread that can still be resumed then belongs to one slot.  The context *)
(* of a thread that has loaded another's is resumed before it, so that the *)
(* threads of a slot are stacked: home is a thread's slot, and height its  *)
(* place there.                                                            *)
(***************************************************************************)

\* A thread resumed in slot i is in its own code, or it is an exiting thread
\* that the timer took the processor from while i was current.
Sound(c, i) ==
    \/ frame[c.thread].pc \in {"run", "parked", "idle"}
    \/ frame[c.thread].pc \in {"load", "switch"} /\ frame[c.thread].next = i /\ c.at = "irq"

Top(home, height, p, i) == home[p] = i /\ \A q \in Pids : home[q] = i => height[q] <= height[p]

\* The pid of a thread that ends is in no slot in use.
Gone(p) == \A i \in Slots : pid[i] = p => state[i] = "UNUSED"

Lives(home, height) ==
    /\ \A p, q \in Pids : home[p] # NULL /\ home[p] = home[q] /\ height[p] = height[q] => p = q
    /\ \A p \in Pids : home[p] # NULL =>
         /\ p < next_pid /\ p \notin killed
         /\ IF frame[p].pc \in {"run", "parked"} THEN pid[home[p]] = p ELSE Gone(p)
    /\ \A i \in Slots : state[i] = "READY" =>
         Top(home, height, rsp[i].thread, i) /\ Sound(rsp[i], i)

\* The context a thread has loaded is the one below it.
Loaded(home, height) ==
    \A p \in Pids : frame[p].pc = "switch" /\ frame[p].sp.thread # p /\ home[p] # NULL =>
        /\ home[frame[p].sp.thread] = home[p] /\ height[p] = height[frame[p].sp.thread] + 1
        /\ Sound(frame[p].sp, home[p])

\* The thread that executes, and the task its exit is about to switch to.
Executes(home, height) ==
    LET f == frame[onCpu]
        c == rsp[f.next]
    IN  /\ Top(home, height, onCpu, current)
        /\ f.pc \in {"run", "parked", "load", "switch"} => state[current] = "RUNNING"
        /\ f.pc \in {"search", "claim", "current"} => state[current] = "UNUSED"
        /\ state[current] # "READY"
        /\ f.pc = "claim" => f.next # current /\ state[f.next] = "READY"
        /\ f.pc = "current" => /\ f.next # current /\ state[f.next] = "RUNNING"
                               /\ Top(home, height, c.thread, f.next) /\ Sound(c, f.next)
        /\ f.pc \in {"load", "switch"} => f.next = current
        /\ f.pc = "load" /\ c.thread # onCpu =>
             /\ home[c.thread] = current /\ height[onCpu] = height[c.thread] + 1
             /\ Sound(c, current)

Started0 ==
    /\ \A p \in Pids : p >= next_pid => frame[p] = NewFrame
    /\ \A p \in Pids : frame[p].pc \in {"load", "switch"} => frame[p].old # frame[p].next
    /\ \A p \in killed : p < next_pid

\* Who owes the EOI: one READY task, or the one an exiting thread switches to.
Owes(i) == state[i] = "READY" /\ rsp[i].at = "irq"
Eoi ==
    LET f == frame[onCpu]
        c == rsp[f.next]
    IN  /\ \A i, j \in Slots : Owes(i) => isr0 /\ (Owes(j) => i = j)
        /\ \A p \in Pids : frame[p].pc = "switch" /\ frame[p].sp.thread # p /\ frame[p].sp.at = "irq" =>
             p = onCpu /\ isr0 /\ rsp[f.next] = f.sp /\ \A i \in Slots : ~Owes(i)
        /\ f.pc \in {"current", "load"} /\ c.thread # onCpu /\ c.at = "irq" =>
             isr0 /\ \A i \in Slots : ~Owes(i)
        /\ f.pc = "load" /\ c.thread = onCpu => ~isr0
        /\ f.pc = "switch" /\ f.sp.thread = onCpu => ~isr0

Stacked(home, height) ==
    /\ home \in [Pids -> Slots \cup {NULL}] /\ height \in [Pids -> Nat]
    /\ Lives(home, height) /\ Loaded(home, height) /\ Executes(home, height)
    /\ Started0 /\ Eoi

ResumeInv ==
    /\ TypeInv /\ PidsDistinct /\ KilledStaysDead /\ NoSpuriousEoi
    /\ cpu = "on" => \E home, height : Stacked(home, height)

\* What is known of slots, contexts and frames in every state.
Types ==
    /\ onCpu \in Pids /\ current \in Slots /\ NULL \notin Slots
    /\ frame \in [Pids -> Frames] /\ rsp \in [Slots -> Contexts] /\ state \in [Slots -> States]
    /\ pid \in [Slots -> 0 .. MaxPid] /\ \A i \in Slots : pid[i] < next_pid
    /\ Pids \subseteq Nat /\ next_pid \in Nat /\ isr0 \in BOOLEAN /\ killed \subseteq Pids
    /\ \A i \in Slots : state[i] = "READY" => rsp[i].thread \in Pids
    /\ \A p \in Pids : frame[p].pc \in {"claim", "current", "load"} => rsp[frame[p].next].thread \in Pids
    /\ \A p \in Pids : frame[p].pc = "switch" => frame[p].sp.thread \in Pids
    /\ \A p \in Pids : frame[p].next \in Slots /\ frame[p].old \in Slots

LEMMA TypesKnown == TypeInv => Types
<1> SUFFICES ASSUME TypeInv PROVE Types
  OBVIOUS
<1>1. /\ onCpu \in Pids /\ current \in Slots
      /\ frame \in [Pids -> Frames] /\ rsp \in [Slots -> Contexts] /\ state \in [Slots -> States]
      /\ pid \in [Slots -> 0 .. MaxPid] /\ \A i \in Slots : pid[i] < next_pid
      /\ next_pid \in Nat /\ isr0 \in BOOLEAN /\ killed \subseteq Pids
  BY DEF TypeInv, TypeOK, PidsSuffice
<1>2. NULL \notin Slots /\ Pids \subseteq Nat
  BY SchedulerAssumption DEF NULL, Slots, Pids, MaxPid
<1>3. \A p \in Pids : frame[p].next \in Slots /\ frame[p].old \in Slots
  BY <1>1 DEF Frames
<1> QED BY <1>1, <1>2, <1>3 DEF Types, TypeInv, Started

LEMMA StackedGives ==
    ASSUME Types, NEW home, NEW height, Stacked(home, height)
    PROVE  /\ onCpu \notin killed /\ NoSpuriousEoi
           /\ \A i \in Slots : state[i] = "READY" =>
                /\ rsp[i].thread # onCpu
                /\ \A j \in Slots : state[j] = "READY" /\ rsp[j].thread = rsp[i].thread => i = j
<1>1. home[onCpu] = current /\ current # NULL /\ state[current] # "READY"
  BY DEF Types, Stacked, Executes, Top
<1>2. onCpu \notin killed
  BY <1>1 DEF Types, Stacked, Lives
<1>3. NoSpuriousEoi
  BY DEF Stacked, Eoi, Owes, NoSpuriousEoi
<1>4. \A i \in Slots : state[i] = "READY" => home[rsp[i].thread] = i
  BY DEF Stacked, Lives, Top
<1> QED BY <1>1, <1>2, <1>3, <1>4

LEMMA StackedGivesNext ==
    ASSUME Types', NEW home, NEW height, Stacked(home, height)'
    PROVE  KilledStaysDead' /\ NoSpuriousEoi'
<1>1. home[onCpu'] = current' /\ current' # NULL
  BY DEF Types, Stacked, Executes, Top
<1>2. onCpu' \notin killed'
  BY <1>1 DEF Types, Stacked, Lives
<1>3. NoSpuriousEoi'
  BY DEF Stacked, Eoi, Owes, NoSpuriousEoi
<1> QED BY <1>2, <1>3 DEF KilledStaysDead

\* Nothing of what Stacked looks at changes.
LEMMA StackStays ==
    ASSUME NEW home, NEW height, Stacked(home, height),
           UNCHANGED <<state, rsp, current, onCpu, isr0, pid, next_pid, frame, killed>>
    PROVE  Stacked(home, height)'
<1>1. Lives(home, height)'
  BY DEF Stacked, Lives, Sound, Top, Gone
<1>2. Loaded(home, height)'
  BY DEF Stacked, Loaded, Sound, Top, Gone
<1>3. Executes(home, height)'
  BY DEF Stacked, Executes, Sound, Top, Gone
<1>4. Started0' /\ Eoi'
  BY DEF Stacked, Started0, Eoi, Owes
<1> QED BY <1>1, <1>2, <1>3, <1>4 DEF Stacked

LEMMA ResumeInit == Init => ResumeInv
<1> SUFFICES ASSUME Init PROVE ResumeInv
  OBVIOUS
<1>1. TypeInv /\ Types
  BY TypeInit, TypesKnown
<1>2. /\ state = [i \in Slots |-> IF i = 0 THEN "RUNNING" ELSE "UNUSED"]
      /\ pid = [i \in Slots |-> IF i = 0 THEN 1 ELSE 0] /\ next_pid = 2
      /\ current = 0 /\ onCpu = 1 /\ killed = {} /\ isr0 = FALSE
      /\ frame = [p \in Pids |-> NewFrame]
  BY Zenon DEF Init
<1>3. PidsDistinct /\ KilledStaysDead
  BY <1>2 DEF PidsDistinct, KilledStaysDead
<1>4. 0 \in Slots /\ 1 \in Pids /\ \A i \in Slots : state[i] # "READY"
  BY <1>1, <1>2 DEF Types
<1>5. NoSpuriousEoi
  BY <1>4 DEF NoSpuriousEoi
<1> DEFINE home == [p \in Pids |-> IF p = 1 THEN 0 ELSE NULL]
           height == [p \in Pids |-> 0]
<1>6. \A p \in Pids : frame[p] = NewFrame /\ frame[p].pc = "run"
  BY <1>2 DEF NewFrame
<1>7. home \in [Pids -> Slots \cup {NULL}] /\ height \in [Pids -> Nat]
  BY <1>4
<1>8. \A p \in Pids : /\ home[p] # NULL => p = 1 /\ home[p] = 0
                      /\ p = 1 => home[p] = 0
                      /\ height[p] = 0
  BY <1>4
<1> HIDE DEF home, height
<1>9. pid[0] = 1 /\ state[0] = "RUNNING"
  BY <1>2, <1>4
<1>10. Lives(home, height)
  BY <1>2, <1>4, <1>6, <1>8, <1>9 DEF Lives
<1>11. Loaded(home, height)
  BY <1>6 DEF Loaded
<1>12. Executes(home, height)
  <2>1. NULL # 0
    BY <1>1, <1>4 DEF Types
  <2> QED BY <1>2, <1>4, <1>6, <1>8, <1>9, <2>1 DEF Executes, Top
<1>13. Started0 /\ Eoi
  BY <1>2, <1>4, <1>6 DEF Started0, Eoi, Owes
<1> QED BY <1>1, <1>3, <1>5, <1>7, <1>10, <1>11, <1>12, <1>13 DEF ResumeInv, Stacked

\* A switch made with interrupts masked: the thread that is left becomes the
\* READY context of its slot, if the slot is still in use.
LEMMA RescheduleStack ==
    ASSUME Types, Types', KilledStaysDead, NoSpuriousEoi, cpu = "on",
           NEW home, NEW height, Stacked(home, height),
           NEW st, NEW at, NEW inService \in BOOLEAN,
           \/ st = state /\ at \in {"yield", "sys"} /\ inService = isr0 /\ frame[onCpu].pc = "run"
           \/ st = state /\ at = "irq" /\ inService = TRUE /\ ~isr0
           \/ st = [state EXCEPT ![current] = "UNUSED"] /\ at = "exit" /\ inService = isr0
              /\ frame[onCpu].pc = "run",
           Reschedule(st, at, inService)
    PROVE  (cpu' = "on" => Stacked(home, height)') /\ KilledStaysDead' /\ NoSpuriousEoi' /\ pid' = pid
<1> DEFINE T == [thread |-> onCpu, at |-> at]
<1>1. UNCHANGED <<pid, next_pid, frame, killed>>
  BY RescheduleOutcome DEF taskVars
<1>t. /\ onCpu \in Pids /\ current \in Slots /\ NULL \notin Slots
      /\ state \in [Slots -> States] /\ rsp \in [Slots -> Contexts] /\ frame \in [Pids -> Frames]
  BY DEF Types
<1>e. /\ Top(home, height, onCpu, current) /\ state[current] # "READY"
      /\ frame[onCpu].pc \in {"search", "claim", "current"} => state[current] = "UNUSED"
      /\ frame[onCpu].pc \in {"load", "switch"} => frame[onCpu].next = current
  BY DEF Stacked, Executes
<1>2. CASE state' = st /\ UNCHANGED <<rsp, current, onCpu, isr0>>
           /\ ((cpu' = cpu /\ at # "exit") \/ cpu' \in {"halted", "hung"})
  <2>1. \A i \in Slots : state'[i] = "READY" <=> state[i] = "READY"
    BY <1>t, <1>e, <1>2
  <2>2. KilledStaysDead' /\ NoSpuriousEoi'
    BY <1>1, <1>2, <2>1 DEF KilledStaysDead, NoSpuriousEoi
  <2>3. CASE cpu' = cpu /\ at # "exit"
    <3>1. Stacked(home, height)'
      BY <1>1, <1>2, <2>3, StackStays
    <3> QED BY <1>1, <2>2, <3>1
  <2>4. CASE cpu' \in {"halted", "hung"}
    BY <1>1, <2>2, <2>4
  <2> QED BY <1>2, <2>3, <2>4
<1>3. ASSUME NEW n \in Slots, n # current, st[n] = "READY", state' = Switched(st, n),
             rsp' = Saved(current, n, at), current' = n, onCpu' = rsp[n].thread,
             isr0' = StillInService(inService, rsp[n]), cpu' = cpu
      PROVE  Stacked(home, height)'
  <2> DEFINE q == rsp[n].thread
  <2>1. /\ \A i \in Slots : rsp'[i] = IF i = current THEN T ELSE rsp[i]
        /\ state[n] = "READY" /\ state'[n] = "RUNNING"
        /\ \A i \in Slots \ {n, current} : state'[i] = state[i]
        /\ state'[current] = "READY" => at # "exit" /\ state[current] = "RUNNING"
        /\ state'[current] = "UNUSED" \/ state[current] # "UNUSED"
        /\ state' \in [Slots -> States]
    BY <1>t, <1>e, <1>3 DEF Saved, Switched, States
  <2>2. q \in Pids /\ Top(home, height, q, n) /\ Sound(rsp[n], n) /\ home[q] # NULL
    BY <1>t, <2>1 DEF Types, Stacked, Lives, Top
  <2>3. /\ frame[q].pc \in {"run", "parked", "idle", "load", "switch"}
        /\ frame[q].pc \in {"load", "switch"} => frame[q].next = n /\ rsp[n].at = "irq"
    BY <2>2 DEF Sound
  <2>4. Lives(home, height)'
    <3>1. \A p, r \in Pids : home[p] # NULL /\ home[p] = home[r] /\ height[p] = height[r] => p = r
      BY DEF Stacked, Lives
    <3>2. \A i \in Slots : state'[i] # "UNUSED" => state[i] # "UNUSED"
      BY <2>1
    <3>3. \A p \in Pids : home[p] # NULL =>
            /\ p < next_pid' /\ p \notin killed'
            /\ IF frame'[p].pc \in {"run", "parked"} THEN pid'[home[p]] = p ELSE Gone(p)'
      BY <1>1, <3>2 DEF Stacked, Lives, Gone
    <3>4. ASSUME NEW i \in Slots, state'[i] = "READY"
          PROVE  Top(home, height, rsp'[i].thread, i) /\ Sound(rsp'[i], i)
      <4>1. CASE i = current
        <5>1. T.thread = onCpu /\ T.at = at /\ rsp'[i] = T
          BY <2>1, <4>1
        <5>2. state[current] = "RUNNING" /\ at # "exit"
          BY <2>1, <3>4, <4>1
        <5>3. frame[onCpu].pc \in {"run", "parked", "idle"} \/
                (frame[onCpu].pc \in {"load", "switch"} /\ frame[onCpu].next = i /\ at = "irq")
          <6>1. frame[onCpu].pc \in {"run", "parked", "search", "claim", "current", "load", "switch", "idle"}
            BY <1>t DEF Frames
          <6> QED BY <1>e, <4>1, <5>2, <6>1
        <5> HIDE DEF T
        <5> QED BY <1>e, <4>1, <5>1, <5>3 DEF Sound
      <4>2. CASE i # current
        BY <1>3, <2>1, <3>4, <4>2 DEF Stacked, Lives
      <4> QED BY <4>1, <4>2
    <3>5. \A i \in Slots : state'[i] = "READY" =>
            Top(home, height, rsp[i].thread, i)' /\ Sound(rsp[i], i)'
      BY <1>1, <3>4 DEF Sound, Top
    <3> QED BY <1>1, <3>1, <3>3, <3>5, Zenon DEF Lives
  <2>5. Loaded(home, height)'
    BY <1>1 DEF Stacked, Loaded, Sound
  <2>6. Executes(home, height)'
    <3>1. onCpu' = q /\ current' = n /\ frame' = frame /\ rsp'[n] = rsp[n] /\ state'[n] = "RUNNING"
      BY <1>1, <1>3, <2>1
    <3> HIDE DEF q
    <3>2. frame[q].pc = "load" => rsp'[frame[q].next].thread = q
      BY <2>3, <3>1 DEF q
    <3>3. frame[q].pc \notin {"search", "claim", "current"}
      BY <2>3
    <3> QED BY <2>2, <2>3, <3>1, <3>2, <3>3 DEF Executes, Top
  <2>7. Started0'
    BY <1>1 DEF Stacked, Started0
  <2>8. \A i \in Slots : Owes(i)' => (i = current /\ at = "irq") \/ (i # current /\ i # n /\ Owes(i))
    BY <2>1 DEF Owes
  <2>9. isr0' = (inService /\ rsp[n].at # "irq")
    BY <1>3 DEF StillInService
  <2>10. \A p \in Pids : ~(frame[p].pc = "switch" /\ frame[p].sp.thread # p /\ frame[p].sp.at = "irq")
    BY DEF Stacked, Eoi
  <2>11. \A i, j \in Slots : Owes(i) => isr0 /\ (Owes(j) => i = j)
    BY DEF Stacked, Eoi
  <2>12. \A i, j \in Slots : Owes(i)' => isr0' /\ (Owes(j)' => i = j)
    <3>1. CASE at = "irq"
      <4>1. \A i \in Slots : Owes(i)' => i = current
        BY <2>8, <2>11, <3>1
      <4>2. isr0'
        BY <2>1, <2>9, <2>11, <3>1 DEF Owes
      <4> QED BY <4>1, <4>2
    <3>2. CASE at # "irq"
      <4>1. \A i \in Slots : Owes(i)' => i # n /\ Owes(i)
        BY <2>8, <3>2
      <4>2. \A i \in Slots : Owes(i)' => isr0'
        BY <2>1, <2>9, <2>11, <3>2, <4>1 DEF Owes
      <4> QED BY <2>11, <4>1, <4>2
    <3> QED BY <3>1, <3>2
  <2>13. Eoi'
    <3>1. onCpu' = q /\ frame' = frame
      BY <1>1, <1>3
    <3>2. frame[q].pc \in {"load", "switch"} => ~isr0'
      BY <2>3, <2>9
    <3>3. frame[q].pc = "load" => rsp'[frame[q].next].thread = q
      BY <1>3, <2>1, <2>3
    <3> HIDE DEF q
    <3>4. frame[q].pc # "current"
      BY <2>3
    <3> QED BY <2>10, <2>12, <3>1, <3>2, <3>3, <3>4 DEF Eoi, Owes
  <2> QED BY <2>4, <2>5, <2>6, <2>7, <2>13 DEF Stacked
<1> QED BY <1>1, <1>2, <1>3, RescheduleOutcome, StackedGivesNext

\* Nobody else holds the context of the thread that executes.
LEMMA OnCpuAlone ==
    ASSUME Types, NEW home, NEW height, Stacked(home, height)
    PROVE  /\ home[onCpu] = current /\ home[onCpu] # NULL
           /\ \A i \in Slots : state[i] = "READY" => rsp[i].thread \in Pids \ {onCpu}
           /\ \A p \in Pids : frame[p].pc = "switch" /\ frame[p].sp.thread # p /\ home[p] # NULL =>
                frame[p].sp.thread \in Pids \ {onCpu}
<1>1. home[onCpu] = current /\ current # NULL /\ state[current] # "READY"
      /\ \A q \in Pids : home[q] = current => height[q] <= height[onCpu]
  BY DEF Types, Stacked, Executes, Top
<1>2. \A i \in Slots : state[i] = "READY" => rsp[i].thread # onCpu
  BY <1>1 DEF Stacked, Lives, Top
<1>3. ASSUME NEW p \in Pids, frame[p].pc = "switch", frame[p].sp.thread # p, home[p] # NULL
      PROVE  frame[p].sp.thread # onCpu
  <2>1. home[frame[p].sp.thread] = home[p] /\ height[p] = height[frame[p].sp.thread] + 1
    BY <1>3 DEF Stacked, Loaded
  <2>2. height[p] \in Nat /\ height[onCpu] \in Nat
    BY DEF Stacked, Types
  <2> SUFFICES ASSUME frame[p].sp.thread = onCpu PROVE FALSE
    OBVIOUS
  <2>3. home[p] = current /\ height[p] = height[onCpu] + 1
    BY <1>1, <2>1
  <2> QED BY <1>1, <2>2, <2>3
<1> QED BY <1>1, <1>2, <1>3 DEF Types

\* The context a frame has loaded is another thread's, the next below p in i.
Beneath(home, height, c, p, i) ==
    /\ c.thread \in Pids /\ home[c.thread] = i /\ height[p] = height[c.thread] + 1
    /\ Sound(c, i)

\* The thread that executes goes on to the frame f; every other thread stays as
\* it is, and no task becomes READY.
LEMMA FrameMoves ==
    ASSUME Types, NEW home, NEW height, Stacked(home, height), NEW f \in Frames,
           frame' = [frame EXCEPT ![onCpu] = f], UNCHANGED <<pid, next_pid, killed, onCpu, rsp>>,
           \A i \in Slots : (state'[i] = "READY" => state[i] = "READY")
                            /\ (state'[i] # "UNUSED" => state[i] # "UNUSED"),
           IF f.pc \in {"run", "parked"} THEN pid[current] = onCpu ELSE Gone(onCpu)',
           f.pc \in {"load", "switch"} => f.old # f.next,
           f.pc = "switch" /\ f.sp.thread # onCpu => Beneath(home, height, f.sp, onCpu, current)
    PROVE  /\ Lives(home, height)' /\ Loaded(home, height)' /\ Started0'
           /\ frame'[onCpu] = f /\ \A q \in Pids \ {onCpu} : frame'[q] = frame[q]
           /\ \A c, i : c.thread \in Pids \ {onCpu} /\ Sound(c, i) => Sound(c, i)'
<1>1. frame'[onCpu] = f /\ \A q \in Pids \ {onCpu} : frame'[q] = frame[q]
  BY DEF Types
<1>2. ASSUME NEW c, NEW i, c.thread \in Pids \ {onCpu}, Sound(c, i) PROVE Sound(c, i)'
  BY <1>1, <1>2 DEF Sound
<1>3. Lives(home, height)'
  <2>1. ASSUME NEW p \in Pids, home[p] # NULL
        PROVE  /\ p < next_pid' /\ p \notin killed'
               /\ IF frame'[p].pc \in {"run", "parked"} THEN pid'[home[p]] = p ELSE Gone(p)'
    <3>1. p < next_pid /\ p \notin killed
          /\ IF frame[p].pc \in {"run", "parked"} THEN pid[home[p]] = p ELSE Gone(p)
      BY <2>1 DEF Stacked, Lives
    <3>2. CASE p = onCpu
      BY <1>1, <3>1, <3>2, OnCpuAlone
    <3>3. CASE p # onCpu
      <4>1. Gone(p) => Gone(p)'
        BY DEF Gone
      <4> QED BY <1>1, <3>1, <3>3, <4>1
    <3> QED BY <3>2, <3>3
  <2>2. ASSUME NEW i \in Slots, state'[i] = "READY"
        PROVE  Top(home, height, rsp[i].thread, i)' /\ Sound(rsp[i], i)'
    <3>1. Top(home, height, rsp[i].thread, i) /\ Sound(rsp[i], i) /\ rsp[i].thread \in Pids \ {onCpu}
      BY <2>2, OnCpuAlone DEF Stacked, Lives
    <3> QED BY <1>1, <3>1 DEF Top, Sound
  <2>3. \A p, q \in Pids : home[p] # NULL /\ home[p] = home[q] /\ height[p] = height[q] => p = q
    BY DEF Stacked, Lives
  <2> QED BY <2>1, <2>2, <2>3 DEF Lives
<1>4. Loaded(home, height)'
  <2> SUFFICES ASSUME NEW p \in Pids, frame'[p].pc = "switch", frame'[p].sp.thread # p, home[p] # NULL
               PROVE  /\ home[frame'[p].sp.thread] = home[p]
                      /\ height[p] = height[frame'[p].sp.thread] + 1
                      /\ Sound(frame[p].sp, home[p])'
    BY DEF Loaded
  <2>1. CASE p = onCpu
    <3>1. f.pc = "switch" /\ f.sp.thread # onCpu /\ f.sp.thread \in Pids \ {onCpu}
      BY <1>1, <2>1 DEF Beneath
    <3>2. home[onCpu] = current
      BY OnCpuAlone
    <3> QED BY <1>1, <2>1, <3>1, <3>2 DEF Sound, Beneath
  <2>2. CASE p # onCpu
    <3>1. frame[p].pc = "switch" /\ frame[p].sp.thread # p /\ frame'[p] = frame[p]
      BY <1>1, <2>2
    <3>2. frame[p].sp.thread \in Pids \ {onCpu}
      BY <3>1, OnCpuAlone
    <3>3. /\ home[frame[p].sp.thread] = home[p] /\ height[p] = height[frame[p].sp.thread] + 1
          /\ Sound(frame[p].sp, home[p])
      BY <3>1 DEF Stacked, Loaded
    <3> QED BY <1>1, <3>1, <3>2, <3>3 DEF Sound
  <2> QED BY <2>1, <2>2
<1>5. Started0'
  <2>1. onCpu < next_pid /\ onCpu \in Nat /\ next_pid \in Nat
    BY OnCpuAlone DEF Stacked, Lives, Types
  <2>2. \A p \in Pids : p >= next_pid => frame'[p] = NewFrame
    BY <1>1, <2>1 DEF Stacked, Started0
  <2>3. \A p \in Pids : frame'[p].pc \in {"load", "switch"} => frame'[p].old # frame'[p].next
    BY <1>1 DEF Stacked, Started0
  <2> QED BY <2>2, <2>3 DEF Stacked, Started0
<1> QED BY <1>1, <1>2, <1>3, <1>4, <1>5

\* The steps of an exit up to the claim, and main's parking: home stays.
LEMMA ExitMarkStack ==
    ASSUME Types, PidsDistinct, NEW home, NEW height, Stacked(home, height), ExitMark
    PROVE  Stacked(home, height)'
<1> DEFINE f == [frame[onCpu] EXCEPT !.pc = "search"]
<1>1. /\ frame[onCpu].pc = "run" /\ state' = [state EXCEPT ![current] = "UNUSED"]
      /\ frame' = [frame EXCEPT ![onCpu] = f] /\ UNCHANGED <<rsp, current, onCpu, isr0, pid, next_pid, killed>>
  BY DEF ExitMark, At, Step, taskVars
<1>2. f \in Frames /\ f.pc = "search"
  BY DEF Types, Frames
<1>3. state'[current] = "UNUSED" /\ \A i \in Slots : state'[i] \in {state[i], "UNUSED"}
  BY <1>1 DEF Types
<1>4. Gone(onCpu)'
  <2>1. pid[current] = onCpu
    BY <1>1, OnCpuAlone DEF Stacked, Lives, Types
  <2>2. \A i \in Slots : pid[i] = onCpu => i = current
    BY <2>1 DEF PidsDistinct, Types, Pids
  <2> QED BY <1>1, <1>3, <2>2 DEF Gone
<1> HIDE DEF f
<1>5. /\ Lives(home, height)' /\ Loaded(home, height)' /\ Started0'
      /\ frame'[onCpu] = f /\ \A q \in Pids \ {onCpu} : frame'[q] = frame[q]
  BY <1>1, <1>2, <1>3, <1>4, FrameMoves
<1>6. Executes(home, height)'
  BY <1>1, <1>2, <1>3, <1>5 DEF Stacked, Executes, Top
<1>7. Eoi'
  <2>1. \A i \in Slots : Owes(i)' => Owes(i)
    BY <1>1, <1>3 DEF Owes
  <2>2. \A i, j \in Slots : Owes(i) => isr0 /\ (Owes(j) => i = j)
    BY DEF Stacked, Eoi
  <2>3. \A p \in Pids : ~(frame[p].pc = "switch" /\ frame[p].sp.thread # p /\ frame[p].sp.at = "irq")
    BY <1>1 DEF Stacked, Eoi
  <2>4. \A p \in Pids : ~(frame'[p].pc = "switch" /\ frame'[p].sp.thread # p /\ frame'[p].sp.at = "irq")
    BY <1>2, <1>5, <2>3
  <2> QED BY <1>1, <1>2, <1>5, <2>1, <2>2, <2>4 DEF Eoi
<1> QED BY <1>5, <1>6, <1>7 DEF Stacked

LEMMA ExitSearchStack ==
    ASSUME Types, NEW home, NEW height, Stacked(home, height), ExitSearch
    PROVE  Stacked(home, height)'
<1>1. /\ frame[onCpu].pc = "search"
      /\ UNCHANGED <<state, rsp, current, onCpu, isr0, pid, next_pid, killed>>
  BY DEF ExitSearch, At, taskVars
<1>2. Gone(onCpu)'
  <2>1. Gone(onCpu)
    BY <1>1, OnCpuAlone DEF Stacked, Lives, Types
  <2> QED BY <1>1, <2>1 DEF Gone
<1>3. PICK f \in Frames :
        /\ frame' = [frame EXCEPT ![onCpu] = f]
        /\ \/ f.pc = "idle"
           \/ f.pc = "claim" /\ f.next # current /\ f.next \in Slots /\ state[f.next] = "READY"
  <2>1. ASSUME NEW n \in Slots, Picks(state, n), Step([frame[onCpu] EXCEPT !.pc = "claim", !.next = n])
        PROVE  \E f \in Frames :
                 /\ frame' = [frame EXCEPT ![onCpu] = f]
                 /\ f.pc = "claim" /\ f.next # current /\ f.next \in Slots /\ state[f.next] = "READY"
    <3> DEFINE f == [frame[onCpu] EXCEPT !.pc = "claim", !.next = n]
    <3>1. f \in Frames /\ f.pc = "claim" /\ f.next = n
      BY DEF Types, Frames
    <3> QED BY <2>1, <3>1 DEF Step, Picks
  <2>2. ASSUME Step([frame[onCpu] EXCEPT !.pc = "idle"])
        PROVE  \E f \in Frames : frame' = [frame EXCEPT ![onCpu] = f] /\ f.pc = "idle"
    <3> DEFINE f == [frame[onCpu] EXCEPT !.pc = "idle"]
    <3>1. f \in Frames /\ f.pc = "idle"
      BY DEF Types, Frames
    <3> QED BY <2>2, <3>1 DEF Step
  <2> QED BY <2>1, <2>2 DEF ExitSearch
<1>4. /\ Lives(home, height)' /\ Loaded(home, height)' /\ Started0'
      /\ frame'[onCpu] = f /\ \A q \in Pids \ {onCpu} : frame'[q] = frame[q]
  BY <1>1, <1>2, <1>3, FrameMoves
<1>5. Executes(home, height)'
  BY <1>1, <1>3, <1>4 DEF Stacked, Executes, Top
<1>6. Eoi'
  <2>1. \A i \in Slots : Owes(i)' => Owes(i)
    BY <1>1 DEF Owes
  <2>2. \A i, j \in Slots : Owes(i) => isr0 /\ (Owes(j) => i = j)
    BY DEF Stacked, Eoi
  <2>3. \A p \in Pids : ~(frame[p].pc = "switch" /\ frame[p].sp.thread # p /\ frame[p].sp.at = "irq")
    BY <1>1 DEF Stacked, Eoi
  <2>4. \A p \in Pids : ~(frame'[p].pc = "switch" /\ frame'[p].sp.thread # p /\ frame'[p].sp.at = "irq")
    BY <1>3, <1>4, <2>3
  <2> QED BY <1>1, <1>3, <1>4, <2>1, <2>2, <2>4 DEF Eoi
<1> QED BY <1>4, <1>5, <1>6 DEF Stacked

LEMMA ExitClaimStack ==
    ASSUME Types, NEW home, NEW height, Stacked(home, height), ExitClaim
    PROVE  Stacked(home, height)'
<1> DEFINE f == [frame[onCpu] EXCEPT !.pc = "current"]
<1>n. PICK n : n = frame[onCpu].next
  OBVIOUS
<1>1. /\ frame[onCpu].pc = "claim" /\ state' = [state EXCEPT ![n] = "RUNNING"]
      /\ frame' = [frame EXCEPT ![onCpu] = f] /\ UNCHANGED <<rsp, current, onCpu, isr0, pid, next_pid, killed>>
  BY <1>n DEF ExitClaim, At, Step, taskVars
<1>2. f \in Frames /\ f.pc = "current" /\ f.next = n /\ n \in Slots
  BY <1>n DEF Types, Frames
<1>3. n # current /\ state[n] = "READY" /\ state[current] = "UNUSED"
  BY <1>1, <1>n DEF Stacked, Executes
<1> HIDE DEF f
<1>4. state'[n] = "RUNNING" /\ \A i \in Slots \ {n} : state'[i] = state[i]
  BY <1>1, <1>2 DEF Types
<1>5. Gone(onCpu)'
  <2>1. Gone(onCpu)
    BY <1>1, OnCpuAlone DEF Stacked, Lives, Types
  <2> QED BY <1>1, <1>3, <1>4, <2>1 DEF Gone
<1>6. /\ Lives(home, height)' /\ Loaded(home, height)' /\ Started0'
      /\ frame'[onCpu] = f /\ \A q \in Pids \ {onCpu} : frame'[q] = frame[q]
      /\ \A c, i : c.thread \in Pids \ {onCpu} /\ Sound(c, i) => Sound(c, i)'
  BY <1>1, <1>2, <1>3, <1>4, <1>5, FrameMoves
<1>7. Top(home, height, rsp[n].thread, n) /\ Sound(rsp[n], n) /\ rsp[n].thread \in Pids \ {onCpu}
  BY <1>2, <1>3, OnCpuAlone DEF Stacked, Lives
<1>8. Sound(rsp[n], n)'
  BY <1>1, <1>6, <1>7 DEF Sound
<1>9. Executes(home, height)'
  <2>1. Top(home, height, onCpu, current)
    BY DEF Stacked, Executes
  <2>2. current \in Slots /\ onCpu \in Pids
    BY DEF Types
  <2>3. frame'[onCpu'].pc = "current" /\ frame'[onCpu'].next = n /\ rsp' = rsp /\ current' = current
        /\ state'[current'] = "UNUSED" /\ onCpu' = onCpu
    BY <1>1, <1>2, <1>3, <1>4, <1>6, <2>2
  <2> QED BY <1>3, <1>4, <1>7, <1>8, <2>1, <2>3 DEF Executes, Top, Sound
<1>10. Eoi'
  <2>1. \A i \in Slots : Owes(i)' => Owes(i) /\ i # n
    BY <1>1, <1>4 DEF Owes
  <2>2. \A i, j \in Slots : Owes(i) => isr0 /\ (Owes(j) => i = j)
    BY DEF Stacked, Eoi
  <2>3. \A p \in Pids : ~(frame[p].pc = "switch" /\ frame[p].sp.thread # p /\ frame[p].sp.at = "irq")
    BY <1>1 DEF Stacked, Eoi
  <2>4. \A p \in Pids : ~(frame'[p].pc = "switch" /\ frame'[p].sp.thread # p /\ frame'[p].sp.at = "irq")
    BY <1>2, <1>6, <2>3
  <2>5. rsp[n].at = "irq" => isr0 /\ \A i \in Slots : ~Owes(i)'
    BY <1>2, <1>3, <2>1, <2>2 DEF Owes
  <2> QED BY <1>1, <1>2, <1>6, <2>1, <2>2, <2>4, <2>5 DEF Eoi
<1> QED BY <1>6, <1>9, <1>10 DEF Stacked

LEMMA ExitLoadStack ==
    ASSUME Types, NEW home, NEW height, Stacked(home, height), ExitLoad
    PROVE  Stacked(home, height)'
<1> DEFINE ctx == rsp[frame[onCpu].next]
<1>1. /\ frame[onCpu].pc = "load"
      /\ UNCHANGED <<state, rsp, current, onCpu, isr0, pid, next_pid, killed>>
  BY DEF ExitLoad, At, taskVars
<1>2. PICK f \in Frames :
        /\ frame' = [frame EXCEPT ![onCpu] = f]
        /\ f.pc = "switch" /\ f.next = frame[onCpu].next /\ f.sp = ctx /\ f.old = frame[onCpu].old
  <2> DEFINE f == [frame[onCpu] EXCEPT !.pc = "switch", !.sp = ctx]
  <2>1. f \in Frames /\ f.pc = "switch" /\ f.next = frame[onCpu].next /\ f.sp = ctx /\ f.old = frame[onCpu].old
    BY DEF Types, Frames
  <2> QED BY <2>1 DEF ExitLoad, Step
<1>3. /\ frame[onCpu].next = current /\ frame[onCpu].old # frame[onCpu].next
      /\ state[current] = "RUNNING" /\ Top(home, height, onCpu, current)
      /\ ctx.thread # onCpu => home[ctx.thread] = current /\ height[onCpu] = height[ctx.thread] + 1
                             /\ Sound(ctx, current)
      /\ ctx.thread \in Pids
  BY <1>1 DEF Stacked, Executes, Started0, Types
<1>c. ctx = rsp[current]
  BY <1>3
<1> HIDE DEF ctx
<1>4. Gone(onCpu)'
  <2>1. Gone(onCpu)
    BY <1>1, OnCpuAlone DEF Stacked, Lives, Types
  <2> QED BY <1>1, <2>1 DEF Gone
<1>5. /\ Lives(home, height)' /\ Loaded(home, height)' /\ Started0'
      /\ frame'[onCpu] = f /\ \A q \in Pids \ {onCpu} : frame'[q] = frame[q]
  <2>1. f.pc = "switch" /\ f.sp.thread # onCpu => Beneath(home, height, f.sp, onCpu, current)
    BY <1>2, <1>3 DEF Beneath
  <2>2. /\ IF f.pc \in {"run", "parked"} THEN pid[current] = onCpu ELSE Gone(onCpu)'
        /\ f.pc \in {"load", "switch"} => f.old # f.next
    BY <1>2, <1>3, <1>4
  <2>3. \A i \in Slots : (state'[i] = "READY" => state[i] = "READY")
                         /\ (state'[i] # "UNUSED" => state[i] # "UNUSED")
    BY <1>1
  <2>4. /\ f \in Frames /\ frame' = [frame EXCEPT ![onCpu] = f]
        /\ UNCHANGED <<pid, next_pid, killed, onCpu, rsp>>
    BY <1>1, <1>2
  <2> QED BY <2>1, <2>2, <2>3, <2>4, FrameMoves
<1>6. Executes(home, height)'
  BY <1>1, <1>2, <1>3, <1>5 DEF Executes, Top
<1>7. Eoi'
  <2>1. \A i \in Slots : Owes(i)' <=> Owes(i)
    BY <1>1 DEF Owes
  <2>2. \A i, j \in Slots : Owes(i) => isr0 /\ (Owes(j) => i = j)
    BY DEF Stacked, Eoi
  <2>3. \A p \in Pids : ~(frame[p].pc = "switch" /\ frame[p].sp.thread # p /\ frame[p].sp.at = "irq")
    BY <1>1 DEF Stacked, Eoi
  <2>4. /\ ctx.thread # onCpu /\ ctx.at = "irq" => isr0 /\ \A i \in Slots : ~Owes(i)
        /\ ctx.thread = onCpu => ~isr0
    BY <1>1 DEF Stacked, Eoi, ctx
  <2>5. \A p \in Pids : frame'[p].pc = "switch" /\ frame'[p].sp.thread # p /\ frame'[p].sp.at = "irq" =>
          p = onCpu' /\ isr0' /\ rsp'[frame'[onCpu'].next] = frame'[onCpu'].sp /\ \A i \in Slots : ~Owes(i)'
    BY <1>1, <1>2, <1>3, <1>5, <1>c, <2>1, <2>3, <2>4
  <2> QED BY <1>1, <1>2, <1>5, <2>1, <2>2, <2>4, <2>5 DEF Eoi
<1> QED BY <1>5, <1>6, <1>7 DEF Stacked

\* current moves to the next slot: the thread that exits is now on top of the
\* task it will switch to.
LEMMA ExitSetCurrentStack ==
    ASSUME Types, NEW home, NEW height, Stacked(home, height), ExitSetCurrent
    PROVE  \E h, g : Stacked(h, g)'
<1>n. PICK n : n = frame[onCpu].next
  OBVIOUS
<1>q. PICK q : q = rsp[n].thread
  OBVIOUS
<1>1. /\ frame[onCpu].pc = "current" /\ current' = n
      /\ UNCHANGED <<state, rsp, onCpu, isr0, pid, next_pid, killed>>
  BY <1>n DEF ExitSetCurrent, At, taskVars
<1>2. PICK f \in Frames :
        /\ frame' = [frame EXCEPT ![onCpu] = f]
        /\ f.pc = "load" /\ f.next = n /\ f.old = current
  <2> DEFINE f == [frame[onCpu] EXCEPT !.pc = "load", !.old = current]
  <2>1. f \in Frames /\ f.pc = "load" /\ f.next = n /\ f.old = current
    BY <1>n DEF Types, Frames
  <2> QED BY <2>1 DEF ExitSetCurrent, Step
<1>3. frame'[onCpu] = f /\ \A p \in Pids \ {onCpu} : frame'[p] = frame[p]
  BY <1>2 DEF Types
<1>4. /\ n # current /\ n \in Slots /\ state[n] = "RUNNING" /\ state[current] = "UNUSED"
      /\ Top(home, height, q, n) /\ Sound(rsp[n], n) /\ q \in Pids
  BY <1>1, <1>n, <1>q DEF Stacked, Executes, Types
<1>5. /\ home[onCpu] = current /\ onCpu \in Pids /\ q # onCpu /\ n # NULL /\ home[q] = n
      /\ home \in [Pids -> Slots \cup {NULL}] /\ height \in [Pids -> Nat]
  BY <1>4, OnCpuAlone DEF Top, Types, Stacked
<1>h. PICK h, g : h = [home EXCEPT ![onCpu] = n] /\ g = [height EXCEPT ![onCpu] = height[q] + 1]
  OBVIOUS
<1>6. /\ h \in [Pids -> Slots \cup {NULL}] /\ g \in [Pids -> Nat]
      /\ h[onCpu] = n /\ g[onCpu] = height[q] + 1
      /\ \A p \in Pids \ {onCpu} : h[p] = home[p] /\ g[p] = height[p]
  BY <1>4, <1>5, <1>h
<1>7. \A p \in Pids : home[p] = n => height[p] <= height[q]
  BY <1>4 DEF Top
<1>8. ASSUME NEW c, NEW i, c.thread \in Pids \ {onCpu}, Sound(c, i) PROVE Sound(c, i)'
  BY <1>3, <1>8 DEF Sound
<1>9. Lives(h, g)'
  <2>1. \A p, r \in Pids : h[p] # NULL /\ h[p] = h[r] /\ g[p] = g[r] => p = r
    <3>1. \A p \in Pids \ {onCpu} : h[p] = n => g[p] # g[onCpu]
      <4> SUFFICES ASSUME NEW p \in Pids \ {onCpu}, h[p] = n PROVE g[p] # g[onCpu]
        OBVIOUS
      <4>1. height[p] <= height[q] /\ g[p] = height[p] /\ height[p] \in Nat /\ height[q] \in Nat
        BY <1>4, <1>5, <1>6, <1>7
      <4> QED BY <1>6, <4>1
    <3>2. \A p, r \in Pids \ {onCpu} : h[p] # NULL /\ h[p] = h[r] /\ g[p] = g[r] => p = r
      BY <1>6 DEF Stacked, Lives
    <3> QED BY <1>5, <1>6, <3>1, <3>2
  <2>2. ASSUME NEW p \in Pids, h[p] # NULL
        PROVE  /\ p < next_pid' /\ p \notin killed'
               /\ IF frame'[p].pc \in {"run", "parked"} THEN pid'[h[p]] = p ELSE Gone(p)'
    <3>1. home[p] # NULL
      BY <1>5, <1>6, <2>2, OnCpuAlone
    <3>2. p < next_pid /\ p \notin killed
          /\ IF frame[p].pc \in {"run", "parked"} THEN pid[home[p]] = p ELSE Gone(p)
      BY <3>1 DEF Stacked, Lives
    <3>3. Gone(p) => Gone(p)'
      BY <1>1 DEF Gone
    <3>4. CASE p = onCpu
      BY <1>1, <1>2, <1>3, <3>2, <3>3, <3>4
    <3>5. CASE p # onCpu
      BY <1>1, <1>3, <1>6, <3>2, <3>3, <3>5
    <3> QED BY <3>4, <3>5
  <2>3. ASSUME NEW i \in Slots, state'[i] = "READY"
        PROVE  Top(h, g, rsp[i].thread, i)' /\ Sound(rsp[i], i)'
    <3>1. /\ Top(home, height, rsp[i].thread, i) /\ Sound(rsp[i], i) /\ rsp[i].thread \in Pids \ {onCpu}
          /\ i # n
      BY <1>1, <1>4, <2>3, OnCpuAlone DEF Stacked, Lives
    <3>2. PICK t \in Pids \ {onCpu} : t = rsp[i].thread
      BY <3>1
    <3>3. Top(h, g, t, i)
      BY <1>6, <3>1, <3>2 DEF Top
    <3>4. Sound(rsp[i], i)'
      BY <1>1, <1>3, <3>1 DEF Sound
    <3> QED BY <1>1, <3>2, <3>3, <3>4 DEF Top
  <2> QED BY <2>1, <2>2, <2>3 DEF Lives
<1>10. Loaded(h, g)'
  <2> SUFFICES ASSUME NEW p \in Pids, frame'[p].pc = "switch", frame'[p].sp.thread # p, h[p] # NULL
               PROVE  /\ h[frame'[p].sp.thread] = h[p]
                      /\ g[p] = g[frame'[p].sp.thread] + 1
                      /\ Sound(frame[p].sp, h[p])'
    BY DEF Loaded
  <2>1. p # onCpu
    BY <1>2, <1>3
  <2>2. frame[p].pc = "switch" /\ frame[p].sp.thread # p /\ frame'[p] = frame[p] /\ home[p] = h[p]
    BY <1>3, <1>6, <2>1
  <2>3. frame[p].sp.thread \in Pids \ {onCpu}
    BY <2>2, OnCpuAlone
  <2>4. /\ home[frame[p].sp.thread] = home[p] /\ height[p] = height[frame[p].sp.thread] + 1
        /\ Sound(frame[p].sp, home[p])
    BY <2>2 DEF Stacked, Loaded
  <2> QED BY <1>3, <1>6, <2>1, <2>2, <2>3, <2>4 DEF Sound
<1>11. Executes(h, g)'
  <2>1. Top(h, g, onCpu, n)
    <3> SUFFICES ASSUME NEW p \in Pids, h[p] = n PROVE g[p] <= g[onCpu]
      BY <1>6 DEF Top
    <3>1. CASE p = onCpu
      BY <1>4, <1>5, <1>6, <3>1
    <3>2. CASE p # onCpu
      <4>1. height[p] <= height[q] /\ g[p] = height[p] /\ height[p] \in Nat /\ height[q] \in Nat
        BY <1>4, <1>5, <1>6, <1>7, <3>2
      <4> QED BY <1>6, <4>1
    <3> QED BY <3>1, <3>2
  <2>2. Sound(rsp[n], n)'
    BY <1>1, <1>3, <1>4, <1>5, <1>q DEF Sound
  <2>3. h[q] = n /\ g[onCpu] = g[q] + 1
    BY <1>4, <1>5, <1>6
  <2>4. /\ frame'[onCpu'].pc = "load" /\ frame'[onCpu'].next = n /\ rsp' = rsp /\ current' = n
        /\ state'[current'] = "RUNNING" /\ onCpu' = onCpu /\ rsp'[n].thread = q
    BY <1>1, <1>2, <1>3, <1>4, <1>q
  <2> QED BY <2>1, <2>2, <2>3, <2>4 DEF Executes, Top, Sound
<1>12. Started0'
  <2>1. onCpu < next_pid /\ onCpu \in Nat /\ next_pid \in Nat
    BY OnCpuAlone DEF Stacked, Lives, Types
  <2>2. \A p \in Pids : p >= next_pid => frame'[p] = NewFrame
    BY <1>3, <2>1 DEF Stacked, Started0
  <2>3. \A p \in Pids : frame'[p].pc \in {"load", "switch"} => frame'[p].old # frame'[p].next
    BY <1>2, <1>3, <1>4 DEF Stacked, Started0
  <2> QED BY <1>1, <2>2, <2>3 DEF Stacked, Started0
<1>13. Eoi'
  <2>1. \A i \in Slots : Owes(i)' <=> Owes(i)
    BY <1>1 DEF Owes
  <2>2. \A i, j \in Slots : Owes(i) => isr0 /\ (Owes(j) => i = j)
    BY DEF Stacked, Eoi
  <2>3. \A p \in Pids : ~(frame[p].pc = "switch" /\ frame[p].sp.thread # p /\ frame[p].sp.at = "irq")
    BY <1>1 DEF Stacked, Eoi
  <2>4. \A p \in Pids : ~(frame'[p].pc = "switch" /\ frame'[p].sp.thread # p /\ frame'[p].sp.at = "irq")
    BY <1>2, <1>3, <2>3
  <2>5. rsp[n].at = "irq" => isr0 /\ \A i \in Slots : ~Owes(i)'
    BY <1>1, <1>5, <1>n, <1>q, <2>1 DEF Stacked, Eoi
  <2> QED BY <1>1, <1>2, <1>3, <1>5, <1>q, <2>1, <2>2, <2>4, <2>5 DEF Eoi
<1>14. Stacked(h, g)'
  BY <1>6, <1>9, <1>10, <1>11, <1>12, <1>13 DEF Stacked
<1> QED BY <1>14


\* context_switch: the thread beneath goes on, and the one that exits leaves its
\* own context in the slot it came from, over whatever was saved there.
LEMMA ExitSwitchStack ==
    ASSUME Types, Types', NEW home, NEW height, Stacked(home, height), ExitSwitch
    PROVE  /\ (cpu' = "on" => \E h, g : Stacked(h, g)')
           /\ KilledStaysDead' /\ NoSpuriousEoi' /\ pid' = pid
<1>o. PICK old : old = frame[onCpu].old
  OBVIOUS
<1>t. PICK t : t = frame[onCpu].sp.thread
  OBVIOUS
<1>c. PICK sp : sp = frame[onCpu].sp
  OBVIOUS
<1>1. /\ cpu = "on" /\ frame[onCpu].pc = "switch" /\ onCpu' = t
      /\ rsp' = [rsp EXCEPT ![old] = [thread |-> onCpu, at |-> "exit"]]
      /\ isr0' = (isr0 /\ sp.at # "irq")
      /\ cpu' = IF t = onCpu THEN "wild" ELSE cpu
      /\ UNCHANGED <<state, current, pid, next_pid, killed>>
  BY <1>o, <1>t, <1>c DEF ExitSwitch, At, taskVars, Saved, StillInService
<1>2. PICK f \in Frames : frame' = [frame EXCEPT ![onCpu] = f] /\ f.pc = "idle"
  <2> DEFINE f == [frame[onCpu] EXCEPT !.pc = "idle"]
  <2>1. f \in Frames /\ f.pc = "idle"
    BY DEF Types, Frames
  <2> QED BY <2>1 DEF ExitSwitch, Step
<1>3. frame'[onCpu] = f /\ \A p \in Pids \ {onCpu} : frame'[p] = frame[p]
  BY <1>2 DEF Types
<1>4. /\ t \in Pids /\ old \in Slots /\ onCpu \in Pids /\ current \in Slots
      /\ isr0 \in BOOLEAN
  BY <1>1, <1>o, <1>t DEF Types
<1>5. /\ rsp'[old].thread = onCpu /\ rsp'[old].at = "exit"
      /\ \A i \in Slots \ {old} : rsp'[i] = rsp[i]
  BY <1>1, <1>4 DEF Types
<1>6. \A i \in Slots : Owes(i)' => Owes(i) /\ i # old
  BY <1>1, <1>5 DEF Owes
<1>7. \A i, j \in Slots : Owes(i) => isr0 /\ (Owes(j) => i = j)
  BY DEF Stacked, Eoi
<1>8. CASE t = onCpu
  <2>1. ~isr0 /\ onCpu \notin killed
    BY <1>1, <1>8, <1>t, StackedGives DEF Stacked, Eoi
  <2>2. \A i \in Slots : ~(state'[i] = "READY" /\ rsp'[i].at = "irq")
    BY <1>6, <1>7, <2>1 DEF Owes
  <2>3. NoSpuriousEoi'
    BY <2>2 DEF NoSpuriousEoi
  <2> QED BY <1>1, <1>8, <2>1, <2>3 DEF KilledStaysDead
<1>9. CASE t # onCpu
  <2>1. /\ home[onCpu] = current /\ current # NULL /\ old # current /\ state[current] = "RUNNING"
        /\ frame[onCpu].next = current /\ NULL \notin Slots
        /\ home \in [Pids -> Slots \cup {NULL}] /\ height \in [Pids -> Nat]
    BY <1>1, <1>4, <1>o, OnCpuAlone DEF Stacked, Executes, Started0, Types
  <2>2. /\ home[t] = current /\ height[onCpu] = height[t] + 1
        /\ Sound(sp, current) /\ sp.thread = t
    BY <1>1, <1>4, <1>9, <1>t, <1>c, <2>1 DEF Stacked, Loaded
  <2>3. /\ frame[t].pc \in {"run", "parked", "idle", "load", "switch"}
        /\ frame[t].pc \in {"load", "switch"} => frame[t].next = current /\ sp.at = "irq"
    BY <2>2 DEF Sound
  <2>4. sp.at = "irq" => rsp[current] = sp /\ \A i \in Slots : ~Owes(i)
    BY <1>1, <1>4, <1>9, <1>t, <1>c, <2>1 DEF Stacked, Eoi
  <2>h. PICK h, g : /\ h = [p \in Pids |-> IF p = onCpu THEN old ELSE IF home[p] = old THEN NULL ELSE home[p]]
                    /\ g = [height EXCEPT ![onCpu] = 0]
    OBVIOUS
  <2>5. h \in [Pids -> Slots \cup {NULL}] /\ g \in [Pids -> Nat]
    BY <1>4, <2>1, <2>h
  <2>6. /\ h[onCpu] = old
        /\ \A p \in Pids \ {onCpu} : /\ g[p] = height[p] /\ h[p] # old
                                     /\ h[p] # NULL => h[p] = home[p]
                                     /\ home[p] # old => h[p] = home[p]
    BY <1>4, <2>1, <2>h
  <2>7. Lives(h, g)'
    <3>1. \A p, r \in Pids : h[p] # NULL /\ h[p] = h[r] /\ g[p] = g[r] => p = r
      <4>1. \A p, r \in Pids \ {onCpu} : h[p] # NULL /\ h[p] = h[r] /\ g[p] = g[r] => p = r
        BY <2>6 DEF Stacked, Lives
      <4> QED BY <1>4, <2>6, <4>1
    <3>2. ASSUME NEW p \in Pids, h[p] # NULL
          PROVE  /\ p < next_pid' /\ p \notin killed'
                 /\ IF frame'[p].pc \in {"run", "parked"} THEN pid'[h[p]] = p ELSE Gone(p)'
      <4>1. home[p] # NULL
        BY <2>1, <2>6, <3>2
      <4>2. p < next_pid /\ p \notin killed
            /\ IF frame[p].pc \in {"run", "parked"} THEN pid[home[p]] = p ELSE Gone(p)
        BY <4>1 DEF Stacked, Lives
      <4>3. Gone(p) => Gone(p)'
        BY <1>1 DEF Gone
      <4>4. CASE p = onCpu
        BY <1>1, <1>2, <1>3, <4>2, <4>3, <4>4
      <4>5. CASE p # onCpu
        BY <1>1, <1>3, <2>6, <3>2, <4>2, <4>3, <4>5
      <4> QED BY <4>4, <4>5
    <3>3. ASSUME NEW i \in Slots, state'[i] = "READY"
          PROVE  Top(h, g, rsp[i].thread, i)' /\ Sound(rsp[i], i)'
      <4>1. CASE i = old
        <5>1. \A p \in Pids : h[p] = i => p = onCpu
          BY <2>6, <4>1
        <5>2. Top(h, g, onCpu, i)
          BY <1>4, <2>5, <2>6, <4>1, <5>1 DEF Top
        <5> QED BY <1>2, <1>3, <1>5, <4>1, <5>2 DEF Top, Sound
      <4>2. CASE i # old
        <5>1. Top(home, height, rsp[i].thread, i) /\ Sound(rsp[i], i) /\ rsp[i].thread \in Pids \ {onCpu}
          BY <1>1, <3>3, OnCpuAlone DEF Stacked, Lives
        <5>2. PICK u \in Pids \ {onCpu} : u = rsp[i].thread
          BY <5>1
        <5>3. i # NULL
          BY <2>1
        <5>4. Top(h, g, u, i)
          BY <2>6, <4>2, <5>1, <5>2, <5>3 DEF Top
        <5>5. Sound(rsp[i], i)'
          BY <1>1, <1>3, <1>5, <4>2, <5>1 DEF Sound
        <5> QED BY <1>5, <4>2, <5>2, <5>4, <5>5 DEF Top
      <4> QED BY <4>1, <4>2
    <3> QED BY <3>1, <3>2, <3>3 DEF Lives
  <2>8. Loaded(h, g)'
    <3> SUFFICES ASSUME NEW p \in Pids, frame'[p].pc = "switch", frame'[p].sp.thread # p, h[p] # NULL
                 PROVE  /\ h[frame'[p].sp.thread] = h[p]
                        /\ g[p] = g[frame'[p].sp.thread] + 1
                        /\ Sound(frame[p].sp, h[p])'
      BY DEF Loaded
    <3>1. p # onCpu
      BY <1>2, <1>3
    <3>2. /\ frame[p].pc = "switch" /\ frame[p].sp.thread # p /\ frame'[p] = frame[p]
          /\ home[p] = h[p] /\ h[p] # old
      BY <1>3, <2>6, <3>1
    <3>3. frame[p].sp.thread \in Pids \ {onCpu}
      BY <3>2, OnCpuAlone
    <3>4. /\ home[frame[p].sp.thread] = home[p] /\ height[p] = height[frame[p].sp.thread] + 1
          /\ Sound(frame[p].sp, home[p])
      BY <3>2 DEF Stacked, Loaded
    <3> QED BY <1>3, <2>6, <3>1, <3>2, <3>3, <3>4 DEF Sound
  <2>9. Executes(h, g)'
    <3>1. Top(h, g, t, current)
      <4>1. h[t] = current /\ g[t] = height[t]
        BY <1>4, <1>9, <2>1, <2>2, <2>6
      <4>2. ASSUME NEW p \in Pids, h[p] = current PROVE g[p] <= g[t]
        <5>1. p # onCpu /\ home[p] = current /\ g[p] = height[p]
          BY <2>1, <2>6, <4>2
        <5>2. height[p] <= height[onCpu] /\ height[p] # height[onCpu]
          BY <1>4, <2>1, <5>1 DEF Stacked, Executes, Lives, Top
        <5>3. height[p] \in Nat /\ height[t] \in Nat
          BY <1>4, <2>1
        <5> QED BY <2>2, <4>1, <5>1, <5>2, <5>3
      <4> QED BY <4>1, <4>2 DEF Top
    <3>2. frame'[t] = frame[t] /\ rsp'[current] = rsp[current]
      BY <1>3, <1>4, <1>5, <1>9, <2>1
    <3>3. frame[t].pc = "load" => rsp[current].thread = t
      BY <2>2, <2>3, <2>4
    <3>4. onCpu' = t /\ current' = current /\ state'[current] = "RUNNING"
      BY <1>1, <2>1
    <3> QED BY <2>3, <3>1, <3>2, <3>3, <3>4 DEF Executes, Top
  <2>10. Started0'
    <3>1. onCpu < next_pid /\ onCpu \in Nat /\ next_pid \in Nat
      BY OnCpuAlone DEF Stacked, Lives, Types
    <3>2. \A p \in Pids : p >= next_pid => frame'[p] = NewFrame
      BY <1>3, <3>1 DEF Stacked, Started0
    <3>3. \A p \in Pids : frame'[p].pc \in {"load", "switch"} => frame'[p].old # frame'[p].next
      BY <1>2, <1>3 DEF Stacked, Started0
    <3> QED BY <1>1, <3>2, <3>3 DEF Stacked, Started0
  <2>11. Eoi'
    <3>1. \A p \in Pids : frame[p].pc = "switch" /\ frame[p].sp.thread # p /\ frame[p].sp.at = "irq" => p = onCpu
      BY DEF Stacked, Eoi
    <3>2. \A p \in Pids : ~(frame'[p].pc = "switch" /\ frame'[p].sp.thread # p /\ frame'[p].sp.at = "irq")
      BY <1>2, <1>3, <3>1
    <3>3. \A i, j \in Slots : Owes(i)' => isr0' /\ (Owes(j)' => i = j)
      BY <1>1, <1>6, <1>7, <2>4
    <3>4. frame'[t] = frame[t] /\ rsp'[current] = rsp[current] /\ onCpu' = t
      BY <1>1, <1>3, <1>4, <1>5, <1>9, <2>1
    <3>5. frame[t].pc \in {"load", "switch"} => ~isr0'
      BY <1>1, <2>3
    <3>6. frame[t].pc = "load" => rsp[current].thread = t
      BY <2>2, <2>3, <2>4
    <3> QED BY <2>3, <3>2, <3>3, <3>4, <3>5, <3>6 DEF Eoi
  <2>12. Stacked(h, g)'
    BY <2>5, <2>7, <2>8, <2>9, <2>10, <2>11 DEF Stacked
  <2> QED BY <1>1, <2>12, StackedGivesNext
<1> QED BY <1>8, <1>9


\* Slot i is given out again: whoever still had a context there cannot be
\* resumed any more.
LEMMA TaskCreateStack ==
    ASSUME Types, Types', NEW home, NEW height, Stacked(home, height), frame[onCpu].pc = "run",
           NEW i \in Slots, state[i] = "UNUSED",
           pid' = [pid EXCEPT ![i] = next_pid], next_pid' = next_pid + 1,
           UNCHANGED <<current, onCpu, frame, isr0, killed>>,
           NEW made \in BOOLEAN,
           state' = IF made THEN [state EXCEPT ![i] = "READY"] ELSE state,
           rsp' = IF made THEN [rsp EXCEPT ![i] = [thread |-> next_pid, at |-> "new"]] ELSE rsp
    PROVE  \E h, g : Stacked(h, g)'
<1>n. PICK n : n = next_pid
  OBVIOUS
<1>1. /\ pid'[i] = n /\ \A j \in Slots \ {i} : pid'[j] = pid[j] /\ state'[j] = state[j] /\ rsp'[j] = rsp[j]
      /\ made => state'[i] = "READY" /\ rsp'[i].thread = n /\ rsp'[i].at = "new"
      /\ ~made => state'[i] = "UNUSED"
  BY <1>n DEF Types
<1>2. /\ home[onCpu] = current /\ state[current] = "RUNNING" /\ current # i /\ NULL \notin Slots
      /\ home \in [Pids -> Slots \cup {NULL}] /\ height \in [Pids -> Nat]
      /\ onCpu \in Pids /\ current \in Slots /\ Top(home, height, onCpu, current)
  BY OnCpuAlone DEF Stacked, Executes, Types
<1>3. \A p \in Pids : home[p] # NULL =>
         /\ p < n /\ p \notin killed
         /\ IF frame[p].pc \in {"run", "parked"} THEN pid[home[p]] = p ELSE Gone(p)
  BY <1>n DEF Stacked, Lives
<1>4. n \in Pids /\ n \in Nat /\ Pids \subseteq Nat
  <2>1. onCpu < n /\ onCpu \in Pids /\ n \in Nat /\ Pids \subseteq Nat
    BY <1>2, <1>3, <1>n DEF Types
  <2>2. pid'[i] \in 0 .. MaxPid
    BY DEF Types
  <2> QED BY <1>1, <2>1, <2>2, SchedulerAssumption DEF Pids, MaxPid
<1>5. \A p \in Pids : p < n => p # n
  BY <1>4
<1>6. home[n] = NULL /\ frame[n] = NewFrame /\ n \notin killed
  <2>1. n >= next_pid /\ ~(n < n)
    BY <1>4, <1>n
  <2>2. frame[n] = NewFrame
    BY <1>4, <2>1 DEF Stacked, Started0
  <2>3. n \notin killed
    BY <1>n, <2>1 DEF Stacked, Started0
  <2> QED BY <1>3, <1>4, <2>1, <2>2, <2>3
<1>h. PICK h, g : /\ h = [p \in Pids |-> IF p = n THEN IF made THEN i ELSE NULL
                                         ELSE IF home[p] = i THEN NULL ELSE home[p]]
                  /\ g = [height EXCEPT ![n] = 0]
  OBVIOUS
<1>7. h \in [Pids -> Slots \cup {NULL}] /\ g \in [Pids -> Nat]
  BY <1>2, <1>h
<1>8. /\ h[n] = IF made THEN i ELSE NULL
      /\ \A p \in Pids \ {n} : /\ g[p] = height[p] /\ h[p] # i
                               /\ h[p] # NULL => h[p] = home[p]
                               /\ home[p] # i => h[p] = home[p]
  BY <1>2, <1>4, <1>h
<1>9. \A c, j : Sound(c, j) => Sound(c, j)'
  BY DEF Sound
<1>10. Lives(h, g)'
  <2>1. \A p, r \in Pids : h[p] # NULL /\ h[p] = h[r] /\ g[p] = g[r] => p = r
    <3>1. \A p, r \in Pids \ {n} : h[p] # NULL /\ h[p] = h[r] /\ g[p] = g[r] => p = r
      BY <1>8 DEF Stacked, Lives
    <3> QED BY <1>4, <1>8, <3>1
  <2>2. ASSUME NEW p \in Pids, h[p] # NULL
        PROVE  /\ p < next_pid' /\ p \notin killed'
               /\ IF frame'[p].pc \in {"run", "parked"} THEN pid'[h[p]] = p ELSE Gone(p)'
    <3>1. CASE p = n
      <4>1. made /\ h[p] = i
        BY <1>8, <2>2, <3>1
      <4>2. frame'[p].pc = "run" /\ p < n + 1
        BY <1>4, <1>6, <3>1 DEF NewFrame
      <4> QED BY <1>1, <1>6, <1>n, <3>1, <4>1, <4>2
    <3>2. CASE p # n
      <4>1. home[p] = h[p] /\ home[p] # NULL /\ home[p] # i
        BY <1>8, <2>2, <3>2
      <4>2. p < n /\ p \notin killed
            /\ IF frame[p].pc \in {"run", "parked"} THEN pid[home[p]] = p ELSE Gone(p)
        BY <1>3, <4>1
      <4>3. Gone(p) => Gone(p)'
        BY <1>1, <3>2 DEF Gone
      <4>4. p < next_pid'
        BY <1>4, <1>n, <4>2
      <4>5. home[p] \in Slots \ {i}
        BY <1>2, <4>1
      <4> QED BY <1>1, <4>1, <4>2, <4>3, <4>4, <4>5
    <3> QED BY <3>1, <3>2
  <2>3. ASSUME NEW j \in Slots, state'[j] = "READY"
        PROVE  Top(h, g, rsp[j].thread, j)' /\ Sound(rsp[j], j)'
    <3>1. CASE j = i
      <4>1. made /\ rsp'[j].thread = n
        BY <1>1, <2>3, <3>1
      <4>2. \A p \in Pids : h[p] = i => p = n
        BY <1>8
      <4>3. Top(h, g, n, i)
        BY <1>4, <1>7, <1>8, <4>1, <4>2 DEF Top
      <4> QED BY <1>6, <3>1, <4>1, <4>3 DEF Top, Sound, NewFrame
    <3>2. CASE j # i
      <4>1. /\ Top(home, height, rsp[j].thread, j) /\ Sound(rsp[j], j) /\ rsp[j].thread \in Pids
            /\ rsp'[j] = rsp[j]
        BY <1>1, <2>3, <3>2, OnCpuAlone DEF Stacked, Lives
      <4>2. PICK u \in Pids : u = rsp[j].thread
        BY <4>1
      <4>3. u # n
        BY <1>2, <1>6, <4>1, <4>2 DEF Top
      <4>4. j # NULL
        BY <1>2
      <4>5. Top(h, g, u, j)
        BY <1>8, <3>2, <4>1, <4>2, <4>3, <4>4 DEF Top
      <4> QED BY <4>1, <4>2, <4>5 DEF Top, Sound
    <3> QED BY <3>1, <3>2
  <2> QED BY <2>1, <2>2, <2>3 DEF Lives
<1>11. Loaded(h, g)'
  <2> SUFFICES ASSUME NEW p \in Pids, frame[p].pc = "switch", frame[p].sp.thread # p, h[p] # NULL
               PROVE  /\ h[frame[p].sp.thread] = h[p]
                      /\ g[p] = g[frame[p].sp.thread] + 1
                      /\ Sound(frame[p].sp, h[p])'
    BY DEF Loaded, Sound
  <2>1. p # n
    BY <1>6 DEF NewFrame
  <2>2. home[p] = h[p] /\ h[p] # i
    BY <1>8, <2>1
  <2>3. PICK u : u = frame[p].sp.thread
    OBVIOUS
  <2>4. u \in Pids /\ home[u] = home[p] /\ height[p] = height[u] + 1 /\ Sound(frame[p].sp, home[p])
    BY <2>2, <2>3, OnCpuAlone DEF Stacked, Loaded
  <2>5. u # n
    BY <1>6, <2>2, <2>4
  <2>6. h[u] = home[u] /\ g[u] = height[u] /\ g[p] = height[p]
    BY <1>8, <2>1, <2>2, <2>4, <2>5
  <2> QED BY <1>9, <2>2, <2>3, <2>4, <2>6
<1>12. Executes(h, g)'
  <2>1. onCpu # n /\ h[onCpu] = current /\ g[onCpu] = height[onCpu]
    BY <1>2, <1>6, <1>8
  <2>2. Top(h, g, onCpu, current)
    BY <1>2, <1>4, <1>8, <2>1 DEF Top
  <2>3. frame'[onCpu'].pc = "run" /\ state'[current'] = "RUNNING" /\ onCpu' = onCpu /\ current' = current
    BY <1>1, <1>2
  <2> QED BY <2>2, <2>3 DEF Executes, Top
<1>13. Started0'
  <2>1. \A p \in Pids : p >= next_pid' => frame'[p] = NewFrame
    BY <1>4, <1>n DEF Stacked, Started0
  <2>2. \A p \in killed' : p < next_pid'
    <3> SUFFICES ASSUME NEW p \in killed PROVE p < n + 1
      BY <1>n
    <3>1. p < n /\ p \in Pids
      BY <1>n DEF Stacked, Started0, Types
    <3>2. p \in Nat /\ n \in Nat
      BY <1>4, <3>1
    <3> QED BY <3>1, <3>2
  <2> QED BY <2>1, <2>2 DEF Stacked, Started0
<1>14. Eoi'
  <2>1. \A j \in Slots : Owes(j)' => Owes(j)
    BY <1>1 DEF Owes
  <2>2. \A p \in Pids : ~(frame[p].pc = "switch" /\ frame[p].sp.thread # p /\ frame[p].sp.at = "irq")
    BY DEF Stacked, Eoi
  <2>3. \A j, k \in Slots : Owes(j) => isr0 /\ (Owes(k) => j = k)
    BY DEF Stacked, Eoi
  <2> QED BY <2>1, <2>2, <2>3 DEF Eoi
<1> QED BY <1>7, <1>10, <1>11, <1>12, <1>13, <1>14 DEF Stacked


LEMMA KillStack ==
    ASSUME Types, Types', PidsDistinct, NEW home, NEW height, Stacked(home, height), KillForeground
    PROVE  \E h, g : Stacked(h, g)'
<1>1. /\ UNCHANGED <<rsp, current, onCpu, isr0, pid, next_pid, frame>>
      /\ state' = [i \in Slots |-> IF i \in Victims THEN "UNUSED" ELSE state[i]]
      /\ killed' = killed \cup {pid[i] : i \in Victims}
      /\ name[onCpu] = "shell" /\ frame[onCpu].pc = "run"
  BY DEF KillForeground, At, taskVars
<1>2. /\ home[onCpu] = current /\ state[current] = "RUNNING" /\ pid[current] = onCpu /\ NULL \notin Slots
      /\ home \in [Pids -> Slots \cup {NULL}] /\ height \in [Pids -> Nat]
      /\ onCpu \in Pids /\ current \in Slots /\ Top(home, height, onCpu, current)
  BY <1>1, OnCpuAlone DEF Stacked, Executes, Lives, Types
<1>3. /\ Victims \subseteq Slots /\ current \notin Victims
      /\ \A i \in Victims : state[i] # "UNUSED"
  BY <1>1, <1>2 DEF Victims
<1>4. \A i \in Slots : state'[i] = IF i \in Victims THEN "UNUSED" ELSE state[i]
  BY <1>1
<1>h. PICK h : h = [p \in Pids |-> IF home[p] \in Victims THEN NULL ELSE home[p]]
  OBVIOUS
<1>5. h \in [Pids -> Slots \cup {NULL}]
  BY <1>2, <1>h
<1>6. \A p \in Pids : /\ h[p] # NULL => h[p] = home[p] /\ home[p] \notin Victims
                      /\ home[p] \notin Victims => h[p] = home[p]
  BY <1>h
<1>7. Lives(h, height)'
  <2>1. \A p, r \in Pids : h[p] # NULL /\ h[p] = h[r] /\ height[p] = height[r] => p = r
    BY <1>6 DEF Stacked, Lives
  <2>2. ASSUME NEW p \in Pids, h[p] # NULL
        PROVE  /\ p < next_pid' /\ p \notin killed'
               /\ IF frame'[p].pc \in {"run", "parked"} THEN pid'[h[p]] = p ELSE Gone(p)'
    <3>1. home[p] = h[p] /\ home[p] # NULL /\ home[p] \notin Victims
      BY <1>6, <2>2
    <3>2. p < next_pid /\ p \notin killed
          /\ IF frame[p].pc \in {"run", "parked"} THEN pid[home[p]] = p ELSE Gone(p)
      BY <3>1 DEF Stacked, Lives
    <3>3. Gone(p) => Gone(p)'
      BY <1>1, <1>4 DEF Gone
    <3>4. ASSUME NEW i \in Victims, pid[i] = p PROVE FALSE
      <4>1. CASE frame[p].pc \in {"run", "parked"}
        <5>1. pid[home[p]] = p /\ home[p] \in Slots /\ p # 0
          BY <1>2, <3>1, <3>2, <4>1 DEF Pids
        <5>2. home[p] = i
          BY <1>3, <3>4, <5>1 DEF PidsDistinct
        <5> QED BY <3>1, <5>2
      <4>2. CASE frame[p].pc \notin {"run", "parked"}
        BY <1>3, <3>2, <3>4, <4>2 DEF Gone
      <4> QED BY <4>1, <4>2
    <3> QED BY <1>1, <3>1, <3>2, <3>3, <3>4
  <2>3. ASSUME NEW j \in Slots, state'[j] = "READY"
        PROVE  Top(h, height, rsp[j].thread, j)' /\ Sound(rsp[j], j)'
    <3>1. j \notin Victims /\ state[j] = "READY"
      BY <1>4, <2>3
    <3>2. Top(home, height, rsp[j].thread, j) /\ Sound(rsp[j], j) /\ rsp[j].thread \in Pids
      BY <3>1, OnCpuAlone DEF Stacked, Lives
    <3>3. PICK u \in Pids : u = rsp[j].thread
      BY <3>2
    <3>4. j # NULL
      BY <1>2
    <3>5. Top(h, height, u, j)
      BY <1>6, <3>1, <3>2, <3>3, <3>4 DEF Top
    <3> QED BY <1>1, <3>2, <3>3, <3>5 DEF Top, Sound
  <2> QED BY <2>1, <2>2, <2>3 DEF Lives
<1>8. Loaded(h, height)'
  <2> SUFFICES ASSUME NEW p \in Pids, frame[p].pc = "switch", frame[p].sp.thread # p, h[p] # NULL
               PROVE  /\ h[frame[p].sp.thread] = h[p]
                      /\ height[p] = height[frame[p].sp.thread] + 1
                      /\ Sound(frame[p].sp, h[p])
    BY <1>1 DEF Loaded, Sound
  <2>1. home[p] = h[p] /\ home[p] \notin Victims
    BY <1>6
  <2>2. PICK u : u = frame[p].sp.thread
    OBVIOUS
  <2>3. u \in Pids /\ home[u] = home[p] /\ height[p] = height[u] + 1 /\ Sound(frame[p].sp, home[p])
    BY <2>1, <2>2, OnCpuAlone DEF Stacked, Loaded
  <2> QED BY <1>6, <2>1, <2>2, <2>3
<1>9. Executes(h, height)'
  <2>1. Top(h, height, onCpu, current)
    BY <1>2, <1>3, <1>6 DEF Top
  <2>2. /\ frame'[onCpu'].pc = "run" /\ state'[current'] = "RUNNING" /\ onCpu' = onCpu
        /\ current' = current
    BY <1>1, <1>2, <1>3, <1>4
  <2> QED BY <2>1, <2>2 DEF Executes, Top
<1>10. Started0'
  <2>1. \A i \in Victims : pid[i] < next_pid
    BY <1>3 DEF Types
  <2> QED BY <1>1, <2>1 DEF Stacked, Started0
<1>11. Eoi'
  <2>1. \A j \in Slots : Owes(j)' => Owes(j)
    BY <1>1, <1>4 DEF Owes
  <2>2. \A p \in Pids : ~(frame[p].pc = "switch" /\ frame[p].sp.thread # p /\ frame[p].sp.at = "irq")
    BY <1>1 DEF Stacked, Eoi
  <2>3. \A j, k \in Slots : Owes(j) => isr0 /\ (Owes(k) => j = k)
    BY DEF Stacked, Eoi
  <2> QED BY <1>1, <2>1, <2>2, <2>3 DEF Eoi
<1>12. Stacked(h, height)'
  BY <1>2, <1>5, <1>7, <1>8, <1>9, <1>10, <1>11 DEF Stacked
<1> QED BY <1>12

LEMMA ParkStack ==
    ASSUME Types, NEW home, NEW height, Stacked(home, height), Park
    PROVE  Stacked(home, height)'
<1>1. /\ frame[onCpu].pc = "run"
      /\ UNCHANGED <<state, rsp, current, onCpu, isr0, pid, next_pid, killed>>
  BY DEF Park, At, taskVars
<1>2. PICK f \in Frames : frame' = [frame EXCEPT ![onCpu] = f] /\ f.pc = "parked"
  <2> DEFINE f == [frame[onCpu] EXCEPT !.pc = "parked"]
  <2>1. f \in Frames /\ f.pc = "parked"
    BY DEF Types, Frames
  <2> QED BY <2>1 DEF Park, Step
<1>3. pid[current] = onCpu
  BY <1>1, OnCpuAlone DEF Stacked, Lives, Types
<1>4. /\ Lives(home, height)' /\ Loaded(home, height)' /\ Started0'
      /\ frame'[onCpu] = f /\ \A q \in Pids \ {onCpu} : frame'[q] = frame[q]
  BY <1>1, <1>2, <1>3, FrameMoves
<1>5. Executes(home, height)'
  BY <1>1, <1>2, <1>4 DEF Stacked, Executes, Top
<1>6. Eoi'
  <2>1. \A i \in Slots : Owes(i)' => Owes(i)
    BY <1>1 DEF Owes
  <2>2. \A i, j \in Slots : Owes(i) => isr0 /\ (Owes(j) => i = j)
    BY DEF Stacked, Eoi
  <2>3. \A p \in Pids : ~(frame[p].pc = "switch" /\ frame[p].sp.thread # p /\ frame[p].sp.at = "irq")
    BY <1>1 DEF Stacked, Eoi
  <2>4. \A p \in Pids : ~(frame'[p].pc = "switch" /\ frame'[p].sp.thread # p /\ frame'[p].sp.at = "irq")
    BY <1>2, <1>4, <2>3
  <2> QED BY <1>1, <1>2, <1>4, <2>1, <2>2, <2>4 DEF Eoi
<1> QED BY <1>4, <1>5, <1>6 DEF Stacked


LEMMA ResumeStep == ResumeInv /\ [Next]_vars => ResumeInv'
<1> SUFFICES ASSUME ResumeInv, [Next]_vars PROVE ResumeInv'
  OBVIOUS
<1>1. TypeInv' /\ PidsDistinct' /\ Types /\ Types' /\ PidsDistinct /\ KilledStaysDead /\ NoSpuriousEoi
  <2>1. TypeInv' /\ PidsDistinct' /\ Types /\ PidsDistinct /\ KilledStaysDead /\ NoSpuriousEoi
    BY TypeStep, PidsStep, TypesKnown DEF ResumeInv
  <2>2. TypeInv' => Types'
    BY TypesKnown, PTL
  <2> QED BY <2>1, <2>2
<1> SUFFICES (cpu' = "on" => \E h, g : Stacked(h, g)') /\ KilledStaysDead' /\ NoSpuriousEoi'
  BY <1>1 DEF ResumeInv
<1>2. CASE UNCHANGED vars
  <2>1. UNCHANGED <<state, rsp, current, onCpu, isr0, cpu, pid, next_pid, frame, killed>>
    BY <1>2 DEF vars, taskVars
  <2>2. KilledStaysDead' /\ NoSpuriousEoi'
    BY <1>1, <2>1 DEF KilledStaysDead, NoSpuriousEoi
  <2>3. ASSUME cpu' = "on" PROVE \E h, g : Stacked(h, g)'
    <3>1. PICK home, height : Stacked(home, height)
      BY <2>1, <2>3 DEF ResumeInv
    <3>2. Stacked(home, height)'
      BY <2>1, <3>1, StackStays
    <3> QED BY <3>2
  <2> QED BY <2>2, <2>3
<1>3. CASE Next
  <2>1. cpu = "on"
    BY <1>3 DEF Next, TaskYield, SysYield, SysExit, TimerInterrupt, ExitMark, ExitSearch, ExitClaim,
                ExitSetCurrent, ExitLoad, ExitSwitch, TaskCreate, EndBatch, Park, KillForeground, At
  <2>2. PICK home, height : Stacked(home, height)
    BY <2>1 DEF ResumeInv
  <2>3. ASSUME NEW h, NEW g, Stacked(h, g)' PROVE KilledStaysDead' /\ NoSpuriousEoi'
    BY <1>1, <2>3, StackedGivesNext
  <2>4. CASE TaskYield
    <3>1. Reschedule(state, "yield", isr0) /\ frame[onCpu].pc = "run"
      BY <2>4 DEF TaskYield, At
    <3>2. isr0 \in BOOLEAN
      BY <1>1 DEF Types
    <3> QED BY <1>1, <2>1, <2>2, <3>1, <3>2, RescheduleStack
  <2>5. CASE SysYield
    <3>1. Reschedule(state, "sys", isr0) /\ frame[onCpu].pc = "run"
      BY <2>5 DEF SysYield, At
    <3>2. isr0 \in BOOLEAN
      BY <1>1 DEF Types
    <3> QED BY <1>1, <2>1, <2>2, <3>1, <3>2, RescheduleStack
  <2>6. CASE SysExit
    <3>1. Reschedule([state EXCEPT ![current] = "UNUSED"], "exit", isr0) /\ frame[onCpu].pc = "run"
      BY <2>6 DEF SysExit, At
    <3>2. isr0 \in BOOLEAN
      BY <1>1 DEF Types
    <3> QED BY <1>1, <2>1, <2>2, <3>1, <3>2, RescheduleStack
  <2>7. CASE TimerInterrupt
    <3>1. CASE ticks' = 0
      <4>1. Reschedule(state, "irq", TRUE) /\ ~isr0
        BY <2>7, <3>1 DEF TimerInterrupt
      <4> QED BY <1>1, <2>1, <2>2, <4>1, RescheduleStack
    <3>2. CASE ticks' # 0
      <4>1. UNCHANGED <<state, rsp, current, onCpu, isr0, pid, next_pid, frame, killed>>
        BY <2>7, <3>2 DEF TimerInterrupt, taskVars
      <4> QED BY <2>2, <2>3, <4>1, StackStays
    <3> QED BY <3>1, <3>2
  <2>8. CASE ExitMark
    BY <1>1, <2>2, <2>3, <2>8, ExitMarkStack
  <2>9. CASE ExitSearch
    BY <1>1, <2>2, <2>3, <2>9, ExitSearchStack
  <2>10. CASE ExitClaim
    BY <1>1, <2>2, <2>3, <2>10, ExitClaimStack
  <2>11. CASE ExitSetCurrent
    BY <1>1, <2>2, <2>3, <2>11, ExitSetCurrentStack
  <2>12. CASE ExitLoad
    BY <1>1, <2>2, <2>3, <2>12, ExitLoadStack
  <2>13. CASE ExitSwitch
    BY <1>1, <2>2, <2>13, ExitSwitchStack
  <2>14. CASE TaskCreate
    <3>1. UNCHANGED <<current, onCpu, frame, isr0, killed>> /\ frame[onCpu].pc = "run"
      BY <2>14 DEF TaskCreate, At
    <3>2. CASE UNCHANGED <<state, rsp, taskVars, cpu>>
      BY <2>2, <2>3, <3>1, <3>2, StackStays DEF taskVars
    <3>3. ASSUME NEW i \in Slots, state[i] = "UNUSED",
                 pid' = [pid EXCEPT ![i] = next_pid], next_pid' = next_pid + 1,
                 NEW made \in BOOLEAN,
                 state' = IF made THEN [state EXCEPT ![i] = "READY"] ELSE state,
                 rsp' = IF made THEN [rsp EXCEPT ![i] = [thread |-> next_pid, at |-> "new"]] ELSE rsp
          PROVE  \E h, g : Stacked(h, g)'
      BY <1>1, <2>2, <3>1, <3>3, TaskCreateStack
    <3>4. ASSUME NEW i \in Slots, state[i] = "UNUSED",
                 pid' = [pid EXCEPT ![i] = next_pid], next_pid' = next_pid + 1,
                 \/ UNCHANGED <<state, rsp>>
                 \/ /\ state' = [state EXCEPT ![i] = "READY"]
                    /\ rsp' = [rsp EXCEPT ![i] = [thread |-> next_pid, at |-> "new"]]
          PROVE  \E h, g : Stacked(h, g)'
      <4>1. \E made \in BOOLEAN :
              /\ state' = IF made THEN [state EXCEPT ![i] = "READY"] ELSE state
              /\ rsp' = IF made THEN [rsp EXCEPT ![i] = [thread |-> next_pid, at |-> "new"]] ELSE rsp
        BY <3>4, Zenon
      <4> QED BY <3>3, <3>4, <4>1
    <3>5. UNCHANGED <<state, rsp, taskVars, cpu>> \/ \E h, g : Stacked(h, g)'
      BY <2>14, <3>4, Zenon DEF TaskCreate, NewPid, NextPid, IsFirstFree, Free
    <3> QED BY <2>3, <3>2, <3>5
  <2>15. CASE EndBatch
    <3>1. UNCHANGED <<state, rsp, current, onCpu, isr0, pid, next_pid, frame, killed>>
      BY <2>15 DEF EndBatch, taskVars
    <3> QED BY <2>2, <2>3, <3>1, StackStays
  <2>16. CASE Park
    BY <1>1, <2>2, <2>3, <2>16, ParkStack
  <2>17. CASE KillForeground
    BY <1>1, <2>2, <2>3, <2>17, KillStack
  <2> QED BY <1>3, <2>4, <2>5, <2>6, <2>7, <2>8, <2>9, <2>10, <2>11, <2>12, <2>13, <2>14, <2>15,
             <2>16, <2>17 DEF Next
<1> QED BY <1>2, <1>3

\* Whichever way the workers end and wherever the timer interrupts schedule()
\* inside task_exit, at most one suspended thread owes an EOI, and only while
\* IRQ0 is in service.
THEOREM EoiIsNeverSpurious == Spec => []NoSpuriousEoi
<1>1. ResumeInv => NoSpuriousEoi
  BY DEF ResumeInv
<1> QED BY <1>1, ResumeInit, ResumeStep, PTL DEF Spec

\* However an exit is interrupted, and although the slot it ends in may be given
\* out again meanwhile, no two READY slots hold contexts of one thread and none
\* holds one of the thread that executes.
THEOREM ContextsAreResumedOnce == Spec => []NoContextResumedTwice
<1>1. ResumeInv => NoContextResumedTwice
  <2> SUFFICES ASSUME ResumeInv, cpu = "on"
               PROVE  \A i \in Slots : state[i] = "READY" =>
                        /\ rsp[i].thread # onCpu
                        /\ \A j \in Slots : state[j] = "READY" /\ rsp[j].thread = rsp[i].thread => i = j
    BY DEF NoContextResumedTwice
  <2>1. PICK home, height : Stacked(home, height)
    BY DEF ResumeInv
  <2>2. Types
    BY TypesKnown DEF ResumeInv
  <2> QED BY <2>1, <2>2, StackedGives
<1> QED BY <1>1, ResumeInit, ResumeStep, PTL DEF Spec

\* A task ended by Ctrl-C never gets the processor again, whichever way the
\* workers end: neither through its slot nor through a context that an exiting
\* thread had loaded before.
THEOREM KilledNeverRuns == Spec => []KilledStaysDead
<1>1. ResumeInv => KilledStaysDead
  BY DEF ResumeInv
<1> QED BY <1>1, ResumeInit, ResumeStep, PTL DEF Spec


-----------------------------------------------------------------------------
(***************************************************************************)
(* The task list.  As long as no slot that is already in the list is given *)
(* out again, the list is the slots 0 .. m in their order, and the slots   *)
(* behind m were never used.                                               *)
(***************************************************************************)

\* A step that makes a task of a slot that some task had before: task_create
\* then cuts the list behind it.
ReusesASlot == \E i \in Listed : state[i] = "UNUSED" /\ state'[i] = "READY"

Chain(m) == [i \in Slots |-> IF i < m THEN i + 1 ELSE NULL]

\* The slots 0 .. m are linked, and no others are in use.
ListUpTo(m) ==
    /\ m \in Slots /\ next = Chain(m)
    /\ \A i \in Slots : i > m => state[i] = "UNUSED"

LEMMA LeastElement ==
    ASSUME NEW S \in SUBSET Nat, S # {}
    PROVE  \E m \in S : \A n \in S : m <= n
<1>1. IsWellFoundedOn(OpToRel(<, Nat), Nat)
  BY NatLessThanWellFounded
<1>2. PICK m \in S : \A n \in S : <<n, m>> \notin OpToRel(<, Nat)
  BY <1>1, WFMin
<1>3. \A n \in S : ~ (n < m)
  BY <1>2 DEF OpToRel
<1> QED BY <1>3

\* a, s[a], s[s[a]] and so on up to the M-th.
Iterates(S, s, a, M) ==
    {f \in [0 .. M -> S] : f[0] = a /\ \A k \in 1 .. M : f[k] = s[f[k - 1]]}

\* The recursion of Walk and of Hop has a solution.
LEMMA IteratesExist ==
    ASSUME NEW S, NEW s \in [S -> S], NEW a \in S, NEW M \in Nat
    PROVE  Iterates(S, s, a, M) # {}
<1> DEFINE Good(n) == \E f \in [0 .. n -> S] :
                         f[0] = a /\ \A k \in 1 .. n : f[k] = s[f[k - 1]]
           Bad == {n \in Nat : ~Good(n)}
<1>1. Good(0)
  <2>1. [k \in 0 .. 0 |-> a] \in [0 .. 0 -> S] /\ [k \in 0 .. 0 |-> a][0] = a
    OBVIOUS
  <2>2. \A k \in 1 .. 0 : FALSE
    OBVIOUS
  <2> QED BY <2>1, <2>2
<1>2. Bad = {}
  <2> SUFFICES ASSUME Bad # {} PROVE FALSE
    OBVIOUS
  <2>1. PICK n \in Bad : \A k \in Bad : n <= k
    <3>1. Bad \in SUBSET Nat
      OBVIOUS
    <3> QED BY <3>1, LeastElement
  <2>2. n \in Nat /\ n # 0 /\ ~Good(n)
    BY <1>1
  <2>3. n - 1 \in Nat /\ Good(n - 1)
    <3>1. n - 1 \in Nat /\ ~(n <= n - 1)
      BY <2>2
    <3> HIDE DEF Good
    <3> QED BY <2>1, <3>1
  <2>4. PICK f \in [0 .. n - 1 -> S] : f[0] = a /\ \A k \in 1 .. n - 1 : f[k] = s[f[k - 1]]
    BY <2>3
  <2>5. PICK g : g = [k \in 0 .. n |-> IF k = n THEN s[f[n - 1]] ELSE f[k]]
    OBVIOUS
  <2>6. g \in [0 .. n -> S] /\ g[0] = a
    BY <2>2, <2>3, <2>4, <2>5
  <2>7. ASSUME NEW k \in 1 .. n PROVE g[k] = s[g[k - 1]]
    <3>1. k - 1 \in 0 .. n /\ k \in 0 .. n /\ k - 1 # n
      BY <2>2
    <3>2. g[k - 1] = f[k - 1]
      BY <2>5, <3>1
    <3>3. CASE k = n
      BY <2>5, <3>1, <3>2, <3>3
    <3>4. CASE k # n
      <4>1. k \in 1 .. n - 1
        BY <2>2, <3>4
      <4> QED BY <2>4, <2>5, <3>1, <3>2, <3>4, <4>1
    <3> QED BY <3>3, <3>4
  <2> QED BY <2>2, <2>6, <2>7
<1>3. Good(M)
  BY <1>2
<1> QED BY <1>3 DEF Iterates

LEMMA SlotsKnown == 0 \in Slots /\ NULL \notin Slots /\ MaxTasks \in Nat /\ Slots \subseteq Nat
BY SchedulerAssumption DEF Slots, NULL

\* Hop along a list is the recursion it is written as.
LEMMA HopEquation ==
    ASSUME NEW nx \in [Slots -> Slots \cup {NULL}]
    PROVE  /\ Hop(nx)[0] = 0
           /\ \A k \in 1 .. MaxTasks :
                Hop(nx)[k] = IF nx[Hop(nx)[k - 1]] = NULL THEN Hop(nx)[k - 1] ELSE nx[Hop(nx)[k - 1]]
<1> DEFINE Equation(h) ==
             h = [k \in 0 .. MaxTasks |->
                    IF k = 0 THEN 0 ELSE IF nx[h[k - 1]] = NULL THEN h[k - 1] ELSE nx[h[k - 1]]]
           hop == CHOOSE h : Equation(h)
<1>1. Hop(nx) = hop
  BY Zenon DEF Hop
<1>2. \E h : Equation(h)
  <2>s. PICK s : s = [i \in Slots |-> IF nx[i] = NULL THEN i ELSE nx[i]]
    OBVIOUS
  <2>1. s \in [Slots -> Slots]
    BY SlotsKnown, <2>s
  <2>2. PICK f \in [0 .. MaxTasks -> Slots] : f[0] = 0 /\ \A k \in 1 .. MaxTasks : f[k] = s[f[k - 1]]
    <3>1. MaxTasks \in Nat /\ 0 \in Slots
      BY SlotsKnown
    <3>2. Iterates(Slots, s, 0, MaxTasks) # {}
      BY <2>1, <3>1, IteratesExist
    <3> QED BY <3>2 DEF Iterates
  <2>3. \A k \in 0 .. MaxTasks : f[k] = IF k = 0 THEN 0 ELSE s[f[k - 1]]
    <3>1. \A k \in 0 .. MaxTasks : k # 0 => k \in 1 .. MaxTasks
      BY SlotsKnown
    <3> QED BY <2>2, <3>1
  <2>4. \A k \in 0 .. MaxTasks :
          f[k] = IF k = 0 THEN 0 ELSE IF nx[f[k - 1]] = NULL THEN f[k - 1] ELSE nx[f[k - 1]]
    <3> SUFFICES ASSUME NEW k \in 0 .. MaxTasks, k # 0
                 PROVE  f[k] = IF nx[f[k - 1]] = NULL THEN f[k - 1] ELSE nx[f[k - 1]]
      BY <2>3
    <3>1. k - 1 \in 0 .. MaxTasks
      BY SlotsKnown
    <3>2. f[k - 1] \in Slots
      BY <2>2, <3>1
    <3> QED BY <2>3, <3>2, <2>s
  <2>5. f = [k \in 0 .. MaxTasks |-> f[k]]
    BY <2>2
  <2>6. Equation(f)
    BY <2>4, <2>5
  <2> HIDE DEF Equation
  <2> QED BY <2>6
<1>3. Equation(hop)
  <2> HIDE DEF Equation
  <2> QED BY <1>2, Zenon
<1> HIDE DEF hop
<1>4. \A k \in 0 .. MaxTasks :
        hop[k] = IF k = 0 THEN 0 ELSE IF nx[hop[k - 1]] = NULL THEN hop[k - 1] ELSE nx[hop[k - 1]]
  BY <1>3
<1> HIDE DEF Equation
<1>5. 0 \in 0 .. MaxTasks /\ \A k \in 1 .. MaxTasks : k \in 0 .. MaxTasks /\ k # 0
  BY SlotsKnown
<1> QED BY <1>1, <1>4, <1>5

\* Along 0 .. m the k-th hop is at k, and stays at m.
LEMMA HopAlongChain ==
    ASSUME NEW m \in Slots
    PROVE  \A k \in 0 .. MaxTasks : Hop(Chain(m))[k] = IF k <= m THEN k ELSE m
<1> DEFINE h == Hop(Chain(m))
           Bad == {k \in 0 .. MaxTasks : h[k] # IF k <= m THEN k ELSE m}
<1>1. Chain(m) \in [Slots -> Slots \cup {NULL}]
  BY SchedulerAssumption DEF Chain, Slots
<1>2. /\ h[0] = 0
      /\ \A k \in 1 .. MaxTasks : h[k] = IF Chain(m)[h[k - 1]] = NULL THEN h[k - 1] ELSE Chain(m)[h[k - 1]]
  BY <1>1, HopEquation
<1> HIDE DEF h
<1> SUFFICES ASSUME Bad # {} PROVE FALSE
  BY DEF h
<1>3. PICK k \in Bad : \A j \in Bad : k <= j
  <2>1. Bad \in SUBSET Nat
    BY SlotsKnown
  <2> QED BY <2>1, LeastElement
<1>4. k \in 1 .. MaxTasks /\ k - 1 \in 0 .. MaxTasks /\ m \in Nat /\ m < MaxTasks
  BY <1>2, SlotsKnown DEF Slots
<1>5. h[k - 1] = IF k - 1 <= m THEN k - 1 ELSE m
  BY <1>3, <1>4
<1>6. h[k - 1] \in Slots /\ h[k - 1] <= m
  <2>1. h[k - 1] \in Nat /\ h[k - 1] <= m
    BY <1>4, <1>5
  <2> QED BY <1>4, <2>1, SlotsKnown DEF Slots
<1>7. Chain(m)[h[k - 1]] = IF h[k - 1] < m THEN h[k - 1] + 1 ELSE NULL
  BY <1>6 DEF Chain
<1>8. h[k] = IF k <= m THEN k ELSE m
  <2>1. CASE k <= m
    BY <1>2, <1>4, <1>5, <1>7, <2>1 DEF NULL
  <2>2. CASE ~(k <= m)
    BY <1>2, <1>4, <1>5, <1>7, <2>2 DEF NULL
  <2> QED BY <2>1, <2>2
<1> QED BY <1>8

LEMMA ListKnown ==
    ASSUME NEW m, ListUpTo(m)
    PROVE  Listed = 0 .. m /\ Hop(next)[MaxTasks] = m /\ next[m] = NULL /\ ListSound
<1>1. next = Chain(m) /\ m \in Slots /\ m \in Nat /\ m < MaxTasks /\ MaxTasks \in Nat
  BY SlotsKnown DEF ListUpTo, Slots
<1>2. \A k \in 0 .. MaxTasks : Hop(next)[k] = IF k <= m THEN k ELSE m
  BY <1>1, HopAlongChain
<1>3. Listed = 0 .. m
  <2>1. \A k \in 0 .. MaxTasks : Hop(next)[k] \in 0 .. m
    BY <1>1, <1>2
  <2>2. \A i \in 0 .. m : i \in 0 .. MaxTasks /\ Hop(next)[i] = i
    BY <1>1, <1>2
  <2> QED BY <2>1, <2>2 DEF Listed
<1>4. Hop(next)[MaxTasks] = m
  BY <1>1, <1>2
<1>5. next[m] = NULL
  BY <1>1 DEF Chain
<1>6. \A i \in Slots : state[i] # "UNUSED" => i \in 0 .. m
  BY <1>1 DEF ListUpTo, Slots
<1> QED BY <1>3, <1>4, <1>5, <1>6 DEF ListSound


\* The links and the end of the list task_create finds, with slot i chosen.
Cut(i) == [next EXCEPT ![i] = NULL]
LastOf(i) == Hop(Cut(i))[MaxTasks]

\* task_create, when it makes a task of a slot nobody had before.
LEMMA CreateExtends ==
    ASSUME TypeOK, NEW m, ListUpTo(m), TaskCreate, ~ReusesASlot
    PROVE  \/ /\ UNCHANGED <<state, name, next, cpu>>
              /\ \/ UNCHANGED <<pid, next_pid>>
                 \/ next_pid' = next_pid + 1
                    /\ \E i \in Slots : state[i] = "UNUSED" /\ pid' = [pid EXCEPT ![i] = next_pid]
           \/ /\ m + 1 \in Slots /\ ListUpTo(m + 1)' /\ cpu' = cpu /\ next_pid' = next_pid + 1
              /\ state[m + 1] = "UNUSED" /\ state' = [state EXCEPT ![m + 1] = "READY"]
              /\ pid' = [pid EXCEPT ![m + 1] = next_pid]
              /\ name' = [name EXCEPT ![next_pid] = Head(todo)] /\ Head(todo) # "sti" /\ todo # <<>>
<1>1. CASE UNCHANGED <<state, rsp, taskVars, cpu>>
  BY <1>1 DEF taskVars
<1>2. ASSUME NEW i \in Slots, IsFirstFree(i), pid' = [pid EXCEPT ![i] = next_pid],
             next_pid' = next_pid + 1, UNCHANGED <<state, name, next, rsp, cpu>>
      PROVE  /\ UNCHANGED <<state, name, next, cpu>>
             /\ next_pid' = next_pid + 1
             /\ \E j \in Slots : state[j] = "UNUSED" /\ pid' = [pid EXCEPT ![j] = next_pid]
  BY <1>2 DEF IsFirstFree, Free
<1>3. ASSUME NEW i \in Slots, IsFirstFree(i), pid' = [pid EXCEPT ![i] = next_pid],
             next_pid' = next_pid + 1,
             state' = [state EXCEPT ![i] = "READY"],
             next' = IF Cut(i)[LastOf(i)] = NULL THEN Linked(Cut(i), LastOf(i), i) ELSE Cut(i),
             cpu' = IF Cut(i)[LastOf(i)] = NULL THEN cpu ELSE "hung"
      PROVE  /\ m + 1 \in Slots /\ ListUpTo(m + 1)' /\ cpu' = cpu
             /\ state[m + 1] = "UNUSED" /\ state' = [state EXCEPT ![m + 1] = "READY"]
             /\ pid' = [pid EXCEPT ![m + 1] = next_pid]
  <2>1. /\ state \in [Slots -> States] /\ next = Chain(m) /\ m \in Slots
        /\ \A j \in Slots : j > m => state[j] = "UNUSED"
        /\ Slots \subseteq Nat /\ i \in Nat /\ m \in Nat /\ MaxTasks \in Nat /\ i < MaxTasks
    BY SlotsKnown DEF TypeOK, ListUpTo, Slots
  <2>2. state[i] = "UNUSED" /\ state'[i] = "READY"
    BY <1>3, <2>1 DEF IsFirstFree, Free
  <2>3. i \notin 0 .. m
    BY <2>2, ListKnown DEF ReusesASlot
  <2>4. i > m /\ m + 1 <= i /\ m + 1 \in Slots
    BY <2>1, <2>3 DEF Slots
  <2>5. i = m + 1
    <3>1. m + 1 \in Free
      BY <2>1, <2>4 DEF Free
    <3>2. i <= m + 1
      BY <1>3, <3>1 DEF IsFirstFree
    <3> QED BY <2>1, <2>4, <3>2
  <2>6. Cut(i) = next
    <3>1. next[i] = NULL
      BY <2>1, <2>4 DEF Chain
    <3>2. next = [j \in Slots |-> next[j]]
      BY <2>1 DEF Chain
    <3>3. Cut(i) = [j \in Slots |-> IF j = i THEN NULL ELSE next[j]]
      BY <3>2 DEF Cut
    <3> QED BY <3>1, <3>2, <3>3
  <2>7. LastOf(i) = m /\ next[m] = NULL
    BY <2>6, ListKnown DEF LastOf
  <2>8. next' = Chain(m + 1)
    <3>1. next' = [next EXCEPT ![m] = m + 1] /\ m \in Slots
      BY <1>3, <2>1, <2>5, <2>6, <2>7 DEF Linked
    <3>2. next' = [j \in Slots |-> IF j = m THEN m + 1 ELSE IF j < m THEN j + 1 ELSE NULL]
      BY <2>1, <3>1 DEF Chain
    <3>3. ASSUME NEW j \in Slots
          PROVE  (IF j = m THEN m + 1 ELSE IF j < m THEN j + 1 ELSE NULL)
                 = (IF j < m + 1 THEN j + 1 ELSE NULL)
      <4>1. j \in Nat /\ m \in Nat
        BY <2>1
      <4>2. j < m + 1 <=> j = m \/ j < m
        BY <4>1
      <4> QED BY <4>2, Zenon
    <3> QED BY <3>2, <3>3 DEF Chain
  <2>9. \A j \in Slots : j > m + 1 => state'[j] = "UNUSED"
    BY <1>3, <2>1, <2>5
  <2>10. ListUpTo(m + 1)'
    BY <2>4, <2>8, <2>9 DEF ListUpTo, Chain
  <2> QED BY <1>3, <2>2, <2>4, <2>5, <2>6, <2>7, <2>10
<1>4. \/ UNCHANGED <<state, rsp, taskVars, cpu>>
      \/ \E i \in Slots :
            /\ IsFirstFree(i) /\ pid' = [pid EXCEPT ![i] = next_pid] /\ next_pid' = next_pid + 1
            /\ \/ UNCHANGED <<state, name, next, rsp, cpu>>
               \/ /\ state' = [state EXCEPT ![i] = "READY"]
                  /\ name' = [name EXCEPT ![next_pid] = Head(todo)]
                  /\ next' = IF Cut(i)[LastOf(i)] = NULL THEN Linked(Cut(i), LastOf(i), i) ELSE Cut(i)
                  /\ cpu' = IF Cut(i)[LastOf(i)] = NULL THEN cpu ELSE "hung"
  BY Zenon DEF TaskCreate, NewPid, NextPid, Cut, LastOf
<1>5. Head(todo) # "sti" /\ todo # <<>>
  BY DEF TaskCreate
<1> QED BY <1>1, <1>2, <1>3, <1>4, <1>5

\* No other step makes a task of an UNUSED slot or touches the list.
LEMMA OthersKeepTheList ==
    ASSUME ResumeInv, [Next]_vars, ~TaskCreate
    PROVE  next' = next /\ \A i \in Slots : state[i] = "UNUSED" => state'[i] = "UNUSED"
<1>0. state \in [Slots -> States] /\ current \in Slots /\ onCpu \in Pids /\ frame \in [Pids -> Frames]
  BY DEF ResumeInv, TypeInv, TypeOK
<1>1. ASSUME NEW st \in [Slots -> States], NEW at, NEW inService, Reschedule(st, at, inService),
             \A i \in Slots : st[i] \in {state[i], "UNUSED"}
      PROVE  next' = next /\ \A i \in Slots : state[i] = "UNUSED" => state'[i] = "UNUSED"
  <2>0. ASSUME NEW i \in Slots, state[i] = "UNUSED" PROVE st[i] = "UNUSED"
    BY <1>1, <2>0
  <2>1. next' = next
    BY <1>1, RescheduleOutcome DEF taskVars
  <2>2. ASSUME NEW n \in Slots, st[n] = "READY", state' = Switched(st, n)
        PROVE  \A i \in Slots : state[i] = "UNUSED" => state'[i] = "UNUSED"
    <3>1. \A i \in Slots : st[i] = "UNUSED" => state'[i] = "UNUSED"
      BY <1>0, <2>2 DEF Switched
    <3> QED BY <2>0, <3>1
  <2>3. CASE state' = st
    BY <2>0, <2>1, <2>3
  <2> QED BY <1>1, <2>1, <2>2, <2>3, RescheduleOutcome
<1>2. CASE TaskYield \/ SysYield
  <2>1. PICK at : Reschedule(state, at, isr0)
    BY <1>2 DEF TaskYield, SysYield
  <2> QED BY <1>0, <1>1, <2>1
<1>3. CASE SysExit
  <2>1. Reschedule([state EXCEPT ![current] = "UNUSED"], "exit", isr0)
    BY <1>3 DEF SysExit
  <2>2. /\ [state EXCEPT ![current] = "UNUSED"] \in [Slots -> States]
        /\ \A i \in Slots : [state EXCEPT ![current] = "UNUSED"][i] \in {state[i], "UNUSED"}
    BY <1>0 DEF States
  <2> QED BY <1>1, <2>1, <2>2
<1>4. CASE TimerInterrupt
  <2>1. Reschedule(state, "irq", TRUE) \/ UNCHANGED <<state, taskVars>>
    BY <1>4 DEF TimerInterrupt
  <2> QED BY <1>0, <1>1, <2>1 DEF taskVars
<1>5. CASE ExitClaim
  <2>1. cpu = "on" /\ frame[onCpu].pc = "claim"
    BY <1>5 DEF ExitClaim, At
  <2>2. state[frame[onCpu].next] = "READY"
    BY <2>1 DEF ResumeInv, Stacked, Executes
  <2>3. PICK n : n = frame[onCpu].next
    OBVIOUS
  <2>4. state' = [state EXCEPT ![n] = "RUNNING"] /\ next' = next
    BY <1>5, <2>3 DEF ExitClaim, taskVars
  <2> QED BY <1>0, <2>2, <2>3, <2>4
<1>6. CASE ExitMark
  BY <1>0, <1>6 DEF ExitMark, taskVars
<1>7. CASE ExitSearch \/ ExitSetCurrent \/ ExitLoad \/ ExitSwitch \/ EndBatch \/ Park \/ UNCHANGED vars
  BY <1>7 DEF ExitSearch, ExitSetCurrent, ExitLoad, ExitSwitch, EndBatch, Park, vars, taskVars
<1>8. CASE KillForeground
  BY <1>8 DEF KillForeground, taskVars
<1> QED BY <1>2, <1>3, <1>4, <1>5, <1>6, <1>7, <1>8 DEF Next

LEMMA ListInit == Init => ListUpTo(0)
<1> SUFFICES ASSUME Init PROVE ListUpTo(0)
  OBVIOUS
<1>1. /\ state = [i \in Slots |-> IF i = 0 THEN "RUNNING" ELSE "UNUSED"]
      /\ next = [i \in Slots |-> NULL]
  BY Zenon DEF Init
<1>2. \A i \in Slots : ~(i < 0) /\ (i > 0 => state[i] = "UNUSED")
  BY <1>1, SlotsKnown
<1>3. next = [i \in Slots |-> IF i < 0 THEN i + 1 ELSE NULL]
  BY <1>1, <1>2
<1> QED BY <1>2, <1>3, SlotsKnown DEF ListUpTo, Chain

LEMMA ListStep ==
    ResumeInv /\ (\E m : ListUpTo(m)) /\ [Next]_vars /\ [~ReusesASlot]_vars => (\E m : ListUpTo(m))'
<1> SUFFICES ASSUME ResumeInv, NEW m, ListUpTo(m), [Next]_vars, [~ReusesASlot]_vars
             PROVE  \E n : ListUpTo(n)'
  OBVIOUS
<1>1. CASE ~TaskCreate
  <2>1. ListUpTo(m)'
    BY <1>1, OthersKeepTheList DEF ListUpTo, Chain
  <2> QED BY <2>1
<1>2. CASE TaskCreate /\ ~ReusesASlot
  <2>1. TypeOK
    BY DEF ResumeInv, TypeInv
  <2>2. UNCHANGED <<state, next>> \/ ListUpTo(m + 1)'
    BY <1>2, <2>1, CreateExtends
  <2>3. ASSUME UNCHANGED <<state, next>> PROVE ListUpTo(m)'
    BY <2>3 DEF ListUpTo, Chain
  <2> QED BY <2>2, <2>3
<1>3. CASE UNCHANGED vars
  <2>1. ListUpTo(m)'
    BY <1>3 DEF ListUpTo, Chain, vars, taskVars
  <2> QED BY <2>1
<1> QED BY <1>1, <1>2, <1>3

\* As long as task_create uses only slots nobody had before, every task that may
\* run stays in the list and the list ends, whichever way the workers end and
\* however schedule() is interrupted inside task_exit.
THEOREM ListStaysSound == Spec /\ [][~ReusesASlot]_vars => []ListSound
<1>1. ResumeInv /\ (\E m : ListUpTo(m)) => ListSound
  BY ListKnown
<1>2. Init => \E m : ListUpTo(m)
  BY ListInit
<1> QED BY <1>1, <1>2, ResumeInit, ResumeStep, ListStep, PTL DEF Spec


-----------------------------------------------------------------------------
(***************************************************************************)
(* The search of schedule() along that list, and what it refines: the      *)
(* tasks take turns in the order of their pids.                            *)
(***************************************************************************)
LEMMA WalkEquation ==
    ASSUME next \in [Slots -> Slots \cup {NULL}], current \in Slots
    PROVE  /\ Walk[0] = Succ(current)
           /\ \A k \in 1 .. MaxTasks : Walk[k] = Succ(Walk[k - 1])
<1> DEFINE Equation(w) ==
             w = [k \in 0 .. MaxTasks |-> IF k = 0 THEN Succ(current) ELSE Succ(w[k - 1])]
           walk == CHOOSE w : Equation(w)
<1>1. Walk = walk
  BY Zenon DEF Walk
<1>2. \E w : Equation(w)
  <2>s. PICK s : s = [i \in Slots |-> Succ(i)]
    OBVIOUS
  <2>1. s \in [Slots -> Slots] /\ Succ(current) \in Slots
    BY SlotsKnown, <2>s DEF Succ
  <2>2. PICK f \in [0 .. MaxTasks -> Slots] :
          f[0] = Succ(current) /\ \A k \in 1 .. MaxTasks : f[k] = s[f[k - 1]]
    <3>1. MaxTasks \in Nat
      BY SlotsKnown
    <3>2. Iterates(Slots, s, Succ(current), MaxTasks) # {}
      BY <2>1, <3>1, IteratesExist
    <3> QED BY <3>2 DEF Iterates
  <2>3. \A k \in 0 .. MaxTasks : f[k] = IF k = 0 THEN Succ(current) ELSE Succ(f[k - 1])
    <3> SUFFICES ASSUME NEW k \in 0 .. MaxTasks, k # 0 PROVE f[k] = Succ(f[k - 1])
      BY <2>2
    <3>1. k \in 1 .. MaxTasks /\ k - 1 \in 0 .. MaxTasks
      BY SlotsKnown
    <3>2. f[k - 1] \in Slots
      BY <2>2, <3>1
    <3> QED BY <2>2, <3>1, <3>2, <2>s
  <2>4. f = [k \in 0 .. MaxTasks |-> f[k]]
    BY <2>2
  <2>5. Equation(f)
    BY <2>3, <2>4
  <2> HIDE DEF Equation
  <2> QED BY <2>5
<1>3. Equation(walk)
  <2> HIDE DEF Equation
  <2> QED BY <1>2, Zenon
<1> HIDE DEF walk
<1>4. \A k \in 0 .. MaxTasks : walk[k] = IF k = 0 THEN Succ(current) ELSE Succ(walk[k - 1])
  BY <1>3
<1> HIDE DEF Equation
<1>5. 0 \in 0 .. MaxTasks /\ \A k \in 1 .. MaxTasks : k \in 0 .. MaxTasks /\ k # 0
  BY SlotsKnown
<1> QED BY <1>1, <1>4, <1>5

\* The search goes round 0 .. m, from behind current up to current itself.
WalkFrom(c, m, k) == IF c + 1 + k <= m THEN c + 1 + k ELSE c + k - m

LEMMA WalkGoesRound ==
    ASSUME NEW m, ListUpTo(m), current \in 0 .. m
    PROVE  /\ m + 1 <= MaxTasks /\ m \in Nat
           /\ \A k \in 0 .. m : Walk[k] = WalkFrom(current, m, k)
           /\ Walk[m + 1] = Walk[0]
<1>1. /\ next = Chain(m) /\ m \in Slots /\ m \in Nat /\ m < MaxTasks /\ MaxTasks \in Nat
      /\ \A i \in 0 .. m : i \in Slots /\ i \in Nat /\ i # NULL
      /\ m + 1 <= MaxTasks
  BY SlotsKnown DEF ListUpTo, Slots, NULL
<1>2. next \in [Slots -> Slots \cup {NULL}]
  BY <1>1, SchedulerAssumption DEF Chain, Slots
<1>3. ASSUME NEW i \in 0 .. m PROVE Succ(i) = IF i < m THEN i + 1 ELSE 0
  <2>1. next[i] = IF i < m THEN i + 1 ELSE NULL
    BY <1>1 DEF Chain
  <2>2. i < m => i + 1 # NULL
    BY <1>1 DEF NULL
  <2> QED BY <2>1, <2>2, Zenon DEF Succ
<1>4. /\ Walk[0] = Succ(current)
      /\ \A k \in 1 .. MaxTasks : Walk[k] = Succ(Walk[k - 1])
  BY <1>1, <1>2, WalkEquation
<1>5. Walk[0] = WalkFrom(current, m, 0)
  BY <1>1, <1>3, <1>4 DEF WalkFrom
<1> DEFINE Bad == {k \in 0 .. m : Walk[k] # WalkFrom(current, m, k)}
<1>6. Bad = {}
  <2> SUFFICES ASSUME Bad # {} PROVE FALSE
    OBVIOUS
  <2>1. PICK k \in Bad : \A j \in Bad : k <= j
    <3>1. Bad \in SUBSET Nat
      BY <1>1
    <3> QED BY <3>1, LeastElement
  <2>2. k \in 1 .. MaxTasks /\ k <= m /\ k \in Nat
    BY <1>1, <1>5
  <2>3. k - 1 \in 0 .. m /\ ~(k <= k - 1)
    BY <1>1, <2>2
  <2>4. Walk[k - 1] = WalkFrom(current, m, k - 1)
    BY <2>1, <2>3
  <2>5. PICK w : w = Walk[k - 1]
    OBVIOUS
  <2>6. w \in 0 .. m /\ (IF w < m THEN w + 1 ELSE 0) = WalkFrom(current, m, k)
    BY <1>1, <2>2, <2>4, <2>5 DEF WalkFrom
  <2>7. Walk[k] = WalkFrom(current, m, k)
    BY <1>3, <1>4, <2>2, <2>5, <2>6
  <2> QED BY <2>7
<1>7. \A k \in 0 .. m : Walk[k] = WalkFrom(current, m, k)
  BY <1>6
<1>8. Walk[m] = current
  BY <1>1, <1>7 DEF WalkFrom
<1>9. Walk[m + 1] = Walk[0]
  <2>1. m + 1 \in 1 .. MaxTasks /\ (m + 1) - 1 = m
    BY <1>1
  <2> QED BY <1>4, <1>8, <2>1
<1> QED BY <1>1, <1>7, <1>9

\* Every slot but current is looked at, and at one place only.
LEMMA WalkFinds ==
    ASSUME NEW m, ListUpTo(m), current \in 0 .. m
    PROVE  /\ \A r \in 0 .. m : r > current =>
                r - current - 1 \in 0 .. m /\ Walk[r - current - 1] = r
           /\ \A r \in 0 .. m : r <= current =>
                r + m - current \in 0 .. m /\ Walk[r + m - current] = r
           /\ \A k \in 1 .. m : Walk[k] # Walk[0]
<1>1. /\ m \in Nat /\ current \in Nat /\ current <= m
      /\ \A k \in 0 .. m : Walk[k] = WalkFrom(current, m, k)
  BY WalkGoesRound
<1>2. ASSUME NEW r \in 0 .. m, r > current
      PROVE  r - current - 1 \in 0 .. m /\ Walk[r - current - 1] = r
  <2>1. r - current - 1 \in 0 .. m /\ WalkFrom(current, m, r - current - 1) = r
    BY <1>1, <1>2 DEF WalkFrom
  <2> QED BY <1>1, <2>1
<1>3. ASSUME NEW r \in 0 .. m, r <= current
      PROVE  r + m - current \in 0 .. m /\ Walk[r + m - current] = r
  <2>1. r + m - current \in 0 .. m /\ WalkFrom(current, m, r + m - current) = r
    BY <1>1, <1>3 DEF WalkFrom
  <2> QED BY <1>1, <2>1
<1>4. ASSUME NEW k \in 1 .. m PROVE Walk[k] # Walk[0]
  <2>1. k \in 0 .. m /\ 0 \in 0 .. m /\ WalkFrom(current, m, k) # WalkFrom(current, m, 0)
    BY <1>1 DEF WalkFrom
  <2> QED BY <1>1, <2>1
<1> QED BY <1>2, <1>3, <1>4

\* schedule() takes the first READY task behind current, going round the list.
LEMMA PicksTheNext ==
    ASSUME NEW m, ListUpTo(m), current \in 0 .. m, NEW st, NEW n, Picks(st, n)
    PROVE  /\ n \in 0 .. m /\ n # current /\ st[n] = "READY"
           /\ n > current => \A r \in 0 .. m : current < r /\ r < n => st[r] # "READY"
           /\ n < current => \A r \in 0 .. m : current < r \/ r < n => st[r] # "READY"
<1>1. PICK k \in 0 .. MaxTasks : Ends(st, k) /\ Walk[k] = n
  BY DEF Picks
<1>2. n # current /\ st[n] = "READY"
  BY DEF Picks
<1>3. /\ m + 1 <= MaxTasks /\ m \in Nat /\ MaxTasks \in Nat /\ current \in Nat /\ current <= m
      /\ \A j \in 0 .. m : Walk[j] = WalkFrom(current, m, j)
      /\ Walk[m + 1] = Walk[0]
  BY WalkGoesRound, SlotsKnown
<1>4. \A j \in 0 .. k - 1 : ~Stops(st, j)
  BY <1>1 DEF Ends
<1>5. k <= m
  <2> SUFFICES ASSUME ~(k <= m) PROVE FALSE
    OBVIOUS
  <2>1. CASE k = m + 1
    <3>1. Stops(st, 0) /\ 0 \in 0 .. k - 1
      BY <1>1, <1>2, <1>3, <2>1 DEF Stops
    <3> QED BY <1>4, <3>1
  <2>2. CASE k > m + 1
    <3>1. Stops(st, m + 1) /\ m + 1 \in 0 .. k - 1
      BY <1>3, <2>2 DEF Stops
    <3> QED BY <1>4, <3>1
  <2> QED BY <1>3, <2>1, <2>2
<1>6. n = WalkFrom(current, m, k)
  BY <1>1, <1>3, <1>5
<1>7. n \in 0 .. m
  BY <1>3, <1>5, <1>6 DEF WalkFrom
<1>8. ASSUME n > current, NEW r \in 0 .. m, current < r, r < n PROVE st[r] # "READY"
  <2>1. r - current - 1 \in 0 .. k - 1
    BY <1>3, <1>5, <1>6, <1>8 DEF WalkFrom
  <2>2. Walk[r - current - 1] = r
    BY <1>8, <1>3, WalkFinds
  <2> QED BY <1>4, <2>1, <2>2 DEF Stops
<1>9. ASSUME n < current, NEW r \in 0 .. m, current < r \/ r < n PROVE st[r] # "READY"
  <2>1. CASE current < r
    <3>1. r - current - 1 \in 0 .. k - 1
      BY <1>3, <1>5, <1>6, <1>9, <2>1 DEF WalkFrom
    <3>2. Walk[r - current - 1] = r
      BY <2>1, <1>3, WalkFinds
    <3> QED BY <1>4, <3>1, <3>2 DEF Stops
  <2>2. CASE r < n
    <3>1. r + m - current \in 0 .. k - 1
      BY <1>3, <1>5, <1>6, <1>9, <2>2 DEF WalkFrom
    <3>2. Walk[r + m - current] = r
      BY <1>9, <2>2, <1>3, <1>7, WalkFinds
    <3> QED BY <1>4, <3>1, <3>2 DEF Stops
  <2> QED BY <1>9, <2>1, <2>2
<1> QED BY <1>2, <1>7, <1>8, <1>9

\* A READY task is always found.
LEMMA SomebodyIsPicked ==
    ASSUME NEW m, ListUpTo(m), current \in 0 .. m, NEW st, st[current] # "READY",
           NEW r \in 0 .. m, st[r] = "READY"
    PROVE  ~Keeps(st) /\ ~Spins(st)
<1>1. /\ m + 1 <= MaxTasks /\ m \in Nat /\ MaxTasks \in Nat /\ current \in Nat /\ current <= m
      /\ Walk[m + 1] = Walk[0]
  BY WalkGoesRound, SlotsKnown
<1>2. PICK j \in 0 .. m : Walk[j] = r
  <2>1. r > current \/ r <= current
    BY <1>1
  <2> QED BY <1>1, <2>1, WalkFinds
<1>3. ~Spins(st)
  <2>1. m + 1 \in 0 .. MaxTasks /\ Stops(st, m + 1)
    BY <1>1 DEF Stops
  <2> QED BY <2>1 DEF Spins
<1>4. ~Keeps(st)
  <2> SUFFICES ASSUME Keeps(st) PROVE FALSE
    OBVIOUS
  <2>1. PICK k \in 0 .. MaxTasks : Ends(st, k) /\ (st[Walk[k]] # "READY" \/ Walk[k] = current)
    BY DEF Keeps
  <2>2. st[Walk[k]] # "READY"
    BY <2>1
  <2>3. k > 0 /\ Walk[k] = Walk[0] /\ \A i \in 0 .. k - 1 : ~Stops(st, i)
    BY <2>1, <2>2 DEF Ends, Stops
  <2>4. Stops(st, j)
    BY <1>2 DEF Stops
  <2>5. j \notin 0 .. k - 1
    BY <2>3, <2>4
  <2>6. k \in 1 .. m
    BY <1>1, <2>3, <2>5
  <2> QED BY <2>3, <2>6, WalkFinds
<1> QED BY <1>3, <1>4


\* The pids of the tasks that may run; in the list, they grow from slot to slot.
Alive == {pid[i] : i \in {j \in Slots : Runnable(j)}}
Ordered == \A i, j \in Slots : i < j /\ Runnable(i) /\ Runnable(j) => pid[i] < pid[j]

\* kmain's own task is never ended.
MainLives == Runnable(0) /\ pid[0] = 1 /\ name[1] = "main"

TurnsInv == Bookkeeping /\ Ordered /\ MainLives /\ \E m : ListUpTo(m)

LEMMA PickedIsNext ==
    ASSUME Bookkeeping, Ordered, cpu = "on", NEW m, ListUpTo(m),
           NEW st, \A j \in Slots : j # current => st[j] = state[j], NEW n, Picks(st, n)
    PROVE  /\ n \in Slots /\ n # current /\ state[n] = "READY" /\ rsp[n].thread = pid[n]
           /\ RR!IsNextAfter(onCpu, Alive \ {onCpu}, pid[n])
<1>1. /\ state[current] = "RUNNING" /\ pid[current] = onCpu /\ current \in Slots
      /\ \A i \in Slots : state[i] = "RUNNING" => i = current
      /\ pid \in [Slots -> 0 .. MaxPid]
  BY DEF Bookkeeping, RunningIsCurrent, TypeInv, TypeOK
<1>2. /\ m \in Slots /\ \A i \in Slots : state[i] # "UNUSED" => i \in 0 .. m
      /\ \A i \in 0 .. m : i \in Slots
      /\ Slots \subseteq Nat
  BY SlotsKnown DEF ListUpTo, Slots
<1>3. current \in 0 .. m
  BY <1>1, <1>2
<1>4. /\ n \in 0 .. m /\ n # current /\ st[n] = "READY"
      /\ n > current => \A r \in 0 .. m : current < r /\ r < n => st[r] # "READY"
      /\ n < current => \A r \in 0 .. m : current < r \/ r < n => st[r] # "READY"
  BY <1>3, PicksTheNext
<1>5. n \in Slots /\ state[n] = "READY" /\ rsp[n].thread = pid[n]
  BY <1>2, <1>4 DEF Bookkeeping, ContextOwned
<1>6. \A j \in Slots : Runnable(j) /\ j # current => st[j] = "READY" /\ j \in 0 .. m
  BY <1>1, <1>2 DEF Runnable
<1>7. Runnable(current) /\ Runnable(n)
  BY <1>1, <1>5 DEF Runnable
<1> DEFINE S == Alive \ {onCpu}
<1>8. \A r : r \in S <=> \E j \in Slots : j # current /\ Runnable(j) /\ pid[j] = r
  <2>1. \A j \in Slots : Runnable(j) /\ pid[j] = onCpu => j = current
    BY <1>1 DEF Bookkeeping, PidsUnique, Runnable
  <2> QED BY <1>1, <2>1 DEF Alive
<1>9. pid[n] \in S
  BY <1>4, <1>5, <1>7, <1>8
<1>10. \A i, j \in Slots : i \in Nat /\ j \in Nat /\ pid[i] \in Nat /\ pid[j] \in Nat
  BY <1>1, <1>2
<1> HIDE DEF S
<1>11. ASSUME n > current PROVE RR!IsNextAfter(onCpu, S, pid[n])
  <2>1. pid[n] > onCpu
    BY <1>1, <1>5, <1>7, <1>10, <1>11 DEF Ordered
  <2>2. ASSUME NEW r \in S, r > onCpu PROVE pid[n] <= r
    <3>1. PICK j \in Slots : j # current /\ Runnable(j) /\ pid[j] = r
      BY <1>8, <2>2
    <3>2. ~(j < current)
      BY <1>1, <1>7, <1>10, <2>2, <3>1 DEF Ordered
    <3>3. ~(j < n)
      BY <1>1, <1>4, <1>6, <1>10, <1>11, <3>1, <3>2
    <3>4. j = n \/ n < j
      BY <1>5, <1>10, <3>3
    <3> QED BY <1>5, <1>7, <1>10, <3>1, <3>4 DEF Ordered
  <2> QED BY <1>9, <2>1, <2>2 DEF RR!IsNextAfter
<1>12. ASSUME n < current PROVE RR!IsNextAfter(onCpu, S, pid[n])
  <2>1. ASSUME NEW r \in S PROVE pid[n] <= r /\ ~(r > onCpu)
    <3>1. PICK j \in Slots : j # current /\ Runnable(j) /\ pid[j] = r
      BY <1>8, <2>1
    <3>2. j < current /\ ~(j < n)
      BY <1>1, <1>4, <1>6, <1>10, <1>12, <3>1
    <3>3. j = n \/ n < j
      BY <1>5, <1>10, <3>2
    <3>4. pid[n] <= r
      BY <1>5, <1>7, <1>10, <3>1, <3>3 DEF Ordered
    <3>5. pid[j] < onCpu
      BY <1>1, <1>7, <3>1, <3>2 DEF Ordered
    <3> QED BY <1>1, <1>10, <3>1, <3>4, <3>5
  <2> QED BY <1>9, <2>1 DEF RR!IsNextAfter
<1>13. n > current \/ n < current
  BY <1>1, <1>4, <1>5, <1>10
<1> QED BY <1>4, <1>5, <1>11, <1>12, <1>13 DEF S

\* A switch with interrupts masked is one turn, or nothing happens.
LEMMA RescheduleTurns ==
    ASSUME TurnsInv, cpu = "on", NEW st, NEW at, NEW inService,
           \/ st = state
           \/ st = [state EXCEPT ![current] = "UNUSED"] /\ onCpu # 1,
           Reschedule(st, at, inService)
    PROVE  /\ RR!Next \/ UNCHANGED RR!rrVars
           /\ Ordered' /\ MainLives'
<1>1. PICK m : ListUpTo(m)
  BY DEF TurnsInv
<1>2. /\ Bookkeeping /\ Ordered /\ MainLives
      /\ state \in [Slots -> States] /\ current \in Slots /\ state[current] = "RUNNING"
      /\ pid[current] = onCpu /\ \A i \in Slots : state[i] = "RUNNING" => i = current
  BY DEF TurnsInv, Bookkeeping, RunningIsCurrent, TypeInv, TypeOK
<1>3. UNCHANGED <<pid, name>>
  BY RescheduleOutcome DEF taskVars
<1>4. \A j \in Slots : j # current => st[j] = state[j]
  BY <1>2
<1>5. ASSUME \A i \in Slots : Runnable(i)' => Runnable(i), Runnable(0)' PROVE Ordered' /\ MainLives'
  BY <1>2, <1>3, <1>5 DEF Ordered, MainLives
<1>6. 0 \in Slots
  BY SlotsKnown
<1>7. ASSUME NEW n, Picks(st, n), state' = Switched(st, n), onCpu' = rsp[n].thread
      PROVE  (RR!Next \/ UNCHANGED RR!rrVars) /\ Ordered' /\ MainLives'
  <2>1. /\ n \in Slots /\ n # current /\ state[n] = "READY" /\ onCpu' = pid[n]
        /\ RR!IsNextAfter(onCpu, Alive \ {onCpu}, pid[n])
    BY <1>1, <1>2, <1>4, <1>7, PickedIsNext
  <2>2. pid[n] \in Alive \ {onCpu}
    BY <2>1 DEF RR!IsNextAfter
  <2>3. CASE st = state
    <3>1. \A i \in Slots : Runnable(i)' <=> Runnable(i)
      BY <1>2, <1>7, <2>1, <2>3 DEF Switched, Runnable
    <3>2. Alive' = Alive
      BY <1>3, <3>1 DEF Alive
    <3>3. RR!Rotate
      BY <2>1, <2>2, <3>2 DEF RR!Rotate, Alive
    <3> QED BY <1>2, <1>5, <1>6, <3>1, <3>3 DEF RR!Next, MainLives
  <2>4. CASE st = [state EXCEPT ![current] = "UNUSED"] /\ onCpu # 1
    <3>1. \A i \in Slots : Runnable(i)' <=> Runnable(i) /\ i # current
      BY <1>2, <1>7, <2>1, <2>4 DEF Switched, Runnable
    <3>2. Alive' = Alive \ {onCpu}
      <4>1. \A i \in Slots : Runnable(i) => (pid[i] = onCpu <=> i = current)
        BY <1>2 DEF Bookkeeping, PidsUnique, Runnable
      <4> QED BY <1>3, <3>1, <4>1 DEF Alive
    <3>3. RR!Retire
      BY <2>1, <2>2, <3>2 DEF RR!Retire, Alive
    <3>4. Runnable(0)'
      BY <1>2, <1>6, <2>4, <3>1 DEF MainLives
    <3> QED BY <1>5, <3>1, <3>3, <3>4 DEF RR!Next
  <2> QED BY <2>3, <2>4
<1>8. ASSUME state' = st, onCpu' = onCpu, Keeps(st) \/ Spins(st)
      PROVE  (RR!Next \/ UNCHANGED RR!rrVars) /\ Ordered' /\ MainLives'
  <2>1. CASE st = state
    <3>1. \A i \in Slots : Runnable(i)' <=> Runnable(i)
      BY <1>8, <2>1 DEF Runnable
    <3>2. UNCHANGED RR!rrVars
      BY <1>3, <1>8, <3>1 DEF RR!rrVars
    <3> QED BY <1>2, <1>5, <1>6, <3>1, <3>2 DEF MainLives
  <2>2. CASE st = [state EXCEPT ![current] = "UNUSED"] /\ onCpu # 1
    <3>1. current # 0 /\ state[0] = "READY"
      BY <1>2, <1>6, <2>2 DEF MainLives, Runnable
    <3>2. st[0] = "READY" /\ st[current] # "READY"
      BY <1>2, <1>4, <1>6, <2>2, <3>1
    <3>3. 0 \in 0 .. m /\ current \in 0 .. m
      BY <1>1, <1>2, <1>6, SlotsKnown DEF ListUpTo, Slots
    <3> QED BY <1>1, <1>8, <3>2, <3>3, SomebodyIsPicked
  <2> QED BY <2>1, <2>2
<1>9. \/ \E n \in Slots : Picks(st, n) /\ state' = Switched(st, n) /\ onCpu' = rsp[n].thread
      \/ state' = st /\ onCpu' = onCpu /\ (Keeps(st) \/ Spins(st))
  BY Zenon DEF Reschedule
<1> QED BY <1>7, <1>8, <1>9


LEMMA TurnsInit == Init => TurnsInv /\ RR!Init
<1> SUFFICES ASSUME Init PROVE TurnsInv /\ RR!Init
  OBVIOUS
<1>1. /\ state = [i \in Slots |-> IF i = 0 THEN "RUNNING" ELSE "UNUSED"]
      /\ pid = [i \in Slots |-> IF i = 0 THEN 1 ELSE 0]
      /\ name = [p \in Pids |-> IF p = 1 THEN "main" ELSE "none"]
      /\ onCpu = 1
  BY Zenon DEF Init
<1>2. 0 \in Slots /\ 1 \in Pids
  BY <1>1, TypeInit, SlotsKnown DEF TypeInv, TypeOK
<1>3. \A i \in Slots : Runnable(i) <=> i = 0
  BY <1>1, <1>2 DEF Runnable
<1>4. Ordered /\ MainLives
  BY <1>1, <1>2, <1>3 DEF Ordered, MainLives
<1>5. RR!Init
  BY <1>1, <1>2, <1>3 DEF RR!Init
<1> QED BY <1>4, <1>5, BookkeepingInit, ListInit DEF TurnsInv

LEMMA TurnsStep ==
    ASSUME "return" \notin Exits, TurnsInv, TypeOK', [Next]_vars, [~ReusesASlot]_vars
    PROVE  /\ RR!Next \/ UNCHANGED RR!rrVars
           /\ Ordered' /\ MainLives'
<1>1. /\ Bookkeeping /\ Ordered /\ MainLives
      /\ state \in [Slots -> States] /\ current \in Slots /\ onCpu \in Pids
      /\ pid \in [Slots -> 0 .. MaxPid] /\ \A i \in Slots : pid[i] < next_pid
      /\ next_pid \in Nat /\ next_pid >= 2 /\ name \in [Pids -> Names]
      /\ frame[onCpu].pc \in {"run", "parked"}
  BY DEF TurnsInv, Bookkeeping, TypeInv, TypeOK, PidsSuffice, Undisturbed
<1>2. 0 \in Slots /\ Slots \subseteq Nat /\ 1 \in Pids /\ 1 \in Nat
  BY <1>1, SlotsKnown, SchedulerAssumption DEF Pids, MaxPid
<1>3. ASSUME UNCHANGED <<state, pid, name, onCpu>>
      PROVE  UNCHANGED RR!rrVars /\ Ordered' /\ MainLives'
  BY <1>1, <1>3 DEF RR!rrVars, Runnable, Ordered, MainLives
<1>4. CASE TaskYield \/ SysYield
  <2>1. cpu = "on" /\ \E at : Reschedule(state, at, isr0)
    BY <1>4 DEF TaskYield, SysYield, At
  <2> QED BY <2>1, RescheduleTurns
<1>5. CASE SysExit
  <2>1. cpu = "on" /\ onCpu # 1 /\ Reschedule([state EXCEPT ![current] = "UNUSED"], "exit", isr0)
    BY <1>5 DEF SysExit, At, IsWorker
  <2> QED BY <2>1, RescheduleTurns
<1>6. CASE TimerInterrupt
  <2>1. CASE ticks' = 0
    <3>1. cpu = "on" /\ Reschedule(state, "irq", TRUE)
      BY <1>6, <2>1 DEF TimerInterrupt
    <3> QED BY <3>1, RescheduleTurns
  <2>2. CASE ticks' # 0
    <3>1. UNCHANGED <<state, pid, name, onCpu>>
      BY <1>6, <2>2 DEF TimerInterrupt, taskVars
    <3> QED BY <1>3, <3>1
  <2> QED BY <2>1, <2>2
<1>7. CASE ExitMark \/ ExitSearch \/ ExitClaim \/ ExitSetCurrent \/ ExitLoad \/ ExitSwitch
  BY <1>1, <1>7 DEF ExitMark, ExitSearch, ExitClaim, ExitSetCurrent, ExitLoad, ExitSwitch, At
<1>8. CASE TaskCreate /\ ~ReusesASlot
  <2>1. PICK m : ListUpTo(m)
    BY DEF TurnsInv
  <2>2. onCpu' = onCpu /\ TypeOK
    BY <1>1, <1>8 DEF TaskCreate, Bookkeeping, TypeInv
  <2>3. CASE /\ UNCHANGED <<state, name>>
             /\ \/ pid' = pid
                \/ \E i \in Slots : state[i] = "UNUSED" /\ pid' = [pid EXCEPT ![i] = next_pid]
    <3>1. \A i \in Slots : Runnable(i)' <=> Runnable(i)
      BY <2>3 DEF Runnable
    <3>2. \A i \in Slots : Runnable(i) => pid'[i] = pid[i]
      BY <1>1, <2>3 DEF Runnable
    <3>3. Alive' = Alive
      BY <3>1, <3>2 DEF Alive
    <3>4. UNCHANGED RR!rrVars
      BY <2>2, <3>3 DEF RR!rrVars, Alive
    <3>5. Ordered'
      BY <1>1, <3>1, <3>2 DEF Ordered
    <3>6. MainLives'
      BY <1>1, <1>2, <2>3, <3>1, <3>2 DEF MainLives
    <3> QED BY <3>4, <3>5, <3>6
  <2>4. CASE /\ m + 1 \in Slots
             /\ state[m + 1] = "UNUSED" /\ state' = [state EXCEPT ![m + 1] = "READY"]
             /\ pid' = [pid EXCEPT ![m + 1] = next_pid]
             /\ name' = [name EXCEPT ![next_pid] = Head(todo)]
    <3>1. PICK n : n = m + 1
      OBVIOUS
    <3>2. /\ n \in Slots /\ \A i \in Slots : Runnable(i)' <=> Runnable(i) \/ i = n
          /\ ~Runnable(n) /\ pid'[n] = next_pid
          /\ \A i \in Slots : i # n => pid'[i] = pid[i]
      BY <1>1, <2>4, <3>1 DEF Runnable
    <3>3. Alive' = Alive \cup {next_pid}
      BY <3>2 DEF Alive
    <3>4. \A q \in Alive : q < next_pid
      BY <1>1 DEF Alive
    <3>5. next_pid \in Pids
      <4>1. pid'[n] \in 0 .. MaxPid
        BY <3>2 DEF TypeOK
      <4> QED BY <1>1, <3>2, <4>1, SchedulerAssumption DEF Pids, MaxPid
    <3>6. \E p \in Pids : RR!Spawn(p)
      BY <2>2, <3>3, <3>4, <3>5 DEF RR!Spawn, Alive
    <3>7. Ordered'
      <4>1. \A i \in Slots : Runnable(i) => i < n
        <5>1. \A i \in Slots : Runnable(i) => ~(i > m)
          BY <2>1 DEF ListUpTo, Runnable
        <5>2. m \in Slots
          BY <2>1 DEF ListUpTo
        <5> QED BY <1>2, <3>1, <5>1, <5>2
      <4>2. ASSUME NEW i \in Slots, NEW j \in Slots, i < j, Runnable(i)', Runnable(j)'
            PROVE  pid'[i] < pid'[j]
        <5>1. i # n
          <6> SUFFICES ASSUME i = n PROVE FALSE
            OBVIOUS
          <6>1. j # n /\ j < n /\ i \in Nat /\ j \in Nat
            BY <1>2, <3>2, <4>1, <4>2
          <6> QED BY <4>2, <6>1
        <5>2. CASE j = n
          BY <1>1, <3>2, <4>2, <5>1, <5>2
        <5>3. CASE j # n
          BY <1>1, <3>2, <4>2, <5>1, <5>3 DEF Ordered
        <5> QED BY <5>2, <5>3
      <4> QED BY <4>2 DEF Ordered
    <3>8. MainLives'
      <4>1. Runnable(0) /\ 0 # n /\ next_pid # 1
        BY <1>1, <1>2, <3>2 DEF MainLives
      <4>2. name'[1] = name[1]
        BY <1>1, <1>2, <2>4, <4>1
      <4> QED BY <1>1, <1>2, <3>2, <4>1, <4>2 DEF MainLives
    <3> QED BY <3>5, <3>6, <3>7, <3>8 DEF RR!Next
  <2> QED BY <1>8, <2>1, <2>2, <2>3, <2>4, CreateExtends
<1>9. CASE EndBatch \/ Park \/ UNCHANGED vars
  <2>1. UNCHANGED <<state, pid, name, onCpu>>
    BY <1>9 DEF EndBatch, Park, vars, taskVars
  <2> QED BY <1>3, <2>1
<1>10. CASE KillForeground
  <2>1. /\ UNCHANGED <<pid, name, onCpu>>
        /\ state' = [i \in Slots |-> IF i \in Victims THEN "UNUSED" ELSE state[i]]
        /\ name[onCpu] = "shell" /\ Victims # {} /\ cpu = "on"
    BY <1>10 DEF KillForeground, At, taskVars
  <2>2. /\ Victims \subseteq Slots
        /\ \A i \in Victims : Runnable(i) /\ name[pid[i]] \notin {"shell", "main"}
    BY DEF Victims, Runnable
  <2>3. \A i \in Slots : Runnable(i)' <=> Runnable(i) /\ i \notin Victims
    BY <2>1 DEF Runnable
  <2> DEFINE K == {pid[i] : i \in Victims}
  <2>4. K \subseteq Alive \ {onCpu, 1} /\ K # {}
    BY <1>1, <2>1, <2>2 DEF Alive, MainLives
  <2>5. Alive' = Alive \ K
    <3>1. \A i \in Victims, j \in Slots : Runnable(j) /\ pid[i] = pid[j] => i = j
      BY <1>1, <2>2 DEF Bookkeeping, PidsUnique, Runnable
    <3>2. \A i \in Slots : Runnable(i) => (pid[i] \in K <=> i \in Victims)
      BY <3>1
    <3> HIDE DEF K
    <3> QED BY <2>1, <2>3, <3>2 DEF Alive
  <2> HIDE DEF K
  <2>6. RR!Kill
    BY <2>1, <2>4, <2>5 DEF RR!Kill, Alive
  <2>7. Ordered'
    BY <1>1, <2>1, <2>3 DEF Ordered
  <2>8. MainLives'
    BY <1>1, <1>2, <2>1, <2>2, <2>3 DEF MainLives
  <2> QED BY <2>6, <2>7, <2>8 DEF RR!Next
<1> QED BY <1>4, <1>5, <1>6, <1>7, <1>8, <1>9, <1>10 DEF Next

\* With workers that end by sys_exit and slots that are not used twice, the
\* scheduler implements RoundRobin: whatever takes the processor from a task,
\* the tasks get it in the order of their pids.
THEOREM TasksTakeTurns ==
    ASSUME "return" \notin Exits
    PROVE  Spec /\ [][~ReusesASlot]_vars => TurnsInOrder
<1>1. ResumeInv /\ TurnsInv /\ [Next]_vars /\ [~ReusesASlot]_vars =>
        TurnsInv' /\ [RR!Next]_(RR!rrVars)
  <2> SUFFICES ASSUME ResumeInv, TurnsInv, [Next]_vars, [~ReusesASlot]_vars
               PROVE  TurnsInv' /\ [RR!Next]_(RR!rrVars)
    OBVIOUS
  <2>1. Bookkeeping'
    BY BookkeepingStep DEF TurnsInv
  <2>2. TypeOK'
    BY <2>1 DEF Bookkeeping, TypeInv
  <2>3. (\E m : ListUpTo(m))'
    BY ListStep DEF TurnsInv
  <2>4. (RR!Next \/ UNCHANGED RR!rrVars) /\ Ordered' /\ MainLives'
    BY <2>2, TurnsStep
  <2>5. TurnsInv'
    BY <2>1, <2>3, <2>4 DEF TurnsInv
  <2> QED BY <2>4, <2>5
<1> QED BY <1>1, TurnsInit, ResumeInit, ResumeStep, PTL DEF Spec, TurnsInOrder, RR!Spec


=============================================================================
