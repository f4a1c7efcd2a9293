----------------------------- MODULE MCScheduler -----------------------------
(***************************************************************************)
(* Small boots of the scheduler for TLC.                                   *)
(***************************************************************************)
EXTENDS SchedulerProps

\* Everything is created in one cli section, so no slot is ever used twice.
BootAtOnce == <<"worker", "worker", "worker", "shell", "sti">>

\* kmain's real shape: workers first, and the shell after they may have ended.
BootInTwo == <<"worker", "worker", "sti", "shell", "sti">>
BootAlone == <<"worker", "sti", "shell", "sti">>
BootShort == <<"worker", "worker", "sti">>

BySyscall == {"syscall"}
ByReturn  == {"return"}
ByBoth    == {"return", "syscall"}
=============================================================================
