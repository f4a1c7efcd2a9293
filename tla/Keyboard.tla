------------------------------ MODULE Keyboard ------------------------------
(***************************************************************************)
(* The keyboard (kernel/keyboard.c) and its interrupt (kernel/idt.c).      *)
(*                                                                         *)
(* Scancodes are read from the controller by two parties: keyboard_poll,   *)
(* called by the thread that wants a character, with interrupts enabled,   *)
(* and the handler of IRQ1, which may come between any two accesses of the *)
(* poll.  Both end in kpush.  The build does not optimise, so every access *)
(* of the source to a shared variable is one to memory, in its order.      *)
(*                                                                         *)
(* The controller and the PIC are external.  A byte that becomes readable  *)
(* latches IRQ1; reading an empty controller gives the last byte again; a  *)
(* latched IRQ1 whose byte was polled away may stay latched or vanish.     *)
(***************************************************************************)
EXTENDS Naturals, Sequences, FiniteSets

CONSTANTS
    Letters,    \* keys that shift and caps lock change
    Signs,      \* keys that only shift changes
    Size,       \* KBD_BUF
    MaxKeys     \* bound: scancodes typed

Keys == Letters \cup Signs
\* A press or release of shift, a press of caps lock, a release of another key.
Codes == Keys \cup {"shift", "unshift", "caps", "release"}

ASSUME KeyboardAssumption ==
    /\ Size \in Nat /\ Size > 1 /\ MaxKeys \in Nat
    /\ Keys \cap {"shift", "unshift", "caps", "release"} = {}

VARIABLES
    typed,              \* every scancode the keyboard sent, in order
    fetched,            \* how many of them were read from the controller
    irq1,               \* IRQ1 is latched in the PIC
    isr0,               \* IRQ0 is in service: the PIC holds IRQ1 back
    shift, caps,
    kbuf, khead, ktail, \* the ring
    pc,                 \* where the polling thread is
    code, char, next,   \* its locals: the scancode's number, the character, n
    pushes,             \* history: how often kbuf was written
    dropped,            \* history: the scancodes for which the ring was full
    taken,              \* history: what callers got
    mixed               \* history: an interrupt came inside a poll, or too late

ring == <<shift, caps, kbuf, khead, ktail>>
history == <<pushes, dropped, taken, mixed>>
locals == <<code, char, next>>
kbVars == <<typed, fetched, irq1, isr0, ring, pc, locals, history>>

-----------------------------------------------------------------------------
\* The case of a character: caps lock undoes shift for letters.
Character(key, sh, cl) == [key |-> key, upper |-> IF key \in Letters THEN sh # cl ELSE sh]

Nothing == [key |-> "none", upper |-> FALSE]
Slot(i, c, no) == [of |-> i, char |-> c, no |-> no]
Unwritten == Slot(0, Nothing, 0)

Succ(i) == (i + 1) % Size

\* Mutant of Full: the last free slot is used as well.
FullTooLate(n, tail) == FALSE

\* kpush keeps one slot free, to tell a full ring from an empty one.
Full(n, tail) == n = tail

KbInit ==
    /\ typed = <<>> /\ fetched = 0 /\ irq1 = FALSE /\ isr0 = FALSE
    /\ shift = FALSE /\ caps = FALSE
    /\ kbuf = [i \in 0 .. Size - 1 |-> Unwritten] /\ khead = 0 /\ ktail = 0
    /\ pc = "idle" /\ code = 0 /\ char = Nothing /\ next = 0
    /\ pushes = 0 /\ dropped = {} /\ taken = <<>> /\ mixed = FALSE

-----------------------------------------------------------------------------
(***************************************************************************)
(* The devices                                                             *)
(***************************************************************************)
\* A key is pressed or released: its scancode becomes readable at once if the
\* controller was empty.
Press(c) ==
    /\ Len(typed) < MaxKeys
    /\ typed' = Append(typed, c)
    /\ irq1' = (irq1 \/ fetched = Len(typed))
    /\ UNCHANGED <<fetched, isr0, ring, pc, locals, history>>

\* IRQ0 comes into service and out of it: see Scheduler for when.
Hold ==
    /\ isr0' = ~isr0
    /\ UNCHANGED <<typed, fetched, irq1, ring, pc, locals, history>>

\* inb(0x60): the number of the scancode that is read.
Fetched == IF fetched < Len(typed) THEN fetched + 1 ELSE fetched
MoreToRead == Fetched < Len(typed)

-----------------------------------------------------------------------------
(***************************************************************************)
(* The interrupt: the whole of handle_scancode with interrupts masked      *)
(***************************************************************************)
Pushed(i, c) ==
    IF Full(Succ(khead), ktail) THEN
        /\ dropped' = dropped \cup {i}
        /\ UNCHANGED <<kbuf, khead, pushes>>
    ELSE
        /\ kbuf' = [kbuf EXCEPT ![khead] = Slot(i, c, pushes + 1)]
        /\ khead' = Succ(khead) /\ pushes' = pushes + 1
        /\ UNCHANGED dropped

HandleScancode(i) ==
    LET sc == typed[i]
    IN  /\ shift' = (sc = "shift" \/ (shift /\ sc # "unshift"))
        /\ caps' = (caps # (sc = "caps"))
        /\ IF sc \in Keys THEN Pushed(i, Character(sc, shift, caps))
           ELSE UNCHANGED <<kbuf, khead, pushes, dropped>>

KeyboardInterrupt ==
    /\ irq1 /\ ~isr0
    /\ fetched' = Fetched /\ irq1' = MoreToRead
    /\ HandleScancode(Fetched)
    /\ mixed' = (mixed \/ pc \notin {"idle", "done"} \/ fetched = Len(typed))
    /\ UNCHANGED <<typed, isr0, ktail, pc, locals, taken>>

-----------------------------------------------------------------------------
(***************************************************************************)
(* keyboard_poll, one access to the devices or to shared memory at a time  *)
(***************************************************************************)
Devices == <<typed, isr0>>

\* Mutant of AfterStatus: what the interrupt will fetch is left to it.
AfterStatusTrusting == IF fetched < Len(typed) /\ ~irq1 THEN "data" ELSE "done"

\* The loop of keyboard_poll.
AfterStatus == IF fetched < Len(typed) THEN "data" ELSE "done"

PollStatus ==
    /\ pc = "idle" /\ pc' = AfterStatus
    /\ UNCHANGED <<Devices, fetched, irq1, ring, locals, history>>

PollData ==
    /\ pc = "data" /\ pc' = "handle"
    /\ code' = Fetched /\ fetched' = Fetched
    /\ irq1' \in IF MoreToRead THEN {TRUE} ELSE {irq1, FALSE}
    /\ UNCHANGED <<Devices, ring, char, next, history>>

\* The modifiers; caps ^= 1 loads here and stores in the next step.
PollModifier ==
    /\ pc = "handle" /\ typed[code] \notin Keys
    /\ pc' = IF typed[code] = "caps" THEN "caps" ELSE "idle"
    /\ shift' = (typed[code] = "shift" \/ (shift /\ typed[code] # "unshift"))
    /\ next' = IF caps THEN 0 ELSE 1
    /\ UNCHANGED <<Devices, fetched, irq1, caps, kbuf, khead, ktail, code, char, history>>

PollCaps ==
    /\ pc = "caps" /\ pc' = "idle"
    /\ caps' = (next = 1)
    /\ UNCHANGED <<Devices, fetched, irq1, shift, kbuf, khead, ktail, locals, history>>

PollKey ==
    /\ pc = "handle" /\ typed[code] \in Keys /\ pc' = "push"
    /\ char' = Character(typed[code], shift, caps)
    /\ UNCHANGED <<Devices, fetched, irq1, ring, code, next, history>>

\* kpush: n is computed and compared, then the slot is written, then khead.
PushRoom ==
    /\ pc = "push" /\ next' = Succ(khead)
    /\ IF Full(Succ(khead), ktail)
       THEN pc' = "idle" /\ dropped' = dropped \cup {code}
       ELSE pc' = "store" /\ UNCHANGED dropped
    /\ UNCHANGED <<Devices, fetched, irq1, ring, code, char, pushes, taken, mixed>>

PushStore ==
    /\ pc = "store" /\ pc' = "advance"
    /\ kbuf' = [kbuf EXCEPT ![khead] = Slot(code, char, pushes + 1)]
    /\ pushes' = pushes + 1
    /\ UNCHANGED <<Devices, fetched, irq1, shift, caps, khead, ktail, locals, dropped, taken, mixed>>

PushAdvance ==
    /\ pc = "advance" /\ pc' = "idle"
    /\ khead' = next
    /\ UNCHANGED <<Devices, fetched, irq1, shift, caps, kbuf, ktail, locals, history>>

Poll == PollStatus \/ PollData \/ PollModifier \/ PollCaps \/ PollKey
        \/ PushRoom \/ PushStore \/ PushAdvance

-----------------------------------------------------------------------------
(***************************************************************************)
(* keyboard_try_getc and keyboard_has_char, after their poll               *)
(***************************************************************************)
\* Mutant of TailAfter: the slot is not given back.
TailAfterSame == ktail

TailAfter == Succ(ktail)

Take ==
    /\ pc = "done" /\ khead # ktail /\ pc' = "idle"
    /\ taken' = Append(taken, kbuf[ktail])
    /\ ktail' = TailAfter
    /\ UNCHANGED <<Devices, fetched, irq1, shift, caps, kbuf, khead, locals, pushes, dropped, mixed>>

\* Nothing was there, or the caller only wanted to know.
Return ==
    /\ pc = "done" /\ pc' = "idle"
    /\ UNCHANGED <<Devices, fetched, irq1, ring, locals, history>>

KbNext ==
    \/ \E c \in Codes : Press(c)
    \/ Hold \/ KeyboardInterrupt \/ Poll \/ Take \/ Return

\* The thread that waits for a character polls on, and who was told that there
\* is one calls keyboard_getc next.  Nothing is assumed of the interrupt.
KbSpec == KbInit /\ [][KbNext]_kbVars /\ WF_kbVars(Poll \/ Return) /\ SF_kbVars(Take)

-----------------------------------------------------------------------------
\* The slots from ktail up to khead, in order.
Waiting == [i \in 1 .. (khead + Size - ktail) % Size |-> kbuf[(ktail + i - 1) % Size]]

\* Reference: what the scancode number i means, from what was typed before it.
ShiftDown(i) ==
    \E j \in 1 .. i - 1 : typed[j] = "shift" /\ \A k \in j + 1 .. i - 1 : typed[k] # "unshift"
CapsOn(i) == Cardinality({j \in 1 .. i - 1 : typed[j] = "caps"}) % 2 = 1
Meant(i) == Character(typed[i], ShiftDown(i), CapsOn(i))

\* How many scancodes are dealt with: the poll may be at the last one read.
Settled == IF pc \in {"idle", "done", "data"} THEN fetched ELSE fetched - 1

\* As long as no interrupt came inside a poll and none came after its byte had
\* been polled away, callers get what was typed: every key once, in order, in
\* the case that shift and caps lock give it, unless the ring was full
\* (keyboard.c: handle_scancode, kpush, keyboard_try_getc; idt.c: IRQ1).
KeysInOrder ==
    ~mixed =>
        LET out == taken \o Waiting
            wanted == {i \in 1 .. Settled : typed[i] \in Keys /\ i \notin dropped}
        IN  /\ {out[k].of : k \in 1 .. Len(out)} = wanted
            /\ \A k \in 1 .. Len(out) : out[k].char = Meant(out[k].of)
            /\ \A k \in 1 .. Len(out) - 1 : out[k].of < out[k + 1].of

\* However interrupts and polls meet, no slot is read that was not written and
\* nothing that was pushed comes out twice or before what was pushed earlier
\* (keyboard.c: kpush run twice at once, keyboard_try_getc).
PushedComesOnce ==
    LET out == taken \o Waiting
    IN  /\ khead \in 0 .. Size - 1 /\ ktail \in 0 .. Size - 1
        /\ \A k \in 1 .. Len(out) : out[k].no > 0
        /\ \A k \in 1 .. Len(out) - 1 : out[k].no < out[k + 1].no

\* What was typed does not stay in the controller or in the ring, even if the
\* interrupt never comes: polling alone is enough (keyboard.c: keyboard_poll,
\* keyboard_getc).
KeysGetThrough ==
    (fetched < Len(typed) \/ khead # ktail) ~> (fetched = Len(typed) /\ khead = ktail)
=============================================================================
