----------------------------- MODULE LineEditor -----------------------------
(***************************************************************************)
(* The shell's prompt (kernel/shell.c: shell_task and history_add): a line *)
(* with a cursor, a ring of former lines with a draft kept aside, and Tab. *)
(* One pass of the loop, for one key, is one action; a key that only beeps *)
(* or repaints changes nothing and is left out, and so is what only tells  *)
(* a beep from a listing (last_tab, last_pref).                            *)
(***************************************************************************)
EXTENDS Integers, SequencesExt, FiniteSetsExt

CONSTANTS
    MaxLine,        \* MAX_LINE
    HistSize,       \* HIST_SIZE
    PrefixMax,      \* how much of a word is compared: the room of pref, less one
    Chars,          \* the printable characters typed
    Commands, Files,\* what Tab completes: sets of names
    FileCommands,   \* the commands after which it completes files
    Lines,          \* the lines the user enters
    MaxHist         \* bound: lines put into the history

SPACE == " "

ASSUME LineEditorAssumption ==
    /\ MaxLine \in Nat /\ MaxLine >= 2 /\ HistSize \in Nat \ {0} /\ PrefixMax \in Nat
    /\ SPACE \in Chars /\ MaxHist \in Nat

\* The names that Tab completes are made of characters that can be typed.
ASSUME NamesAssumption ==
    Commands \subseteq Seq(Chars) /\ Files \subseteq Seq(Chars) /\ FileCommands \subseteq Seq(Chars)

VARIABLES
    line, pos,      \* the first len characters of line, and the cursor
    history,        \* the ring: [0 .. HistSize - 1 -> line]
    hist_len, hist_pos,
    hist_tmp, hist_has_tmp,
    entered,        \* history: the lines entered, a repeated one once
    draft           \* history: the line the user left for an older one

ring == <<history, hist_len, entered>>
recall == <<hist_pos, hist_tmp, hist_has_tmp, draft>>
edVars == <<line, pos, ring, recall>>

EdInit ==
    /\ line = <<>> /\ pos = 0
    /\ history = [i \in 0 .. HistSize - 1 |-> <<>>]
    /\ hist_len = 0 /\ hist_pos = 0
    /\ hist_tmp = <<>> /\ hist_has_tmp = FALSE
    /\ entered = <<>> /\ draft = <<>>

-----------------------------------------------------------------------------
(***************************************************************************)
(* The line and the cursor.                                                *)
(***************************************************************************)
Before == SubSeq(line, 1, pos)
After  == SubSeq(line, pos + 1, Len(line))

\* Mutant of Room: the terminator is forgotten.
RoomToTheEnd(n) == Len(line) + n <= MaxLine

\* n more characters leave room for the terminator.
Room(n) == Len(line) + n < MaxLine

Insert(s) == line' = Before \o s \o After /\ pos' = pos + Len(s)

\* Mutant of Cut: the loop that closes the gap starts one too far.
CutOneMore(i, j) == line' = SubSeq(line, 1, i) \o SubSeq(line, j + 2, Len(line)) /\ pos' = i

\* The characters between i and j go.
Cut(i, j) == line' = SubSeq(line, 1, i) \o SubSeq(line, j + 1, Len(line)) /\ pos' = i

\* Where the word that i stands in begins, and the one to the left of i.
WordStart(i) == Max({0} \cup {k \in 1 .. i : line[k] = SPACE})
WordLeft(i)  == WordStart(Max({0} \cup {k \in 1 .. i : line[k] # SPACE}))

\* The arrows, Home or Ctrl-A, End or Ctrl-E.
Move ==
    /\ pos' \in {pos - 1, pos + 1, 0, Len(line)} \cap 0 .. Len(line)
    /\ UNCHANGED <<line, ring, recall>>

\* Delete, Backspace, Ctrl-K, Ctrl-U (at the start it takes the whole line), Ctrl-W.
Erase ==
    /\ \/ pos < Len(line) /\ Cut(pos, pos + 1)
       \/ pos > 0 /\ Cut(pos - 1, pos)
       \/ pos < Len(line) /\ Cut(pos, Len(line))
       \/ pos > 0 /\ Cut(0, pos)
       \/ pos = 0 /\ Cut(0, Len(line))
       \/ pos > 0 /\ Cut(WordLeft(pos), pos)
    /\ UNCHANGED <<ring, recall>>

Type(c) == Room(1) /\ Insert(<<c>>) /\ UNCHANGED <<ring, recall>>

-----------------------------------------------------------------------------
(***************************************************************************)
(* Tab.  The code stops at 16 matches; files are never more, and the first *)
(* 16 commands have nothing in common, like all of them.                   *)
(***************************************************************************)
Prefix ==
    LET start == WordStart(pos) IN SubSeq(line, start + 1, start + Min({pos - start, PrefixMax}))

\* The first word is a command that takes a file, and the cursor is behind it.
WantsFile ==
    /\ WordStart(pos) # 0
    /\ \E c \in FileCommands : IsPrefix(c \o <<SPACE>>, line)

Matches == {m \in IF WantsFile THEN Files ELSE Commands : IsPrefix(Prefix, m)}

\* What a name has beyond the prefix.
Rest(m) == SubSeq(m, Len(Prefix) + 1, Len(m))

\* Mutant of Common: the loop goes on to the end of the longest match.
CommonLongest(S) == CHOOSE m \in S : \A o \in S : Len(o) <= Len(m)

Common(S) == LongestCommonPrefix(S)

Tab ==
    /\ \/ \E m \in Matches :
            /\ Matches = {m} /\ Room(Len(Rest(m)) + 1)
            /\ Insert(IF After # <<>> /\ Head(After) = SPACE THEN Rest(m) ELSE Rest(m) \o <<SPACE>>)
       \/ LET more == Rest(Common(Matches))
              n    == Min({Len(more), MaxLine - 1 - Len(line)})
          IN  Cardinality(Matches) > 1 /\ n > 0 /\ Insert(SubSeq(more, 1, n))
    /\ UNCHANGED <<ring, recall>>

-----------------------------------------------------------------------------
(***************************************************************************)
(* The history.                                                            *)
(***************************************************************************)
Show(l) == line' = l /\ pos' = Len(l)
Former(i) == history[i % HistSize]

\* Mutant of CanGoBack: one line too far, into the newest.
CanGoBackTooFar == hist_pos > 0 /\ hist_pos >= hist_len - HistSize

CanGoBack == hist_pos > 0 /\ hist_pos > hist_len - HistSize

\* Mutant of AtTheEnd: the line is put aside whatever it is.
AtTheEndOrNot == TRUE

AtTheEnd == hist_pos = hist_len

Up ==
    /\ hist_len > 0
    /\ IF AtTheEnd THEN hist_tmp' = line /\ hist_has_tmp' = TRUE ELSE UNCHANGED <<hist_tmp, hist_has_tmp>>
    /\ IF CanGoBack THEN hist_pos' = hist_pos - 1 /\ Show(Former(hist_pos - 1))
                    ELSE UNCHANGED <<hist_pos, line, pos>>
    /\ draft' = IF hist_pos = hist_len THEN line ELSE draft
    /\ UNCHANGED ring

Down ==
    /\ hist_pos < hist_len /\ hist_pos' = hist_pos + 1
    /\ IF hist_pos' # hist_len THEN Show(Former(hist_pos'))
       ELSE Show(IF hist_has_tmp THEN hist_tmp ELSE <<>>)
    /\ UNCHANGED <<ring, hist_tmp, hist_has_tmp, draft>>

Trimmed(l) ==
    LET ends == {k \in 1 .. Len(l) : l[k] # SPACE}
    IN  IF ends = {} THEN <<>> ELSE SubSeq(l, Min(ends), Max(ends))

\* history_add keeps no empty line and not the same line twice in a row.
Kept(l) == l # <<>> /\ (hist_len = 0 \/ Former(hist_len - 1) # l)

\* The line is trimmed for the history and dispatched as it is; then, after a
\* logout too, the next one begins.
Enter ==
    LET l == Trimmed(line) IN
    /\ l \in Lines \cup {<<>>}
    /\ IF Kept(l)
       THEN /\ hist_len < MaxHist
            /\ history' = [history EXCEPT ![hist_len % HistSize] = l]
            /\ hist_len' = hist_len + 1 /\ hist_has_tmp' = FALSE
       ELSE UNCHANGED <<history, hist_len, hist_has_tmp>>
    /\ hist_pos' = hist_len'
    /\ line' = <<>> /\ pos' = 0
    /\ entered' = IF l = <<>> \/ (entered # <<>> /\ Last(entered) = l) THEN entered ELSE Append(entered, l)
    /\ UNCHANGED <<hist_tmp, draft>>

\* Ctrl-C, as far as the line is concerned (for the tasks see Scheduler).
CtrlC ==
    /\ line' = <<>> /\ pos' = 0 /\ hist_pos' = hist_len
    /\ UNCHANGED <<ring, hist_tmp, hist_has_tmp, draft>>

EdNext == Move \/ Erase \/ (\E c \in Chars : Type(c)) \/ Tab \/ Up \/ Down \/ Enter \/ CtrlC

EdSpec == EdInit /\ [][EdNext]_edVars

-----------------------------------------------------------------------------
\* The line has room for its terminator and the cursor is in it or behind it;
\* hist_pos names a line that is still in the ring, or the end (shell.c).
EdTypeOK ==
    /\ Len(line) < MaxLine /\ pos \in 0 .. Len(line)
    /\ \A i \in DOMAIN history : Len(history[i]) < MaxLine
    /\ Len(hist_tmp) < MaxLine /\ hist_has_tmp \in BOOLEAN
    /\ hist_len \in 0 .. MaxHist
    /\ hist_pos \in Max({0, hist_len - HistSize}) .. hist_len

\* Up and Down show the lines as they were entered, the n-th key the n-th last
\* line, also when the ring has gone round (shell.c: % HIST_SIZE and the limit).
RecallIsRight ==
    [][hist_pos' # hist_pos /\ hist_pos' < hist_len' => line' = entered[hist_pos' + 1]]_edVars

\* The line that was begun before Up comes back when Down returns to the end,
\* whatever older lines were changed meanwhile (shell.c: hist_tmp).
DraftComesBack == [][Down /\ hist_pos' = hist_len => line' = draft]_edVars

\* A key that edits takes from one side of the cursor only, next to it, or puts
\* something in at the cursor; the rest of the line stays (shell.c: every loop
\* that shifts the characters of line).
EditsAreAtTheCursor ==
    [][Erase \/ Tab \/ (\E c \in Chars : Type(c)) =>
         \/ IsSuffix(After, line') /\ pos' = Len(line') - Len(After)
            /\ (IsPrefix(Before, line') \/ IsPrefix(SubSeq(line', 1, pos'), Before))
         \/ pos' = pos /\ IsPrefix(Before, line') /\ IsSuffix(SubSeq(line', pos + 1, Len(line')), After)]_edVars

\* Completing a word that has several candidates excludes none of them: it adds
\* only what they share (shell.c: the loop over common).
CompletionExcludesNothing == [][Tab /\ Cardinality(Matches) > 1 => Matches' = Matches]_edVars
=============================================================================
