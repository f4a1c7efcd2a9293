------------------------------- MODULE Editor -------------------------------
(***************************************************************************)
(* Strix Write (kernel/editor.c): a text in an array, shifted by hand.     *)
(* keyboard_getc is one key; which keys are arrows, answers or commands is *)
(* left to the actions.  The files are what FileSystem promises of them:   *)
(* reading gives what was saved last, and saving may fail.                 *)
(***************************************************************************)
EXTENDS Integers, Sequences

CONSTANTS
    Chars, NL,      \* printable characters and the new line
    Files, NoFile,  \* names of files; no file, when the editor is not open
    Contents,       \* what files may hold at the start
    Size            \* 8192

ASSUME EditorAssumption == Size \in Nat /\ Size > 2 /\ NL \in Chars /\ NoFile \notin Files
ASSUME ContentsAssumption == \A s \in Contents : s \in Seq(Chars) /\ Len(s) <= Size - 2

VARIABLES
    disk, file,         \* the contents of the files; the file that is open
    buf, len, cur,      \* the array, how much of it is text, the cursor
    modified,
    waits               \* what the next key is taken for

edVars == <<disk, file, buf, len, cur, modified, waits>>

Cells == 0 .. Size - 1
Zero == "zero"
Zeroed == [i \in Cells |-> Zero]

EdInit ==
    /\ disk \in [Files -> Contents] /\ file = NoFile
    /\ buf = Zeroed /\ len = 0 /\ cur = 0 /\ modified = FALSE /\ waits = "command"

Text == [i \in 1 .. len |-> buf[i - 1]]

Key(w) == file # NoFile /\ waits = w
Typed == Key("command") /\ waits' = "command" /\ UNCHANGED <<disk, file>>

-----------------------------------------------------------------------------
\* The array is cleared and filled; when kmalloc fails the editor returns.
EditorOpen(f) ==
    /\ file = NoFile /\ file' = f
    /\ LET t == disk[f] IN
       /\ len' = IF Len(t) < Size - 1 THEN Len(t) ELSE Size - 1
       /\ buf' = [i \in Cells |-> IF i < len' THEN t[i + 1] ELSE Zero]
    /\ cur' = len' /\ modified' = FALSE /\ waits' = "command" /\ UNCHANGED disk

\* The buffer is freed: nothing is left of it.
EditorClose ==
    /\ file' = NoFile /\ buf' = Zeroed /\ len' = 0 /\ cur' = 0
    /\ modified' = FALSE /\ waits' = "command" /\ UNCHANGED disk

-----------------------------------------------------------------------------
\* Mutant of Room: a full array takes one more.
RoomToTheEnd == len < Size

Room == len < Size - 2

\* Mutant of Inserted: shifting from the left copies one character over all.
InsertedFromLeft(c) ==
    [i \in Cells |-> IF i = cur THEN c ELSE IF cur < i /\ i <= len THEN buf[cur] ELSE buf[i]]

\* The characters from cur on are shifted up, from the last one.
Inserted(c) ==
    [i \in Cells |-> IF i = cur THEN c ELSE IF cur < i /\ i <= len THEN buf[i - 1] ELSE buf[i]]

Write(c) ==
    /\ Typed /\ Room
    /\ buf' = Inserted(c) /\ len' = len + 1 /\ cur' = cur + 1 /\ modified' = TRUE

\* n characters from i on are shifted out, the ones behind them down.
Without(i, n) == [k \in Cells |-> IF i <= k /\ k + n < len THEN buf[k + n] ELSE buf[k]]

\* Backspace copies the character behind the text as well.
Backspace ==
    /\ Typed /\ cur > 0
    /\ buf' = [Without(cur - 1, 1) EXCEPT ![len - 1] = buf[len]]
    /\ len' = len - 1 /\ cur' = cur - 1 /\ modified' = TRUE

\* The two loops stop at s and at e; the new line at e is part of the line.
StopsAt(s, e) ==
    /\ s > 0 => buf[s - 1] = NL
    /\ e < len => buf[e] = NL
    /\ \A i \in s .. e - 1 : buf[i] # NL
LineEnd(e) == IF e < len THEN e + 1 ELSE e

CursorAfterCut == IF cur > len' THEN len' ELSE cur

CutLine ==
    /\ Typed
    /\ \E s \in 0 .. cur, e \in cur .. len :
           /\ StopsAt(s, e)
           /\ buf' = Without(s, LineEnd(e) - s)
           /\ len' = len - (LineEnd(e) - s)
    /\ cur' = CursorAfterCut /\ modified' = TRUE

-----------------------------------------------------------------------------
\* Escape, then a bracket, then a letter: an arrow.  Escape and any other key
\* closes the editor, saved or not.
Escape == Key("command") /\ waits' = "bracket" /\ UNCHANGED <<disk, file, buf, len, cur, modified>>
Bracket == Key("bracket") /\ waits' = "letter" /\ UNCHANGED <<disk, file, buf, len, cur, modified>>
EscapeExit == Key("bracket") /\ EditorClose

Arrow ==
    /\ Key("letter") /\ waits' = "command"
    /\ \/ cur > 0 /\ cur' = cur - 1
       \/ cur < len /\ cur' = cur + 1
       \/ UNCHANGED cur
    /\ UNCHANGED <<disk, file, buf, len, modified>>

\* Mutant of Saved: the text counts as saved even if that failed.
SavedAnyway == disk' \in {disk, [disk EXCEPT ![file] = Text]} /\ modified' = FALSE

Saved ==
    \/ disk' = [disk EXCEPT ![file] = Text] /\ modified' = FALSE
    \/ UNCHANGED <<disk, modified>>

SaveKey == Key("command") /\ waits' = "command" /\ Saved /\ UNCHANGED <<file, buf, len, cur>>

\* ^X asks about a modified text; "yes" saves it but leaves the editor open.
Exit ==
    /\ Key("command")
    /\ IF modified
       THEN waits' = "answer" /\ UNCHANGED <<disk, file, buf, len, cur, modified>>
       ELSE EditorClose
Yes == Key("answer") /\ waits' = "command" /\ Saved /\ UNCHANGED <<file, buf, len, cur>>
No == Key("answer") /\ EditorClose
OtherAnswer ==
    /\ Key("answer") /\ waits' = "command"
    /\ UNCHANGED <<disk, file, buf, len, cur, modified>>

EditorKey ==
    \/ \E c \in Chars : Write(c)
    \/ Backspace \/ CutLine \/ Escape \/ Bracket \/ EscapeExit \/ Arrow
    \/ SaveKey \/ Exit \/ Yes \/ No \/ OtherAnswer

EdNext == EditorKey \/ \E f \in Files : EditorOpen(f)

EdSpec == EdInit /\ [][EdNext]_edVars

-----------------------------------------------------------------------------
\* Every index that the editor uses is in the array: the text and the cursor
\* stay in front of its last two cells (editor.c: the tests len<8190, cur>0
\* and cur>len).
EditorInBounds ==
    /\ disk \in [Files -> Seq(Chars)] /\ file \in Files \cup {NoFile} /\ modified \in BOOLEAN
    /\ waits \in {"command", "bracket", "letter", "answer"}
    /\ buf \in [Cells -> Chars \cup {Zero}]
    /\ len \in 0 .. Size - 2 /\ cur \in 0 .. len
    /\ \A i \in 0 .. len - 1 : buf[i] \in Chars

\* A text that is not marked as modified is what the file holds: ^X, which then
\* closes without a question, loses nothing (editor.c: every command sets
\* modified, and only a save that succeeded clears it).
UnmodifiedIsSaved == file # NoFile /\ ~modified => Text = disk[file]

Abstract == INSTANCE TextCursor WITH text <- Text, cursor <- cur, Room <- Size - 2

\* The shifted array is a text with a cursor: each key inserts, deletes, cuts
\* or moves exactly there, and files change only by being saved (editor.c).
TextIsEdited == Abstract!TcSpec
=============================================================================
