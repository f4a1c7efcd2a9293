----------------------------- MODULE TextCursor -----------------------------
(***************************************************************************)
(* What an editor promises: a text, a cursor between its characters, and   *)
(* files that change only when the text is saved.                          *)
(***************************************************************************)
EXTENDS Naturals, Sequences

CONSTANTS
    Chars, NL,  \* the characters; NL ends a line
    Files,      \* names
    NoFile,     \* not the name of a file
    Room        \* the longest text

VARIABLES
    disk,       \* the contents of the files; a file that is not there is empty
    file,       \* the file that is open, or NoFile
    text, cursor

tcVars == <<disk, file, text, cursor>>

Left(s, n) == SubSeq(s, 1, n)
Right(s, n) == SubSeq(s, n + 1, Len(s))

\* The line around the cursor, with the NL that ends it: the characters a + 1 to b.
IsLine(a, b) ==
    /\ a <= cursor /\ (a = 0 \/ text[a] = NL)
    /\ cursor <= b /\ (b = Len(text) \/ (cursor < b /\ text[b] = NL))
    /\ \A i \in a + 1 .. b : text[i] = NL => i = b /\ cursor < i

TcInit ==
    /\ disk \in [Files -> Seq(Chars)] /\ file = NoFile /\ text = <<>> /\ cursor = 0

Load(f) ==
    /\ file = NoFile /\ file' = f
    /\ text' = disk[f] /\ cursor' = Len(text') /\ UNCHANGED disk

Insert(c) ==
    /\ Len(text) < Room
    /\ text' = Left(text, cursor) \o <<c>> \o Right(text, cursor)
    /\ cursor' = cursor + 1 /\ UNCHANGED <<disk, file>>

DeleteBefore ==
    /\ cursor > 0
    /\ text' = Left(text, cursor - 1) \o Right(text, cursor)
    /\ cursor' = cursor - 1 /\ UNCHANGED <<disk, file>>

CutLine(a, b) ==
    /\ IsLine(a, b)
    /\ text' = Left(text, a) \o Right(text, b)
    /\ cursor' = IF cursor > Len(text') THEN Len(text') ELSE cursor
    /\ UNCHANGED <<disk, file>>

MoveTo(i) == i \in 0 .. Len(text) /\ cursor' = i /\ UNCHANGED <<disk, file, text>>

Save == disk' = [disk EXCEPT ![file] = text] /\ UNCHANGED <<file, text, cursor>>

Close == file' = NoFile /\ text' = <<>> /\ cursor' = 0 /\ UNCHANGED disk

TcNext ==
    \/ \E f \in Files : Load(f)
    \/ /\ file # NoFile
       /\ \/ \E c \in Chars : Insert(c)
          \/ \E a, b \in 0 .. Len(text) : CutLine(a, b)
          \/ cursor > 0 /\ MoveTo(cursor - 1)
          \/ MoveTo(cursor + 1)
          \/ DeleteBefore \/ Save \/ Close

TcSpec == TcInit /\ [][TcNext]_tcVars
=============================================================================
