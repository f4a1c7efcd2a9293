-------------------------------- MODULE Cat --------------------------------
(***************************************************************************)
(* The command cat: the port (kernel/coreutils_port.c) and the original    *)
(* beside it, which the port is "adapted from" (kernel/coreutils/cat.c).   *)
(* What is printed is a sequence of characters and line numbers.           *)
(*                                                                         *)
(* -v and -u do nothing in the port.  The texts here have only characters  *)
(* that -v and -T leave alone, so that -A is -E.                           *)
(***************************************************************************)
EXTENDS Integers, SequencesExt

CONSTANTS
    LF,         \* the new line
    Chunk       \* 128: what one read fetches

ASSUME CatAssumption == Chunk \in Nat \ {0}

\* What is printed: a character as it is, or the number of a line.
Put(c) == [char |-> c]
Number(k) == [number |-> k]
NewLine(o) == IF "E" \in o THEN <<Put("$"), Put(LF)>> ELSE <<Put(LF)>>

-----------------------------------------------------------------------------
(***************************************************************************)
(* cat_file: what was read is cut into pieces, at new lines and wherever a *)
(* read ends, and each piece is taken for a line.                          *)
(***************************************************************************)
BeginsLine(t, p) == p = 1 \/ t[p - 1] = LF
BeginsRead(p) == (p - 1) % Chunk = 0
BeginsPiece(t, p) == BeginsLine(t, p) \/ BeginsRead(p)

\* Where the piece begins that reaches to p.
PieceOf(t, p) == Max({q \in 1 .. p : BeginsPiece(t, q)})

Printed(o, st, piece) ==
    LET blank == Head(piece) = LF
        ends  == Last(piece) = LF
        text  == IF ends THEN Front(piece) ELSE piece
        numbered == "n" \in o \/ ("b" \in o /\ ~blank)
    IN  [prev_blank |-> blank,
         line |-> IF ends THEN st.line + 1 ELSE st.line,
         out  |-> st.out \o (IF numbered THEN <<Number(st.line)>> ELSE <<>>)
                         \o [i \in DOMAIN text |-> Put(text[i])]
                         \o (IF ends THEN NewLine(o) ELSE <<>>)]

\* Mutant of Squeezed: every empty line goes.
SqueezedAll(o, st, piece) == "s" \in o /\ Head(piece) = LF

Squeezed(o, st, piece) == "s" \in o /\ Head(piece) = LF /\ st.prev_blank

NextPiece(o, st, piece) == IF Squeezed(o, st, piece) THEN st ELSE Printed(o, st, piece)

\* What is printed when the text ends at p.
CatUpTo(o, t) ==
    LET upto[p \in 0 .. Len(t)] ==
            IF p = 0 THEN [prev_blank |-> FALSE, line |-> 1, out |-> <<>>]
            ELSE NextPiece(o, upto[PieceOf(t, p) - 1], SubSeq(t, PieceOf(t, p), p))
    IN  upto
CatFile(o, t) == CatUpTo(o, t)[Len(t)].out

-----------------------------------------------------------------------------
(***************************************************************************)
(* strix_cat.  A word is short or long options, "--", or the name of a     *)
(* file.                                                                   *)
(***************************************************************************)
Short(o) == [kind |-> "short", opts |-> o]
Long(o)  == [kind |-> "long", opts |-> o]
EndOfOptions == [kind |-> "end", opts |-> {}]
Name == [kind |-> "file", opts |-> {}]
IsOption(w) == w.kind \in {"short", "long"}

\* -b overrides -n.
Settled(o) == IF "b" \in o THEN o \ {"n"} ELSE o

\* The first word that is no option; "--" ends the options.
Stop(argv) == Min({i \in DOMAIN argv : ~IsOption(argv[i])} \cup {Len(argv) + 1})
Ended(argv) == Stop(argv) <= Len(argv) /\ argv[Stop(argv)] = EndOfOptions

\* Only a short option and "--" move files_start on.
FilesStart(argv) ==
    IF Ended(argv) THEN Stop(argv) + 1
    ELSE Max({i \in 1 .. Stop(argv) - 1 : argv[i].kind = "short"} \cup {0}) + 1

StrixCat(argv) ==
    [opts  |-> Settled(UNION {argv[i].opts : i \in 1 .. Stop(argv) - 1}),
     files |-> SubSeq(argv, FilesStart(argv), Len(argv))]

-----------------------------------------------------------------------------
(***************************************************************************)
(* The original.  cat() looks at one character after the other; its        *)
(* sentinel makes the end of a read invisible.  newlines counts new lines  *)
(* in a row, -1 within a line.                                             *)
(***************************************************************************)
WithNumber(st, numbered) ==
    IF numbered THEN [st EXCEPT !.lines = @ + 1, !.out = Append(@, Number(st.lines + 1))] ELSE st

RealNewline(o, st) ==
    LET newlines == IF st.newlines < 2 THEN st.newlines + 1 ELSE 2
        counted  == [st EXCEPT !.newlines = newlines]
        numbered == WithNumber(counted, newlines > 0 /\ "n" \in o)
    IN  IF newlines = 2 /\ "s" \in o THEN counted
        ELSE [numbered EXCEPT !.out = @ \o NewLine(o)]

OtherCharacter(o, st, c) ==
    LET numbered == WithNumber(st, st.newlines >= 0 /\ o \cap {"n", "b"} # {})
    IN  [newlines |-> -1, lines |-> numbered.lines, out |-> Append(numbered.out, Put(c))]

NextCharacter(o, st, c) == IF c = LF THEN RealNewline(o, st) ELSE OtherCharacter(o, st, c)

OriginalUpTo(o, t) ==
    LET upto[p \in 0 .. Len(t)] ==
            IF p = 0 THEN [newlines |-> 0, lines |-> 0, out |-> <<>>]
            ELSE NextCharacter(o, upto[p - 1], t[p])
    IN  upto
OriginalCat(o, t) == OriginalUpTo(o, t)[Len(t)].out

\* getopt_long finds options also behind files, up to the first "--"; names
\* are what it leaves of the words from i on.
NamesFrom(argv) ==
    LET names[i \in 1 .. Len(argv) + 1] ==
            IF i > Len(argv) THEN <<>>
            ELSE IF argv[i] = EndOfOptions THEN SubSeq(argv, i + 1, Len(argv))
            ELSE (IF IsOption(argv[i]) THEN <<>> ELSE <<argv[i]>>) \o names[i + 1]
    IN  names

OriginalArguments(argv) ==
    LET end == Min({i \in DOMAIN argv : argv[i] = EndOfOptions} \cup {Len(argv) + 1})
    IN  [opts  |-> Settled(UNION {argv[i].opts : i \in 1 .. end - 1}),
         files |-> NamesFrom(argv)[1]]

-----------------------------------------------------------------------------
\* Where a text makes a difference: a read begins within a line ...
Cuts(t) == {p \in DOMAIN t : BeginsRead(p) /\ ~BeginsLine(t, p)}
EmptyLines(t) == {p \in DOMAIN t : t[p] = LF /\ BeginsLine(t, p)}

\* ... and for -b any of it is not the new line, or text follows an empty line;
\* for -s alone, it is the new line and an empty line follows.
Differs(o, t) ==
    \/ "n" \in o /\ Cuts(t) # {}
    \/ "b" \in o /\ \/ \E p \in Cuts(t) : t[p] # LF
                    \/ \E p \in EmptyLines(t) : \E q \in p .. Len(t) : t[q] # LF
    \/ "s" \in o /\ \E p \in Cuts(t) : t[p] = LF /\ p + 1 \in EmptyLines(t)

\* The options that are lost, or taken for names of files: those behind a file
\* and long ones with no short one behind them.
Misread(argv) ==
    /\ ~Ended(argv)
    /\ \/ Stop(argv) > 1 /\ argv[Stop(argv) - 1].kind = "long"
       \/ \E i \in Stop(argv) .. Len(argv) : argv[i] # Name
=============================================================================
