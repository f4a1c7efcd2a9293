------------------------------- MODULE Session -------------------------------
(***************************************************************************)
(* A session at the shell: logging in (kernel/tty.c), dispatching the      *)
(* lines that are entered (dispatch of kernel/shell.c), and the editor.    *)
(* How a line is typed is LineEditor's.                                    *)
(*                                                                         *)
(* A line is a sequence of segments, which semicolons separate, and a      *)
(* segment a sequence of words; blanks around words do not matter.  (They  *)
(* do after a command without arguments at the end of a line: "exit " is   *)
(* not exit.  That is another word here.)                                  *)
(***************************************************************************)
EXTENDS Editor, Cat

CONSTANTS
    Letters, SPACE,     \* what can be typed at the login
    MaxName,            \* 31
    Avi, Root, Power,   \* the two names and the password, as sequences
    Lines,              \* the lines that are entered
    Flags,              \* the words that cat takes for options, as Cat has them
    Tails,              \* what a buffer that is not cleared may hold
    MaxDepth            \* how many frames of dispatch the stack has room for

ASSUME SessionAssumption ==
    /\ MaxName \in Nat /\ MaxDepth \in Nat
    /\ {Avi, Root, Power} \subseteq Seq(Letters) /\ Avi # Root

ASSUME LinesAssumption == Lines \cup Tails \subseteq Seq(Seq(STRING)) /\ <<>> \notin Lines

\* For cat a word is options, "--" or the name of a file (coreutils_port.c:
\* strix_cat).
ASSUME FlagsAssumption == \A w \in DOMAIN Flags : Flags[w] = EndOfOptions \/ IsOption(Flags[w])

VARIABLES
    screen,         \* which loop reads the keyboard, or "running" a line
    entry, name,    \* the field being typed; the name typed before it
    user,           \* tty_user of the one terminal that is used
    shell_logout,
    line,           \* the line that was entered; history_add has stored it too
    todo,           \* what is still to be dispatched, next first, with its depth
    ran,            \* history: the commands of the line that were run
    garbled         \* history: one was rewritten in a buffer with garbage in it

login == <<entry, name, user>>
shell == <<shell_logout, line, todo, ran, garbled>>
sesVars == <<edVars, screen, login, shell>>

SesInit ==
    /\ EdInit /\ screen = "name" /\ entry = <<>> /\ name = <<>> /\ user = <<>>
    /\ shell_logout = FALSE /\ line = <<>> /\ todo = <<>> /\ ran = <<>> /\ garbled = FALSE

-----------------------------------------------------------------------------
(***************************************************************************)
(* tty_login                                                               *)
(***************************************************************************)
Trimmed(s) ==
    LET inked == {i \in 1 .. Len(s) : s[i] # SPACE}
    IN  IF inked = {} THEN <<>> ELSE SubSeq(s, Min(inked), Max(inked))

EntryKey ==
    /\ screen \in {"name", "password"}
    /\ \/ \E c \in Letters : Len(entry) < MaxName /\ entry' = Append(entry, c)
       \/ entry # <<>> /\ entry' = Front(entry)
    /\ UNCHANGED <<screen, name, user, shell>>

LoggedIn(who) ==
    /\ user' = who /\ screen' = "prompt" /\ shell_logout' = FALSE
    /\ entry' = <<>> /\ name' = <<>> /\ UNCHANGED <<line, todo, ran, garbled>>

Again(next, n) == screen' = next /\ name' = n /\ entry' = <<>> /\ UNCHANGED <<user, shell>>

NameEntered ==
    /\ screen = "name"
    /\ IF Trimmed(entry) = Root THEN LoggedIn(Root)
       ELSE IF Trimmed(entry) = Avi THEN Again("password", Avi) ELSE Again("name", <<>>)

PasswordEntered ==
    /\ screen = "password"
    /\ IF entry = Power THEN LoggedIn(name) ELSE Again("name", <<>>)

-----------------------------------------------------------------------------
(***************************************************************************)
(* dispatch                                                                *)
(***************************************************************************)
IsBlank(l) == l = << <<>> >>
At(l, depth) == [text |-> l, depth |-> depth]

\* Mutant of RightPart: it begins with the semicolon itself.
RightPartAgain(l) == <<<<>>>> \o Tail(l)

RightPart(l) == Tail(l)

Call(l, depth) == IF IsBlank(l) THEN <<>> ELSE <<At(l, depth)>>

\* Mutant of Pending: the right part is dispatched first.
PendingRightFirst(l, depth) == Call(RightPart(l), depth) \o Call(<<Head(l)>>, depth)

\* What a line with a semicolon calls: its left part, then its right one,
\* both trimmed, unless they are blank.
Pending(l, depth) == Call(<<Head(l)>>, depth) \o Call(RightPart(l), depth)

\* Friendly names; say and make need an argument, read without one is cat.
Friendly == [list |-> "ls", read |-> "cat", say |-> "echo", make |-> "touch"]
IsFriendly(w) == w[1] \in DOMAIN Friendly /\ (Len(w) > 1 \/ w[1] \in {"list", "read"})
Renamed(w) == [w EXCEPT ![1] = Friendly[w[1]]]

\* The buffer is not cleared: what it held follows the last word directly.
Glued(w, tail) ==
    IF tail = <<>> THEN <<w>>
    ELSE <<Front(w) \o <<"?">> \o tail[1]>> \o Tail(tail)

Goes(next, did) == todo' = next \o Tail(todo) /\ ran' = ran \o did

Enter(l) ==
    /\ screen = "prompt" /\ screen' = "running"
    /\ line' = l /\ todo' = <<At(l, 1)>> /\ ran' = <<>> /\ garbled' = FALSE
    /\ UNCHANGED <<login, shell_logout>>

OnTop == screen = "running" /\ file = NoFile /\ todo # <<>>
Top == Head(todo).text
Deeper == Head(todo).depth + 1
Words == Top[1]

\* A call beyond the end of the stack: nothing is said of what comes then.
Overflow ==
    /\ OnTop /\ Head(todo).depth > MaxDepth /\ screen' = "overflow"
    /\ UNCHANGED <<login, shell>>

Fits == OnTop /\ Head(todo).depth <= MaxDepth /\ UNCHANGED <<login, line>>

Blank ==
    /\ Fits /\ IsBlank(Top) /\ Goes(<<>>, <<>>)
    /\ UNCHANGED <<screen, shell_logout, garbled>>

Split ==
    /\ Fits /\ Len(Top) > 1
    /\ Goes(Pending(Top, Deeper), <<>>)
    /\ UNCHANGED <<screen, shell_logout, garbled>>

IsCommand == Fits /\ Len(Top) = 1 /\ ~IsBlank(Top)

\* The last line of the history is the line itself.
BangBang ==
    /\ IsCommand /\ Words[1] = "!!" /\ Goes(<<At(line, Deeper)>>, <<>>)
    /\ UNCHANGED <<screen, shell_logout, garbled>>

FriendlyName ==
    /\ IsCommand /\ IsFriendly(Words)
    /\ \E tail \in IF Words = <<"read">> THEN {<<>>} ELSE Tails :
           /\ Goes(<<At(Glued(Renamed(Words), tail), Deeper)>>, <<>>)
           /\ garbled' = (garbled \/ tail # <<>>)
    /\ UNCHANGED <<screen, shell_logout>>

\* strix_admin joins its arguments and dispatches them.
Admin ==
    /\ IsCommand /\ Words[1] = "admin" /\ Len(Words) > 1
    /\ Goes(<<At(<<Tail(Words)>>, Deeper)>>, <<>>)
    /\ UNCHANGED <<screen, shell_logout, garbled>>

Special == Words[1] = "!!" \/ IsFriendly(Words) \/ (Words[1] = "admin" /\ Len(Words) > 1)

Command ==
    /\ IsCommand /\ ~Special /\ Words[1] # "write" /\ Goes(<<>>, <<Words>>)
    /\ shell_logout' = (shell_logout \/ Words = <<"exit">>)
    /\ screen' = IF Words = <<"bye">> THEN "off" ELSE "running"
    /\ UNCHANGED garbled

\* do_vim; when kmalloc fails editor_open returns at once.
RunEditor ==
    /\ IsCommand /\ Words[1] = "write" /\ Goes(<<>>, <<Words>>)
    /\ UNCHANGED edVars \/ EditorOpen(IF Len(Words) > 1 THEN Words[2] ELSE "new.txt")
    /\ UNCHANGED <<screen, shell_logout, garbled>>

Finish ==
    /\ screen = "running" /\ file = NoFile /\ todo = <<>>
    /\ screen' = IF shell_logout THEN "name" ELSE "prompt"
    /\ line' = <<>> /\ ran' = <<>> /\ garbled' = FALSE
    /\ UNCHANGED <<login, shell_logout, todo>>

Dispatch ==
    \/ /\ Overflow \/ Blank \/ Split \/ BangBang \/ FriendlyName \/ Admin \/ Command \/ Finish
       /\ UNCHANGED edVars
    \/ RunEditor

SesNext ==
    \/ (EntryKey \/ NameEntered \/ PasswordEntered) /\ UNCHANGED edVars
    \/ (\E l \in Lines : Enter(l)) /\ UNCHANGED edVars
    \/ Dispatch
    \/ EditorKey /\ UNCHANGED <<screen, login, shell>>

\* The shell goes on by itself while it dispatches (see EveryTaskRuns); it
\* waits for keys everywhere else.
SesSpec == SesInit /\ [][SesNext]_sesVars /\ WF_sesVars(Dispatch)

-----------------------------------------------------------------------------
\* Reference: the commands of a line, from left to right, admin and the
\* friendly names replaced by what they stand for.
Meant(w) ==
    LET plain == {i \in 1 .. Len(w) : w[i] # "admin" \/ i = Len(w)}
        rest == SubSeq(w, Min(plain), Len(w))
    IN  IF IsFriendly(rest) THEN Renamed(rest) ELSE rest
CommandsFrom(l) ==
    LET from[i \in 1 .. Len(l) + 1] ==
            IF i > Len(l) THEN <<>>
            ELSE (IF l[i] = <<>> THEN <<>> ELSE <<Meant(l[i])>>) \o from[i + 1]
    IN  from
Commands(l) == CommandsFrom(l)[1]

\* A line without !! is run command by command from left to right, whatever its
\* blanks and empty parts, to its end even behind an exit; the exception is a
\* friendly name that met garbage (shell.c: dispatch; coreutils_port.c:
\* strix_admin).
IsPlain == \A i \in 1 .. Len(line) : \A j \in 1 .. Len(line[i]) : line[i][j] # "!!"
SegmentsInOrder ==
    screen = "running" /\ IsPlain /\ ~garbled =>
        /\ IsPrefix(ran, Commands(line))
        /\ todo = <<>> => ran = Commands(line)

\* A cat that ran, and its words as cat takes them.
CatRan == screen = "running" /\ ran # <<>> /\ Head(Last(ran)) = "cat"
CatWords ==
    [i \in 1 .. Len(Last(ran)) - 1 |->
        LET w == Last(ran)[i + 1] IN IF w \in DOMAIN Flags THEN Flags[w] ELSE Name]

\* cat prints what the original prints of the file, whatever was saved there,
\* and takes its arguments as the original does, except in exactly these cases:
\* a read that ends within a line repeats its number and hides an empty line, -b
\* counts empty lines, and options are missed (coreutils_port.c: cat_file,
\* strix_cat).
CatIsTheOriginalBut ==
    CatRan =>
        LET cat == StrixCat(CatWords)
        IN  /\ cat = OriginalArguments(CatWords) <=> ~Misread(CatWords)
            /\ \A f \in Files :
                 CatFile(cat.opts, disk[f]) = OriginalCat(cat.opts, disk[f]) <=> ~Differs(cat.opts, disk[f])

\* One frame for each segment, then one for each admin and each friendly name.
Frames(l) == Len(l) + Max({Len(SelectSeq(l[i], LAMBDA w : w \in {"admin"} \cup DOMAIN Friendly))
                             : i \in 1 .. Len(l)})

\* Every line that fits the stack ends, or is in the editor: the prompt or the
\* login comes back (shell.c: the recursion of dispatch).
LinesEnd ==
    (screen = "running" /\ IsPlain /\ Frames(line) <= MaxDepth)
        ~> (screen \in {"prompt", "name", "off"} \/ file # NoFile \/ garbled)

=============================================================================
