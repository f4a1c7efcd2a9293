------------------------------- MODULE Console -------------------------------
(***************************************************************************)
(* The screen: vga_putchar (kernel/main.c) and fb_putchar (kernel/fb.c),   *)
(* which do the same with other cells.                                     *)
(*                                                                         *)
(* vga_puts masks interrupts and sys_write runs in an interrupt gate, so   *)
(* their characters are one step each.  vga_putdec, which kmain and the    *)
(* workers print numbers with, does neither, and neither does vga_clear:   *)
(* the timer may switch tasks between any two accesses to the cursor, and  *)
(* others print meanwhile.  Only one task is ever suspended there, for     *)
(* only the timer suspends it and there is one EOI to owe (see Scheduler), *)
(* so one such writer is enough.  The build does not optimise: loads and   *)
(* stores are those of the source.                                         *)
(*                                                                         *)
(* A colour stands for the entry of the palette of sixteen it is nearest   *)
(* to; on the VGA it is that entry.                                        *)
(***************************************************************************)
EXTENDS Integers, Sequences

CONSTANTS
    Width, Height,  \* VGA_WIDTH and VGA_HEIGHT, or fb_w and fb_h
    Tab,            \* 8: a tab goes to the next multiple
    SgrLists,       \* the parameters of the colour sequences that are printed
    Nearest         \* the entries that colours given otherwise are nearest to

ASSUME ConsoleAssumption ==
    /\ Width \in Nat \ {0} /\ Height \in Nat \ {0} /\ Tab \in Nat \ {0}

ASSUME ColourAssumption == SgrLists \subseteq Seq(Nat) /\ Nearest \subseteq 0 .. 15

VARIABLES
    graphics,       \* fb_graphics: decided once by fb_init
    row, col,       \* the cursor
    esc,            \* what was seen of an escape sequence
    fg, bg,         \* the colours, as indices of the palette
    at,             \* where the unmasked writer is
    loaded,         \* the row or column it has loaded
    cell            \* the highest cell of the last step that wrote any, or -1

cursor == <<row, col>>
writer == <<at, loaded>>
conVars == <<graphics, row, col, esc, fg, bg, at, loaded, cell>>

-----------------------------------------------------------------------------
LightGrey == 7
Black == 0

ConInit ==
    /\ graphics \in BOOLEAN
    /\ row = 0 /\ col = 0 /\ esc = "no" /\ fg = LightGrey /\ bg = Black
    /\ at = "out" /\ loaded = 0 /\ cell = -1

\* fb_draw_char leaves out what lies beyond the display.
CellAt(r, c) == IF graphics /\ (r >= Height \/ c >= Width) THEN -1 ELSE r * Width + c

\* Mutant of NextRow: the screen scrolls one row too late.
NextRowTooLate(r) == IF r + 1 > Height THEN Height - 1 ELSE r + 1

\* The row after r; at the bottom the screen scrolls and the row stays.
NextRow(r) == IF r + 1 >= Height THEN Height - 1 ELSE r + 1

\* The cursor goes on to column c, or to the next row if that is beyond the last.
GoOn(c) ==
    /\ col' = IF c >= Width THEN 0 ELSE c
    /\ row' = IF c >= Width THEN NextRow(row) ELSE row

Stay == UNCHANGED cursor
NoCell == cell' = -1

-----------------------------------------------------------------------------
(***************************************************************************)
(* One character outside of an escape sequence, with interrupts masked     *)
(***************************************************************************)
Glyph ==
    /\ cell' = CellAt(row, col)
    /\ GoOn(col + 1)
    /\ UNCHANGED esc

NewLine        == col' = 0 /\ row' = NextRow(row) /\ NoCell /\ UNCHANGED esc
CarriageReturn == col' = 0 /\ row' = row /\ NoCell /\ UNCHANGED esc
Tabulator      == GoOn(((col + Tab) \div Tab) * Tab) /\ NoCell /\ UNCHANGED esc
Bell           == Stay /\ NoCell /\ UNCHANGED esc
Escape         == esc' = "first" /\ Stay /\ NoCell

\* Back by one cell, which is cleared; on the VGA also to the row above.
Backspace ==
    /\ IF col > 0 THEN col' = col - 1 /\ row' = row
       ELSE IF row > 0 /\ ~graphics THEN col' = Width - 1 /\ row' = row - 1
       ELSE Stay
    /\ cell' = IF col > 0 \/ (row > 0 /\ ~graphics) THEN CellAt(row', col') ELSE -1
    /\ UNCHANGED esc

Printed ==
    /\ esc = "no"
    /\ Glyph \/ NewLine \/ CarriageReturn \/ Tabulator \/ Bell \/ Escape \/ Backspace
    /\ UNCHANGED <<fg, bg>>

-----------------------------------------------------------------------------
(***************************************************************************)
(* A character inside of one: a letter ends it, and acts after "ESC ["     *)
(***************************************************************************)
EraseToEnd ==
    /\ cell' = IF col < Width THEN CellAt(row, Width - 1) ELSE -1
    /\ Stay

EraseAll == row' = 0 /\ col' = 0 /\ cell' = CellAt(Height - 1, Width - 1)
Home     == row' = 0 /\ col' = 0 /\ NoCell

Left ==
    /\ IF col > 0 THEN col' = col - 1 /\ row' = row
       ELSE IF row > 0 /\ ~graphics THEN col' = Width - 1 /\ row' = row - 1
       ELSE Stay
    /\ NoCell

Right ==
    /\ IF col < Width - 1 THEN col' = col + 1 /\ row' = row
       ELSE IF graphics THEN Stay
       ELSE col' = 0 /\ row' = IF row < Height - 1 THEN row + 1 ELSE row
    /\ NoCell

\* Mutant of Background: the bit that makes the VGA blink is kept.
BackgroundBright(i) == i

Background(i) == IF graphics THEN i ELSE i % 8

\* The colours after the parameter i; near stands for a colour given by its
\* number or by its red, green and blue.
SgrStep(p, near, c, i) ==
    LET v == p[i]
        to(ground, colour, n) ==
            [c EXCEPT !.fg = IF ground = "fg" THEN colour ELSE @,
                      !.bg = IF ground = "bg" THEN Background(colour) ELSE @, !.next = i + n]
        dim == IF c.bright THEN 8 ELSE 0
        ground == IF v = 48 THEN "bg" ELSE "fg"
    IN  IF i < c.next THEN c
        ELSE IF v = 0 THEN [fg |-> LightGrey, bg |-> Black, bright |-> FALSE, next |-> i + 1]
        ELSE IF v \in {1, 22} THEN [c EXCEPT !.bright = (v = 1)]
        ELSE IF v \in 30 .. 37 THEN to("fg", v - 30 + dim, 1)
        ELSE IF v \in 40 .. 47 THEN to("bg", v - 40 + dim, 1)
        ELSE IF v \in 90 .. 97 THEN to("fg", v - 90 + 8, 1)
        ELSE IF v \in 100 .. 107 THEN to("bg", v - 100 + 8, 1)
        ELSE IF v \in {38, 48} /\ i + 2 <= Len(p) /\ p[i + 1] = 5 THEN to(ground, near, 3)
        ELSE IF v \in {38, 48} /\ i + 4 <= Len(p) /\ p[i + 1] = 2 THEN to(ground, near, 5)
        ELSE c

\* What the parameters before the first one find.
SgrStart == [fg |-> fg, bg |-> bg, bright |-> FALSE, next |-> 1]

Sgr(p, near) ==
    LET after[i \in 0 .. Len(p)] ==
            IF i = 0 THEN SgrStart ELSE SgrStep(p, near, after[i - 1], i)
    IN  after[Len(p)]

Colours == \E p \in SgrLists, near \in Nearest :
    /\ fg' = Sgr(p, near).fg /\ bg' = Sgr(p, near).bg
    /\ Stay /\ NoCell

Ends ==
    /\ esc # "no" /\ esc' = "no"
    /\ IF esc = "csi"
       THEN \/ (EraseToEnd \/ EraseAll \/ Home \/ Left \/ Right) /\ UNCHANGED <<fg, bg>>
            \/ Colours
            \/ Stay /\ NoCell /\ UNCHANGED <<fg, bg>>
       ELSE Stay /\ NoCell /\ UNCHANGED <<fg, bg>>

\* A bracket, a digit, a semicolon: only the first decides.
GoesOn ==
    /\ esc # "no"
    /\ esc' \in IF esc = "first" THEN {"csi", "junk"} ELSE {esc}
    /\ Stay /\ NoCell /\ UNCHANGED <<fg, bg>>

Masked == (Printed \/ Ends \/ GoesOn) /\ UNCHANGED <<graphics, writer>>

-----------------------------------------------------------------------------
(***************************************************************************)
(* One digit with interrupts enabled                                       *)
(***************************************************************************)
Screen == <<graphics, esc, fg, bg>>
Step(from, to) == at = from /\ at' = to

\* Inside somebody's escape sequence the digit becomes a part of that.
DigitBegins ==
    /\ at = "out" /\ at' = IF esc = "no" THEN "row" ELSE "out"
    /\ esc' = IF esc = "first" THEN "junk" ELSE esc
    /\ NoCell /\ UNCHANGED <<cursor, loaded, graphics, fg, bg>>

LoadRow == Step("row", "cell") /\ loaded' = row /\ NoCell /\ UNCHANGED <<cursor, Screen>>
WriteCell ==
    /\ Step("cell", "load") /\ cell' = CellAt(loaded, col)
    /\ UNCHANGED <<cursor, loaded, Screen>>
LoadCol == Step("load", "store") /\ loaded' = col /\ NoCell /\ UNCHANGED <<cursor, Screen>>
StoreCol ==
    /\ Step("store", "wrap") /\ col' = loaded + 1
    /\ NoCell /\ UNCHANGED <<row, loaded, Screen>>
TestCol ==
    /\ Step("wrap", IF col >= Width THEN "zero" ELSE "out")
    /\ NoCell /\ UNCHANGED <<cursor, loaded, Screen>>
ZeroCol == Step("zero", "down") /\ col' = 0 /\ NoCell /\ UNCHANGED <<row, loaded, Screen>>
LoadDown == Step("down", "lower") /\ loaded' = row /\ NoCell /\ UNCHANGED <<cursor, Screen>>
StoreDown ==
    /\ Step("lower", "bottom") /\ row' = loaded + 1
    /\ NoCell /\ UNCHANGED <<col, loaded, Screen>>
TestRow ==
    /\ Step("bottom", IF row >= Height THEN "scroll" ELSE "out")
    /\ NoCell /\ UNCHANGED <<cursor, loaded, Screen>>
Scroll ==
    /\ Step("scroll", "out") /\ row' = Height - 1
    /\ cell' = CellAt(Height - 1, Width - 1) /\ UNCHANGED <<col, loaded, Screen>>

(***************************************************************************)
(* vga_clear and fb_clear: the coordinates are reset one after the other   *)
(***************************************************************************)
ClearBegins ==
    /\ Step("out", "clear") /\ cell' = CellAt(Height - 1, Width - 1)
    /\ IF graphics THEN col' = 0 /\ row' = row ELSE row' = 0 /\ col' = col
    /\ UNCHANGED <<loaded, Screen>>
ClearEnds ==
    /\ Step("clear", "out")
    /\ IF graphics THEN row' = 0 /\ col' = col ELSE col' = 0 /\ row' = row
    /\ NoCell /\ UNCHANGED <<loaded, Screen>>

Unmasked == DigitBegins \/ LoadRow \/ WriteCell \/ LoadCol \/ StoreCol \/ TestCol \/ ZeroCol
            \/ LoadDown \/ StoreDown \/ TestRow \/ Scroll \/ ClearBegins \/ ClearEnds

ConNext == Masked \/ Unmasked

ConSpec == ConInit /\ [][ConNext]_conVars

-----------------------------------------------------------------------------
\* Whatever was printed while a task was suspended in the middle of a digit,
\* once that digit is done the cursor is on the screen again (main.c:
\* vga_putchar, vga_putdec; fb.c: fb_putchar).
CursorComesBack == at = "out" => row < Height /\ col < Width

\* Meanwhile characters may miss the screen, but never by more than a row: on
\* the VGA that is still video memory, which holds several pages.
WritesStayNear == cell < (Height + 1) * Width

\* The state of the console has its type; the background never has the bit
\* that makes a VGA cell blink (main.c: the masks by 7 in vga_putchar).
ConTypeOK ==
    /\ graphics \in BOOLEAN /\ esc \in {"no", "first", "csi", "junk"}
    /\ row \in Nat /\ col \in Nat /\ loaded \in Nat /\ cell \in Int
    /\ fg \in 0 .. 15 /\ bg \in 0 .. 15 /\ (graphics \/ bg < 8)
    /\ at \in {"out", "row", "cell", "load", "store", "wrap", "zero", "down", "lower", "bottom", "scroll",
              "clear"}
    /\ WritesStayNear
=============================================================================
