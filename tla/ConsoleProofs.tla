---------------------------- MODULE ConsoleProofs ----------------------------
(***************************************************************************)
(* Proofs about Console, for screens and tabs of any size and any colours. *)
(*                                                                         *)
(* CursorInv says where the cursor may be while a digit is being printed:  *)
(* below the screen only between StoreDown and Scroll, beside it only      *)
(* between StoreCol and ZeroCol, and what the writer has loaded was on the *)
(* screen.  The last holds because nobody else leaves the screen.          *)
(***************************************************************************)
EXTENDS Console, WellFoundedInduction, TLAPS

Places == {"out", "row", "cell", "load", "store", "wrap", "zero", "down", "lower",
           "bottom", "scroll", "clear"}

CursorInv ==
    /\ graphics \in BOOLEAN /\ at \in Places
    /\ row \in 0 .. Height /\ col \in 0 .. Width /\ loaded \in Nat
    /\ row = Height => at \in {"bottom", "scroll"}
    /\ col = Width => at \in {"wrap", "zero"}
    /\ at \in {"cell", "lower"} => loaded < Height
    /\ at = "store" => loaded < Width

\* The part of CursorInv that a step of another task must keep.
OnScreen(r, c) ==
    /\ r \in 0 .. Height /\ c \in 0 .. Width
    /\ r = Height => row = Height
    /\ c = Width => col = Width

-----------------------------------------------------------------------------
\* What NextRow returns is on the screen, even from below it.
LEMMA NextRowFits ==
    ASSUME NEW r \in 0 .. Height
    PROVE  NextRow(r) \in 0 .. Height - 1
BY ConsoleAssumption DEF NextRow

\* A cell of a row at most Height is at most one row away from the screen.
LEMMA CellFits ==
    ASSUME NEW r \in 0 .. Height, NEW c \in 0 .. Width, r = Height => c < Width
    PROVE  CellAt(r, c) < (Height + 1) * Width
<1>1. r * Width + c < (Height + 1) * Width
  <2>1. CASE r = Height
    <3>1. (Height + 1) * Width = Height * Width + Width
      BY ConsoleAssumption
    <3>2. Height * Width \in Nat
      BY ConsoleAssumption
    <3> QED
      BY <2>1, <3>1, <3>2, ConsoleAssumption
  <2>2. CASE r < Height
    <3> DEFINE d == Height - (r + 1)
    <3>1. d \in Nat /\ Height = r + 1 + d
      BY <2>2, ConsoleAssumption
    <3>2. (Height + 1) * Width = r * Width + Width + d * Width + Width
      <4>1. Height + 1 = r + (1 + (d + 1))
        BY <3>1
      <4> HIDE DEF d
      <4>2. (r + (1 + (d + 1))) * Width = r * Width + (1 + (d + 1)) * Width
        BY <3>1, ConsoleAssumption
      <4>3. (1 + (d + 1)) * Width = Width + d * Width + Width
        BY <3>1, ConsoleAssumption
      <4>4. r * Width \in Nat /\ d * Width \in Nat
        BY <3>1, ConsoleAssumption
      <4> QED
        BY <4>1, <4>2, <4>3, <4>4, ConsoleAssumption
    <3> HIDE DEF d
    <3>3. r * Width \in Nat /\ d * Width \in Nat
      BY <3>1, ConsoleAssumption
    <3> QED
      BY <3>2, <3>3, ConsoleAssumption
  <2> QED
    BY <2>1, <2>2, ConsoleAssumption
<1>2. -1 < (Height + 1) * Width
  <2>1. (Height + 1) * Width \in Nat
    BY ConsoleAssumption
  <2> QED
    BY <2>1
<1> QED
  BY <1>1, <1>2 DEF CellAt

\* The next multiple of the tab is a number.
LEMMA TabFits ==
    ASSUME NEW c \in Nat
    PROVE  ((c + Tab) \div Tab) * Tab \in Nat
<1>1. (c + Tab) \div Tab \in Nat
  BY ConsoleAssumption
<1> QED
  BY <1>1, ConsoleAssumption

\* Moving on keeps a cursor that was on the screen there.
LEMMA GoOnFits ==
    ASSUME CursorInv, NEW c \in Nat, GoOn(c)
    PROVE  OnScreen(row', col')
BY NextRowFits, ConsoleAssumption DEF CursorInv, GoOn, OnScreen

-----------------------------------------------------------------------------
\* A character of another task leaves the cursor on the screen and writes at
\* most one row below it.
LEMMA MaskedFits ==
    ASSUME CursorInv, Masked
    PROVE  OnScreen(row', col') /\ cell' < (Height + 1) * Width
<1> USE ConsoleAssumption
<1>0. -1 < (Height + 1) * Width
  <2>1. (Height + 1) * Width \in Nat
    OBVIOUS
  <2> QED
    BY <2>1
<1>a. row \in 0 .. Height /\ col \in 0 .. Width /\ (row = Height => col < Width)
  BY DEF CursorInv
<1>1. ASSUME Stay PROVE OnScreen(row', col')
  BY <1>1 DEF CursorInv, OnScreen, Stay, cursor
<1>2. CASE Printed
  <2>1. CASE Glyph
    <3>1. CellAt(row, col) < (Height + 1) * Width
      BY <1>a, CellFits
    <3> QED
      BY <2>1, <3>1, GoOnFits DEF CursorInv, Glyph
  <2>2. CASE NewLine \/ CarriageReturn
    BY <2>2, <1>0, NextRowFits DEF CursorInv, NewLine, CarriageReturn, NoCell, OnScreen
  <2>3. CASE Tabulator
    BY <2>3, <1>0, GoOnFits, TabFits DEF CursorInv, Tabulator, NoCell
  <2>4. CASE Bell \/ Escape
    BY <2>4, <1>0, <1>1 DEF Bell, Escape, NoCell
  <2>5. CASE Backspace
    <3>1. OnScreen(row', col') /\ (row' = Height => col' < Width)
      BY <2>5 DEF CursorInv, Backspace, OnScreen, Stay, cursor
    <3>2. CellAt(row', col') < (Height + 1) * Width
      BY <3>1, CellFits DEF OnScreen
    <3> QED
      BY <2>5, <1>0, <3>1, <3>2 DEF Backspace
  <2> QED
    BY <1>2, <2>1, <2>2, <2>3, <2>4, <2>5 DEF Printed
<1>3. CASE Ends
  <2>1. CASE EraseToEnd
    <3>1. CellAt(row, Width - 1) < (Height + 1) * Width
      BY <1>a, CellFits
    <3> QED
      BY <2>1, <1>0, <1>1, <3>1 DEF EraseToEnd
  <2>2. CASE EraseAll \/ Home
    <3>1. CellAt(Height - 1, Width - 1) < (Height + 1) * Width
      BY CellFits
    <3> QED
      BY <2>2, <1>0, <3>1 DEF EraseAll, Home, NoCell, OnScreen
  <2>3. CASE Left \/ Right
    BY <2>3, <1>0 DEF CursorInv, Left, Right, NoCell, OnScreen, Stay, cursor
  <2>4. CASE Colours \/ (Stay /\ NoCell)
    BY <2>4, <1>0, <1>1 DEF Colours, NoCell
  <2> QED
    BY <1>3, <2>1, <2>2, <2>3, <2>4 DEF Ends
<1>4. CASE GoesOn
  BY <1>4, <1>0, <1>1 DEF GoesOn, NoCell
<1> QED
  BY <1>2, <1>3, <1>4 DEF Masked

-----------------------------------------------------------------------------
\* The inductive step, with one case for each access of the unmasked writer.
LEMMA CursorStep ==
    ASSUME CursorInv, [ConNext]_conVars
    PROVE  CursorInv' /\ (cell' < (Height + 1) * Width \/ cell' = cell)
<1> USE ConsoleAssumption DEF CursorInv, Places, Step, Screen, cursor, NoCell
<1>0. -1 < (Height + 1) * Width
  <2>1. (Height + 1) * Width \in Nat
    OBVIOUS
  <2> QED
    BY <2>1
<1>1. CASE Masked
  BY <1>1, MaskedFits DEF Masked, OnScreen, writer
<1>2. CASE DigitBegins
  BY <1>2, <1>0 DEF DigitBegins
<1>3. CASE LoadRow
  BY <1>3, <1>0 DEF LoadRow
<1>4. CASE WriteCell
  <2>1. CellAt(loaded, col) < (Height + 1) * Width
    BY <1>4, CellFits DEF WriteCell
  <2> QED
    BY <1>4, <2>1 DEF WriteCell
<1>5. CASE LoadCol
  BY <1>5, <1>0 DEF LoadCol
<1>6. CASE StoreCol
  BY <1>6, <1>0 DEF StoreCol
<1>7. CASE TestCol
  BY <1>7, <1>0 DEF TestCol
<1>8. CASE ZeroCol
  BY <1>8, <1>0 DEF ZeroCol
<1>9. CASE LoadDown
  BY <1>9, <1>0 DEF LoadDown
<1>10. CASE StoreDown
  BY <1>10, <1>0 DEF StoreDown
<1>11. CASE TestRow
  BY <1>11, <1>0 DEF TestRow
<1>12. CellAt(Height - 1, Width - 1) < (Height + 1) * Width
  BY CellFits
<1>13. CASE Scroll
  BY <1>13, <1>12 DEF Scroll
<1>14. CASE ClearBegins
  BY <1>14, <1>12 DEF ClearBegins
<1>15. CASE ClearEnds
  BY <1>15, <1>0 DEF ClearEnds
<1>16. CASE UNCHANGED conVars
  BY <1>16 DEF conVars
<1> QED
  BY <1>1, <1>2, <1>3, <1>4, <1>5, <1>6, <1>7, <1>8, <1>9, <1>10, <1>11, <1>13, <1>14,
     <1>15, <1>16 DEF ConNext, Unmasked

LEMMA CursorAlways == ConSpec => [](CursorInv /\ WritesStayNear)
<1>1. ConInit => CursorInv /\ WritesStayNear
  <2>1. (Height + 1) * Width \in Nat
    BY ConsoleAssumption
  <2> QED
    BY <2>1, ConsoleAssumption DEF ConInit, CursorInv, Places, WritesStayNear
<1>2. CursorInv /\ WritesStayNear /\ [ConNext]_conVars => (CursorInv /\ WritesStayNear)'
  BY CursorStep DEF WritesStayNear
<1> QED
  BY <1>1, <1>2, PTL DEF ConSpec

\* Once the digit is printed the cursor is on the screen, whoever printed
\* meanwhile (vga_putchar and fb_putchar under vga_putdec).
THEOREM CursorAlwaysComesBack == ConSpec => []CursorComesBack
<1>1. CursorInv => CursorComesBack
  BY ConsoleAssumption DEF CursorInv, CursorComesBack
<1> QED
  BY <1>1, CursorAlways, PTL

\* No character is ever written more than a row beyond the screen.
THEOREM WritesAlwaysNear == ConSpec => []WritesStayNear
BY CursorAlways, PTL
-----------------------------------------------------------------------------
(***************************************************************************)
(* The colours                                                             *)
(***************************************************************************)
Grounds == {b \in 0 .. 15 : graphics \/ b < 8}
SgrState == [fg : 0 .. 15, bg : Grounds, bright : BOOLEAN, next : Nat]

\* Induction over the parameters goes through the least counterexample.
LEMMA LeastElement ==
    ASSUME NEW S \in SUBSET Nat, S # {}
    PROVE  \E m \in S : \A n \in S : m <= n
<1>1. IsWellFoundedOn(OpToRel(<, Nat), Nat)
  BY NatLessThanWellFounded
<1>2. PICK m \in S : \A n \in S : <<n, m>> \notin OpToRel(<, Nat)
  BY <1>1, WFMin
<1>3. \A n \in S : ~ (n < m)
  BY <1>2 DEF OpToRel
<1> QED BY <1>3

\* On the VGA the bit that blinks is masked out.
LEMMA BackgroundFits ==
    ASSUME graphics \in BOOLEAN, NEW i \in 0 .. 15
    PROVE  Background(i) \in Grounds
<1>1. CASE graphics
  BY <1>1 DEF Background, Grounds
<1>2. CASE ~graphics
  <2>1. i % 8 \in 0 .. 7
    OBVIOUS
  <2> QED BY <1>2, <2>1 DEF Background, Grounds
<1> QED BY <1>1, <1>2

\* Colours painted over colours.
LEMMA PaintFits ==
    ASSUME NEW c \in SgrState, NEW f \in 0 .. 15, NEW b \in Grounds, NEW m \in Nat
    PROVE  [c EXCEPT !.fg = f, !.bg = b, !.next = m] \in SgrState
BY DEF SgrState

\* One parameter leaves colours, for the VGA one that does not blink.
LEMMA SgrStepFits ==
    ASSUME graphics \in BOOLEAN, NEW p \in Seq(Nat), NEW near \in 0 .. 15,
           NEW c \in SgrState, NEW i \in 1 .. Len(p)
    PROVE  SgrStep(p, near, c, i) \in SgrState
<1>1. PICK v : v = p[i]
  OBVIOUS
<1>2. v \in Nat /\ i \in Nat /\ Len(p) \in Nat
  BY <1>1
<1>3. /\ c.fg \in 0 .. 15 /\ c.bg \in Grounds /\ c.bright \in BOOLEAN /\ c.next \in Nat
      /\ c = [fg |-> c.fg, bg |-> c.bg, bright |-> c.bright, next |-> c.next]
  BY DEF SgrState
<1>4. PICK dim : dim = IF c.bright THEN 8 ELSE 0
  OBVIOUS
<1>5. dim \in {0, 8}
  BY <1>4
<1> DEFINE To(ground, colour, n) ==
             [c EXCEPT !.fg = IF ground = "fg" THEN colour ELSE @,
                       !.bg = IF ground = "bg" THEN Background(colour) ELSE @, !.next = i + n]
<1>6. \A colour \in 0 .. 15, n \in Nat : To("fg", colour, n) \in SgrState
  <2> TAKE colour \in 0 .. 15, n \in Nat
  <2>1. PICK b : b = c.bg
    OBVIOUS
  <2>2. PICK m : m = i + n
    OBVIOUS
  <2>3. "fg" # "bg"
    OBVIOUS
  <2>4. To("fg", colour, n) = [c EXCEPT !.fg = colour, !.bg = b, !.next = m]
    BY <2>1, <2>2, <2>3, Zenon
  <2>5. b \in Grounds /\ m \in Nat
    BY <1>2, <1>3, <2>1, <2>2
  <2> QED BY <2>4, <2>5, PaintFits
<1>7. \A colour \in 0 .. 15, n \in Nat : To("bg", colour, n) \in SgrState
  <2> TAKE colour \in 0 .. 15, n \in Nat
  <2>1. PICK b : b = Background(colour)
    OBVIOUS
  <2>2. PICK m : m = i + n
    OBVIOUS
  <2>3. PICK f : f = c.fg
    OBVIOUS
  <2>4. "bg" # "fg"
    OBVIOUS
  <2>5. To("bg", colour, n) = [c EXCEPT !.fg = f, !.bg = b, !.next = m]
    BY <2>1, <2>2, <2>3, <2>4, Zenon
  <2>6. f \in 0 .. 15 /\ b \in Grounds /\ m \in Nat
    <3>1. b \in Grounds
      BY <2>1, BackgroundFits
    <3>2. f \in 0 .. 15 /\ m \in Nat
      BY <1>2, <1>3, <2>2, <2>3
    <3> QED BY <3>1, <3>2
  <2> QED BY <2>5, <2>6, PaintFits
<1> HIDE DEF To
<1>8. PICK g : g = IF v = 48 THEN "bg" ELSE "fg"
  OBVIOUS
<1>9. g \in {"fg", "bg"}
  BY <1>8
<1>10. SgrStep(p, near, c, i) =
         IF i < c.next THEN c
         ELSE IF v = 0 THEN [fg |-> LightGrey, bg |-> Black, bright |-> FALSE, next |-> i + 1]
         ELSE IF v \in {1, 22} THEN [c EXCEPT !.bright = (v = 1)]
         ELSE IF v \in 30 .. 37 THEN To("fg", v - 30 + dim, 1)
         ELSE IF v \in 40 .. 47 THEN To("bg", v - 40 + dim, 1)
         ELSE IF v \in 90 .. 97 THEN To("fg", v - 90 + 8, 1)
         ELSE IF v \in 100 .. 107 THEN To("bg", v - 100 + 8, 1)
         ELSE IF v \in {38, 48} /\ i + 2 <= Len(p) /\ p[i + 1] = 5 THEN To(g, near, 3)
         ELSE IF v \in {38, 48} /\ i + 4 <= Len(p) /\ p[i + 1] = 2 THEN To(g, near, 5)
         ELSE c
  BY <1>1, <1>4, <1>8, ZenonT(60) DEF SgrStep, To
<1>11. [fg |-> LightGrey, bg |-> Black, bright |-> FALSE, next |-> i + 1] \in SgrState
  BY <1>2 DEF SgrState, Grounds, LightGrey, Black
<1>12. [c EXCEPT !.bright = (v = 1)] \in SgrState
  BY DEF SgrState
<1>13. v \in 30 .. 37 => To("fg", v - 30 + dim, 1) \in SgrState
  <2>1. v \in 30 .. 37 => v - 30 + dim \in 0 .. 15
    BY <1>5
  <2> QED BY <1>6, <2>1
<1>14. v \in 40 .. 47 => To("bg", v - 40 + dim, 1) \in SgrState
  <2>1. v \in 40 .. 47 => v - 40 + dim \in 0 .. 15
    BY <1>5
  <2> QED BY <1>7, <2>1
<1>15. v \in 90 .. 97 => To("fg", v - 90 + 8, 1) \in SgrState
  <2>1. v \in 90 .. 97 => v - 90 + 8 \in 0 .. 15
    OBVIOUS
  <2> QED BY <1>6, <2>1
<1>16. v \in 100 .. 107 => To("bg", v - 100 + 8, 1) \in SgrState
  <2>1. v \in 100 .. 107 => v - 100 + 8 \in 0 .. 15
    OBVIOUS
  <2> QED BY <1>7, <2>1
<1>17. To(g, near, 3) \in SgrState /\ To(g, near, 5) \in SgrState
  <2>1. To("fg", near, 3) \in SgrState /\ To("fg", near, 5) \in SgrState
    BY <1>6
  <2>2. To("bg", near, 3) \in SgrState /\ To("bg", near, 5) \in SgrState
    BY <1>7
  <2> QED BY <1>9, <2>1, <2>2
<1> QED BY <1>10, <1>11, <1>12, <1>13, <1>14, <1>15, <1>16, <1>17

\* All parameters of a sequence: the recursion of Sgr has a solution, and so
\* what it ends with is what the last step leaves.
LEMMA SgrFits ==
    ASSUME graphics \in BOOLEAN, fg \in 0 .. 15, bg \in Grounds,
           NEW p \in Seq(Nat), NEW near \in 0 .. 15
    PROVE  Sgr(p, near) \in SgrState
<1> DEFINE N == Len(p)
           Follows(f, n) == /\ f \in [0 .. n -> SgrState] /\ f[0] = SgrStart
                            /\ \A k \in 1 .. n : f[k] = SgrStep(p, near, f[k - 1], k)
           Bad == {n \in 0 .. N : ~\E f : Follows(f, n)}
<1>1. SgrStart \in SgrState
  BY DEF SgrStart, SgrState
<1>2. N \in Nat
  OBVIOUS
<1>3. \E f : Follows(f, 0)
  <2>1. PICK f : f = [k \in 0 .. 0 |-> SgrStart]
    OBVIOUS
  <2>2. f \in [0 .. 0 -> SgrState] /\ f[0] = SgrStart /\ 1 .. 0 = {}
    BY <1>1, <2>1
  <2> QED BY <2>2
<1>4. ASSUME NEW n \in 1 .. N, NEW f, Follows(f, n - 1)
      PROVE  \E g : Follows(g, n)
  <2>1. n \in Nat /\ n > 0 /\ n - 1 \in Nat /\ n - 1 \in 0 .. n - 1
    BY <1>2
  <2>2. PICK last : last = SgrStep(p, near, f[n - 1], n)
    OBVIOUS
  <2>3. last \in SgrState
    <3>1. f[n - 1] \in SgrState
      BY <1>4, <2>1
    <3> QED BY <2>2, <3>1, SgrStepFits
  <2>4. PICK g : g = [k \in 0 .. n |-> IF k = n THEN last ELSE f[k]]
    OBVIOUS
  <2>5. \A k \in 0 .. n : k # n => k \in 0 .. n - 1 /\ g[k] = f[k]
    BY <2>1, <2>4
  <2>6. g \in [0 .. n -> SgrState] /\ g[0] = SgrStart
    <3>1. \A k \in 0 .. n : (IF k = n THEN last ELSE f[k]) \in SgrState
      BY <1>4, <2>3, <2>5
    <3>2. 0 \in 0 .. n /\ 0 # n
      BY <2>1
    <3> QED BY <1>4, <2>4, <2>5, <3>1, <3>2
  <2>7. ASSUME NEW k \in 1 .. n PROVE g[k] = SgrStep(p, near, g[k - 1], k)
    <3>1. k - 1 \in 0 .. n /\ k - 1 # n /\ k \in 0 .. n
      BY <2>1
    <3>2. g[k - 1] = f[k - 1]
      BY <2>5, <3>1
    <3>3. CASE k = n
      BY <2>2, <2>4, <3>1, <3>2, <3>3
    <3>4. CASE k # n
      <4>1. k \in 1 .. n - 1
        BY <2>1, <3>4
      <4>2. g[k] = f[k] /\ f[k] = SgrStep(p, near, f[k - 1], k)
        BY <1>4, <2>5, <3>1, <3>4, <4>1
      <4> QED BY <3>2, <4>2
    <3> QED BY <3>3, <3>4
  <2> QED BY <2>6, <2>7
<1> HIDE DEF Follows
<1>5. Bad = {}
  <2> SUFFICES ASSUME Bad # {} PROVE FALSE
    OBVIOUS
  <2>1. PICK n \in Bad : \A m \in Bad : n <= m
    <3>1. Bad \in SUBSET Nat
      BY <1>2
    <3> QED BY <3>1, LeastElement
  <2>2. n \in 0 .. N /\ n # 0
    BY <1>3, <2>1
  <2>3. n - 1 \in 0 .. N /\ n \in 1 .. N /\ ~(n <= n - 1)
    BY <1>2, <2>2
  <2>4. \E f : Follows(f, n - 1)
    BY <2>1, <2>3
  <2> QED BY <1>4, <2>1, <2>3, <2>4
<1>6. PICK f : Follows(f, N)
  <2>1. N \in 0 .. N
    BY <1>2
  <2> QED BY <1>5, <2>1
<1> DEFINE Solves(h) == h = [i \in 0 .. N |-> IF i = 0 THEN SgrStart ELSE SgrStep(p, near, h[i - 1], i)]
<1>7. Solves(f)
  <2>1. f \in [0 .. N -> SgrState] /\ f[0] = SgrStart
        /\ \A k \in 1 .. N : f[k] = SgrStep(p, near, f[k - 1], k)
    BY <1>6 DEF Follows
  <2>2. \A i \in 0 .. N : f[i] = IF i = 0 THEN SgrStart ELSE SgrStep(p, near, f[i - 1], i)
    <3> TAKE i \in 0 .. N
    <3>1. i # 0 => i \in 1 .. N
      BY <1>2
    <3> QED BY <2>1, <3>1
  <2> QED BY <2>1, <2>2
<1>8. Sgr(p, near) = (CHOOSE h : Solves(h))[N]
  BY DEF Sgr
<1>9. PICK h : h = CHOOSE x : Solves(x)
  OBVIOUS
<1>10. Solves(h)
  BY <1>7, <1>9
<1>11. \A n \in 0 .. N : h[n] \in SgrState
  <2> DEFINE Off == {n \in 0 .. N : h[n] \notin SgrState}
  <2> SUFFICES ASSUME Off # {} PROVE FALSE
    OBVIOUS
  <2>1. PICK n \in Off : \A m \in Off : n <= m
    <3>1. Off \in SUBSET Nat
      BY <1>2
    <3> QED BY <3>1, LeastElement
  <2>2. \A i \in 0 .. N : h[i] = IF i = 0 THEN SgrStart ELSE SgrStep(p, near, h[i - 1], i)
    BY <1>10
  <2>3. n \in 0 .. N /\ n # 0 /\ n \in 1 .. N /\ n - 1 \in 0 .. N /\ ~(n <= n - 1)
    <3>1. n \in 0 .. N /\ h[n] \notin SgrState
      OBVIOUS
    <3>2. n # 0
      BY <1>1, <2>2, <3>1
    <3> QED BY <1>2, <3>1, <3>2
  <2>4. h[n - 1] \in SgrState
    BY <2>1, <2>3
  <2>5. h[n] \in SgrState
    BY <2>2, <2>3, <2>4, SgrStepFits
  <2> QED BY <2>5
<1> QED BY <1>2, <1>8, <1>9, <1>11

-----------------------------------------------------------------------------
(***************************************************************************)
(* The type of the console                                                 *)
(***************************************************************************)
ScreenTypes ==
    /\ esc \in {"no", "first", "csi", "junk"}
    /\ fg \in 0 .. 15 /\ bg \in Grounds /\ cell \in Int

\* Cells have numbers.
LEMMA CellIsInt ==
    ASSUME NEW r \in Nat, NEW c \in Nat
    PROVE  CellAt(r, c) \in Int
BY ConsoleAssumption DEF CellAt

\* A colour sequence leaves colours of the palette.
LEMMA ColoursKept ==
    ASSUME graphics \in BOOLEAN, ScreenTypes, Colours
    PROVE  fg' \in 0 .. 15 /\ bg' \in Grounds
<1>1. PICK p \in SgrLists, near \in Nearest : fg' = Sgr(p, near).fg /\ bg' = Sgr(p, near).bg
  BY DEF Colours
<1>2. p \in Seq(Nat) /\ near \in 0 .. 15
  BY ColourAssumption
<1>3. PICK c : c = Sgr(p, near)
  OBVIOUS
<1>4. c \in SgrState
  <2>1. fg \in 0 .. 15 /\ bg \in Grounds
    BY DEF ScreenTypes
  <2> QED BY <1>2, <1>3, <2>1, SgrFits
<1> QED BY <1>1, <1>3, <1>4 DEF SgrState

\* What another task prints, or the writer itself.
LEMMA ScreenTypesStep ==
    ASSUME CursorInv, CursorInv', ScreenTypes, [ConNext]_conVars
    PROVE  ScreenTypes'
<1> USE ConsoleAssumption
<1>1. /\ row \in Nat /\ col \in Nat /\ row' \in Nat /\ col' \in Nat /\ loaded \in Nat
      /\ Height - 1 \in Nat /\ Width - 1 \in Nat
  BY DEF CursorInv
<1>2. /\ CellAt(row, col) \in Int /\ CellAt(row', col') \in Int /\ CellAt(loaded, col) \in Int
      /\ CellAt(row, Width - 1) \in Int /\ CellAt(Height - 1, Width - 1) \in Int
  BY <1>1, CellIsInt, Zenon
<1>3. graphics \in BOOLEAN
  BY DEF CursorInv
<1>4. CASE Printed /\ UNCHANGED <<graphics, writer>>
  <2>1. cell' \in Int /\ esc' \in {"no", "first", "csi", "junk"}
    BY <1>2, <1>4 DEF ScreenTypes, Printed, Glyph, NewLine, CarriageReturn, Tabulator, Bell, Escape,
                      Backspace, NoCell
  <2>2. fg' = fg /\ bg' = bg /\ graphics' = graphics
    BY <1>4 DEF Printed
  <2> QED BY <2>1, <2>2 DEF ScreenTypes, Grounds
<1>5. CASE Ends /\ UNCHANGED <<graphics, writer>>
  <2>1. cell' \in Int /\ esc' = "no"
    BY <1>2, <1>5 DEF Ends, EraseToEnd, EraseAll, Home, Left, Right, Colours, NoCell
  <2>2. fg' \in 0 .. 15 /\ bg' \in Grounds
    <3>1. CASE Colours
      BY <1>3, <3>1, ColoursKept
    <3>2. CASE ~Colours
      BY <1>5, <3>2 DEF Ends, ScreenTypes
    <3> QED BY <3>1, <3>2
  <2>3. graphics' = graphics
    BY <1>5
  <2> QED BY <2>1, <2>2, <2>3 DEF ScreenTypes, Grounds
<1>6. CASE GoesOn /\ UNCHANGED <<graphics, writer>>
  BY <1>6 DEF ScreenTypes, GoesOn, NoCell, Grounds
<1>7. CASE Unmasked
  <2>1. cell' \in Int
    BY <1>2, <1>7 DEF Unmasked, DigitBegins, LoadRow, WriteCell, LoadCol, StoreCol, TestCol, ZeroCol,
                      LoadDown, StoreDown, TestRow, Scroll, ClearBegins, ClearEnds, NoCell
  <2>2. /\ esc' \in {"no", "first", "csi", "junk"}
        /\ fg' = fg /\ bg' = bg /\ graphics' = graphics
    BY <1>7 DEF ScreenTypes, Unmasked, DigitBegins, LoadRow, WriteCell, LoadCol, StoreCol, TestCol,
                ZeroCol, LoadDown, StoreDown, TestRow, Scroll, ClearBegins, ClearEnds, Screen
  <2> QED BY <2>1, <2>2 DEF ScreenTypes, Grounds
<1>8. CASE UNCHANGED conVars
  BY <1>8 DEF ScreenTypes, Grounds, conVars
<1> QED BY <1>4, <1>5, <1>6, <1>7, <1>8 DEF ConNext, Masked

\* The state of the console has its type, and no colour sequence whatever
\* leaves a background that would blink on the VGA (vga_putchar, fb_putchar).
THEOREM ConTypeCorrect == ConSpec => []ConTypeOK
<1>1. ConInit => ScreenTypes
  BY DEF ConInit, ScreenTypes, Grounds, LightGrey, Black
<1>2. CursorInv /\ CursorInv' /\ ScreenTypes /\ [ConNext]_conVars => ScreenTypes'
  BY ScreenTypesStep
<1>3. CursorInv /\ WritesStayNear /\ ScreenTypes => ConTypeOK
  <2> SUFFICES ASSUME CursorInv, WritesStayNear, ScreenTypes PROVE ConTypeOK
    OBVIOUS
  <2>1. row \in Nat /\ col \in Nat
    BY ConsoleAssumption DEF CursorInv
  <2>2. fg \in 0 .. 15 /\ bg \in 0 .. 15 /\ (graphics \/ bg < 8)
    BY DEF ScreenTypes, Grounds
  <2> QED BY <2>1, <2>2 DEF CursorInv, Places, ScreenTypes, ConTypeOK
<1> QED BY <1>1, <1>2, <1>3, CursorAlways, PTL DEF ConSpec

=============================================================================
