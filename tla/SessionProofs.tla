---------------------------- MODULE SessionProofs ----------------------------
(***************************************************************************)
(* Proofs about the editor and about the lines that a session dispatches.  *)
(*                                                                         *)
(* The array of Strix Write is a text with a cursor, for arrays of any     *)
(* size and any files.  Each command that shifts characters is first shown *)
(* to do to Text what TextCursor says (the lemmas about Text'); the        *)
(* invariant only has to keep every index inside the array.                *)
(*                                                                         *)
(* What is still to be dispatched of a line is at most one command that is *)
(* being rewritten and the end of the line behind it.  Together with what  *)
(* has run it is always the whole line: OnTheWay.                          *)
(***************************************************************************)
EXTENDS Session, CatProofs

\* No file is longer than what the editor can hold.
ShortFiles == \A f \in Files : Len(disk[f]) <= Size - 2

\* The inductive invariant.
EdInv == EditorInBounds /\ UnmodifiedIsSaved /\ ShortFiles

LEMMA ArrayIsText ==
    ASSUME NEW b, NEW n \in Nat, \A i \in 0 .. n - 1 : b[i] \in Chars
    PROVE  LET t == [i \in 1 .. n |-> b[i - 1]]
           IN  t \in Seq(Chars) /\ Len(t) = n
<1>. DEFINE t == [i \in 1 .. n |-> b[i - 1]]
<1>1. t \in [1 .. n -> Chars]
  OBVIOUS
<1>2. t \in Seq(Chars)
  BY <1>1, SeqDef
<1>3. Len(t) = n
  BY <1>1, <1>2, LenProperties
<1>. QED  BY <1>2, <1>3

LEMMA InitInv == EdInit => EdInv
<1>. SUFFICES ASSUME EdInit PROVE EdInv
  OBVIOUS
<1>1. \A f \in Files : disk[f] \in Seq(Chars) /\ Len(disk[f]) <= Size - 2
  BY ContentsAssumption DEF EdInit
<1>2. disk \in [Files -> Seq(Chars)]
  BY <1>1 DEF EdInit
<1>3. buf \in [Cells -> Chars \cup {Zero}]
  BY DEF EdInit, Zeroed
<1>4. len \in 0 .. Size - 2 /\ cur \in 0 .. len /\ \A i \in 0 .. len - 1 : buf[i] \in Chars
  BY EditorAssumption DEF EdInit
<1>5. EditorInBounds
  BY <1>2, <1>3, <1>4 DEF EdInit, EditorInBounds
<1>. QED  BY <1>1, <1>5 DEF EdInit, EdInv, UnmodifiedIsSaved, ShortFiles

-----------------------------------------------------------------------------
(***************************************************************************)
(* Every command keeps its indices inside the array.                       *)
(***************************************************************************)
LEMMA OpenInBounds ==
    ASSUME EdInv, NEW f \in Files, EditorOpen(f)
    PROVE  EditorInBounds'
<1>1. disk[f] \in Seq(Chars) /\ Len(disk[f]) \in 0 .. Size - 2
  BY LenProperties, EditorAssumption DEF EdInv, EditorInBounds, ShortFiles
<1>2. len' = Len(disk[f]) /\ cur' = len'
  BY <1>1, EditorAssumption DEF EditorOpen
<1>3. \A i \in 0 .. len' - 1 : disk[f][i + 1] \in Chars
  BY <1>1, <1>2, ElementOfSeq, EditorAssumption
<1>4. buf' = [i \in Cells |-> IF i < len' THEN disk[f][i + 1] ELSE Zero]
  BY DEF EditorOpen
<1>5. buf' \in [Cells -> Chars \cup {Zero}] /\ \A i \in 0 .. len' - 1 : buf'[i] \in Chars
  BY <1>1, <1>2, <1>3, <1>4, EditorAssumption DEF Cells
<1>6. file' \in Files \cup {NoFile} /\ modified' \in BOOLEAN /\ waits' = "command" /\ disk' = disk
  BY DEF EditorOpen
<1>7. len' \in 0 .. Size - 2 /\ cur' \in 0 .. len'
  BY <1>1, <1>2, EditorAssumption
<1>8. disk \in [Files -> Seq(Chars)]
  BY DEF EdInv, EditorInBounds
<1>. QED  BY <1>5, <1>6, <1>7, <1>8 DEF EditorInBounds

LEMMA CloseInBounds ==
    ASSUME EdInv, EditorClose
    PROVE  EditorInBounds'
<1>1. buf' \in [Cells -> Chars \cup {Zero}]
  BY DEF EditorClose, Zeroed
<1>2. len' \in 0 .. Size - 2 /\ cur' \in 0 .. len' /\ \A i \in 0 .. len' - 1 : buf'[i] \in Chars
  BY EditorAssumption DEF EditorClose
<1>. QED  BY <1>1, <1>2 DEF EditorClose, EdInv, EditorInBounds

LEMMA WriteInBounds ==
    ASSUME EdInv, NEW c \in Chars, Write(c)
    PROVE  EditorInBounds'
<1>1. len' \in 0 .. Size - 2 /\ cur' \in 0 .. len'
  BY EditorAssumption DEF EdInv, EditorInBounds, Write, Room
<1>2. buf' \in [Cells -> Chars \cup {Zero}]
  BY EditorAssumption DEF EdInv, EditorInBounds, Write, Inserted, Cells
<1>3. \A i \in 0 .. len' - 1 : buf'[i] \in Chars
  BY EditorAssumption DEF EdInv, EditorInBounds, Write, Room, Inserted, Cells
<1>. QED  BY <1>1, <1>2, <1>3 DEF EdInv, EditorInBounds, Write, Typed, Key

LEMMA BackspaceInBounds ==
    ASSUME EdInv, Backspace
    PROVE  EditorInBounds'
<1>1. len' \in 0 .. Size - 2 /\ cur' \in 0 .. len'
  BY EditorAssumption DEF EdInv, EditorInBounds, Backspace
<1>2. buf' \in [Cells -> Chars \cup {Zero}]
  BY EditorAssumption DEF EdInv, EditorInBounds, Backspace, Without, Cells
<1>3. \A i \in 0 .. len' - 1 : buf'[i] \in Chars
  BY EditorAssumption DEF EdInv, EditorInBounds, Backspace, Without, Cells
<1>. QED  BY <1>1, <1>2, <1>3 DEF EdInv, EditorInBounds, Backspace, Typed, Key

LEMMA CutInBounds ==
    ASSUME EdInv, CutLine
    PROVE  EditorInBounds'
<1>1. PICK s \in 0 .. cur, e \in cur .. len :
             buf' = Without(s, LineEnd(e) - s) /\ len' = len - (LineEnd(e) - s)
  BY DEF CutLine
<1>2. LineEnd(e) \in Nat /\ LineEnd(e) >= s /\ LineEnd(e) <= len
  BY EditorAssumption DEF EdInv, EditorInBounds, LineEnd
<1>3. len' \in 0 .. Size - 2 /\ cur' \in 0 .. len'
  BY <1>1, <1>2, EditorAssumption DEF EdInv, EditorInBounds, CutLine, CursorAfterCut
<1>4. buf' \in [Cells -> Chars \cup {Zero}]
  BY <1>1, <1>2, EditorAssumption DEF EdInv, EditorInBounds, Without, Cells
<1>5. \A i \in 0 .. len' - 1 : buf'[i] \in Chars
  BY <1>1, <1>2, EditorAssumption DEF EdInv, EditorInBounds, Without, Cells
<1>. QED  BY <1>3, <1>4, <1>5 DEF EdInv, EditorInBounds, CutLine, Typed, Key
LEMMA SavedInBounds ==
    ASSUME EdInv, file \in Files, Saved
    PROVE  disk' \in [Files -> Seq(Chars)] /\ ShortFiles' /\ modified' \in BOOLEAN
<1>1. CASE UNCHANGED <<disk, modified>>
  BY <1>1 DEF EdInv, EditorInBounds, ShortFiles
<1>2. CASE disk' = [disk EXCEPT ![file] = Text] /\ modified' = FALSE
  <2>1. len \in Nat /\ len <= Size - 2
    BY EditorAssumption DEF EdInv, EditorInBounds
  <2>2. Text \in Seq(Chars) /\ Len(Text) <= Size - 2
    BY <2>1, ArrayIsText DEF EdInv, EditorInBounds, Text
  <2>. QED  BY <1>2, <2>2 DEF EdInv, EditorInBounds, ShortFiles
<1>. QED  BY <1>1, <1>2 DEF Saved

-----------------------------------------------------------------------------
(***************************************************************************)
(* Sequences that agree character by character are equal: one more         *)
(* character at k, and the characters a + 1 to b taken out.                *)
(***************************************************************************)
LEMMA OneMore ==
    ASSUME NEW t \in Seq(Chars), NEW u \in Seq(Chars), NEW c \in Chars, NEW k \in 0 .. Len(t),
           Len(u) = Len(t) + 1,
           \A i \in 1 .. Len(u) :
               u[i] = IF i <= k THEN t[i] ELSE IF i = k + 1 THEN c ELSE t[i - 1]
    PROVE  u = (SubSeq(t, 1, k) \o <<c>>) \o SubSeq(t, k + 1, Len(t))
<1>. DEFINE l == SubSeq(t, 1, k)
            m == l \o <<c>>
            r == SubSeq(t, k + 1, Len(t))
            p == m \o r
<1>1. Len(t) \in Nat /\ \A i \in 1 .. Len(t) : t[i] \in Chars
  BY LenProperties, ElementOfSeq
<1>2. l \in Seq(Chars) /\ Len(l) = k /\ \A i \in 1 .. k : l[i] = t[i]
  BY <1>1, SubSeqProperties
<1>3. r \in Seq(Chars) /\ Len(r) = Len(t) - k /\ \A i \in 1 .. Len(t) - k : r[i] = t[k + i]
  BY <1>1, SubSeqProperties
<1>4. <<c>> \in Seq(Chars) /\ Len(<<c>>) = 1 /\ <<c>>[1] = c
  OBVIOUS
<1>. HIDE DEF l, r
<1>5. /\ m \in Seq(Chars) /\ Len(m) = k + 1
      /\ \A i \in 1 .. k + 1 : m[i] = IF i <= k THEN l[i] ELSE c
  BY <1>1, <1>2, <1>4, ConcatProperties
<1>. HIDE DEF m
<1>6. /\ p \in Seq(Chars) /\ Len(p) = Len(m) + Len(r)
      /\ \A i \in 1 .. Len(m) + Len(r) : p[i] = IF i <= Len(m) THEN m[i] ELSE r[i - Len(m)]
  BY <1>3, <1>5, ConcatProperties
<1>. HIDE DEF p
<1>9. Len(u) \in Nat /\ k \in Nat /\ Len(m) = k + 1 /\ Len(m) + Len(r) = Len(u)
  BY <1>1, <1>3, <1>5
<1>7. \A i \in 1 .. Len(u) : u[i] = p[i]
  <2>. SUFFICES ASSUME NEW i \in 1 .. Len(u) PROVE u[i] = p[i]
    OBVIOUS
  <2>1. CASE i <= k
    <3>1. u[i] = t[i] /\ l[i] = t[i]
      BY <1>2, <1>9, <2>1
    <3>2. p[i] = m[i]
      BY <1>6, <1>9, <2>1
    <3>3. m[i] = l[i]
      BY <1>5, <1>9, <2>1
    <3>. QED  BY <3>1, <3>2, <3>3
  <2>2. CASE i = k + 1
    <3>1. u[i] = c
      BY <1>9, <2>2
    <3>2. p[i] = m[i]
      BY <1>6, <1>9, <2>2
    <3>3. m[i] = c
      BY <1>5, <1>9, <2>2
    <3>. QED  BY <3>1, <3>2, <3>3
  <2>3. CASE i > k + 1
    <3>1. i - (k + 1) \in 1 .. Len(t) - k /\ k + (i - (k + 1)) = i - 1
      BY <1>1, <2>3
    <3>2. p[i] = r[i - (k + 1)]
      BY <1>6, <1>9, <2>3
    <3>3. u[i] = t[i - 1]
      BY <1>9, <2>3
    <3>. QED  BY <1>3, <3>1, <3>2, <3>3
  <2>. QED  BY <1>1, <2>1, <2>2, <2>3
<1>8. Len(p) = Len(u)
  BY <1>1, <1>3, <1>5, <1>6
<1>. QED  BY <1>6, <1>7, <1>8, SeqEqual DEF p, m, l, r

LEMMA TakenOut ==
    ASSUME NEW t \in Seq(Chars), NEW u \in Seq(Chars), NEW a \in Nat, NEW b \in Nat,
           a <= b, b <= Len(t), Len(u) = Len(t) - (b - a),
           \A i \in 1 .. Len(u) : u[i] = IF i <= a THEN t[i] ELSE t[i + (b - a)]
    PROVE  u = SubSeq(t, 1, a) \o SubSeq(t, b + 1, Len(t))
<1>. DEFINE l == SubSeq(t, 1, a)
            r == SubSeq(t, b + 1, Len(t))
            p == l \o r
<1>1. Len(t) \in Nat /\ \A i \in 1 .. Len(t) : t[i] \in Chars
  BY LenProperties, ElementOfSeq
<1>2. l \in Seq(Chars) /\ Len(l) = a /\ \A i \in 1 .. a : l[i] = t[i]
  BY <1>1, SubSeqProperties
<1>3. r \in Seq(Chars) /\ Len(r) = Len(t) - b /\ \A i \in 1 .. Len(t) - b : r[i] = t[b + i]
  BY <1>1, SubSeqProperties
<1>. HIDE DEF l, r
<1>4. /\ p \in Seq(Chars) /\ Len(p) = Len(l) + Len(r)
      /\ \A i \in 1 .. Len(l) + Len(r) : p[i] = IF i <= Len(l) THEN l[i] ELSE r[i - Len(l)]
  <2>1. l \in Seq(Chars) /\ r \in Seq(Chars)
    BY <1>2, <1>3
  <2>. QED  BY <2>1, ConcatProperties
<1>. HIDE DEF p
<1>5. \A i \in 1 .. Len(u) : u[i] = p[i]
  <2>. SUFFICES ASSUME NEW i \in 1 .. Len(u) PROVE u[i] = p[i]
    OBVIOUS
  <2>1. CASE i <= a
    BY <1>1, <1>2, <1>4, <2>1
  <2>2. CASE i > a
    <3>1. i - a \in 1 .. Len(t) - b /\ b + (i - a) = i + (b - a)
      BY <1>1, <2>2
    <3>. QED  BY <1>1, <1>2, <1>3, <1>4, <2>2, <3>1
  <2>. QED  BY <1>1, <2>1, <2>2
<1>6. Len(p) = Len(u)
  BY <1>1, <1>2, <1>3, <1>4
<1>. QED  BY <1>4, <1>5, <1>6, SeqEqual DEF p, l, r

-----------------------------------------------------------------------------
(***************************************************************************)
(* What the commands do to the text.                                       *)
(***************************************************************************)
LEMMA TextIsSeq ==
    ASSUME EdInv
    PROVE  Text \in Seq(Chars) /\ Len(Text) = len
<1>1. len \in Nat
  BY EditorAssumption DEF EdInv, EditorInBounds
<1>. QED  BY <1>1, ArrayIsText DEF EdInv, EditorInBounds, Text

LEMMA NextTextIsSeq ==
    ASSUME len' \in Nat, \A i \in 0 .. len' - 1 : buf'[i] \in Chars
    PROVE  Text' \in Seq(Chars) /\ Len(Text') = len'
  BY ArrayIsText DEF Text

LEMMA OpenLoads ==
    ASSUME EdInv, NEW f \in Files, EditorOpen(f)
    PROVE  Text' = disk[f] /\ cur' = Len(Text')
<1>1. disk[f] \in Seq(Chars) /\ Len(disk[f]) \in 0 .. Size - 2
  BY LenProperties, EditorAssumption DEF EdInv, EditorInBounds, ShortFiles
<1>2. len' = Len(disk[f]) /\ cur' = len'
  BY <1>1, EditorAssumption DEF EditorOpen
<1>3. buf' = [i \in Cells |-> IF i < len' THEN disk[f][i + 1] ELSE Zero]
  BY DEF EditorOpen
<1>4. len' \in Nat /\ \A i \in 0 .. len' - 1 : buf'[i] \in Chars
  BY OpenInBounds, EditorAssumption DEF EditorInBounds
<1>5. Text' \in Seq(Chars) /\ Len(Text') = len'
  BY <1>4, NextTextIsSeq
<1>6. \A i \in 1 .. len' : Text'[i] = disk[f][i]
  BY <1>1, <1>2, <1>3, EditorAssumption DEF Text, Cells
<1>. QED  BY <1>1, <1>2, <1>5, <1>6, SeqEqual

LEMMA WriteInserts ==
    ASSUME EdInv, NEW c \in Chars, Write(c)
    PROVE  Text' = (SubSeq(Text, 1, cur) \o <<c>>) \o SubSeq(Text, cur + 1, Len(Text))
<1>1. /\ cur \in 0 .. len /\ len \in Nat /\ len < Size - 2
      /\ buf' = Inserted(c) /\ len' = len + 1
  BY EditorAssumption DEF EdInv, EditorInBounds, Write, Room
<1>2. Text \in Seq(Chars) /\ Len(Text) = len
  BY TextIsSeq
<1>3. \A i \in 0 .. len' - 1 : buf'[i] \in Chars
  BY WriteInBounds DEF EditorInBounds
<1>4. Text' \in Seq(Chars) /\ Len(Text') = len + 1
  BY <1>1, <1>3, NextTextIsSeq
<1>5. \A i \in 1 .. len + 1 :
           Text'[i] = IF i <= cur THEN Text[i] ELSE IF i = cur + 1 THEN c ELSE Text[i - 1]
  BY <1>1, EditorAssumption DEF Text, Inserted, Cells
<1>6. cur \in 0 .. Len(Text) /\ Len(Text') = Len(Text) + 1
  BY <1>1, <1>2, <1>4
<1>7. \A i \in 1 .. Len(Text') :
           Text'[i] = IF i <= cur THEN Text[i] ELSE IF i = cur + 1 THEN c ELSE Text[i - 1]
  BY <1>4, <1>5
<1>. QED  BY <1>2, <1>4, <1>6, <1>7, OneMore

\* Backspace and cutting a line both take the characters a + 1 to b out.
LEMMA WithoutTakesOut ==
    ASSUME EdInv, NEW a \in 0 .. len, NEW b \in a .. len,
           len' = len - (b - a), \A k \in 0 .. len' - 1 : buf'[k] = Without(a, b - a)[k],
           \A k \in 0 .. len' - 1 : buf'[k] \in Chars
    PROVE  Text' = SubSeq(Text, 1, a) \o SubSeq(Text, b + 1, Len(Text))
<1>1. /\ len \in Nat /\ len <= Size - 2 /\ a \in Nat /\ b \in Nat /\ a <= b /\ b <= len
      /\ len' \in Nat
  BY EditorAssumption DEF EdInv, EditorInBounds
<1>2. Text \in Seq(Chars) /\ Len(Text) = len
  BY TextIsSeq
<1>3. Text' \in Seq(Chars) /\ Len(Text') = len - (b - a)
  BY <1>1, NextTextIsSeq
<1>4. \A i \in 1 .. len - (b - a) : Text'[i] = IF i <= a THEN Text[i] ELSE Text[i + (b - a)]
  <2>. SUFFICES ASSUME NEW i \in 1 .. len - (b - a)
                PROVE  Text'[i] = IF i <= a THEN Text[i] ELSE Text[i + (b - a)]
    OBVIOUS
  <2>1. i - 1 \in Cells /\ i - 1 \in 0 .. len' - 1 /\ i \in 1 .. len'
    BY <1>1, EditorAssumption DEF Cells
  <2>2. Text'[i] = Without(a, b - a)[i - 1]
    BY <2>1 DEF Text
  <2>3. Without(a, b - a)[i - 1] = IF a <= i - 1 THEN buf[i - 1 + (b - a)] ELSE buf[i - 1]
    BY <1>1, <2>1 DEF Without
  <2>4. Text[i] = buf[i - 1]
    BY <1>1 DEF Text
  <2>5. CASE i <= a
    BY <1>1, <2>2, <2>3, <2>4, <2>5
  <2>6. CASE i > a
    <3>1. i + (b - a) \in 1 .. len /\ i + (b - a) - 1 = i - 1 + (b - a) /\ a <= i - 1
      BY <1>1, <2>6
    <3>2. Text[i + (b - a)] = buf[i - 1 + (b - a)]
      BY <3>1 DEF Text
    <3>. QED  BY <1>1, <2>2, <2>3, <2>6, <3>1, <3>2
  <2>. QED  BY <1>1, <2>5, <2>6
<1>6. \A i \in 1 .. Len(Text') : Text'[i] = IF i <= a THEN Text[i] ELSE Text[i + (b - a)]
  BY <1>3, <1>4
<1>. DEFINE t == Text
            u == Text'
<1>7. /\ t \in Seq(Chars) /\ u \in Seq(Chars) /\ a <= b /\ b <= Len(t)
      /\ Len(u) = Len(t) - (b - a)
      /\ \A i \in 1 .. Len(u) : u[i] = IF i <= a THEN t[i] ELSE t[i + (b - a)]
  BY <1>1, <1>2, <1>3, <1>6
<1>. HIDE DEF t, u
<1>8. u = SubSeq(t, 1, a) \o SubSeq(t, b + 1, Len(t))
  BY <1>1, <1>7, TakenOut
<1>. QED  BY <1>8 DEF t, u

LEMMA BackspaceDeletes ==
    ASSUME EdInv, Backspace
    PROVE  Text' = SubSeq(Text, 1, cur - 1) \o SubSeq(Text, cur + 1, Len(Text))
<1>1. /\ cur - 1 \in 0 .. len /\ cur \in cur - 1 .. len /\ cur - (cur - 1) = 1
      /\ len \in Nat /\ len <= Size - 2 /\ len' = len - (cur - (cur - 1))
  BY EditorAssumption DEF EdInv, EditorInBounds, Backspace
<1>2. \A k \in 0 .. len' - 1 : buf'[k] = Without(cur - 1, cur - (cur - 1))[k]
  <2>. SUFFICES ASSUME NEW k \in 0 .. len' - 1
                PROVE  buf'[k] = Without(cur - 1, 1)[k]
    BY <1>1
  <2>1. k \in Cells /\ k # len - 1
    BY <1>1, EditorAssumption DEF Cells
  <2>. QED  BY <2>1 DEF Backspace, Without
<1>3. \A k \in 0 .. len' - 1 : buf'[k] \in Chars
  BY BackspaceInBounds DEF EditorInBounds
<1>. QED  BY <1>1, <1>2, <1>3, WithoutTakesOut

LEMMA CutTakesTheLineOut ==
    ASSUME EdInv, CutLine
    PROVE  \E a, b \in 0 .. Len(Text) : Abstract!CutLine(a, b)
<1>1. PICK s \in 0 .. cur, e \in cur .. len :
             /\ StopsAt(s, e)
             /\ buf' = Without(s, LineEnd(e) - s) /\ len' = len - (LineEnd(e) - s)
  BY DEF CutLine
<1>. DEFINE a == s
            b == LineEnd(e)
<1>2. /\ len \in Nat /\ cur \in Nat /\ len <= Size - 2 /\ cur <= len
      /\ a \in Nat /\ a <= cur /\ e \in Nat /\ cur <= e /\ e <= len
  BY <1>1, EditorAssumption DEF EdInv, EditorInBounds
<1>3. b \in Nat /\ cur <= b /\ b <= len /\ a <= b /\ (b = len \/ (cur < b /\ b = e + 1))
  BY <1>2 DEF LineEnd
<1>4. /\ a > 0 => buf[a - 1] = NL
      /\ e < len => buf[e] = NL
      /\ \A i \in a .. e - 1 : buf[i] # NL
  BY <1>1 DEF StopsAt
<1>5. Text \in Seq(Chars) /\ Len(Text) = len /\ \A i \in 1 .. len : Text[i] = buf[i - 1]
  <2>1. \A i \in 1 .. len : Text[i] = buf[i - 1]
    BY DEF Text
  <2>. QED  BY <2>1, TextIsSeq
<1>. HIDE DEF b
<1>6. a = 0 \/ Text[a] = NL
  BY <1>2, <1>4, <1>5
<1>7. b = len \/ (cur < b /\ Text[b] = NL)
  <2>1. CASE e < len
    <3>1. b = e + 1
      BY <2>1 DEF b, LineEnd
    <3>. QED  BY <1>2, <1>4, <1>5, <2>1, <3>1
  <2>2. CASE e = len
    BY <1>2, <2>2 DEF b, LineEnd
  <2>. QED  BY <1>2, <2>1, <2>2
<1>8. \A i \in a + 1 .. b : Text[i] = NL => i = b /\ cur < i
  <2>. SUFFICES ASSUME NEW i \in a + 1 .. b, Text[i] = NL PROVE i = b /\ cur < i
    OBVIOUS
  <2>1. buf[i - 1] = NL /\ i - 1 \in a .. b - 1
    BY <1>2, <1>3, <1>5
  <2>2. i - 1 >= e
    BY <1>2, <1>3, <1>4, <2>1
  <2>3. b <= e + 1
    BY <1>2 DEF b, LineEnd
  <2>. QED  BY <1>2, <1>3, <2>1, <2>2, <2>3
<1>9. Text' = SubSeq(Text, 1, a) \o SubSeq(Text, b + 1, Len(Text))
  <2>1. a \in 0 .. len /\ b \in a .. len /\ len' = len - (b - a)
    BY <1>1, <1>2, <1>3 DEF b
  <2>2. \A k \in 0 .. len' - 1 : buf'[k] = Without(a, b - a)[k]
    BY <1>1 DEF b
  <2>3. \A k \in 0 .. len' - 1 : buf'[k] \in Chars
    BY CutInBounds DEF EditorInBounds
  <2>. QED  BY <2>1, <2>2, <2>3, WithoutTakesOut
<1>10. cur' = IF cur > Len(Text') THEN Len(Text') ELSE cur
  <2>1. len' \in Nat /\ \A k \in 0 .. len' - 1 : buf'[k] \in Chars
    BY CutInBounds, EditorAssumption DEF EditorInBounds
  <2>2. Len(Text') = len'
    BY <2>1, NextTextIsSeq
  <2>. QED  BY <2>2 DEF CutLine, CursorAfterCut
<1>11. Abstract!IsLine(a, b)
  BY <1>2, <1>3, <1>5, <1>6, <1>7, <1>8 DEF Abstract!IsLine
<1>12. UNCHANGED <<disk, file>>
  BY DEF CutLine, Typed
<1>13. Abstract!CutLine(a, b)
  BY <1>9, <1>10, <1>11, <1>12 DEF Abstract!CutLine, Abstract!Left, Abstract!Right
<1>14. a \in 0 .. Len(Text) /\ b \in 0 .. Len(Text)
  BY <1>2, <1>3, <1>5
<1>. QED  BY <1>13, <1>14

-----------------------------------------------------------------------------
(***************************************************************************)
(* Every key keeps the invariant.                                          *)
(***************************************************************************)
LEMMA KeysKeepInv ==
    ASSUME EdInv, EditorKey
    PROVE  EdInv'
<1>1. file \in Files
  BY DEF EdInv, EditorInBounds, EditorKey, Write, Backspace, CutLine, Escape, Bracket, EscapeExit,
         Arrow, SaveKey, Exit, Yes, No, OtherAnswer, Typed, Key
<1>2. ASSUME NEW c \in Chars, Write(c)
      PROVE  EdInv'
  BY <1>2, WriteInBounds DEF EdInv, Write, Typed, UnmodifiedIsSaved, ShortFiles
<1>3. CASE Backspace
  BY <1>3, BackspaceInBounds DEF EdInv, Backspace, Typed, UnmodifiedIsSaved, ShortFiles
<1>4. CASE CutLine
  BY <1>4, CutInBounds DEF EdInv, CutLine, Typed, UnmodifiedIsSaved, ShortFiles
<1>5. CASE EditorClose
  BY <1>5, CloseInBounds DEF EdInv, EditorClose, UnmodifiedIsSaved, ShortFiles
<1>6. ASSUME waits' \in {"command", "bracket", "letter", "answer"},
             UNCHANGED <<disk, file, buf, len, cur, modified>>
      PROVE  EdInv'
  BY <1>6 DEF EdInv, EditorInBounds, UnmodifiedIsSaved, ShortFiles, Text
<1>7. CASE Arrow
  <2>1. cur' \in 0 .. len
    BY <1>7, EditorAssumption DEF Arrow, EdInv, EditorInBounds
  <2>. QED  BY <1>7, <2>1 DEF Arrow, EdInv, EditorInBounds, UnmodifiedIsSaved, ShortFiles, Text
<1>8. ASSUME Saved, waits' = "command", UNCHANGED <<file, buf, len, cur>>
      PROVE  EdInv'
  <2>1. disk' \in [Files -> Seq(Chars)] /\ ShortFiles' /\ modified' \in BOOLEAN
    BY <1>1, <1>8, SavedInBounds
  <2>2. EditorInBounds'
    BY <1>8, <2>1 DEF EdInv, EditorInBounds
  <2>3. UnmodifiedIsSaved'
    BY <1>1, <1>8 DEF EdInv, EditorInBounds, UnmodifiedIsSaved, Saved, Text
  <2>. QED  BY <2>1, <2>2, <2>3 DEF EdInv
<1>. QED
  <2>1. CASE SaveKey \/ Yes
    BY <2>1, <1>8 DEF SaveKey, Yes
  <2>2. CASE EscapeExit \/ No
    BY <2>2, <1>5 DEF EscapeExit, No
  <2>3. CASE Exit
    BY <2>3, <1>5, <1>6 DEF Exit
  <2>4. CASE Escape \/ Bracket \/ OtherAnswer
    BY <2>4, <1>6 DEF Escape, Bracket, OtherAnswer
  <2>. QED  BY <1>2, <1>3, <1>4, <1>7, <2>1, <2>2, <2>3, <2>4 DEF EditorKey

LEMMA StepKeepsInv == EdInv /\ [EdNext]_edVars => EdInv'
<1>. SUFFICES ASSUME EdInv, [EdNext]_edVars PROVE EdInv'
  OBVIOUS
<1>1. CASE EditorKey
  BY <1>1, KeysKeepInv
<1>2. ASSUME NEW f \in Files, EditorOpen(f)
      PROVE  EdInv'
  <2>1. EditorInBounds'
    BY <1>2, OpenInBounds
  <2>2. Text' = disk[f]
    BY <1>2, OpenLoads
  <2>. QED  BY <1>2, <2>1, <2>2 DEF EditorOpen, EdInv, UnmodifiedIsSaved, ShortFiles
<1>3. CASE UNCHANGED edVars
  BY <1>3 DEF edVars, EdInv, EditorInBounds, UnmodifiedIsSaved, ShortFiles, Text
<1>. QED  BY <1>1, <1>2, <1>3 DEF EdNext

LEMMA EdInvariant == EdSpec => []EdInv
  BY InitInv, StepKeepsInv, PTL DEF EdSpec

\* For arrays of any size, the editor never uses an index outside its array:
\* EditorInBounds (editor.c: the tests of len, cur and 8190).
THEOREM EditorStaysInBounds == EdSpec => []EditorInBounds
<1>1. EdInv => EditorInBounds
  BY DEF EdInv
<1>. QED  BY <1>1, EdInvariant, PTL

\* A text that is not marked as modified is what its file holds, however saves
\* fail: UnmodifiedIsSaved (editor.c: modified).
THEOREM NothingIsLostUnasked == EdSpec => []UnmodifiedIsSaved
<1>1. EdInv => UnmodifiedIsSaved
  BY DEF EdInv
<1>. QED  BY <1>1, EdInvariant, PTL

-----------------------------------------------------------------------------
(***************************************************************************)
(* The refinement.                                                         *)
(***************************************************************************)
LEMMA EmptyText ==
    ASSUME len = 0
    PROVE  Text = <<>>
  BY DEF Text

LEMMA InitIsInit == EdInit => Abstract!TcInit
<1>. SUFFICES ASSUME EdInit PROVE Abstract!TcInit
  OBVIOUS
<1>1. disk \in [Files -> Seq(Chars)]
  BY InitInv DEF EdInv, EditorInBounds
<1>2. Text = <<>>
  BY EmptyText DEF EdInit
<1>. QED  BY <1>1, <1>2 DEF EdInit, Abstract!TcInit

LEMMA KeysAreEdits ==
    ASSUME EdInv, EditorKey
    PROVE  [Abstract!TcNext]_(Abstract!tcVars)
<1>1. file # NoFile
  BY DEF EditorKey, Write, Backspace, CutLine, Escape, Bracket, EscapeExit,
         Arrow, SaveKey, Exit, Yes, No, OtherAnswer, Typed, Key
<1>2. Text \in Seq(Chars) /\ Len(Text) = len /\ len \in Nat /\ cur \in 0 .. len
  BY TextIsSeq, EditorAssumption DEF EdInv, EditorInBounds
<1>3. ASSUME NEW c \in Chars, Write(c)
      PROVE  Abstract!Insert(c)
  <2>1. Len(Text) < Size - 2 /\ cur' = cur + 1 /\ UNCHANGED <<disk, file>>
    BY <1>2, <1>3 DEF Write, Room, Typed
  <2>. QED  BY <1>3, <2>1, WriteInserts DEF Abstract!Insert, Abstract!Left, Abstract!Right
<1>4. CASE Backspace
  <2>1. cur > 0 /\ cur' = cur - 1 /\ UNCHANGED <<disk, file>>
    BY <1>4 DEF Backspace, Typed
  <2>2. Abstract!DeleteBefore
    BY <1>4, <2>1, BackspaceDeletes DEF Abstract!DeleteBefore, Abstract!Left, Abstract!Right
  <2>. QED  BY <1>1, <2>2 DEF Abstract!TcNext
<1>5. CASE CutLine
  BY <1>1, <1>5, CutTakesTheLineOut DEF Abstract!TcNext
<1>6. CASE EditorClose
  <2>1. Text' = <<>>
    BY <1>6, EmptyText DEF EditorClose, Text
  <2>2. Abstract!Close
    BY <1>6, <2>1 DEF EditorClose, Abstract!Close
  <2>. QED  BY <1>1, <2>2 DEF Abstract!TcNext
<1>7. CASE UNCHANGED <<disk, file, buf, len, cur, modified>>
  BY <1>7 DEF Abstract!tcVars, Text
<1>8. CASE Arrow
  <2>1. UNCHANGED <<disk, file, Text>>
    BY <1>8 DEF Arrow, Text
  <2>2. CASE cur > 0 /\ cur' = cur - 1
    <3>1. cur - 1 \in 0 .. Len(Text)
      BY <1>2, <2>2
    <3>. QED  BY <1>1, <2>1, <2>2, <3>1 DEF Abstract!MoveTo, Abstract!TcNext
  <2>3. CASE cur < len /\ cur' = cur + 1
    <3>1. cur + 1 \in 0 .. Len(Text)
      BY <1>2, <2>3
    <3>. QED  BY <1>1, <2>1, <2>3, <3>1 DEF Abstract!MoveTo, Abstract!TcNext
  <2>4. CASE UNCHANGED cur
    BY <2>1, <2>4 DEF Abstract!tcVars
  <2>. QED  BY <1>8, <2>2, <2>3, <2>4 DEF Arrow
<1>9. ASSUME Saved, UNCHANGED <<file, buf, len, cur>>
      PROVE  [Abstract!TcNext]_(Abstract!tcVars)
  <2>1. UNCHANGED Text
    BY <1>9 DEF Text
  <2>2. CASE disk' = [disk EXCEPT ![file] = Text]
    <3>1. Abstract!Save
      BY <1>9, <2>1, <2>2 DEF Abstract!Save
    <3>. QED  BY <1>1, <3>1 DEF Abstract!TcNext
  <2>3. CASE UNCHANGED disk
    BY <1>9, <2>1, <2>3 DEF Abstract!tcVars
  <2>. QED  BY <1>9, <2>2, <2>3 DEF Saved
<1>. QED
  <2>1. CASE \E c \in Chars : Write(c)
    BY <1>1, <1>3, <2>1 DEF Abstract!TcNext
  <2>2. CASE SaveKey \/ Yes
    BY <2>2, <1>9 DEF SaveKey, Yes
  <2>3. CASE EscapeExit \/ No
    BY <2>3, <1>6 DEF EscapeExit, No
  <2>4. CASE Exit
    BY <2>4, <1>6, <1>7 DEF Exit
  <2>5. CASE Escape \/ Bracket \/ OtherAnswer
    BY <2>5, <1>7 DEF Escape, Bracket, OtherAnswer
  <2>. QED  BY <1>4, <1>5, <1>8, <2>1, <2>2, <2>3, <2>4, <2>5 DEF EditorKey

LEMMA StepIsEdit == EdInv /\ [EdNext]_edVars => [Abstract!TcNext]_(Abstract!tcVars)
<1>. SUFFICES ASSUME EdInv, [EdNext]_edVars PROVE [Abstract!TcNext]_(Abstract!tcVars)
  OBVIOUS
<1>1. CASE EditorKey
  BY <1>1, KeysAreEdits
<1>2. ASSUME NEW f \in Files, EditorOpen(f)
      PROVE  Abstract!Load(f)
  BY <1>2, OpenLoads DEF EditorOpen, Abstract!Load
<1>3. CASE UNCHANGED edVars
  BY <1>3 DEF edVars, Abstract!tcVars, Text
<1>. QED  BY <1>1, <1>2, <1>3 DEF EdNext, Abstract!TcNext

\* The array with its loops is a text with a cursor, for any size and any
\* characters: TextIsEdited (editor.c: the shifting loops and the saves).
THEOREM EditorImplementsText == EdSpec => TextIsEdited
  BY InitIsInit, StepIsEdit, EdInvariant, PTL DEF EdSpec, TextIsEdited, Abstract!TcSpec


-----------------------------------------------------------------------------
(***************************************************************************)
(* What the words of a segment stand for                                   *)
(***************************************************************************)
\* These names are strings, which the provers do not know by themselves.
AnyWord == STRING \cup {"ls", "cat", "echo", "touch", "?", "new.txt"}
Segments == Seq(AnyWord)

LEMMA FriendlyWords ==
    /\ DOMAIN Friendly = {"list", "read", "say", "make"}
    /\ \A x \in DOMAIN Friendly : Friendly[x] \in {"ls", "cat", "echo", "touch"}
BY DEF Friendly

LEMMA RenamedKnown ==
    ASSUME NEW w \in Segments, w # <<>>, IsFriendly(w)
    PROVE  /\ Renamed(w) \in Segments /\ Len(Renamed(w)) = Len(w)
           /\ Renamed(w)[1] \in {"ls", "cat", "echo", "touch"}
           /\ \A j \in 2 .. Len(w) : Renamed(w)[j] = w[j]
           /\ w[1] # "admin" /\ Renamed(w)[1] # "admin" /\ ~IsFriendly(Renamed(w))
<1>1. Len(w) \in Nat /\ Len(w) # 0 /\ 1 \in 1 .. Len(w)
  BY EmptySeq DEF Segments
<1>2. w[1] \in DOMAIN Friendly
  BY DEF IsFriendly
<1>3. PICK e : e = Friendly[w[1]]
  OBVIOUS
<1>4. e \in {"ls", "cat", "echo", "touch"} /\ e \in AnyWord
  <2>1. e \in {"ls", "cat", "echo", "touch"}
    BY <1>2, <1>3, FriendlyWords
  <2> QED BY <2>1 DEF AnyWord
<1>5. Renamed(w) = [w EXCEPT ![1] = e]
  BY <1>3 DEF Renamed
<1>6. /\ Renamed(w) \in Seq(AnyWord) /\ Len(Renamed(w)) = Len(w)
      /\ \A j \in 1 .. Len(w) : Renamed(w)[j] = IF j = 1 THEN e ELSE w[j]
  BY <1>1, <1>4, <1>5, ExceptSeq DEF Segments
<1>7. Renamed(w)[1] = e
  BY <1>1, <1>6
<1>8. e \notin {"list", "read", "say", "make"} /\ e # "admin"
  BY <1>4
<1>9. ~IsFriendly(Renamed(w))
  BY <1>7, <1>8, FriendlyWords DEF IsFriendly
<1>10. w[1] # "admin"
  BY <1>2, FriendlyWords
<1>11. \A j \in 2 .. Len(w) : j \in 1 .. Len(w) /\ j # 1
  BY <1>1
<1> QED BY <1>4, <1>6, <1>7, <1>8, <1>9, <1>10, <1>11 DEF Segments

\* Without admin in front, or with nothing behind it, a segment stands for
\* itself or for what its friendly name does.
LEMMA MeantItself ==
    ASSUME NEW w \in Segments, w # <<>>, w[1] # "admin" \/ Len(w) = 1
    PROVE  Meant(w) = IF IsFriendly(w) THEN Renamed(w) ELSE w
<1>1. Len(w) \in Nat /\ Len(w) # 0 /\ 1 \in 1 .. Len(w)
  BY EmptySeq DEF Segments
<1> DEFINE plain == {i \in 1 .. Len(w) : w[i] # "admin" \/ i = Len(w)}
<1>2. plain \in SUBSET Nat /\ 1 \in plain /\ \A n \in plain : 1 <= n
  BY <1>1
<1>3. Min(plain) = 1
  BY <1>2, MinIs
<1>4. SubSeq(w, 1, Len(w)) = w
  BY SubSeqFull DEF Segments
<1> QED BY <1>3, <1>4 DEF Meant

\* admin stands for what is behind it.
LEMMA MeantBehindAdmin ==
    ASSUME NEW w \in Segments, Len(w) > 1, w[1] = "admin"
    PROVE  Meant(w) = Meant(Tail(w)) /\ Tail(w) \in Segments /\ Tail(w) # <<>>
<1>1. PICK t : t = Tail(w)
  OBVIOUS
<1>2. /\ Len(w) \in Nat /\ w # <<>> /\ t \in Seq(AnyWord) /\ Len(t) = Len(w) - 1
      /\ \A i \in 1 .. Len(t) : t[i] = w[i + 1]
  <2>1. Len(w) \in Nat /\ w # <<>>
    BY EmptySeq DEF Segments
  <2> QED BY <1>1, <2>1, HeadTailProperties DEF Segments
<1>3. Len(t) \in Nat /\ Len(t) >= 1 /\ t # <<>>
  BY <1>2, EmptySeq
<1> DEFINE inw == {i \in 1 .. Len(w) : w[i] # "admin" \/ i = Len(w)}
           int == {i \in 1 .. Len(t) : t[i] # "admin" \/ i = Len(t)}
<1>4. Len(t) \in int /\ int \in SUBSET Nat /\ inw \in SUBSET Nat
  BY <1>2, <1>3
<1>5. PICK m \in int : \A n \in int : m <= n
  BY <1>4, LeastElement
<1>6. Min(int) = m
  BY <1>4, <1>5, MinIs
<1>7. m + 1 \in inw /\ \A n \in inw : m + 1 <= n
  <2>1. m \in 1 .. Len(t) /\ (t[m] # "admin" \/ m = Len(t))
    BY <1>5
  <2>2. m + 1 \in 1 .. Len(w) /\ t[m] = w[m + 1] /\ (m = Len(t) => m + 1 = Len(w))
    BY <1>2, <1>3, <2>1
  <2>3. ASSUME NEW n \in inw PROVE m + 1 <= n
    <3>1. n \in 1 .. Len(w) /\ (w[n] # "admin" \/ n = Len(w)) /\ n # 1
      BY <2>3
    <3>2. PICK k : k = n - 1
      OBVIOUS
    <3>3. k \in 1 .. Len(t) /\ k + 1 = n /\ (n = Len(w) => k = Len(t))
      BY <1>2, <1>3, <3>1, <3>2
    <3>4. k \in int
      BY <1>2, <3>1, <3>3
    <3> QED BY <1>3, <1>5, <2>1, <3>3, <3>4
  <2> QED BY <2>1, <2>2, <2>3
<1>8. Min(inw) = m + 1
  BY <1>4, <1>7, MinIs
<1>9. SubSeq(w, m + 1, Len(w)) = SubSeq(t, m, Len(t))
  <2>1. t = SubSeq(w, 2, Len(w))
    BY <1>1, <1>2, TailIsSubSeq DEF Segments
  <2>2. /\ w \in Seq(AnyWord) /\ 2 \in 1 .. Len(w) /\ Len(w) \in 1 .. Len(w)
        /\ m \in 1 .. Len(w) - 2 + 1 /\ Len(t) \in 1 .. Len(w) - 2 + 1
    BY <1>2, <1>3, <1>5 DEF Segments
  <2>3. SubSeq(SubSeq(w, 2, Len(w)), m, Len(t)) = SubSeq(w, 2 + m - 1, 2 + Len(t) - 1)
    BY <2>2, SubSeqOfSubSeq
  <2>4. 2 + m - 1 = m + 1 /\ 2 + Len(t) - 1 = Len(w)
    BY <1>2, <1>3, <1>5
  <2> QED BY <2>1, <2>3, <2>4
<1>10. Meant(w) = IF IsFriendly(SubSeq(w, m + 1, Len(w))) THEN Renamed(SubSeq(w, m + 1, Len(w)))
                  ELSE SubSeq(w, m + 1, Len(w))
  BY <1>8 DEF Meant
<1>11. Meant(t) = IF IsFriendly(SubSeq(t, m, Len(t))) THEN Renamed(SubSeq(t, m, Len(t)))
                  ELSE SubSeq(t, m, Len(t))
  BY <1>6 DEF Meant
<1> QED BY <1>1, <1>2, <1>3, <1>9, <1>10, <1>11 DEF Segments

\* A segment stands for a segment.
LEMMA MeantKnown ==
    ASSUME NEW w \in Segments, w # <<>>
    PROVE  Meant(w) \in Segments
<1>1. Len(w) \in Nat /\ Len(w) # 0
  BY EmptySeq DEF Segments
<1> DEFINE plain == {i \in 1 .. Len(w) : w[i] # "admin" \/ i = Len(w)}
<1>2. plain \in SUBSET Nat /\ Len(w) \in plain
  BY <1>1
<1>3. PICK m \in plain : \A n \in plain : m <= n
  BY <1>2, LeastElement
<1>4. Min(plain) = m
  BY <1>2, <1>3, MinIs
<1>5. PICK r : r = SubSeq(w, m, Len(w))
  OBVIOUS
<1>6. r \in Seq(AnyWord) /\ Len(r) = Len(w) - m + 1
  <2>1. m \in 1 .. Len(w)
    BY <1>3
  <2>2. \A i \in m .. Len(w) : w[i] \in AnyWord
    BY <1>1, <2>1, ElementOfSeq DEF Segments
  <2>3. m \in Int /\ Len(w) \in Int /\ m <= Len(w)
    BY <1>1, <2>1
  <2> QED BY <1>5, <2>2, <2>3, SubSeqProperties
<1>7. r # <<>>
  <2>1. Len(r) # 0
    BY <1>1, <1>3, <1>6
  <2> QED BY <2>1, EmptySeq
<1>8. Meant(w) = IF IsFriendly(r) THEN Renamed(r) ELSE r
  BY <1>4, <1>5 DEF Meant
<1> QED BY <1>6, <1>7, <1>8, RenamedKnown DEF Segments


-----------------------------------------------------------------------------
(***************************************************************************)
(* The commands of a line                                                  *)
(***************************************************************************)
\* What a segment of a line is run as: nothing when it is blank.
One(l, i) == IF l[i] = <<>> THEN <<>> ELSE <<Meant(l[i])>>

LEMMA OneKnown ==
    ASSUME NEW l \in Seq(Segments), NEW i \in 1 .. Len(l)
    PROVE  One(l, i) \in Seq(Segments)
<1>1. PICK w : w = l[i]
  OBVIOUS
<1>2. w \in Segments
  BY <1>1, ElementOfSeq
<1>3. CASE w = <<>>
  BY <1>1, <1>3, EmptySeq DEF One
<1>4. CASE w # <<>>
  <2>1. PICK m : m = Meant(w)
    OBVIOUS
  <2>2. m \in Segments
    BY <1>2, <1>4, <2>1, MeantKnown
  <2>3. <<m>> \in Seq(Segments)
    BY <2>2
  <2> QED BY <1>1, <1>4, <2>1, <2>3 DEF One
<1> QED BY <1>3, <1>4

\* The recursion of CommandsFrom has a solution: from each segment on, the
\* commands are that of the segment and those behind it.
LEMMA FromKnown ==
    ASSUME NEW l \in Seq(Segments)
    PROVE  /\ \A i \in 1 .. Len(l) + 1 : CommandsFrom(l)[i] \in Seq(Segments)
           /\ CommandsFrom(l)[Len(l) + 1] = <<>>
           /\ \A i \in 1 .. Len(l) : CommandsFrom(l)[i] = One(l, i) \o CommandsFrom(l)[i + 1]
<1> DEFINE N == Len(l)
           Spot(m) == N + 1 - m
           Follows(f, m) == /\ f \in [Spot(m) .. N + 1 -> Seq(Segments)] /\ f[N + 1] = <<>>
                            /\ \A k \in Spot(m) .. N : f[k] = One(l, k) \o f[k + 1]
           Bad == {m \in 0 .. N : ~\E f : Follows(f, m)}
<1>1. N \in Nat
  BY LenProperties
<1>2. \E f : Follows(f, 0)
  <2>1. PICK f : f = [k \in N + 1 .. N + 1 |-> <<>>]
    OBVIOUS
  <2>2. f \in [N + 1 .. N + 1 -> Seq(Segments)] /\ f[N + 1] = <<>> /\ N + 1 .. N = {}
    BY <1>1, <2>1, EmptySeq
  <2>3. Spot(0) = N + 1
    BY <1>1
  <2> QED BY <2>2, <2>3
<1>3. ASSUME NEW m \in 1 .. N, NEW f, Follows(f, m - 1)
      PROVE  \E g : Follows(g, m)
  <2>1. PICK a : a = N + 1 - m
    OBVIOUS
  <2>2. a \in 1 .. N /\ Spot(m - 1) = a + 1 /\ Spot(m) = a /\ a + 1 \in a + 1 .. N + 1
    BY <1>1, <2>1
  <2>3. /\ f \in [a + 1 .. N + 1 -> Seq(Segments)] /\ f[N + 1] = <<>>
        /\ \A k \in a + 1 .. N : f[k] = One(l, k) \o f[k + 1]
    BY <1>3, <2>2
  <2>4. PICK first : first = One(l, a) \o f[a + 1]
    OBVIOUS
  <2>5. first \in Seq(Segments)
    <3>1. One(l, a) \in Seq(Segments)
      BY <2>2, OneKnown
    <3>2. f[a + 1] \in Seq(Segments)
      BY <2>2, <2>3
    <3> QED BY <2>4, <3>1, <3>2, ConcatProperties
  <2>6. PICK g : g = [k \in a .. N + 1 |-> IF k = a THEN first ELSE f[k]]
    OBVIOUS
  <2>7. \A k \in a .. N + 1 : k # a => k \in a + 1 .. N + 1 /\ g[k] = f[k]
    BY <1>1, <2>2, <2>6
  <2>8. g \in [a .. N + 1 -> Seq(Segments)] /\ g[N + 1] = <<>>
    <3>1. \A k \in a .. N + 1 : (IF k = a THEN first ELSE f[k]) \in Seq(Segments)
      BY <2>3, <2>5, <2>7
    <3>2. N + 1 \in a .. N + 1 /\ N + 1 # a
      BY <1>1, <2>2
    <3> QED BY <2>3, <2>6, <2>7, <3>1, <3>2
  <2>9. ASSUME NEW k \in a .. N PROVE g[k] = One(l, k) \o g[k + 1]
    <3>1. k + 1 \in a .. N + 1 /\ k + 1 # a /\ k \in a .. N + 1
      BY <1>1, <2>2
    <3>2. g[k + 1] = f[k + 1]
      BY <2>7, <3>1
    <3>3. CASE k = a
      BY <2>4, <2>6, <3>1, <3>2, <3>3
    <3>4. CASE k # a
      <4>1. k \in a + 1 .. N
        BY <1>1, <2>2, <3>4
      <4>2. g[k] = f[k] /\ f[k] = One(l, k) \o f[k + 1]
        BY <2>3, <2>7, <3>1, <3>4, <4>1
      <4> QED BY <3>2, <4>2
    <3> QED BY <3>3, <3>4
  <2> QED BY <2>2, <2>8, <2>9
<1> HIDE DEF Follows
<1>4. Bad = {}
  <2> SUFFICES ASSUME Bad # {} PROVE FALSE
    OBVIOUS
  <2>1. PICK n \in Bad : \A m \in Bad : n <= m
    <3>1. Bad \in SUBSET Nat
      BY <1>1
    <3> QED BY <3>1, LeastElement
  <2>2. n \in 0 .. N /\ n # 0
    BY <1>2, <2>1
  <2>3. n - 1 \in 0 .. N /\ n \in 1 .. N /\ ~(n <= n - 1)
    BY <1>1, <2>2
  <2>4. \E f : Follows(f, n - 1)
    BY <2>1, <2>3
  <2> QED BY <1>3, <2>1, <2>3, <2>4
<1>5. PICK f : Follows(f, N)
  <2>1. N \in 0 .. N
    BY <1>1
  <2> QED BY <1>4, <2>1
<1>6. /\ f \in [1 .. N + 1 -> Seq(Segments)] /\ f[N + 1] = <<>>
      /\ \A k \in 1 .. N : f[k] = One(l, k) \o f[k + 1]
  <2>1. Spot(N) = 1
    BY <1>1
  <2> QED BY <1>5, <2>1 DEF Follows
<1> DEFINE Solves(h) ==
        h = [i \in 1 .. N + 1 |-> IF i > N THEN <<>>
                                  ELSE (IF l[i] = <<>> THEN <<>> ELSE <<Meant(l[i])>>) \o h[i + 1]]
<1>7. Solves(f)
  <2>1. \A i \in 1 .. N + 1 :
            f[i] = IF i > N THEN <<>>
                   ELSE (IF l[i] = <<>> THEN <<>> ELSE <<Meant(l[i])>>) \o f[i + 1]
    <3> TAKE i \in 1 .. N + 1
    <3>1. CASE i > N
      <4>1. i = N + 1
        BY <1>1, <3>1
      <4> QED BY <1>6, <3>1, <4>1
    <3>2. CASE ~(i > N)
      <4>1. i \in 1 .. N
        BY <1>1, <3>2
      <4>2. f[i] = One(l, i) \o f[i + 1]
        BY <1>6, <4>1
      <4> QED BY <3>2, <4>2 DEF One
    <3> QED BY <3>1, <3>2
  <2> QED BY <1>6, <2>1
<1>8. CommandsFrom(l) = CHOOSE h : Solves(h)
  BY DEF CommandsFrom
<1>9. PICK h : h = CommandsFrom(l)
  OBVIOUS
<1>10. Solves(h)
  BY <1>7, <1>8, <1>9
<1>11. /\ h[N + 1] = <<>>
       /\ \A i \in 1 .. N : h[i] = One(l, i) \o h[i + 1]
  <2>1. N + 1 \in 1 .. N + 1 /\ N + 1 > N
    BY <1>1
  <2>2. \A i \in 1 .. N + 1 :
            h[i] = IF i > N THEN <<>>
                   ELSE (IF l[i] = <<>> THEN <<>> ELSE <<Meant(l[i])>>) \o h[i + 1]
    BY <1>10
  <2>3. h[N + 1] = <<>>
    BY <2>1, <2>2
  <2>4. ASSUME NEW i \in 1 .. N PROVE h[i] = One(l, i) \o h[i + 1]
    <3>1. i \in 1 .. N + 1 /\ ~(i > N)
      BY <1>1
    <3> QED BY <2>2, <3>1 DEF One
  <2> QED BY <2>3, <2>4
<1>12. \A i \in 1 .. N + 1 : h[i] \in Seq(Segments)
  <2> DEFINE Off == {m \in 0 .. N : h[Spot(m)] \notin Seq(Segments)}
  <2>1. Off = {}
    <3> SUFFICES ASSUME Off # {} PROVE FALSE
      OBVIOUS
    <3>1. PICK m \in Off : \A n \in Off : m <= n
      <4>1. Off \in SUBSET Nat
        BY <1>1
      <4> QED BY <4>1, LeastElement
    <3>2. PICK a : a = N + 1 - m
      OBVIOUS
    <3>3. m \in 0 .. N /\ h[a] \notin Seq(Segments)
      BY <3>1, <3>2
    <3>4. m # 0
      <4> SUFFICES ASSUME m = 0 PROVE FALSE
        OBVIOUS
      <4>1. a = N + 1
        BY <1>1, <3>2
      <4> QED BY <1>11, <3>3, <4>1, EmptySeq
    <3>5. a \in 1 .. N /\ m - 1 \in 0 .. N /\ ~(m <= m - 1) /\ Spot(m - 1) = a + 1
      BY <1>1, <3>2, <3>3, <3>4
    <3>6. h[a + 1] \in Seq(Segments)
      BY <3>1, <3>5
    <3>7. One(l, a) \in Seq(Segments)
      BY <3>5, OneKnown
    <3>8. h[a] = One(l, a) \o h[a + 1]
      BY <1>11, <3>5
    <3> QED BY <3>3, <3>6, <3>7, <3>8, ConcatProperties
  <2>2. ASSUME NEW i \in 1 .. N + 1 PROVE h[i] \in Seq(Segments)
    <3>1. N + 1 - i \in 0 .. N /\ Spot(N + 1 - i) = i
      BY <1>1
    <3> QED BY <2>1, <3>1
  <2> QED BY <2>2
<1> QED BY <1>9, <1>11, <1>12


-----------------------------------------------------------------------------
(***************************************************************************)
(* What is dispatched and what is still to come                            *)
(***************************************************************************)
\* A segment that runs something and is not the history.
Clean(w) == w \in Segments /\ w # <<>> /\ \A j \in 1 .. Len(w) : w[j] # "!!"

Behind(l, k) == SubSeq(l, k, Len(l))

\* The command that is being rewritten, if there is one, and what it will run.
Part(h, hs) ==
    \/ h = <<>> /\ hs = <<>>
    \/ \E w, d : Clean(w) /\ h = <<At(<<w>>, d)>> /\ hs = <<Meant(w)>>

\* The end of the line, if there is one, and what it will run.
Rest(l, r, rs) ==
    \/ r = <<>> /\ rs = <<>>
    \/ \E k \in 1 .. Len(l) : \E d : r = <<At(Behind(l, k), d)>> /\ rs = CommandsFrom(l)[k]

Underway(l, t, rn) ==
    /\ rn \in Seq(Segments)
    /\ \E h, hs, r, rs : /\ Part(h, hs) /\ Rest(l, r, rs) /\ t = h \o r
                         /\ rn \o (hs \o rs) = CommandsFrom(l)[1]

\* What has run and what is to come is the line.
OnTheWay == Underway(line, todo, ran)

\* The inductive invariant.
SesInv == screen = "running" => line \in Lines /\ (IsPlain /\ ~garbled => OnTheWay)

\* Sequences of at most one element.
LEMMA ShortTuples ==
    ASSUME NEW a, NEW b, NEW r, r = <<>> \/ r = <<b>>
    PROVE  /\ <<a>> \o r # <<>> /\ Head(<<a>> \o r) = a /\ Tail(<<a>> \o r) = r
           /\ <<>> \o r = r /\ r \o <<>> = r
<1> DEFINE S == {a, b}
           t == <<a>> \o r
<1>1. r \in Seq(S) /\ <<a>> \in Seq(S) /\ Len(<<a>>) = 1 /\ <<a>>[1] = a
  <2>1. <<b>> \in Seq(S) /\ <<a>> \in Seq(S)
    <3>1. a \in S /\ b \in S
      OBVIOUS
    <3> HIDE DEF S
    <3> QED BY <3>1
  <2>2. <<>> \in Seq(S)
    BY EmptySeq
  <2> QED BY <2>1, <2>2
<1> HIDE DEF S
<1>2. <<>> \o r = r /\ r \o <<>> = r
  BY <1>1, ConcatEmptySeq
<1>3. /\ Len(r) \in Nat /\ t \in Seq(S) /\ Len(t) = 1 + Len(r)
      /\ \A i \in 1 .. 1 + Len(r) : t[i] = IF i <= 1 THEN <<a>>[i] ELSE r[i - 1]
  BY <1>1, ConcatProperties, LenProperties
<1> HIDE DEF t
<1>4. t # <<>> /\ t[1] = a
  <2>1. 1 \in 1 .. 1 + Len(r) /\ Len(t) # 0
    BY <1>3
  <2> QED BY <1>1, <1>3, <2>1, EmptySeq
<1>5. Head(t) = a
  BY <1>3, <1>4
<1>6. /\ Tail(t) \in Seq(S) /\ Len(Tail(t)) = Len(r)
      /\ \A i \in 1 .. Len(r) : Tail(t)[i] = t[i + 1]
  BY <1>3, <1>4, HeadTailProperties
<1>7. \A i \in 1 .. Len(r) : t[i + 1] = r[i]
  BY <1>3
<1>8. Tail(t) = r
  BY <1>1, <1>6, <1>7, SeqEqual
<1> QED BY <1>2, <1>4, <1>5, <1>8 DEF t

LEMMA LinesKnown ==
    ASSUME NEW l \in Lines
    PROVE  l \in Seq(Segments) /\ Len(l) \in Nat /\ Len(l) >= 1
<1>1. l \in Seq(Seq(STRING)) /\ l # <<>>
  BY LinesAssumption
<1>2. Seq(STRING) \subseteq Segments
  <2>1. ASSUME NEW s \in Seq(STRING) PROVE s \in Seq(AnyWord)
    <3>1. STRING \subseteq AnyWord
      BY DEF AnyWord
    <3> QED BY <3>1, SeqMonotonic
  <2> QED BY <2>1 DEF Segments
<1>3. l \in Seq(Segments)
  BY <1>1, <1>2, SeqMonotonic
<1>4. Len(l) \in Nat \ {0}
  BY <1>1, EmptySeq
<1> QED BY <1>3, <1>4

\* What is to come runs commands.
LEMMA PartsKnown ==
    ASSUME NEW l \in Lines, NEW h, NEW hs, NEW r, NEW rs, Part(h, hs), Rest(l, r, rs)
    PROVE  /\ hs \in Seq(Segments) /\ rs \in Seq(Segments)
           /\ \E b : r = <<>> \/ r = <<b>>
<1>1. hs \in Seq(Segments)
  <2>1. CASE hs = <<>>
    BY <2>1, EmptySeq
  <2>2. ASSUME NEW w, NEW d, Clean(w), hs = <<Meant(w)>> PROVE hs \in Seq(Segments)
    <3>1. Meant(w) \in Segments
      BY <2>2, MeantKnown DEF Clean
    <3>2. PICK m : m = Meant(w)
      OBVIOUS
    <3> QED BY <2>2, <3>1, <3>2
  <2> QED BY <2>1, <2>2 DEF Part
<1>2. rs \in Seq(Segments)
  <2>1. CASE rs = <<>>
    BY <2>1, EmptySeq
  <2>2. ASSUME NEW k \in 1 .. Len(l), rs = CommandsFrom(l)[k] PROVE rs \in Seq(Segments)
    <3>1. l \in Seq(Segments) /\ k \in 1 .. Len(l) + 1
      BY LinesKnown
    <3> QED BY <2>2, <3>1, FromKnown
  <2> QED BY <2>1, <2>2 DEF Rest
<1>3. \E b : r = <<>> \/ r = <<b>>
  BY DEF Rest
<1> QED BY <1>1, <1>2, <1>3

PlainLine(l) == \A i \in 1 .. Len(l) : \A j \in 1 .. Len(l[i]) : l[i][j] # "!!"

\* A segment of a line with no !! is blank or clean.
LEMMA SegmentKnown ==
    ASSUME NEW l \in Lines, PlainLine(l), NEW k \in 1 .. Len(l)
    PROVE  l[k] \in Segments /\ (l[k] = <<>> \/ Clean(l[k]))
<1>1. l[k] \in Segments
  BY LinesKnown, ElementOfSeq
<1> QED BY <1>1 DEF Clean, PlainLine

\* What is behind a segment.
LEMMA BehindKnown ==
    ASSUME NEW l \in Lines, NEW k \in 1 .. Len(l)
    PROVE  /\ Head(Behind(l, k)) = l[k] /\ Tail(Behind(l, k)) = Behind(l, k + 1)
           /\ Len(Behind(l, k)) = Len(l) - k + 1
           /\ k = Len(l) => Behind(l, k) = <<l[k]>>
<1>1. l \in Seq(Segments) /\ Len(l) \in Nat /\ Len(l) \in k .. Len(l)
  BY LinesKnown
<1>2. Head(Behind(l, k)) = l[k] /\ Tail(Behind(l, k)) = Behind(l, k + 1)
  BY <1>1, HeadTailOfSubSeq DEF Behind
<1>3. Len(Behind(l, k)) = Len(l) - k + 1
  <2>1. \A i \in k .. Len(l) : l[i] \in Segments
    BY <1>1, ElementOfSeq
  <2>2. k \in Int /\ Len(l) \in Int /\ k <= Len(l)
    BY <1>1
  <2> QED BY <2>1, <2>2, SubSeqProperties DEF Behind
<1>4. ASSUME k = Len(l) PROVE Behind(l, k) = <<l[k]>>
  <2>1. SubSeq(l, k, Len(l)) = << l[k] >> \o SubSeq(l, k + 1, Len(l))
    BY <1>1, SubSeqRecursiveFirst
  <2>2. SubSeq(l, k + 1, Len(l)) = <<>>
    BY <1>1, <1>4, SubSeqEmpty
  <2>3. PICK x : x = l[k]
    OBVIOUS
  <2>4. <<x>> \o <<>> = <<x>>
    BY ShortTuples
  <2> QED BY <2>1, <2>2, <2>3, <2>4 DEF Behind
<1> QED BY <1>2, <1>3, <1>4


\* What can be next: a command, a blank end, or a line with a semicolon.
CommandNext(l, t, rn, w) ==
    \E d, r, rs : /\ Clean(w) /\ Rest(l, r, rs) /\ Head(t) = At(<<w>>, d) /\ Tail(t) = r
                  /\ rn \o (<<Meant(w)>> \o rs) = CommandsFrom(l)[1]
BlankNext(l, t, rn) ==
    \E d : Head(t) = At(<< <<>> >>, d) /\ Tail(t) = <<>> /\ rn = CommandsFrom(l)[1]
SemicolonNext(l, t, rn, k) ==
    \E d : Head(t) = At(Behind(l, k), d) /\ Tail(t) = <<>> /\ rn \o CommandsFrom(l)[k] = CommandsFrom(l)[1]

LEMMA WhatIsNext ==
    ASSUME NEW l \in Lines, PlainLine(l), NEW t, NEW rn, Underway(l, t, rn), t # <<>>
    PROVE  \/ \E w : CommandNext(l, t, rn, w)
           \/ BlankNext(l, t, rn)
           \/ \E k \in 1 .. Len(l) - 1 : SemicolonNext(l, t, rn, k)
<1>1. rn \in Seq(Segments)
  BY DEF Underway
<1>2. PICK h, hs, r, rs : /\ Part(h, hs) /\ Rest(l, r, rs) /\ t = h \o r
                          /\ rn \o (hs \o rs) = CommandsFrom(l)[1]
  BY DEF Underway
<1>3. /\ hs \in Seq(Segments) /\ rs \in Seq(Segments)
      /\ \E b : r = <<>> \/ r = <<b>>
  BY <1>2, PartsKnown
<1>4. PICK b : r = <<>> \/ r = <<b>>
  BY <1>3
<1>5. <<>> \o r = r
  BY <1>4, ShortTuples
<1>6. ASSUME NEW w, NEW d, Clean(w), h = <<At(<<w>>, d)>>, hs = <<Meant(w)>>
      PROVE  CommandNext(l, t, rn, w)
  <2>1. PICK a : a = At(<<w>>, d)
    OBVIOUS
  <2>2. Head(<<a>> \o r) = a /\ Tail(<<a>> \o r) = r
    BY <1>4, ShortTuples
  <2>3. Head(t) = At(<<w>>, d) /\ Tail(t) = r
    BY <1>2, <1>6, <2>1, <2>2
  <2>4. rn \o (<<Meant(w)>> \o rs) = CommandsFrom(l)[1]
    BY <1>2, <1>6
  <2> QED BY <1>2, <1>6, <2>3, <2>4 DEF CommandNext
<1>7. ASSUME h = <<>>, hs = <<>>, NEW k \in 1 .. Len(l), NEW d,
             r = <<At(Behind(l, k), d)>>, rs = CommandsFrom(l)[k]
      PROVE  \/ \E w : CommandNext(l, t, rn, w)
             \/ BlankNext(l, t, rn)
             \/ \E i \in 1 .. Len(l) - 1 : SemicolonNext(l, t, rn, i)
  <2>1. PICK a : a = At(Behind(l, k), d)
    OBVIOUS
  <2>2. t = <<a>>
    BY <1>2, <1>5, <1>7, <2>1
  <2>3. Head(t) = a /\ Tail(t) = <<>>
    <3>1. <<a>> \o <<>> = <<a>> /\ Head(<<a>> \o <<>>) = a /\ Tail(<<a>> \o <<>>) = <<>>
      BY ShortTuples
    <3> QED BY <2>2, <3>1
  <2>4. hs \o rs = rs
    BY <1>3, <1>7, ConcatEmptySeq
  <2>5. rn \o CommandsFrom(l)[k] = CommandsFrom(l)[1]
    BY <1>2, <1>7, <2>4
  <2>6. l \in Seq(Segments) /\ Len(l) \in Nat
    BY LinesKnown
  <2>7. CASE k < Len(l)
    <3>1. k \in 1 .. Len(l) - 1
      BY <2>6, <2>7
    <3>2. SemicolonNext(l, t, rn, k)
      BY <2>1, <2>3, <2>5 DEF SemicolonNext
    <3> QED BY <3>1, <3>2
  <2>8. CASE k = Len(l)
    <3>1. Behind(l, k) = <<l[k]>>
      BY <2>8, BehindKnown
    <3>2. CommandsFrom(l)[k] = One(l, k) \o <<>>
      <4>1. /\ CommandsFrom(l)[k] = One(l, k) \o CommandsFrom(l)[k + 1]
            /\ CommandsFrom(l)[Len(l) + 1] = <<>>
        BY <2>6, FromKnown
      <4> QED BY <2>8, <4>1
    <3>3. One(l, k) \o <<>> = One(l, k)
      BY <2>6, OneKnown, ConcatEmptySeq
    <3>4. CASE l[k] = <<>>
      <4>1. CommandsFrom(l)[k] = <<>>
        BY <3>2, <3>3, <3>4 DEF One
      <4>2. rn = CommandsFrom(l)[1]
        BY <1>1, <2>5, <4>1, ConcatEmptySeq
      <4>3. Head(t) = At(<< <<>> >>, d)
        BY <2>1, <2>3, <3>1, <3>4
      <4> QED BY <2>3, <4>2, <4>3 DEF BlankNext
    <3>5. CASE l[k] # <<>>
      <4>1. Clean(l[k])
        BY <3>5, SegmentKnown
      <4>2. PICK w : w = l[k]
        OBVIOUS
      <4>3. CommandsFrom(l)[k] = <<Meant(w)>>
        BY <3>2, <3>3, <3>5, <4>2 DEF One
      <4>4. <<Meant(w)>> \o <<>> = <<Meant(w)>>
        <5>1. PICK m : m = Meant(w)
          OBVIOUS
        <5> QED BY <5>1, ShortTuples
      <4>5. rn \o (<<Meant(w)>> \o <<>>) = CommandsFrom(l)[1]
        BY <2>5, <4>3, <4>4
      <4>6. Head(t) = At(<<w>>, d)
        BY <2>1, <2>3, <3>1, <4>2
      <4>7. Rest(l, <<>>, <<>>)
        BY DEF Rest
      <4>8. CommandNext(l, t, rn, w)
        BY <2>3, <4>1, <4>2, <4>5, <4>6, <4>7 DEF CommandNext
      <4> QED BY <4>8
    <3> QED BY <3>4, <3>5
  <2> QED BY <2>6, <2>7, <2>8
<1>8. h = <<>> => r # <<>>
  BY <1>2, <1>5
<1> QED BY <1>2, <1>6, <1>7, <1>8 DEF Part, Rest

\* The command is rewritten: what it stands for stays.
LEMMA AfterRewriting ==
    ASSUME NEW l \in Lines, NEW t, NEW rn \in Seq(Segments), NEW w, CommandNext(l, t, rn, w),
           NEW v, Clean(v), Meant(v) = Meant(w), NEW e
    PROVE  Underway(l, <<At(<<v>>, e)>> \o Tail(t), rn \o <<>>)
<1>1. PICK r, rs : Rest(l, r, rs) /\ Tail(t) = r /\ rn \o (<<Meant(w)>> \o rs) = CommandsFrom(l)[1]
  BY DEF CommandNext
<1>2. rn \o <<>> = rn
  BY ConcatEmptySeq
<1>3. PICK h, hs : h = <<At(<<v>>, e)>> /\ hs = <<Meant(v)>>
  OBVIOUS
<1>4. Part(h, hs)
  BY <1>3 DEF Part
<1>5. rn \o (hs \o rs) = CommandsFrom(l)[1]
  BY <1>1, <1>3
<1>6. Underway(l, h \o r, rn)
  BY <1>1, <1>4, <1>5 DEF Underway
<1> QED BY <1>1, <1>2, <1>3, <1>6

\* The command runs.
LEMMA AfterRunning ==
    ASSUME NEW l \in Lines, NEW t, NEW rn \in Seq(Segments), NEW w, CommandNext(l, t, rn, w), Meant(w) = w
    PROVE  Underway(l, <<>> \o Tail(t), rn \o <<w>>)
<1>1. PICK r, rs : Rest(l, r, rs) /\ Tail(t) = r /\ rn \o (<<w>> \o rs) = CommandsFrom(l)[1]
  BY DEF CommandNext
<1>2. w \in Segments
  BY DEF CommandNext, Clean
<1>3. <<w>> \in Seq(Segments)
  BY <1>2
<1>4. Part(<<>>, <<>>)
  BY DEF Part
<1>5. rs \in Seq(Segments)
  BY <1>1, <1>4, PartsKnown
<1>6. rn \o <<w>> \in Seq(Segments)
  BY <1>3, ConcatProperties
<1>7. (rn \o <<w>>) \o (<<>> \o rs) = CommandsFrom(l)[1]
  <2>1. <<>> \o rs = rs
    BY <1>5, ConcatEmptySeq
  <2>2. (rn \o <<w>>) \o rs = rn \o (<<w>> \o rs)
    BY <1>3, <1>5, ConcatAssociative
  <2> QED BY <1>1, <2>1, <2>2
<1>8. PICK h : h = <<>>
  OBVIOUS
<1>9. Underway(l, h \o r, rn \o <<w>>)
  BY <1>1, <1>4, <1>6, <1>7, <1>8 DEF Underway
<1> QED BY <1>1, <1>8, <1>9

\* The blank end of a line is passed over.
LEMMA AfterBlank ==
    ASSUME NEW l \in Lines, NEW t, NEW rn \in Seq(Segments), BlankNext(l, t, rn)
    PROVE  Underway(l, <<>> \o Tail(t), rn \o <<>>)
<1>1. Tail(t) = <<>> /\ rn = CommandsFrom(l)[1]
  BY DEF BlankNext
<1>2. <<>> \in Seq(Segments)
  BY EmptySeq
<1>3. rn \o <<>> = rn /\ <<>> \o <<>> = <<>>
  BY <1>2, ConcatEmptySeq
<1>4. Part(<<>>, <<>>) /\ Rest(l, <<>>, <<>>)
  BY DEF Part, Rest
<1>5. PICK z : z = <<>>
  OBVIOUS
<1>6. rn \o (z \o z) = CommandsFrom(l)[1] /\ Part(z, z) /\ Rest(l, z, z)
  BY <1>1, <1>3, <1>4, <1>5
<1>7. Underway(l, z \o z, rn)
  BY <1>6 DEF Underway
<1> QED BY <1>1, <1>3, <1>5, <1>7

\* A line is split: its first segment is next, then what is behind it.
LEMMA AfterSplitting ==
    ASSUME NEW l \in Lines, PlainLine(l), NEW t, NEW rn \in Seq(Segments), NEW k \in 1 .. Len(l) - 1,
           SemicolonNext(l, t, rn, k), NEW e
    PROVE  Underway(l, Pending(Behind(l, k), e) \o Tail(t), rn \o <<>>)
<1>1. Tail(t) = <<>> /\ rn \o CommandsFrom(l)[k] = CommandsFrom(l)[1]
  BY DEF SemicolonNext
<1>2. l \in Seq(Segments) /\ Len(l) \in Nat /\ k \in 1 .. Len(l) /\ k + 1 \in 1 .. Len(l)
  BY LinesKnown
<1>3. Head(Behind(l, k)) = l[k] /\ Tail(Behind(l, k)) = Behind(l, k + 1)
  BY <1>2, BehindKnown
<1>4. PICK w : w = l[k]
  OBVIOUS
<1>5. PICK h : h = Call(<<w>>, e)
  OBVIOUS
<1>6. PICK r : r = Call(Behind(l, k + 1), e)
  OBVIOUS
<1>7. Pending(Behind(l, k), e) = h \o r
  BY <1>3, <1>4, <1>5, <1>6 DEF Pending, RightPart
<1>8. PICK hs : hs = One(l, k)
  OBVIOUS
<1>9. PICK rs : rs = CommandsFrom(l)[k + 1]
  OBVIOUS
<1>10. Part(h, hs)
  <2>1. CASE w = <<>>
    BY <1>4, <1>5, <1>8, <2>1 DEF Part, Call, IsBlank, One
  <2>2. CASE w # <<>>
    <3>1. Clean(w)
      BY <1>2, <1>4, <2>2, SegmentKnown
    <3>2. ~IsBlank(<<w>>)
      BY <2>2 DEF IsBlank
    <3> QED BY <1>4, <1>5, <1>8, <2>2, <3>1, <3>2 DEF Part, Call, One
  <2> QED BY <2>1, <2>2
<1>11. Rest(l, r, rs)
  <2>1. CASE IsBlank(Behind(l, k + 1))
    <3>1. Len(Behind(l, k + 1)) = 1 /\ Head(Behind(l, k + 1)) = <<>>
      BY <2>1 DEF IsBlank
    <3>2. Len(Behind(l, k + 1)) = Len(l) - (k + 1) + 1 /\ Head(Behind(l, k + 1)) = l[k + 1]
      BY <1>2, BehindKnown
    <3>3. k + 1 = Len(l) /\ l[k + 1] = <<>>
      <4>1. Len(l) - (k + 1) + 1 = 1 /\ l[k + 1] = <<>>
        BY <3>1, <3>2
      <4>2. ASSUME NEW n \in Nat, n - (k + 1) + 1 = 1 PROVE k + 1 = n
        BY <1>2, <4>2
      <4> QED BY <1>2, <4>1, <4>2
    <3>4. One(l, k + 1) = <<>>
      BY <3>3 DEF One
    <3>5. /\ CommandsFrom(l)[k + 1] = One(l, k + 1) \o CommandsFrom(l)[k + 1 + 1]
          /\ CommandsFrom(l)[Len(l) + 1] = <<>>
      BY <1>2, FromKnown
    <3>6. <<>> \o <<>> = <<>>
      BY ShortTuples
    <3>7. rs = <<>>
      BY <1>9, <3>3, <3>4, <3>5, <3>6
    <3> QED BY <1>6, <2>1, <3>7 DEF Rest, Call
  <2>2. CASE ~IsBlank(Behind(l, k + 1))
    BY <1>2, <1>6, <1>9, <2>2 DEF Rest, Call
  <2> QED BY <2>1, <2>2
<1>12. rn \o (hs \o rs) = CommandsFrom(l)[1]
  <2>1. CommandsFrom(l)[k] = One(l, k) \o CommandsFrom(l)[k + 1]
    BY <1>2, FromKnown
  <2> QED BY <1>1, <1>8, <1>9, <2>1
<1>13. Underway(l, h \o r, rn)
  BY <1>10, <1>11, <1>12 DEF Underway
<1>14. rn \o <<>> = rn
  BY ConcatEmptySeq
<1>15. (h \o r) \o <<>> = h \o r
  <2>1. \E a : h = <<>> \/ h = <<a>>
    BY <1>5 DEF Call
  <2>2. \E b : r = <<>> \/ r = <<b>>
    BY <1>6 DEF Call
  <2>3. PICK a, b : (h = <<>> \/ h = <<a>>) /\ (r = <<>> \/ r = <<b>>)
    BY <2>1, <2>2
  <2> DEFINE S == {a, b}
  <2>4. a \in S /\ b \in S
    OBVIOUS
  <2> HIDE DEF S
  <2>5. h \in Seq(S) /\ r \in Seq(S)
    <3>1. <<a>> \in Seq(S) /\ <<b>> \in Seq(S)
      BY <2>4
    <3>2. <<>> \in Seq(S)
      BY EmptySeq
    <3> QED BY <2>3, <3>1, <3>2
  <2>6. h \o r \in Seq(S)
    BY <2>5, ConcatProperties
  <2> QED BY <2>6, ConcatEmptySeq
<1> QED BY <1>1, <1>7, <1>13, <1>14, <1>15


-----------------------------------------------------------------------------
(***************************************************************************)
(* Every step of dispatch keeps the line whole                             *)
(***************************************************************************)
LEMMA CommandOnTop ==
    ASSUME NEW l, NEW t, NEW rn, NEW w, CommandNext(l, t, rn, w)
    PROVE  Head(t).text = <<w>> /\ Clean(w) /\ ~IsBlank(<<w>>) /\ w[1] # "!!"
<1>1. PICK d : Clean(w) /\ Head(t) = At(<<w>>, d)
  BY DEF CommandNext
<1>2. Head(t).text = <<w>>
  BY <1>1 DEF At
<1>3. w # <<>> /\ ~IsBlank(<<w>>)
  BY <1>1 DEF Clean, IsBlank
<1>4. 1 \in 1 .. Len(w)
  <2>1. Len(w) \in Nat \ {0}
    BY <1>1, EmptySeq DEF Clean, Segments
  <2> QED BY <2>1
<1> QED BY <1>1, <1>2, <1>3, <1>4 DEF Clean

LEMMA BlankOnTop ==
    ASSUME NEW l, NEW t, NEW rn, BlankNext(l, t, rn)
    PROVE  Head(t).text = << <<>> >> /\ IsBlank(Head(t).text) /\ Len(Head(t).text) = 1
<1>1. Head(t).text = << <<>> >>
  BY DEF BlankNext, At
<1> QED BY <1>1 DEF IsBlank

LEMMA BlankIsShort ==
    ASSUME NEW x, IsBlank(x)
    PROVE  Len(x) = 1
BY DEF IsBlank

LEMMA SemicolonOnTop ==
    ASSUME NEW l \in Lines, NEW t, NEW rn, NEW k \in 1 .. Len(l) - 1, SemicolonNext(l, t, rn, k)
    PROVE  Head(t).text = Behind(l, k) /\ Len(Head(t).text) > 1 /\ ~IsBlank(Head(t).text)
<1>1. Head(t).text = Behind(l, k)
  BY DEF SemicolonNext, At
<1>2. k \in 1 .. Len(l) /\ Len(l) \in Nat
  BY LinesKnown
<1>3. Len(Behind(l, k)) = Len(l) - k + 1
  BY <1>2, BehindKnown
<1>4. Len(Head(t).text) > 1
  <2>1. Len(l) - k + 1 > 1
    BY <1>2
  <2> QED BY <1>1, <1>3, <2>1
<1>5. ASSUME IsBlank(Head(t).text) PROVE FALSE
  <2>1. PICK x : x = Head(t).text
    OBVIOUS
  <2>2. IsBlank(x) /\ Len(x) > 1
    BY <1>4, <1>5, <2>1
  <2>3. Len(x) = 1
    BY <2>2, BlankIsShort
  <2> QED BY <2>2, <2>3
<1> QED BY <1>1, <1>4, <1>5

\* A line that is on its way goes on.
Proceeds == line \in Lines /\ PlainLine(line) /\ ~garbled /\ OnTheWay /\ OnTop

LEMMA TopIs ==
    ASSUME Proceeds
    PROVE  /\ line \in Lines /\ ran \in Seq(Segments)
           /\ \/ \E w : CommandNext(line, todo, ran, w)
              \/ BlankNext(line, todo, ran)
              \/ \E k \in 1 .. Len(line) - 1 : SemicolonNext(line, todo, ran, k)
<1>1. Underway(line, todo, ran) /\ todo # <<>> /\ line \in Lines /\ PlainLine(line)
  BY DEF Proceeds, OnTheWay, OnTop
<1>2. \/ \E w : CommandNext(line, todo, ran, w)
      \/ BlankNext(line, todo, ran)
      \/ \E k \in 1 .. Len(line) - 1 : SemicolonNext(line, todo, ran, k)
  BY <1>1, WhatIsNext
<1> QED BY <1>1, <1>2 DEF Underway

\* Only a command has one segment that is not blank.
LEMMA CommandIsNext ==
    ASSUME Proceeds, Len(Top) = 1, ~IsBlank(Top)
    PROVE  CommandNext(line, todo, ran, Words) /\ Clean(Words) /\ Words[1] # "!!"
<1>1. PICK w : CommandNext(line, todo, ran, w)
  <2>1. ~BlankNext(line, todo, ran)
    BY BlankOnTop DEF Top
  <2>2. ASSUME NEW k \in 1 .. Len(line) - 1, SemicolonNext(line, todo, ran, k) PROVE FALSE
    <3>1. line \in Lines
      BY DEF Proceeds
    <3>2. Len(Top) > 1
      BY <2>2, <3>1, SemicolonOnTop DEF Top
    <3> QED BY <3>2
  <2> QED BY <2>1, <2>2, TopIs
<1>2. Top = <<w>> /\ Clean(w) /\ w[1] # "!!"
  BY <1>1, CommandOnTop DEF Top
<1>3. Words = w
  BY <1>2 DEF Words
<1> QED BY <1>1, <1>2, <1>3

LEMMA BlankKeeps ==
    ASSUME Proceeds, Blank
    PROVE  OnTheWay'
<1>1. IsBlank(Top) /\ todo' = <<>> \o Tail(todo) /\ ran' = ran \o <<>> /\ line' = line
  BY DEF Blank, Goes, Fits
<1>2. BlankNext(line, todo, ran)
  <2>1. ASSUME NEW w, CommandNext(line, todo, ran, w) PROVE FALSE
    BY <1>1, <2>1, CommandOnTop DEF Top
  <2>2. ASSUME NEW k \in 1 .. Len(line) - 1, SemicolonNext(line, todo, ran, k) PROVE FALSE
    BY <1>1, <2>2, SemicolonOnTop DEF Top, Proceeds
  <2> QED BY <2>1, <2>2, TopIs
<1>3. Underway(line, <<>> \o Tail(todo), ran \o <<>>)
  BY <1>2, TopIs, AfterBlank
<1> QED BY <1>1, <1>3 DEF OnTheWay

LEMMA SplitKeeps ==
    ASSUME Proceeds, Split
    PROVE  OnTheWay'
<1>1. /\ Len(Top) > 1 /\ line' = line
      /\ todo' = Pending(Top, Deeper) \o Tail(todo) /\ ran' = ran \o <<>>
  BY DEF Split, Goes, Fits
<1>2. PICK k \in 1 .. Len(line) - 1 : SemicolonNext(line, todo, ran, k)
  <2>1. ASSUME NEW w, CommandNext(line, todo, ran, w) PROVE FALSE
    <3>1. Top = <<w>>
      BY <2>1, CommandOnTop DEF Top
    <3>2. Len(Top) = 1
      BY <3>1
    <3> QED BY <1>1, <3>2
  <2>2. ~BlankNext(line, todo, ran)
    <3> SUFFICES ASSUME BlankNext(line, todo, ran) PROVE FALSE
      OBVIOUS
    <3>1. Len(Top) = 1
      BY BlankOnTop DEF Top
    <3> QED BY <1>1, <3>1
  <2> QED BY <2>1, <2>2, TopIs
<1>3. Top = Behind(line, k)
  BY <1>2, SemicolonOnTop DEF Top, Proceeds
<1>4. PICK e : e = Deeper
  OBVIOUS
<1>5. Underway(line, Pending(Behind(line, k), e) \o Tail(todo), ran \o <<>>)
  BY <1>2, TopIs, AfterSplitting DEF Proceeds
<1> QED BY <1>1, <1>3, <1>4, <1>5 DEF OnTheWay

\* A friendly name becomes the name it stands for.
LEMMA FriendlyNameKeeps ==
    ASSUME Proceeds, FriendlyName, ~garbled'
    PROVE  OnTheWay'
<1>1. IsCommand /\ IsFriendly(Words) /\ line' = line
  BY DEF FriendlyName, IsCommand, Fits
<1>2. /\ todo' = <<At(<<Renamed(Words)>>, Deeper)>> \o Tail(todo)
      /\ ran' = ran \o <<>>
  <2>1. PICK tail : /\ Goes(<<At(Glued(Renamed(Words), tail), Deeper)>>, <<>>)
                    /\ garbled' = (garbled \/ tail # <<>>)
    BY DEF FriendlyName
  <2>2. tail = <<>>
    BY <2>1, Zenon
  <2>3. Glued(Renamed(Words), tail) = <<Renamed(Words)>>
    BY <2>2 DEF Glued
  <2> QED BY <2>1, <2>3 DEF Goes
<1>3. CommandNext(line, todo, ran, Words) /\ Clean(Words)
  BY <1>1, CommandIsNext DEF IsCommand
<1>4. PICK w : w = Words
  OBVIOUS
<1>5. w \in Segments /\ w # <<>> /\ IsFriendly(w) /\ \A j \in 1 .. Len(w) : w[j] # "!!"
  BY <1>1, <1>3, <1>4 DEF Clean
<1>6. PICK v : v = Renamed(w)
  OBVIOUS
<1>7. /\ v \in Segments /\ Len(v) = Len(w) /\ v[1] \in {"ls", "cat", "echo", "touch"}
      /\ \A j \in 2 .. Len(w) : v[j] = w[j]
      /\ w[1] # "admin" /\ v[1] # "admin" /\ ~IsFriendly(v)
  BY <1>5, <1>6, RenamedKnown
<1>8. Len(w) \in Nat \ {0} /\ v # <<>>
  <2>1. Len(w) \in Nat \ {0}
    BY <1>5, EmptySeq DEF Segments
  <2>2. Len(<<>>) = 0
    BY EmptySeq
  <2> QED BY <1>7, <2>1, <2>2
<1>9. Clean(v)
  <2>1. ASSUME NEW j \in 1 .. Len(v) PROVE v[j] # "!!"
    <3>1. CASE j = 1
      BY <1>7, <3>1
    <3>2. CASE j # 1
      <4>1. j \in 1 .. Len(w) /\ j \in 2 .. Len(w)
        BY <1>7, <1>8, <3>2
      <4> QED BY <1>5, <1>7, <4>1
    <3> QED BY <3>1, <3>2
  <2> QED BY <1>7, <1>8, <2>1 DEF Clean
<1>10. Meant(v) = Meant(w)
  BY <1>5, <1>6, <1>7, <1>8, MeantItself
<1>11. PICK e : e = Deeper
  OBVIOUS
<1>12. Underway(line, <<At(<<v>>, e)>> \o Tail(todo), ran \o <<>>)
  BY <1>3, <1>4, <1>9, <1>10, TopIs, AfterRewriting
<1> QED BY <1>1, <1>2, <1>4, <1>6, <1>11, <1>12 DEF OnTheWay

\* admin gives way to what is behind it.
LEMMA AdminKeeps ==
    ASSUME Proceeds, Admin
    PROVE  OnTheWay'
<1>1. /\ IsCommand /\ Words[1] = "admin" /\ Len(Words) > 1 /\ line' = line
      /\ todo' = <<At(<<Tail(Words)>>, Deeper)>> \o Tail(todo) /\ ran' = ran \o <<>>
  BY DEF Admin, IsCommand, Fits, Goes
<1>2. CommandNext(line, todo, ran, Words) /\ Clean(Words)
  BY <1>1, CommandIsNext DEF IsCommand
<1>3. PICK w : w = Words
  OBVIOUS
<1>4. PICK v : v = Tail(w)
  OBVIOUS
<1>5. w \in Segments /\ w # <<>> /\ Len(w) > 1 /\ w[1] = "admin" /\ \A j \in 1 .. Len(w) : w[j] # "!!"
  BY <1>1, <1>2, <1>3 DEF Clean
<1>6. Meant(v) = Meant(w) /\ v \in Segments /\ v # <<>>
  BY <1>4, <1>5, MeantBehindAdmin
<1>7. Clean(v)
  <2>1. Len(v) = Len(w) - 1 /\ \A i \in 1 .. Len(v) : v[i] = w[i + 1]
    BY <1>4, <1>5, HeadTailProperties DEF Segments
  <2>2. Len(w) \in Nat
    BY <1>5, LenProperties DEF Segments
  <2>3. ASSUME NEW j \in 1 .. Len(v) PROVE v[j] # "!!"
    <3>1. j + 1 \in 1 .. Len(w)
      BY <2>1, <2>2
    <3> QED BY <1>5, <2>1, <3>1
  <2> QED BY <1>6, <2>3 DEF Clean
<1>8. PICK e : e = Deeper
  OBVIOUS
<1>9. Underway(line, <<At(<<v>>, e)>> \o Tail(todo), ran \o <<>>)
  BY <1>2, <1>3, <1>6, <1>7, TopIs, AfterRewriting
<1> QED BY <1>1, <1>3, <1>4, <1>8, <1>9 DEF OnTheWay

\* A command that means itself runs.
LEMMA RunningKeeps ==
    ASSUME Proceeds, IsCommand, ~IsFriendly(Words), ~(Words[1] = "admin" /\ Len(Words) > 1),
           Goes(<<>>, <<Words>>)
    PROVE  OnTheWay'
<1>1. todo' = <<>> \o Tail(todo) /\ ran' = ran \o <<Words>> /\ line' = line
  BY DEF IsCommand, Fits, Goes
<1>2. CommandNext(line, todo, ran, Words) /\ Clean(Words)
  <2>1. Len(Top) = 1 /\ ~IsBlank(Top)
    BY DEF IsCommand
  <2> QED BY <2>1, CommandIsNext
<1>3. PICK w : w = Words
  OBVIOUS
<1>4. w \in Segments /\ w # <<>> /\ ~IsFriendly(w) /\ ~(w[1] = "admin" /\ Len(w) > 1)
  BY <1>2, <1>3 DEF Clean
<1>5. Len(w) \in Nat \ {0}
  <2>1. w \in Seq(AnyWord) /\ w # <<>>
    BY <1>4 DEF Segments
  <2> QED BY <2>1, EmptySeq
<1>6. w[1] # "admin" \/ Len(w) = 1
  <2>1. ASSUME NEW n \in Nat \ {0}, ~(n > 1) PROVE n = 1
    BY <2>1
  <2>2. ~(Len(w) > 1) => Len(w) = 1
    BY <1>5, <2>1
  <2> QED BY <1>4, <2>2
<1>7. Meant(w) = w
  BY <1>4, <1>6, MeantItself
<1>8. Underway(line, <<>> \o Tail(todo), ran \o <<w>>)
  BY <1>2, <1>3, <1>7, TopIs, AfterRunning
<1> QED BY <1>1, <1>3, <1>8 DEF OnTheWay

\* A line that is entered is still to come as a whole.
LEMMA EnterBegins ==
    ASSUME NEW l \in Lines, Enter(l)
    PROVE  OnTheWay'
<1>1. line' = l /\ todo' = <<At(l, 1)>> /\ ran' = <<>>
  BY DEF Enter
<1>2. l \in Seq(Segments) /\ 1 \in 1 .. Len(l) /\ 1 \in 1 .. Len(l) + 1
  BY LinesKnown
<1>3. Behind(l, 1) = l
  BY <1>2, SubSeqFull DEF Behind
<1>4. PICK r, rs : r = <<At(l, 1)>> /\ rs = CommandsFrom(l)[1]
  OBVIOUS
<1>5. Rest(l, r, rs)
  BY <1>2, <1>3, <1>4 DEF Rest
<1>6. PICK z : z = <<>>
  OBVIOUS
<1>7. Part(z, z)
  BY <1>6 DEF Part
<1>8. z \in Seq(Segments) /\ rs \in Seq(Segments)
  BY <1>2, <1>4, <1>6, FromKnown, EmptySeq
<1>9. z \o (z \o rs) = CommandsFrom(l)[1]
  BY <1>4, <1>6, <1>8, ConcatEmptySeq
<1>10. z \o r = r
  BY <1>4, <1>6, ShortTuples
<1>11. Underway(l, r, z)
  BY <1>5, <1>7, <1>8, <1>9, <1>10 DEF Underway
<1> QED BY <1>1, <1>4, <1>6, <1>11 DEF OnTheWay

\* What is on its way has run from left to right.
LEMMA InOrder ==
    ASSUME NEW l \in Lines, NEW t, NEW rn, Underway(l, t, rn)
    PROVE  IsPrefix(rn, Commands(l)) /\ (t = <<>> => rn = Commands(l))
<1>1. rn \in Seq(Segments)
  BY DEF Underway
<1>2. PICK h, hs, r, rs : /\ Part(h, hs) /\ Rest(l, r, rs) /\ t = h \o r
                          /\ rn \o (hs \o rs) = CommandsFrom(l)[1]
  BY DEF Underway
<1>3. /\ hs \in Seq(Segments) /\ rs \in Seq(Segments)
      /\ \E b : r = <<>> \/ r = <<b>>
  BY <1>2, PartsKnown
<1>4. PICK rest : rest = hs \o rs
  OBVIOUS
<1>5. rest \in Seq(Segments) /\ Commands(l) = rn \o rest
  BY <1>2, <1>3, <1>4, ConcatProperties DEF Commands
<1>6. IsPrefix(rn, rn \o rest)
  <2>1. Len(rn) \in Nat /\ Len(rest) \in Nat /\ Len(rn \o rest) = Len(rn) + Len(rest)
    BY <1>1, <1>5, LenProperties, ConcatProperties
  <2>2. Len(rn) <= Len(rn \o rest)
    BY <2>1
  <2>3. SubSeq(rn \o rest, 1, Len(rn)) = SubSeq(rn, 1, Len(rn))
    <3>1. CASE Len(rn) = 0
      <4>1. SubSeq(rn \o rest, 1, 0) = <<>> /\ SubSeq(rn, 1, 0) = <<>>
        BY SubSeqEmpty
      <4> QED BY <3>1, <4>1
    <3>2. CASE Len(rn) # 0
      <4>1. 1 \in 1 .. Len(rn) /\ Len(rn) \in 1 .. Len(rn)
        BY <2>1, <3>2
      <4> QED BY <1>1, <1>5, <4>1, SubSeqOfConcat1
    <3> QED BY <3>1, <3>2
  <2> QED BY <2>2, <2>3 DEF IsPrefix
<1>7. ASSUME t = <<>> PROVE rn = Commands(l)
  <2>1. PICK b : r = <<>> \/ r = <<b>>
    BY <1>3
  <2>2. h = <<>>
    <3>1. ASSUME NEW a, h = <<a>> PROVE FALSE
      <4>1. <<a>> \o r # <<>>
        BY <2>1, ShortTuples
      <4> QED BY <1>2, <1>7, <3>1, <4>1
    <3> QED BY <1>2, <3>1 DEF Part
  <2>3. r = <<>>
    BY <1>2, <1>7, <2>1, <2>2, ShortTuples
  <2>4. hs = <<>> /\ rs = <<>>
    BY <1>2, <2>2, <2>3 DEF Part, Rest
  <2>5. <<>> \o <<>> = <<>>
    BY ShortTuples
  <2>6. rn \o <<>> = rn
    BY <1>1, ConcatEmptySeq
  <2> QED BY <1>2, <2>4, <2>5, <2>6 DEF Commands
<1> QED BY <1>5, <1>6, <1>7


LEMMA SesBegins == SesInit => SesInv
BY DEF SesInit, SesInv

LEMMA PlainIs == IsPlain <=> PlainLine(line)
BY DEF IsPlain, PlainLine

LEMMA DispatchKeeps ==
    ASSUME SesInv, Dispatch
    PROVE  SesInv'
<1>1. CASE screen # "running" \/ screen' # "running"
  <2>1. Dispatch => screen = "running"
    BY DEF Dispatch, Overflow, Blank, Split, BangBang, FriendlyName, Admin, Command, RunEditor,
           Finish, IsCommand, Fits, OnTop
  <2>2. screen' # "running"
    BY <1>1, <2>1
  <2> QED BY <2>2 DEF SesInv
<1>2. CASE screen = "running" /\ screen' = "running"
  <2>1. Blank \/ Split \/ BangBang \/ FriendlyName \/ Admin \/ Command \/ RunEditor
    <3>1. ~Overflow
      BY <1>2 DEF Overflow
    <3>2. ~Finish
      BY <1>2 DEF Finish
    <3> QED BY <3>1, <3>2 DEF Dispatch
  <2>2. /\ OnTop /\ line' = line /\ line \in Lines
        /\ IsPlain /\ ~garbled => OnTheWay
    <3>1. OnTop /\ line' = line
      BY <2>1 DEF Blank, Split, BangBang, FriendlyName, Admin, Command, RunEditor, IsCommand, Fits
    <3> QED BY <1>2, <3>1 DEF SesInv
  <2>3. ASSUME IsPlain', ~garbled' PROVE OnTheWay'
    <3>1. IsPlain
      BY <2>2, <2>3 DEF IsPlain
    <3>2. ~garbled
      <4>1. CASE FriendlyName
        <5>1. PICK tail : garbled' = (garbled \/ tail # <<>>)
          BY <4>1 DEF FriendlyName
        <5> QED BY <2>3, <5>1, Zenon
      <4>2. CASE ~FriendlyName
        <5>1. garbled' = garbled
          BY <2>1, <4>2 DEF Blank, Split, BangBang, Admin, Command, RunEditor
        <5> QED BY <2>3, <5>1, Zenon
      <4> QED BY <4>1, <4>2
    <3>3. Proceeds
      BY <2>2, <3>1, <3>2, PlainIs DEF Proceeds
    <3>4. CASE Blank
      BY <3>3, <3>4, BlankKeeps
    <3>5. CASE Split
      BY <3>3, <3>5, SplitKeeps
    <3>6. CASE BangBang
      BY <3>3, <3>6, CommandIsNext DEF BangBang, IsCommand
    <3>7. CASE FriendlyName
      BY <2>3, <3>3, <3>7, FriendlyNameKeeps
    <3>8. CASE Admin
      BY <3>3, <3>8, AdminKeeps
    <3>9. CASE Command
      <4>1. /\ IsCommand /\ ~IsFriendly(Words) /\ ~(Words[1] = "admin" /\ Len(Words) > 1)
            /\ Goes(<<>>, <<Words>>)
        BY <3>9 DEF Command, Special
      <4> QED BY <3>3, <4>1, RunningKeeps
    <3>10. CASE RunEditor
      <4>1. IsCommand /\ Words[1] = "write" /\ Goes(<<>>, <<Words>>)
        BY <3>10 DEF RunEditor
      <4>2. ~IsFriendly(Words)
        BY <4>1, FriendlyWords DEF IsFriendly
      <4>3. ~(Words[1] = "admin" /\ Len(Words) > 1)
        BY <4>1
      <4> QED BY <3>3, <4>1, <4>2, <4>3, RunningKeeps
    <3> QED BY <2>1, <3>4, <3>5, <3>6, <3>7, <3>8, <3>9, <3>10
  <2> QED BY <2>2, <2>3 DEF SesInv
<1> QED BY <1>1, <1>2

LEMMA SesStep == SesInv /\ [SesNext]_sesVars => SesInv'
<1>. SUFFICES ASSUME SesInv, [SesNext]_sesVars PROVE SesInv'
  OBVIOUS
<1>1. CASE Dispatch
  BY <1>1, DispatchKeeps
<1>2. ASSUME NEW l \in Lines, Enter(l) PROVE SesInv'
  <2>1. line' \in Lines /\ OnTheWay'
    BY <1>2, EnterBegins DEF Enter
  <2> QED BY <2>1 DEF SesInv
<1>3. CASE EntryKey \/ NameEntered \/ PasswordEntered
  <2>1. screen' # "running"
    BY <1>3 DEF EntryKey, NameEntered, PasswordEntered, LoggedIn, Again
  <2> QED BY <2>1 DEF SesInv
<1>4. CASE UNCHANGED <<screen, shell>>
  <2>1. /\ screen' = screen /\ line' = line /\ todo' = todo /\ ran' = ran /\ garbled' = garbled
    BY <1>4 DEF shell
  <2> QED BY <2>1 DEF SesInv, OnTheWay, IsPlain
<1>5. UNCHANGED sesVars => UNCHANGED <<screen, shell>>
  BY DEF sesVars
<1>. QED  BY <1>1, <1>2, <1>3, <1>4, <1>5 DEF SesNext

\* A line without !! is run command by command from left to right, to its end,
\* for all lines and whatever the buffers of the friendly names hold, on a stack
\* of any depth: SegmentsInOrder (shell.c: dispatch; coreutils_port.c:
\* strix_admin).
THEOREM SegmentsAlwaysInOrder == SesSpec => []SegmentsInOrder
<1>1. SesInv => SegmentsInOrder
  <2> SUFFICES ASSUME SesInv, screen = "running", IsPlain, ~garbled
               PROVE  IsPrefix(ran, Commands(line)) /\ (todo = <<>> => ran = Commands(line))
    BY DEF SegmentsInOrder
  <2>1. line \in Lines /\ Underway(line, todo, ran)
    BY DEF SesInv, OnTheWay
  <2> QED BY <2>1, InOrder
<1>. QED  BY <1>1, SesBegins, SesStep, PTL DEF SesSpec


-----------------------------------------------------------------------------
(***************************************************************************)
(* The session runs the editor and touches nothing of it otherwise         *)
(***************************************************************************)
Calls == [text : Seq(Segments), depth : Nat]

\* What is dispatched are lines of words.
Dispatched == screen = "running" => line \in Seq(Segments) /\ todo \in Seq(Calls)

LEMMA CallKnown ==
    ASSUME NEW l \in Seq(Segments), NEW d \in Nat
    PROVE  <<At(l, d)>> \in Seq(Calls) /\ Call(l, d) \in Seq(Calls)
<1>1. PICK c : c = At(l, d)
  OBVIOUS
<1>2. c \in Calls
  BY <1>1 DEF At, Calls
<1>3. <<c>> \in Seq(Calls) /\ <<>> \in Seq(Calls)
  BY <1>2, EmptySeq
<1> QED BY <1>1, <1>3 DEF Call

LEMMA TopKnown ==
    ASSUME Dispatched, OnTop
    PROVE  /\ Top \in Seq(Segments) /\ Deeper \in Nat /\ Tail(todo) \in Seq(Calls)
           /\ line \in Seq(Segments)
           /\ Len(Top) = 1 /\ ~IsBlank(Top) => Words \in Segments /\ Words # <<>>
<1>1. todo \in Seq(Calls) /\ todo # <<>> /\ line \in Seq(Segments)
  BY DEF Dispatched, OnTop
<1>2. Head(todo) \in Calls /\ Tail(todo) \in Seq(Calls)
  BY <1>1, HeadTailProperties
<1>3. Top \in Seq(Segments) /\ Deeper \in Nat
  BY <1>2 DEF Calls, Top, Deeper
<1>4. ASSUME Len(Top) = 1, ~IsBlank(Top) PROVE Words \in Segments /\ Words # <<>>
  <2>1. PICK x : x = Top
    OBVIOUS
  <2>2. x \in Seq(Segments) /\ Len(x) = 1 /\ ~IsBlank(x)
    BY <1>3, <1>4, <2>1
  <2>3. x[1] \in Segments
    <3>1. 1 \in 1 .. Len(x)
      BY <2>2
    <3> QED BY <2>2, <3>1, ElementOfSeq
  <2>4. ASSUME x[1] = <<>> PROVE FALSE
    <3>1. << <<>> >> \in Seq(Segments) /\ Len(<< <<>> >>) = 1 /\ << <<>> >>[1] = <<>>
      BY <2>3, <2>4
    <3>2. \A i \in 1 .. Len(x) : x[i] = << <<>> >>[i]
      BY <2>2, <2>4, <3>1
    <3>3. x = << <<>> >>
      BY <2>2, <3>1, <3>2, SeqEqual
    <3> QED BY <2>2, <3>3 DEF IsBlank
  <2> QED BY <2>1, <2>3, <2>4 DEF Words
<1> QED BY <1>1, <1>2, <1>3, <1>4

\* A buffer holds words, with garbage behind them or not.
LEMMA GluedKnown ==
    ASSUME NEW w \in Segments, w # <<>>, NEW tail \in Tails \cup {<<>>}
    PROVE  Glued(w, tail) \in Seq(Segments)
<1>1. CASE tail = <<>>
  <2>1. <<w>> \in Seq(Segments)
    OBVIOUS
  <2> QED BY <1>1, <2>1 DEF Glued
<1>2. CASE tail # <<>>
  <2>1. tail \in Seq(Segments)
    <3>1. tail \in Seq(Seq(STRING))
      BY <1>2, LinesAssumption
    <3>2. Seq(STRING) \subseteq Segments
      <4>1. ASSUME NEW s \in Seq(STRING) PROVE s \in Seq(AnyWord)
        <5>1. STRING \subseteq AnyWord
          BY DEF AnyWord
        <5> QED BY <5>1, SeqMonotonic
      <4> QED BY <4>1 DEF Segments
    <3> QED BY <3>1, <3>2, SeqMonotonic
  <2>2. Tail(tail) \in Seq(Segments) /\ tail[1] \in Segments
    <3>1. Len(tail) \in Nat \ {0}
      BY <1>2, <2>1, EmptySeq
    <3>2. 1 \in 1 .. Len(tail)
      BY <3>1
    <3> QED BY <1>2, <2>1, <3>2, HeadTailProperties, ElementOfSeq
  <2>3. Front(w) \in Seq(AnyWord)
    <3>1. Len(w) \in Nat
      BY LenProperties DEF Segments
    <3>2. \A i \in 1 .. Len(w) - 1 : w[i] \in AnyWord
      <4> TAKE i \in 1 .. Len(w) - 1
      <4>1. i \in 1 .. Len(w)
        BY <3>1
      <4> QED BY <4>1, ElementOfSeq DEF Segments
    <3>3. 1 \in Int /\ Len(w) - 1 \in Int
      BY <3>1
    <3>4. SubSeq(w, 1, Len(w) - 1) \in Seq(AnyWord)
      BY <3>2, <3>3, SubSeqProperties
    <3> QED BY <3>4 DEF Front
  <2>4. <<"?">> \in Seq(AnyWord)
    <3>1. PICK q : q = "?"
      OBVIOUS
    <3>2. q \in AnyWord
      BY <3>1 DEF AnyWord
    <3>3. <<q>> \in Seq(AnyWord)
      BY <3>2
    <3> QED BY <3>1, <3>3
  <2>5. PICK first : first = Front(w) \o <<"?">> \o tail[1]
    OBVIOUS
  <2>6. first \in Segments
    <3>1. Front(w) \o <<"?">> \in Seq(AnyWord)
      BY <2>3, <2>4, ConcatProperties
    <3>2. tail[1] \in Seq(AnyWord)
      BY <2>2 DEF Segments
    <3> QED BY <2>5, <3>1, <3>2, ConcatProperties DEF Segments
  <2>7. <<first>> \in Seq(Segments)
    BY <2>6
  <2>8. <<first>> \o Tail(tail) \in Seq(Segments)
    BY <2>2, <2>7, ConcatProperties
  <2> QED BY <1>2, <2>5, <2>8 DEF Glued
<1> QED BY <1>1, <1>2

LEMMA GoesKnown ==
    ASSUME Dispatched, OnTop, NEW next \in Seq(Calls), NEW did, Goes(next, did)
    PROVE  todo' \in Seq(Calls)
<1>1. Tail(todo) \in Seq(Calls)
  BY TopKnown
<1> QED BY <1>1, ConcatProperties DEF Goes

LEMMA DispatchKnown ==
    ASSUME Dispatched, Dispatch
    PROVE  Dispatched'
<1>1. CASE screen' # "running"
  BY <1>1 DEF Dispatched
<1>2. CASE screen' = "running" /\ ~Finish
  <2>1. Blank \/ Split \/ BangBang \/ FriendlyName \/ Admin \/ Command \/ RunEditor
    <3>1. ~Overflow
      BY <1>2 DEF Overflow
    <3> QED BY <1>2, <3>1 DEF Dispatch
  <2>2. OnTop /\ line' = line
    BY <2>1 DEF Blank, Split, BangBang, FriendlyName, Admin, Command, RunEditor, IsCommand, Fits
  <2>3. PICK d : d = Deeper
    OBVIOUS
  <2>4. /\ Top \in Seq(Segments) /\ d \in Nat /\ line \in Seq(Segments)
        /\ Len(Top) = 1 /\ ~IsBlank(Top) => Words \in Segments /\ Words # <<>>
    BY <2>2, <2>3, TopKnown
  <2>5. IsCommand => Words \in Segments /\ Words # <<>>
    BY <2>4 DEF IsCommand
  <2>6. todo' \in Seq(Calls)
    <3>1. CASE Blank \/ Command \/ RunEditor
      <4>1. PICK did : Goes(<<>>, did)
        BY <3>1 DEF Blank, Command, RunEditor
      <4>2. <<>> \in Seq(Calls)
        BY EmptySeq
      <4> QED BY <2>2, <4>1, <4>2, GoesKnown
    <3>2. CASE Split
      <4>1. Goes(Pending(Top, d), <<>>) /\ Len(Top) > 1
        BY <2>3, <3>2 DEF Split
      <4>2. PICK x : x = Top
        OBVIOUS
      <4>3. x \in Seq(Segments) /\ x # <<>>
        <5>1. x \in Seq(Segments) /\ Len(x) > 1
          BY <2>4, <4>1, <4>2
        <5>2. Len(<<>>) = 0
          BY EmptySeq
        <5> QED BY <5>1, <5>2
      <4>4. Head(x) \in Segments /\ Tail(x) \in Seq(Segments)
        BY <4>3, HeadTailProperties
      <4>5. <<Head(x)>> \in Seq(Segments)
        <5>1. PICK h : h = Head(x)
          OBVIOUS
        <5> QED BY <4>4, <5>1
      <4>6. Call(<<Head(x)>>, d) \in Seq(Calls) /\ Call(Tail(x), d) \in Seq(Calls)
        BY <2>4, <4>4, <4>5, CallKnown
      <4>7. Pending(x, d) \in Seq(Calls)
        BY <4>6, ConcatProperties DEF Pending, RightPart
      <4> QED BY <2>2, <4>1, <4>2, <4>7, GoesKnown
    <3>3. CASE BangBang
      <4>1. <<At(line, d)>> \in Seq(Calls)
        BY <2>4, CallKnown
      <4>2. Goes(<<At(line, d)>>, <<>>)
        BY <2>3, <3>3 DEF BangBang
      <4> QED BY <2>2, <4>1, <4>2, GoesKnown
    <3>4. CASE FriendlyName
      <4>1. PICK w : w = Words
        OBVIOUS
      <4>2. w \in Segments /\ w # <<>> /\ IsFriendly(w)
        BY <2>5, <3>4, <4>1 DEF FriendlyName
      <4>3. PICK v : v = Renamed(w)
        OBVIOUS
      <4>4. v \in Segments /\ v # <<>>
        <5>1. v \in Segments /\ Len(v) = Len(w)
          BY <4>2, <4>3, RenamedKnown
        <5>2. Len(w) \in Nat \ {0}
          BY <4>2, EmptySeq DEF Segments
        <5>3. Len(<<>>) = 0
          BY EmptySeq
        <5> QED BY <5>1, <5>2, <5>3
      <4>5. PICK tail \in Tails \cup {<<>>} : Goes(<<At(Glued(v, tail), d)>>, <<>>)
        BY <2>3, <3>4, <4>1, <4>3 DEF FriendlyName
      <4>6. Glued(v, tail) \in Seq(Segments)
        BY <4>4, GluedKnown
      <4>7. <<At(Glued(v, tail), d)>> \in Seq(Calls)
        BY <2>4, <4>6, CallKnown
      <4> QED BY <2>2, <4>5, <4>7, GoesKnown
    <3>5. CASE Admin
      <4>1. PICK w : w = Words
        OBVIOUS
      <4>2. w \in Segments /\ w # <<>> /\ Goes(<<At(<<Tail(w)>>, d)>>, <<>>)
        BY <2>3, <2>5, <3>5, <4>1 DEF Admin
      <4>3. PICK v : v = Tail(w)
        OBVIOUS
      <4>4. v \in Segments
        BY <4>2, <4>3, HeadTailProperties DEF Segments
      <4>5. <<v>> \in Seq(Segments)
        BY <4>4
      <4>6. <<At(<<v>>, d)>> \in Seq(Calls)
        BY <2>4, <4>5, CallKnown
      <4> QED BY <2>2, <4>2, <4>3, <4>6, GoesKnown
    <3> QED BY <2>1, <3>1, <3>2, <3>3, <3>4, <3>5
  <2> QED BY <2>2, <2>4, <2>6 DEF Dispatched
<1>3. Finish => screen' # "running"
  BY DEF Finish
<1> QED BY <1>1, <1>2, <1>3

LEMMA SesKnown == Dispatched /\ [SesNext]_sesVars => Dispatched'
<1>. SUFFICES ASSUME Dispatched, [SesNext]_sesVars PROVE Dispatched'
  OBVIOUS
<1>1. CASE Dispatch
  BY <1>1, DispatchKnown
<1>2. ASSUME NEW l \in Lines, Enter(l) PROVE Dispatched'
  <2>1. l \in Seq(Segments) /\ 1 \in Nat
    BY LinesKnown
  <2>2. line' = l /\ todo' = <<At(l, 1)>>
    BY <1>2 DEF Enter
  <2>3. <<At(l, 1)>> \in Seq(Calls)
    BY <2>1, CallKnown
  <2> QED BY <2>1, <2>2, <2>3 DEF Dispatched
<1>3. CASE EntryKey \/ NameEntered \/ PasswordEntered
  <2>1. screen' # "running"
    BY <1>3 DEF EntryKey, NameEntered, PasswordEntered, LoggedIn, Again
  <2> QED BY <2>1 DEF Dispatched
<1>4. CASE UNCHANGED <<screen, shell>>
  <2>1. screen' = screen /\ line' = line /\ todo' = todo
    BY <1>4 DEF shell
  <2> QED BY <2>1 DEF Dispatched
<1>5. UNCHANGED sesVars => UNCHANGED <<screen, shell>>
  BY DEF sesVars
<1>. QED  BY <1>1, <1>2, <1>3, <1>4, <1>5 DEF SesNext

\* Every word names a file, as it does for the code.
WordsAreFiles == AnyWord \subseteq Files

\* A session only opens the editor and gives it keys, so that what holds of the
\* editor holds in the session: EditorInBounds, UnmodifiedIsSaved and TextIsEdited
\* (shell.c: do_vim, the only call of editor_open).
THEOREM SessionRunsTheEditor == WordsAreFiles => (SesSpec => EdSpec)
<1>. SUFFICES ASSUME WordsAreFiles PROVE SesSpec => EdSpec
  OBVIOUS
<1>1. SesInit => EdInit /\ Dispatched
  BY DEF SesInit, Dispatched
<1>2. ASSUME Dispatched, [SesNext]_sesVars PROVE [EdNext]_edVars
  <2>1. CASE RunEditor
    <3>1. IsCommand /\ OnTop /\ Len(Top) = 1 /\ ~IsBlank(Top)
      BY <2>1 DEF RunEditor, IsCommand, Fits
    <3>2. Words \in Segments
      BY <1>2, <3>1, TopKnown
    <3>3. PICK w : w = Words
      OBVIOUS
    <3>4. PICK f : f = IF Len(w) > 1 THEN w[2] ELSE "new.txt"
      OBVIOUS
    <3>5. f \in Files
      <4>1. f \in AnyWord
        <5>1. CASE Len(w) > 1
          <6>1. Len(w) \in Nat
            BY <3>2, <3>3, LenProperties DEF Segments
          <6>2. 2 \in 1 .. Len(w)
            BY <5>1, <6>1
          <6> QED BY <3>2, <3>3, <3>4, <5>1, <6>2, ElementOfSeq DEF Segments
        <5>2. CASE ~(Len(w) > 1)
          BY <3>4, <5>2 DEF AnyWord
        <5> QED BY <5>1, <5>2
      <4> QED BY <4>1 DEF WordsAreFiles
    <3>6. UNCHANGED edVars \/ EditorOpen(f)
      BY <2>1, <3>3, <3>4 DEF RunEditor
    <3> QED BY <3>5, <3>6 DEF EdNext
  <2>2. CASE EditorKey
    BY <2>2 DEF EdNext
  <2>3. CASE UNCHANGED edVars
    BY <2>3
  <2>4. UNCHANGED sesVars => UNCHANGED edVars
    BY DEF sesVars
  <2> QED BY <1>2, <2>1, <2>2, <2>3, <2>4 DEF SesNext, Dispatch
<1>. QED  BY <1>1, <1>2, SesKnown, PTL DEF SesSpec, EdSpec


-----------------------------------------------------------------------------
(***************************************************************************)
(* cat at the shell                                                        *)
(***************************************************************************)
\* What has run are commands: lines of one word or more.
RanKnown == screen = "running" => ran \in Seq(Segments \ {<<>>})

LEMMA DispatchRan ==
    ASSUME Dispatched, RanKnown, Dispatch
    PROVE  RanKnown'
<1>1. CASE Overflow \/ Finish
  <2>1. screen' # "running"
    BY <1>1 DEF Overflow, Finish
  <2> QED BY <2>1 DEF RanKnown
<1>2. CASE Blank \/ Split \/ BangBang \/ FriendlyName \/ Admin
  <2>1. PICK next : Goes(next, <<>>)
    BY <1>2 DEF Blank, Split, BangBang, FriendlyName, Admin
  <2>2. screen = "running"
    BY <1>2 DEF Blank, Split, BangBang, FriendlyName, Admin, IsCommand, Fits, OnTop
  <2>3. ran \in Seq(Segments \ {<<>>})
    BY <2>2 DEF RanKnown
  <2>4. ran' = ran
    BY <2>1, <2>3, ConcatEmptySeq DEF Goes
  <2> QED BY <2>3, <2>4 DEF RanKnown
<1>3. CASE Command \/ RunEditor
  <2>1. Goes(<<>>, <<Words>>) /\ IsCommand /\ OnTop /\ Len(Top) = 1 /\ ~IsBlank(Top)
    BY <1>3 DEF Command, RunEditor, IsCommand, Fits
  <2>2. PICK w : w = Words
    OBVIOUS
  <2>3. w \in Segments \ {<<>>}
    BY <2>1, <2>2, TopKnown
  <2>4. <<w>> \in Seq(Segments \ {<<>>})
    BY <2>3, OneToken
  <2>5. ran \in Seq(Segments \ {<<>>})
    BY <2>1 DEF OnTop, RanKnown
  <2>6. ran' = ran \o <<w>>
    BY <2>1, <2>2 DEF Goes
  <2>7. ran' \in Seq(Segments \ {<<>>})
    BY <2>4, <2>5, <2>6, ConcatProperties
  <2> QED BY <2>7 DEF RanKnown
<1> QED BY <1>1, <1>2, <1>3 DEF Dispatch

LEMMA SesRan == Dispatched /\ RanKnown /\ [SesNext]_sesVars => RanKnown'
<1>. SUFFICES ASSUME Dispatched, RanKnown, [SesNext]_sesVars PROVE RanKnown'
  OBVIOUS
<1>1. CASE Dispatch
  BY <1>1, DispatchRan
<1>2. ASSUME NEW l \in Lines, Enter(l) PROVE RanKnown'
  <2>1. ran' = <<>>
    BY <1>2 DEF Enter
  <2> QED BY <2>1, EmptySeq DEF RanKnown
<1>3. CASE EntryKey \/ NameEntered \/ PasswordEntered
  <2>1. screen' # "running"
    BY <1>3 DEF EntryKey, NameEntered, PasswordEntered, LoggedIn, Again
  <2> QED BY <2>1 DEF RanKnown
<1>4. CASE UNCHANGED <<screen, shell>>
  <2>1. screen' = screen /\ ran' = ran
    BY <1>4 DEF shell
  <2> QED BY <2>1 DEF RanKnown
<1>5. UNCHANGED sesVars => UNCHANGED <<screen, shell>>
  BY DEF sesVars
<1>. QED  BY <1>1, <1>2, <1>3, <1>4, <1>5 DEF SesNext

LEMMA CatIsCompared ==
    ASSUME RanKnown, EditorInBounds
    PROVE  CatIsTheOriginalBut
<1> DEFINE N == Len(Last(ran)) - 1
           Compared(a) ==
               /\ StrixCat(a) = OriginalArguments(a) <=> ~Misread(a)
               /\ \A f \in Files : CatFile(StrixCat(a).opts, disk[f]) = OriginalCat(StrixCat(a).opts, disk[f])
                                      <=> ~Differs(StrixCat(a).opts, disk[f])
<1>1. SUFFICES ASSUME screen = "running", ran # <<>> PROVE Compared(CatWords)
  BY DEF CatIsTheOriginalBut, CatRan
<1>2. N \in Nat
  <2>1. ran \in Seq(Segments \ {<<>>}) /\ Len(ran) \in 1 .. Len(ran)
    BY <1>1, EmptySeq, LenProperties DEF RanKnown
  <2>2. PICK w : w = Last(ran)
    OBVIOUS
  <2>3. w \in Segments /\ w # <<>>
    BY <2>1, <2>2, ElementOfSeq DEF Last
  <2>4. Len(w) \in Nat \ {0}
    BY <2>3, EmptySeq DEF Segments
  <2> QED BY <2>2, <2>4
<1>3. PICK n \in Nat : n = N
  BY <1>2
<1>4. PICK W : W = {Name} \cup {Flags[w] : w \in DOMAIN Flags}
  OBVIOUS
<1>5. \A w \in W : CatWord(w)
  BY <1>4, FlagsAssumption DEF CatWord
<1>6. PICK argv : argv = CatWords
  OBVIOUS
<1>7. argv \in [1 .. n -> W]
  <2>1. ASSUME NEW i \in 1 .. n
        PROVE  (LET w == Last(ran)[i + 1] IN IF w \in DOMAIN Flags THEN Flags[w] ELSE Name) \in W
    BY <1>4
  <2> QED BY <1>3, <1>6, <2>1 DEF CatWords
<1>8. argv \in Seq(W) /\ Len(argv) = n
  BY <1>7, SeqOfLength
<1>9. \A i \in 1 .. Len(argv) : CatWord(argv[i])
  BY <1>5, <1>7, <1>8
<1>10. StrixCat(argv) = OriginalArguments(argv) <=> ~Misread(argv)
  BY <1>8, <1>9, ArgumentsAreRead
<1>11. ASSUME NEW f \in Files
       PROVE  CatFile(StrixCat(argv).opts, disk[f]) = OriginalCat(StrixCat(argv).opts, disk[f])
                 <=> ~Differs(StrixCat(argv).opts, disk[f])
  <2>1. disk[f] \in Seq(Chars)
    BY DEF EditorInBounds
  <2>2. PICK t \in Seq(Chars) : t = disk[f]
    BY <2>1
  <2>3. PICK o : o = StrixCat(argv).opts
    OBVIOUS
  <2>4. ~("n" \in o /\ "b" \in o)
    BY <2>3, SettledOptions
  <2>5. CatFile(o, t) = OriginalCat(o, t) <=> ~Differs(o, t)
    BY <2>4, FilesArePrinted
  <2> QED BY <2>2, <2>3, <2>5
<1>12. Compared(argv)
  BY <1>10, <1>11
<1> QED BY <1>6, <1>12

\* At every cat of a session, whatever its words are and whatever has been saved
\* in the files, the port does what the original does but where Misread and
\* Differs say so, for reads of any size: CatIsTheOriginalBut (coreutils_port.c:
\* strix_cat, cat_file; coreutils/cat.c).
THEOREM CatIsTheOriginal == WordsAreFiles => (SesSpec => []CatIsTheOriginalBut)
<1>. SUFFICES ASSUME WordsAreFiles PROVE SesSpec => []CatIsTheOriginalBut
  OBVIOUS
<1>1. SesSpec => EdSpec
  BY SessionRunsTheEditor
<1>2. EdInv /\ RanKnown => CatIsTheOriginalBut
  BY CatIsCompared DEF EdInv
<1>3. SesInit => Dispatched /\ RanKnown
  BY DEF SesInit, Dispatched, RanKnown
<1>. QED  BY <1>1, <1>2, <1>3, SesKnown, SesRan, EdInvariant, PTL DEF SesSpec

=============================================================================
