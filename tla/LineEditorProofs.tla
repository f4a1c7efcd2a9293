-------------------------- MODULE LineEditorProofs --------------------------
(***************************************************************************)
(* Proofs about the shell's prompt, for lines and histories of any size,   *)
(* any names to complete and any lines entered.                            *)
(***************************************************************************)
EXTENDS LineEditor, SequenceTheorems, FiniteSetTheorems, WellFoundedInduction, TLAPS

Strings == Seq(Chars)

EdTypes ==
    /\ line \in Strings /\ pos \in 0 .. Len(line)
    /\ history \in [0 .. HistSize - 1 -> Strings]
    /\ hist_len \in Nat /\ hist_pos \in Nat
    /\ hist_tmp \in Strings /\ hist_has_tmp \in BOOLEAN
    /\ entered \in Seq(Strings)

-----------------------------------------------------------------------------
(***************************************************************************)
(* Least and greatest elements: where a word begins.                       *)
(***************************************************************************)
LEMMA LeastElement ==
    ASSUME NEW S \in SUBSET Nat, S # {}
    PROVE  \E m \in S : \A n \in S : m <= n
<1>1. IsWellFoundedOn(OpToRel(<, Nat), Nat)
  BY NatLessThanWellFounded
<1>2. PICK m \in S : \A n \in S : <<n, m>> \notin OpToRel(<, Nat)
  BY <1>1, WFMin
<1>3. \A n \in S : ~ (n < m)
  BY <1>2 DEF OpToRel
<1> QED BY <1>3

LEMMA GreatestElement ==
    ASSUME NEW b \in Nat, NEW S \in SUBSET (0 .. b), S # {}
    PROVE  Max(S) \in S /\ \A n \in S : Max(S) >= n
<1> DEFINE T == {b - n : n \in S}
<1>1. T \in SUBSET Nat /\ T # {}
  <2>1. \A n \in S : b - n \in Nat
    OBVIOUS
  <2> QED BY <2>1
<1>2. PICK t \in T : \A n \in T : t <= n
  BY <1>1, LeastElement
<1>3. PICK x \in S : t = b - x
  BY <1>2
<1>4. \A n \in S : x >= n
  <2> TAKE n \in S
  <2>1. b - n \in T
    OBVIOUS
  <2>2. n \in 0 .. b /\ x \in 0 .. b /\ b - x <= b - n
    BY <1>2, <1>3, <2>1
  <2> QED BY <2>2
<1> QED BY <1>4 DEF Max

LEMMA SmallestOfTwo ==
    ASSUME NEW a \in Int, NEW b \in Int
    PROVE  Min({a, b}) = IF a <= b THEN a ELSE b
<1> DEFINE m == IF a <= b THEN a ELSE b
<1>1. m \in {a, b} /\ \A y \in {a, b} : m <= y
  OBVIOUS
<1>2. \A x \in {a, b} : (\A y \in {a, b} : x <= y) => x = m
  OBVIOUS
<1> HIDE DEF m
<1>3. Min({a, b}) = m
  BY <1>1, <1>2 DEF Min
<1> QED BY <1>3 DEF m

LEMMA GreatestOfTwo ==
    ASSUME NEW a \in Int, NEW b \in Int
    PROVE  Max({a, b}) = IF a >= b THEN a ELSE b
<1> DEFINE m == IF a >= b THEN a ELSE b
<1>1. m \in {a, b} /\ \A y \in {a, b} : m >= y
  OBVIOUS
<1>2. \A x \in {a, b} : (\A y \in {a, b} : x >= y) => x = m
  OBVIOUS
<1> HIDE DEF m
<1>3. Max({a, b}) = m
  BY <1>1, <1>2 DEF Max
<1> QED BY <1>3 DEF m

LEMMA WordsKnown ==
    ASSUME NEW i \in Nat
    PROVE  WordStart(i) \in 0 .. i /\ WordLeft(i) \in 0 .. i
<1>1. \A k \in Nat : WordStart(k) \in 0 .. k
  <2> TAKE k \in Nat
  <2> DEFINE S == {0} \cup {n \in 1 .. k : line[n] = SPACE}
  <2>1. S \in SUBSET (0 .. k) /\ S # {}
    OBVIOUS
  <2>2. Max(S) \in S
    BY <2>1, GreatestElement
  <2> QED BY <2>1, <2>2 DEF WordStart
<1>2. PICK j : j = Max({0} \cup {k \in 1 .. i : line[k] # SPACE})
  OBVIOUS
<1>3. j \in 0 .. i
  <2> DEFINE S == {0} \cup {k \in 1 .. i : line[k] # SPACE}
  <2>1. S \in SUBSET (0 .. i) /\ S # {}
    OBVIOUS
  <2>2. Max(S) \in S
    BY <2>1, GreatestElement
  <2> QED BY <1>2, <2>1, <2>2
<1>4. WordStart(j) \in 0 .. j
  BY <1>1, <1>3
<1>5. WordLeft(i) = WordStart(j)
  BY <1>2 DEF WordLeft
<1> QED BY <1>1, <1>3, <1>4, <1>5

-----------------------------------------------------------------------------
(***************************************************************************)
(* Pieces of a line                                                        *)
(***************************************************************************)
LEMMA Piece ==
    ASSUME NEW s \in Strings, NEW i \in 0 .. Len(s), NEW j \in i .. Len(s)
    PROVE  /\ SubSeq(s, i + 1, j) \in Strings /\ Len(SubSeq(s, i + 1, j)) = j - i
           /\ \A k \in 1 .. j - i : SubSeq(s, i + 1, j)[k] = s[i + k]
<1>1. Len(s) \in Nat
  BY DEF Strings
<1>2. \A k \in (i + 1) .. j : s[k] \in Chars
  BY <1>1 DEF Strings
<1>3. i + 1 \in Int /\ j \in Int
  BY <1>1
<1>4. /\ SubSeq(s, i + 1, j) \in Seq(Chars)
      /\ Len(SubSeq(s, i + 1, j)) = IF i + 1 <= j THEN j - (i + 1) + 1 ELSE 0
      /\ \A k \in 1 .. j - (i + 1) + 1 : SubSeq(s, i + 1, j)[k] = s[(i + 1) + k - 1]
  BY <1>2, <1>3, SubSeqProperties
<1>5. \A k \in 1 .. j - i : (i + 1) + k - 1 = i + k /\ k \in 1 .. j - (i + 1) + 1
  BY <1>1
<1>6. Len(SubSeq(s, i + 1, j)) = j - i
  BY <1>1, <1>4
<1> QED BY <1>4, <1>5, <1>6 DEF Strings

LEMMA Joined ==
    ASSUME NEW s \in Strings, NEW t \in Strings
    PROVE  /\ s \o t \in Strings /\ Len(s \o t) = Len(s) + Len(t)
           /\ \A k \in 1 .. Len(s) : (s \o t)[k] = s[k]
           /\ \A k \in 1 .. Len(t) : (s \o t)[Len(s) + k] = t[k]
BY DEF Strings

LEMMA PrefixByElements ==
    ASSUME NEW s \in Strings, NEW t \in Strings, Len(s) <= Len(t),
           \A k \in 1 .. Len(s) : s[k] = t[k]
    PROVE  IsPrefix(s, t)
<1>1. Len(s) \in Nat /\ Len(t) \in Nat
  BY DEF Strings
<1>2. /\ 0 \in 0 .. Len(s) /\ Len(s) \in 0 .. Len(s)
      /\ 0 \in 0 .. Len(t) /\ Len(s) \in 0 .. Len(t)
  BY <1>1
<1>3. /\ SubSeq(s, 1, Len(s)) \in Strings /\ Len(SubSeq(s, 1, Len(s))) = Len(s)
      /\ \A k \in 1 .. Len(s) : SubSeq(s, 1, Len(s))[k] = s[k]
  BY <1>1, <1>2, Piece
<1>4. /\ SubSeq(t, 1, Len(s)) \in Strings /\ Len(SubSeq(t, 1, Len(s))) = Len(s)
      /\ \A k \in 1 .. Len(s) : SubSeq(t, 1, Len(s))[k] = t[k]
  BY <1>1, <1>2, Piece
<1>5. SubSeq(s, 1, Len(s)) = SubSeq(t, 1, Len(s))
  BY <1>3, <1>4, SeqEqual DEF Strings
<1> QED BY <1>5 DEF IsPrefix

LEMMA SuffixByElements ==
    ASSUME NEW s \in Strings, NEW t \in Strings, Len(s) <= Len(t),
           \A k \in 1 .. Len(s) : s[k] = t[Len(t) - Len(s) + k]
    PROVE  IsSuffix(s, t)
<1>1. Len(s) \in Nat /\ Len(t) \in Nat
  BY DEF Strings
<1>2. \A u \in Strings : /\ Reverse(u) \in Strings /\ Len(Reverse(u)) = Len(u)
                         /\ \A k \in 1 .. Len(u) : Reverse(u)[k] = u[Len(u) - k + 1]
  <2> TAKE u \in Strings
  <2>1. Len(u) \in Nat /\ \A k \in 1 .. Len(u) : u[(Len(u) - k) + 1] \in Chars
    BY DEF Strings
  <2> QED BY <2>1 DEF Reverse, Strings
<1>3. \A k \in 1 .. Len(Reverse(s)) : Reverse(s)[k] = Reverse(t)[k]
  <2> TAKE k \in 1 .. Len(Reverse(s))
  <2>1. k \in 1 .. Len(s) /\ k \in 1 .. Len(t) /\ k \in Nat
    BY <1>1, <1>2
  <2>2. PICK i : i = Len(s) - k + 1
    OBVIOUS
  <2>3. i \in 1 .. Len(s) /\ Len(t) - Len(s) + i = Len(t) - k + 1
    BY <1>1, <2>1, <2>2
  <2>4. s[i] = t[Len(t) - k + 1]
    BY <2>3
  <2> QED BY <1>2, <2>1, <2>2, <2>4
<1>4. Len(Reverse(s)) <= Len(Reverse(t))
  BY <1>2
<1> QED BY <1>2, <1>3, <1>4, PrefixByElements DEF IsSuffix
-----------------------------------------------------------------------------
(***************************************************************************)
(* What a key that edits does to the line.                                 *)
(***************************************************************************)
\* Next to the cursor, on one side of it, and nowhere else.
AtTheCursor ==
    \/ IsSuffix(After, line') /\ pos' = Len(line') - Len(After)
       /\ (IsPrefix(Before, line') \/ IsPrefix(SubSeq(line', 1, pos'), Before))
    \/ pos' = pos /\ IsPrefix(Before, line') /\ IsSuffix(SubSeq(line', pos + 1, Len(line')), After)

LineTypes == line \in Strings /\ pos \in 0 .. Len(line)

LEMMA SidesKnown ==
    ASSUME LineTypes
    PROVE  /\ Len(line) \in Nat /\ pos \in Nat
           /\ Before \in Strings /\ Len(Before) = pos
           /\ After \in Strings /\ Len(After) = Len(line) - pos
           /\ \A k \in 1 .. pos : Before[k] = line[k]
           /\ \A k \in 1 .. Len(line) - pos : After[k] = line[pos + k]
<1>1. line \in Strings /\ pos \in 0 .. Len(line)
  BY DEF LineTypes
<1>2. Len(line) \in Nat
  BY <1>1 DEF Strings
<1>3. 0 \in 0 .. Len(line) /\ pos \in 0 .. Len(line) /\ Len(line) \in pos .. Len(line) /\ pos \in Nat
  BY <1>1, <1>2
<1>4. /\ SubSeq(line, 1, pos) \in Strings /\ Len(SubSeq(line, 1, pos)) = pos
      /\ \A k \in 1 .. pos : SubSeq(line, 1, pos)[k] = line[k]
  <2>1. /\ SubSeq(line, 0 + 1, pos) \in Strings /\ Len(SubSeq(line, 0 + 1, pos)) = pos - 0
        /\ \A k \in 1 .. pos - 0 : SubSeq(line, 0 + 1, pos)[k] = line[0 + k]
    BY <1>1, <1>3, Piece
  <2> QED BY <1>3, <2>1
<1>5. /\ SubSeq(line, pos + 1, Len(line)) \in Strings
      /\ Len(SubSeq(line, pos + 1, Len(line))) = Len(line) - pos
      /\ \A k \in 1 .. Len(line) - pos : SubSeq(line, pos + 1, Len(line))[k] = line[pos + k]
  BY <1>1, <1>3, Piece
<1> QED BY <1>2, <1>3, <1>4, <1>5 DEF Before, After

LEMMA InsertKnown ==
    ASSUME LineTypes, NEW s \in Strings, Insert(s)
    PROVE  LineTypes' /\ Len(line') = Len(line) + Len(s) /\ AtTheCursor
<1>1. /\ Len(line) \in Nat /\ pos \in 0 .. Len(line) /\ pos \in Nat
      /\ Before \in Strings /\ Len(Before) = pos
      /\ After \in Strings /\ Len(After) = Len(line) - pos /\ Len(s) \in Nat
  BY SidesKnown DEF LineTypes, Strings
<1>2. line' = (Before \o s) \o After /\ pos' = pos + Len(s)
  BY DEF Insert
<1>3. PICK b : b = Before \o s
  OBVIOUS
<1>4. /\ b \in Strings /\ Len(b) = pos + Len(s)
      /\ \A k \in 1 .. pos : b[k] = Before[k]
  BY <1>1, <1>3, Joined
<1>5. /\ line' \in Strings /\ Len(line') = Len(b) + Len(After)
      /\ \A k \in 1 .. Len(b) : line'[k] = b[k]
      /\ \A k \in 1 .. Len(After) : line'[Len(b) + k] = After[k]
  <2>1. line' = b \o After /\ b \in Strings /\ After \in Strings
    BY <1>1, <1>2, <1>3, <1>4
  <2>2. PICK a : a = After
    OBVIOUS
  <2>3. line' = b \o a /\ a \in Strings
    BY <2>1, <2>2
  <2>4. /\ line' \in Strings /\ Len(line') = Len(b) + Len(a)
        /\ \A k \in 1 .. Len(b) : line'[k] = b[k]
        /\ \A k \in 1 .. Len(a) : line'[Len(b) + k] = a[k]
    BY <2>1, <2>3, Joined
  <2> QED BY <2>2, <2>4
<1>6. Len(line') = Len(line) + Len(s) /\ pos' = Len(line') - Len(After) /\ pos' \in 0 .. Len(line')
  BY <1>1, <1>2, <1>4, <1>5
<1>7. IsSuffix(After, line')
  <2>1. Len(line') - Len(After) = Len(b) /\ Len(After) <= Len(line')
    BY <1>1, <1>4, <1>5
  <2> QED BY <1>1, <1>5, <2>1, SuffixByElements
<1>8. IsPrefix(Before, line')
  <2>1. Len(Before) <= Len(line')
    BY <1>1, <1>6
  <2>2. \A k \in 1 .. Len(Before) : Before[k] = line'[k]
    <3> TAKE k \in 1 .. Len(Before)
    <3>1. k \in 1 .. pos /\ k \in 1 .. Len(b)
      BY <1>1, <1>4
    <3> QED BY <1>4, <1>5, <3>1
  <2> QED BY <1>1, <1>5, <2>1, <2>2, PrefixByElements
<1> QED BY <1>5, <1>6, <1>7, <1>8 DEF LineTypes, AtTheCursor

LEMMA CutKnown ==
    ASSUME LineTypes, NEW i \in 0 .. Len(line), NEW j \in i .. Len(line), i = pos \/ j = pos, Cut(i, j)
    PROVE  LineTypes' /\ Len(line') = Len(line) - (j - i) /\ AtTheCursor
<1>1. /\ Len(line) \in Nat /\ pos \in 0 .. Len(line) /\ pos \in Nat /\ line \in Strings
      /\ Before \in Strings /\ Len(Before) = pos
      /\ After \in Strings /\ Len(After) = Len(line) - pos
      /\ \A k \in 1 .. pos : Before[k] = line[k]
      /\ \A k \in 1 .. Len(line) - pos : After[k] = line[pos + k]
  BY SidesKnown DEF LineTypes
<1>2. PICK a, b : a = SubSeq(line, 1, i) /\ b = SubSeq(line, j + 1, Len(line))
  OBVIOUS
<1>3. i \in Nat /\ j \in Nat /\ i <= j /\ j <= Len(line)
  BY <1>1
<1>4. a \in Strings /\ Len(a) = i /\ \A k \in 1 .. i : a[k] = line[k]
  <2>1. 0 \in 0 .. Len(line) /\ i \in 0 .. Len(line)
    BY <1>1
  <2>2. /\ SubSeq(line, 0 + 1, i) \in Strings /\ Len(SubSeq(line, 0 + 1, i)) = i - 0
        /\ \A k \in 1 .. i - 0 : SubSeq(line, 0 + 1, i)[k] = line[0 + k]
    BY <1>1, <2>1, Piece
  <2> QED BY <1>2, <1>3, <2>2
<1>5. b \in Strings /\ Len(b) = Len(line) - j /\ \A k \in 1 .. Len(line) - j : b[k] = line[j + k]
  <2>1. j \in 0 .. Len(line) /\ Len(line) \in j .. Len(line)
    BY <1>1, <1>3
  <2> QED BY <1>1, <1>2, <2>1, Piece
<1>6. line' = a \o b /\ pos' = i
  BY <1>2 DEF Cut
<1>7. /\ line' \in Strings /\ Len(line') = Len(a) + Len(b)
      /\ \A k \in 1 .. Len(a) : line'[k] = a[k]
      /\ \A k \in 1 .. Len(b) : line'[Len(a) + k] = b[k]
  BY <1>4, <1>5, <1>6, Joined
<1>8. Len(line') = Len(line) - (j - i) /\ pos' \in 0 .. Len(line') /\ Len(line') \in Nat
  BY <1>1, <1>3, <1>4, <1>5, <1>6, <1>7
<1>9. AtTheCursor
  <2>1. CASE j = pos
    <3>1. pos' = Len(line') - Len(After) /\ Len(After) = Len(b) /\ Len(After) <= Len(line')
      BY <1>1, <1>3, <1>4, <1>5, <1>6, <1>7, <2>1
    <3>2. IsSuffix(After, line')
      <4>1. Len(line') - Len(After) = Len(a)
        BY <1>4, <1>6, <3>1
      <4>2. \A k \in 1 .. Len(After) : After[k] = line'[Len(line') - Len(After) + k]
        BY <1>1, <1>5, <1>7, <2>1, <3>1, <4>1
      <4> QED BY <1>1, <1>7, <3>1, <4>2, SuffixByElements
    <3>3. IsPrefix(SubSeq(line', 1, pos'), Before)
      <4>1. 0 \in 0 .. Len(line') /\ i \in 0 .. Len(line')
        BY <1>6, <1>8
      <4>2. /\ SubSeq(line', 0 + 1, i) \in Strings /\ Len(SubSeq(line', 0 + 1, i)) = i - 0
            /\ \A k \in 1 .. i - 0 : SubSeq(line', 0 + 1, i)[k] = line'[0 + k]
        BY <1>7, <4>1, Piece
      <4>3. PICK p : p = SubSeq(line', 1, pos')
        OBVIOUS
      <4>4. p \in Strings /\ Len(p) = i /\ \A k \in 1 .. i : p[k] = line'[k]
        <5>1. i - 0 = i /\ \A k \in 1 .. i : 0 + k = k
          BY <1>3
        <5>2. 0 + 1 = 1
          OBVIOUS
        <5>3. p = SubSeq(line', 0 + 1, i)
          BY <1>6, <4>3, <5>2
        <5> QED BY <4>2, <5>1, <5>3
      <4>5. \A k \in 1 .. Len(p) : p[k] = Before[k]
        <5> TAKE k \in 1 .. Len(p)
        <5>1. k \in 1 .. i /\ k \in 1 .. pos
          BY <1>3, <2>1, <4>4
        <5> QED BY <1>1, <1>4, <1>7, <4>4, <5>1
      <4>6. Len(p) <= Len(Before)
        BY <1>1, <1>3, <2>1, <4>4
      <4> QED BY <1>1, <4>3, <4>4, <4>5, <4>6, PrefixByElements
    <3> QED BY <3>1, <3>2, <3>3 DEF AtTheCursor
  <2>2. CASE i = pos
    <3>1. IsPrefix(Before, line')
      <4>1. Len(Before) <= Len(line')
        BY <1>1, <1>6, <1>8, <2>2
      <4>2. \A k \in 1 .. Len(Before) : Before[k] = line'[k]
        BY <1>1, <1>4, <1>7, <2>2
      <4> QED BY <1>1, <1>7, <4>1, <4>2, PrefixByElements
    <3>2. IsSuffix(SubSeq(line', pos + 1, Len(line')), After)
      <4>1. i \in 0 .. Len(line') /\ Len(line') \in i .. Len(line')
        BY <1>6, <1>8
      <4>2. PICK p : p = SubSeq(line', i + 1, Len(line'))
        OBVIOUS
      <4>3. /\ p \in Strings /\ Len(p) = Len(line') - i
            /\ \A k \in 1 .. Len(line') - i : p[k] = line'[i + k]
        BY <1>7, <4>1, <4>2, Piece
      <4>4. Len(p) = Len(b) /\ Len(p) <= Len(After) /\ Len(p) \in Nat
        BY <1>1, <1>3, <1>4, <1>5, <1>7, <2>2, <4>3
      <4>5. \A k \in 1 .. Len(p) : p[k] = After[Len(After) - Len(p) + k]
        <5> TAKE k \in 1 .. Len(p)
        <5>1. k \in 1 .. Len(b) /\ k \in 1 .. Len(line') - i /\ k \in Nat
          BY <4>3, <4>4
        <5>2. p[k] = line[j + k]
          BY <1>4, <1>5, <1>7, <4>3, <5>1
        <5>3. PICK n : n = Len(After) - Len(p) + k
          OBVIOUS
        <5>4. n \in 1 .. Len(line) - pos /\ pos + n = j + k
          BY <1>1, <1>3, <1>5, <2>2, <4>4, <5>1, <5>3
        <5> QED BY <1>1, <5>2, <5>3, <5>4
      <4>6. IsSuffix(p, After)
        BY <1>1, <4>3, <4>4, <4>5, SuffixByElements
      <4> QED BY <2>2, <4>2, <4>6
    <3> QED BY <1>6, <2>2, <3>1, <3>2 DEF AtTheCursor
  <2> QED BY <2>1, <2>2
<1> QED BY <1>7, <1>8, <1>9 DEF LineTypes

-----------------------------------------------------------------------------
(***************************************************************************)
(* Tab                                                                     *)
(***************************************************************************)
LEMMA MatchesKnown == Matches \subseteq Strings
BY NamesAssumption DEF Matches, Strings

\* What names share is a string: one of the prefixes they have in common is the
\* longest, for none is longer than one of the names.
LEMMA CommonKnown ==
    ASSUME NEW S \in SUBSET Strings, S # {}
    PROVE  LongestCommonPrefix(S) \in Strings /\ \A t \in S : IsPrefix(LongestCommonPrefix(S), t)
<1>1. PICK m \in S : TRUE
  OBVIOUS
<1>2. m \in Strings /\ Len(m) \in Nat
  BY DEF Strings
<1>3. PICK C : C = CommonPrefixes(S)
  OBVIOUS
<1>4. C = {p \in UNION {Prefixes(s) : s \in S} : \A t \in S : IsPrefix(p, t)}
  BY <1>3 DEF CommonPrefixes
<1>5. \A p \in C : p \in Strings /\ Len(p) \in 0 .. Len(m)
  <2> TAKE p \in C
  <2>1. PICK s \in S : p \in Prefixes(s)
    BY <1>4
  <2>2. PICK l \in 0 .. Len(s) : p = SubSeq(s, 1, l)
    BY <2>1 DEF Prefixes
  <2>3. 0 \in 0 .. Len(s) /\ s \in Strings
    BY <2>2 DEF Strings
  <2>4. SubSeq(s, 0 + 1, l) \in Strings
    BY <2>3, Piece
  <2>5. 0 + 1 = 1
    OBVIOUS
  <2>6. p \in Strings
    BY <2>2, <2>4, <2>5
  <2>7. Len(p) <= Len(m)
    BY <1>1, <1>4 DEF IsPrefix
  <2>8. Len(p) \in Nat
    BY <2>6 DEF Strings
  <2> QED BY <1>2, <2>6, <2>7, <2>8
<1>6. <<>> \in C
  <2>1. <<>> \in Prefixes(m)
    <3>1. 0 \in 0 .. Len(m)
      BY <1>2
    <3>2. SubSeq(m, 1, 0) = <<>>
      BY <1>2, SubSeqEmpty
    <3> QED BY <3>1, <3>2 DEF Prefixes
  <2>2. \A t \in S : IsPrefix(<<>>, t)
    <3> TAKE t \in S
    <3>1. t \in Strings /\ <<>> \in Strings /\ Len(<<>>) = 0 /\ Len(t) \in Nat
      BY DEF Strings
    <3> QED BY <3>1, PrefixByElements
  <2> QED BY <1>1, <1>4, <2>1, <2>2
<1> DEFINE L == {Len(p) : p \in C}
<1>7. L \in SUBSET (0 .. Len(m)) /\ L # {}
  BY <1>5, <1>6
<1>8. Max(L) \in L /\ \A n \in L : Max(L) >= n
  BY <1>2, <1>7, GreatestElement
<1>9. PICK p \in C : Len(p) = Max(L)
  BY <1>8
<1>10. \A o \in C : Len(o) <= Len(p)
  <2> TAKE o \in C
  <2>1. Len(o) \in L
    OBVIOUS
  <2>2. Len(o) \in Nat /\ Len(p) \in Nat
    BY <1>2, <1>5
  <2> QED BY <1>8, <1>9, <2>1, <2>2
<1>11. LongestCommonPrefix(S) = CHOOSE q \in C : \A o \in C : Len(o) <= Len(q)
  BY <1>3 DEF LongestCommonPrefix
<1>12. LongestCommonPrefix(S) \in C
  BY <1>9, <1>10, <1>11
<1> QED BY <1>4, <1>5, <1>12

LEMMA PrefixKnown ==
    ASSUME LineTypes
    PROVE  Prefix \in Strings /\ Len(Prefix) \in Nat
<1>1. /\ line \in Strings /\ Len(line) \in Nat /\ pos \in Nat /\ pos <= Len(line)
      /\ PrefixMax \in Nat
  BY SidesKnown, LineEditorAssumption DEF LineTypes
<1>2. PICK start : start = WordStart(pos)
  OBVIOUS
<1>3. start \in 0 .. pos
  BY <1>1, <1>2, WordsKnown
<1>4. PICK n : n = Min({pos - start, PrefixMax})
  OBVIOUS
<1>5. n \in Nat /\ start + n <= pos
  <2>1. pos - start \in Int /\ PrefixMax \in Int
    BY <1>1, <1>3
  <2>2. n = IF pos - start <= PrefixMax THEN pos - start ELSE PrefixMax
    BY <1>4, <2>1, SmallestOfTwo
  <2> QED BY <1>1, <1>3, <2>2
<1>6. Prefix = SubSeq(line, start + 1, start + n)
  BY <1>2, <1>4 DEF Prefix
<1>7. start \in 0 .. Len(line) /\ start + n \in start .. Len(line)
  BY <1>1, <1>3, <1>5
<1>8. Prefix \in Strings
  BY <1>1, <1>6, <1>7, Piece
<1> QED BY <1>8 DEF Strings

\* What is beyond the prefix is a string, whatever the string.
LEMMA RestKnown ==
    ASSUME LineTypes, NEW m \in Strings
    PROVE  Rest(m) \in Strings /\ Len(Rest(m)) \in Nat
<1>1. Len(Prefix) \in Nat /\ Len(m) \in Nat
  BY PrefixKnown DEF Strings
<1>2. PICK n : n = Len(Prefix)
  OBVIOUS
<1>3. Rest(m) = SubSeq(m, n + 1, Len(m))
  BY <1>2 DEF Rest
<1>4. \A k \in (n + 1) .. Len(m) : m[k] \in Chars
  BY <1>1, <1>2 DEF Strings
<1>5. Rest(m) \in Strings
  <2>1. n + 1 \in Int /\ Len(m) \in Int
    BY <1>1, <1>2
  <2> QED BY <1>3, <1>4, <2>1, SubSeqProperties DEF Strings
<1> QED BY <1>5 DEF Strings

\* Tab puts something in at the cursor, for which there is room.
LEMMA TabKnown ==
    ASSUME LineTypes, Tab
    PROVE  \E s \in Strings : Insert(s) /\ Len(line) + Len(s) < MaxLine
<1>1. Len(line) \in Nat /\ MaxLine \in Nat
  BY SidesKnown, LineEditorAssumption
<1>2. ASSUME NEW m \in Matches, Room(Len(Rest(m)) + 1),
             Insert(IF After # <<>> /\ Head(After) = SPACE THEN Rest(m) ELSE Rest(m) \o <<SPACE>>)
      PROVE  \E s \in Strings : Insert(s) /\ Len(line) + Len(s) < MaxLine
  <2>1. PICK r : r = Rest(m)
    OBVIOUS
  <2>2. r \in Strings /\ Len(r) \in Nat
    BY <2>1, MatchesKnown, RestKnown
  <2>3. <<SPACE>> \in Strings /\ Len(<<SPACE>>) = 1
    BY LineEditorAssumption DEF Strings
  <2>4. r \o <<SPACE>> \in Strings /\ Len(r \o <<SPACE>>) = Len(r) + 1
    BY <2>2, <2>3, Joined
  <2>5. Len(line) + (Len(r) + 1) < MaxLine
    BY <1>2, <2>1 DEF Room
  <2>6. PICK s : s = IF After # <<>> /\ Head(After) = SPACE THEN r ELSE r \o <<SPACE>>
    OBVIOUS
  <2>7. s \in Strings /\ (Len(s) = Len(r) \/ Len(s) = Len(r) + 1)
    BY <2>2, <2>4, <2>6
  <2>8. Insert(s)
    BY <1>2, <2>1, <2>6
  <2>9. Len(line) + Len(s) < MaxLine
    BY <1>1, <2>2, <2>5, <2>7
  <2> QED BY <2>7, <2>8, <2>9
<1>3. ASSUME NEW more, more = Rest(Common(Matches)), NEW n, Cardinality(Matches) > 1,
             n = Min({Len(more), MaxLine - 1 - Len(line)}), n > 0, Insert(SubSeq(more, 1, n))
      PROVE  \E s \in Strings : Insert(s) /\ Len(line) + Len(s) < MaxLine
  <2>1. Matches # {}
    <3>1. Cardinality({}) = 0
      BY FS_EmptySet
    <3> QED BY <1>3, <3>1
  <2>2. Common(Matches) \in Strings
    BY <2>1, CommonKnown, MatchesKnown DEF Common
  <2>3. more \in Strings /\ Len(more) \in Nat
    BY <1>3, <2>2, RestKnown
  <2>4. n = IF Len(more) <= MaxLine - 1 - Len(line) THEN Len(more) ELSE MaxLine - 1 - Len(line)
    <3>1. Len(more) \in Int /\ MaxLine - 1 - Len(line) \in Int
      BY <1>1, <2>3
    <3> QED BY <1>3, <3>1, SmallestOfTwo
  <2>5. n \in 0 .. Len(more) /\ Len(line) + n < MaxLine /\ 0 \in 0 .. Len(more)
    BY <1>1, <1>3, <2>3, <2>4
  <2>6. SubSeq(more, 0 + 1, n) \in Strings /\ Len(SubSeq(more, 0 + 1, n)) = n - 0
    BY <2>3, <2>5, Piece
  <2>7. PICK s : s = SubSeq(more, 1, n)
    OBVIOUS
  <2>8. s \in Strings /\ Len(s) = n
    BY <2>5, <2>6, <2>7
  <2> QED BY <1>3, <2>5, <2>7, <2>8
<1> QED BY <1>2, <1>3 DEF Tab

-----------------------------------------------------------------------------
\* Every key that edits.
LEMMA EditKnown ==
    ASSUME LineTypes, Len(line) < MaxLine, Erase \/ Tab \/ (\E c \in Chars : Type(c))
    PROVE  LineTypes' /\ Len(line') < MaxLine /\ AtTheCursor
<1>1. /\ Len(line) \in Nat /\ pos \in Nat /\ pos <= Len(line) /\ MaxLine \in Nat
  BY SidesKnown, LineEditorAssumption DEF LineTypes
<1>2. ASSUME NEW s \in Strings, Insert(s), Len(line) + Len(s) < MaxLine
      PROVE  LineTypes' /\ Len(line') < MaxLine /\ AtTheCursor
  BY <1>2, InsertKnown
<1>3. ASSUME NEW i \in 0 .. Len(line), NEW j \in i .. Len(line), i = pos \/ j = pos, Cut(i, j)
      PROVE  LineTypes' /\ Len(line') < MaxLine /\ AtTheCursor
  <2>1. LineTypes' /\ Len(line') = Len(line) - (j - i) /\ AtTheCursor
    BY <1>3, CutKnown
  <2> QED BY <1>1, <2>1
<1>4. ASSUME NEW c \in Chars, Type(c)
      PROVE  LineTypes' /\ Len(line') < MaxLine /\ AtTheCursor
  <2>1. <<c>> \in Strings /\ Len(<<c>>) = 1
    BY DEF Strings
  <2> QED BY <1>2, <1>4, <2>1 DEF Type, Room
<1>5. ASSUME Erase PROVE LineTypes' /\ Len(line') < MaxLine /\ AtTheCursor
  <2>1. WordLeft(pos) \in 0 .. pos
    BY <1>1, WordsKnown
  <2>2. \E i \in 0 .. Len(line) : \E j \in i .. Len(line) : (i = pos \/ j = pos) /\ Cut(i, j)
    <3>1. CASE pos < Len(line) /\ Cut(pos, pos + 1)
      <4>1. pos \in 0 .. Len(line) /\ pos + 1 \in pos .. Len(line)
        BY <1>1, <3>1
      <4> QED BY <3>1, <4>1
    <3>2. CASE pos > 0 /\ Cut(pos - 1, pos)
      <4>1. pos - 1 \in 0 .. Len(line) /\ pos \in (pos - 1) .. Len(line)
        BY <1>1, <3>2
      <4> QED BY <3>2, <4>1
    <3>3. CASE pos < Len(line) /\ Cut(pos, Len(line))
      <4>1. pos \in 0 .. Len(line) /\ Len(line) \in pos .. Len(line)
        BY <1>1
      <4> QED BY <3>3, <4>1
    <3>4. CASE pos > 0 /\ Cut(0, pos)
      <4>1. 0 \in 0 .. Len(line) /\ pos \in 0 .. Len(line)
        BY <1>1
      <4> QED BY <3>4, <4>1
    <3>5. CASE pos = 0 /\ Cut(0, Len(line))
      <4>1. 0 \in 0 .. Len(line) /\ Len(line) \in 0 .. Len(line)
        BY <1>1
      <4> QED BY <3>5, <4>1
    <3>6. CASE pos > 0 /\ Cut(WordLeft(pos), pos)
      <4>1. WordLeft(pos) \in 0 .. Len(line) /\ pos \in WordLeft(pos) .. Len(line)
        BY <1>1, <2>1
      <4> QED BY <3>6, <4>1
    <3> QED BY <1>5, <3>1, <3>2, <3>3, <3>4, <3>5, <3>6 DEF Erase
  <2> QED BY <1>3, <2>2
<1>6. ASSUME Tab PROVE LineTypes' /\ Len(line') < MaxLine /\ AtTheCursor
  BY <1>2, <1>6, TabKnown
<1> QED BY <1>4, <1>5, <1>6

-----------------------------------------------------------------------------
(***************************************************************************)
(* The ring of former lines.                                               *)
(***************************************************************************)
LEMMA HistSizeKnown == HistSize \in Nat /\ HistSize > 0 /\ MaxLine \in Nat /\ MaxLine >= 2
BY LineEditorAssumption

LEMMA PlaceKnown ==
    ASSUME NEW i \in Nat
    PROVE  i % HistSize \in 0 .. HistSize - 1
BY HistSizeKnown

\* Two of the last HistSize lines never share a place.
LEMMA PlacesApart ==
    ASSUME NEW i \in Nat, NEW j \in Nat, i < j, j - i < HistSize
    PROVE  i % HistSize # j % HistSize
<1> SUFFICES ASSUME i % HistSize = j % HistSize PROVE FALSE
  OBVIOUS
<1>1. PICK h : h = HistSize
  OBVIOUS
<1>2. h \in Nat /\ h > 0 /\ j - i < h
  BY <1>1, HistSizeKnown
<1>3. PICK p, q, r : p = i \div h /\ q = j \div h /\ r = i % h
  OBVIOUS
<1>4. i = h * p + r /\ j = h * q + r /\ p \in Int /\ q \in Int /\ r \in Int
  BY <1>1, <1>2, <1>3
<1>5. CASE q <= p
  <2>1. PICK d : d = p - q
    OBVIOUS
  <2>2. d \in Nat /\ p = q + d
    BY <1>4, <1>5, <2>1
  <2>3. h * (q + d) = h * q + h * d /\ h * d \in Nat /\ h * q \in Int
    BY <1>2, <1>4, <2>2
  <2> QED BY <1>4, <2>2, <2>3
<1>6. CASE q > p
  <2>1. PICK d : d = q - p - 1
    OBVIOUS
  <2>2. d \in Nat /\ q = p + (d + 1)
    BY <1>4, <1>6, <2>1
  <2>3. h * (p + (d + 1)) = h * p + h * (d + 1) /\ h * (d + 1) = h * d + h
    BY <1>2, <1>4, <2>2
  <2>4. h * d \in Nat /\ h * p \in Int
    BY <1>2, <1>4, <2>2
  <2> QED BY <1>2, <1>4, <2>2, <2>3, <2>4
<1> QED BY <1>4, <1>5, <1>6

LEMMA TrimmedKnown ==
    ASSUME NEW l \in Strings
    PROVE  Trimmed(l) \in Strings /\ Len(Trimmed(l)) <= Len(l)
<1>1. Len(l) \in Nat
  BY DEF Strings
<1>2. PICK ends : ends = {k \in 1 .. Len(l) : l[k] # SPACE}
  OBVIOUS
<1>3. Trimmed(l) = IF ends = {} THEN <<>> ELSE SubSeq(l, Min(ends), Max(ends))
  BY <1>2 DEF Trimmed
<1>4. CASE ends = {}
  <2>1. <<>> \in Strings /\ Len(<<>>) = 0
    BY DEF Strings
  <2> QED BY <1>1, <1>3, <1>4, <2>1
<1>5. CASE ends # {}
  <2>1. ends \in SUBSET Nat /\ ends \in SUBSET (0 .. Len(l))
    BY <1>1, <1>2
  <2>2. PICK b : b = Max(ends)
    OBVIOUS
  <2>3. b \in ends /\ \A n \in ends : b >= n
    BY <1>1, <1>5, <2>1, <2>2, GreatestElement
  <2>4. PICK m \in ends : \A n \in ends : m <= n
    BY <1>5, <2>1, LeastElement
  <2>5. PICK a : a = Min(ends)
    OBVIOUS
  <2>6. a \in ends
    BY <2>4, <2>5 DEF Min
  <2>7. a - 1 \in 0 .. Len(l) /\ b \in (a - 1) .. Len(l) /\ (a - 1) + 1 = a /\ a \in Nat /\ b \in Nat
    BY <1>1, <1>2, <2>3, <2>6
  <2>8. SubSeq(l, (a - 1) + 1, b) \in Strings /\ Len(SubSeq(l, (a - 1) + 1, b)) = b - (a - 1)
    BY <2>7, Piece
  <2>9. Trimmed(l) = SubSeq(l, (a - 1) + 1, b)
    BY <1>3, <1>5, <2>2, <2>5, <2>7
  <2> QED BY <1>1, <2>7, <2>8, <2>9
<1> QED BY <1>4, <1>5

-----------------------------------------------------------------------------
(***************************************************************************)
(* The invariant: everything fits, the ring holds the last lines in their  *)
(* places, and the draft is kept for as long as an older line is shown.    *)
(***************************************************************************)
Fitting ==
    /\ Len(line) < MaxLine /\ Len(hist_tmp) < MaxLine
    /\ \A i \in 0 .. HistSize - 1 : Len(history[i]) < MaxLine
Placed  == hist_len <= MaxHist /\ hist_pos <= hist_len /\ hist_pos >= hist_len - HistSize
Recalls ==
    /\ Len(entered) = hist_len
    /\ \A i \in Nat : i < hist_len /\ i >= hist_len - HistSize =>
         history[i % HistSize] = entered[i + 1]
Drafted == hist_pos < hist_len => hist_has_tmp /\ hist_tmp = draft

EdInv == EdTypes /\ Fitting /\ Placed /\ Recalls /\ Drafted

LEMMA EdStart == EdInit => EdInv
<1> SUFFICES ASSUME EdInit PROVE EdInv
  OBVIOUS
<1>1. /\ line = <<>> /\ pos = 0 /\ history = [i \in 0 .. HistSize - 1 |-> <<>>]
      /\ hist_len = 0 /\ hist_pos = 0 /\ hist_tmp = <<>> /\ hist_has_tmp = FALSE
      /\ entered = <<>> /\ draft = <<>>
  BY DEF EdInit
<1>2. <<>> \in Strings /\ Len(<<>>) = 0 /\ <<>> \in Seq(Strings)
  BY DEF Strings
<1>3. EdTypes
  <2>1. PICK empty : empty = <<>>
    OBVIOUS
  <2>2. history \in [0 .. HistSize - 1 -> Strings]
    <3>1. history = [i \in 0 .. HistSize - 1 |-> empty] /\ empty \in Strings
      BY <1>1, <1>2, <2>1
    <3> QED BY <3>1
  <2>3. line \in Strings /\ hist_tmp \in Strings /\ entered \in Seq(Strings) /\ pos \in 0 .. Len(line)
    BY <1>1, <1>2
  <2> QED BY <1>1, <2>2, <2>3 DEF EdTypes
<1>4. Fitting
  BY <1>1, <1>2, HistSizeKnown DEF Fitting
<1>5. Placed
  BY <1>1, HistSizeKnown, LineEditorAssumption DEF Placed
<1>6. Recalls /\ Drafted
  BY <1>1, <1>2 DEF Recalls, Drafted
<1> QED BY <1>3, <1>4, <1>5, <1>6 DEF EdInv

\* A key that leaves the history and what is recalled of it alone.
LEMMA LineChanges ==
    ASSUME EdInv, LineTypes', Len(line') < MaxLine, UNCHANGED <<ring, recall>>
    PROVE  EdInv'
<1>1. UNCHANGED <<history, hist_len, entered, hist_pos, hist_tmp, hist_has_tmp, draft>>
  BY DEF ring, recall
<1>2. EdTypes'
  BY <1>1 DEF EdInv, EdTypes, LineTypes
<1>3. Fitting'
  BY <1>1 DEF EdInv, Fitting
<1>4. Placed' /\ Recalls' /\ Drafted'
  BY <1>1 DEF EdInv, Placed, Recalls, Drafted
<1> QED BY <1>2, <1>3, <1>4 DEF EdInv

\* An older line is shown, or a newer one, or the end of the history.
LEMMA FormerKnown ==
    ASSUME EdInv, NEW i \in Nat, i < hist_len, i >= hist_len - HistSize
    PROVE  /\ Former(i) \in Strings /\ Len(Former(i)) < MaxLine
           /\ Former(i) = entered[i + 1]
<1>1. i % HistSize \in 0 .. HistSize - 1
  BY PlaceKnown
<1> QED BY <1>1 DEF EdInv, EdTypes, Fitting, Recalls, Former

\* The line is replaced as a whole and the cursor put behind it.
LEMMA ShowKnown ==
    ASSUME NEW l \in Strings, Len(l) < MaxLine, Show(l)
    PROVE  LineTypes' /\ Len(line') < MaxLine
<1>1. Len(l) \in Nat
  BY DEF Strings
<1> QED BY <1>1 DEF Show, LineTypes

LEMMA UpKeeps ==
    ASSUME EdInv, Up
    PROVE  /\ EdInv'
           /\ hist_pos' # hist_pos /\ hist_pos' < hist_len' => line' = entered[hist_pos' + 1]
<1>1. /\ hist_len \in Nat /\ hist_pos \in Nat /\ LineTypes /\ Len(line) < MaxLine
      /\ hist_pos <= hist_len /\ hist_pos >= hist_len - HistSize /\ HistSize \in Nat
  BY HistSizeKnown DEF EdInv, EdTypes, LineTypes, Fitting, Placed
<1>2. /\ IF AtTheEnd THEN hist_tmp' = line /\ hist_has_tmp' = TRUE ELSE UNCHANGED <<hist_tmp, hist_has_tmp>>
      /\ draft' = IF hist_pos = hist_len THEN line ELSE draft
      /\ UNCHANGED <<history, hist_len, entered>>
  BY DEF Up, ring
<1>3. /\ LineTypes' /\ Len(line') < MaxLine
      /\ hist_pos' = hist_pos \/ (hist_pos' = hist_pos - 1 /\ CanGoBack /\ line' = Former(hist_pos - 1))
  <2>1. CASE CanGoBack
    <3>1. hist_pos' = hist_pos - 1 /\ Show(Former(hist_pos - 1))
      BY <2>1 DEF Up
    <3>2. hist_pos - 1 \in Nat /\ hist_pos - 1 < hist_len /\ hist_pos - 1 >= hist_len - HistSize
      BY <1>1, <2>1 DEF CanGoBack
    <3>3. Former(hist_pos - 1) \in Strings /\ Len(Former(hist_pos - 1)) < MaxLine
      BY <3>2, FormerKnown
    <3>4. LineTypes' /\ Len(line') < MaxLine
      BY <3>1, <3>3, ShowKnown
    <3> QED BY <2>1, <3>1, <3>4 DEF Show
  <2>2. CASE ~CanGoBack
    <3>1. UNCHANGED <<hist_pos, line, pos>>
      BY <2>2 DEF Up
    <3> QED BY <1>1, <3>1 DEF LineTypes
  <2> QED BY <2>1, <2>2
<1>4. /\ hist_pos' \in Nat /\ hist_pos' <= hist_len /\ hist_pos' >= hist_len - HistSize
      /\ hist_pos' < hist_pos => line' = entered[hist_pos' + 1]
  <2>1. CASE hist_pos' = hist_pos
    BY <1>1, <2>1
  <2>2. CASE hist_pos' # hist_pos
    <3>1. hist_pos' = hist_pos - 1 /\ CanGoBack /\ line' = Former(hist_pos - 1)
      BY <1>3, <2>2
    <3>2. hist_pos - 1 \in Nat /\ hist_pos - 1 < hist_len /\ hist_pos - 1 >= hist_len - HistSize
      BY <1>1, <3>1 DEF CanGoBack
    <3>3. Former(hist_pos - 1) = entered[(hist_pos - 1) + 1]
      BY <3>2, FormerKnown
    <3> QED BY <1>1, <3>1, <3>2, <3>3
  <2> QED BY <2>1, <2>2
<1>5. hist_tmp' \in Strings /\ Len(hist_tmp') < MaxLine /\ hist_has_tmp' \in BOOLEAN
  BY <1>1, <1>2 DEF EdInv, EdTypes, Fitting, LineTypes
<1>6. EdTypes'
  BY <1>2, <1>3, <1>4, <1>5 DEF EdInv, EdTypes, LineTypes
<1>7. Fitting' /\ Placed' /\ Recalls'
  BY <1>2, <1>3, <1>4, <1>5 DEF EdInv, Fitting, Placed, Recalls
<1>8. Drafted'
  BY <1>1, <1>2 DEF EdInv, Drafted, AtTheEnd
<1>9. hist_pos' # hist_pos => hist_pos' < hist_pos
  BY <1>1, <1>3
<1> QED BY <1>4, <1>6, <1>7, <1>8, <1>9 DEF EdInv

LEMMA DownKeeps ==
    ASSUME EdInv, Down
    PROVE  /\ EdInv'
           /\ hist_pos' # hist_pos /\ hist_pos' < hist_len' => line' = entered[hist_pos' + 1]
           /\ hist_pos' = hist_len => line' = draft
<1>1. /\ hist_len \in Nat /\ hist_pos \in Nat /\ hist_pos >= hist_len - HistSize /\ HistSize \in Nat
      /\ hist_pos < hist_len /\ hist_pos' = hist_pos + 1
      /\ UNCHANGED <<history, hist_len, entered, hist_tmp, hist_has_tmp, draft>>
  BY HistSizeKnown DEF EdInv, EdTypes, Placed, Down, ring
<1>2. hist_has_tmp /\ hist_tmp = draft /\ hist_tmp \in Strings /\ Len(hist_tmp) < MaxLine
  BY <1>1 DEF EdInv, Drafted, EdTypes, Fitting
<1>3. /\ LineTypes' /\ Len(line') < MaxLine
      /\ IF hist_pos' # hist_len THEN line' = entered[hist_pos' + 1] ELSE line' = draft
  <2>1. CASE hist_pos' # hist_len
    <3>1. PICK i : i = hist_pos'
      OBVIOUS
    <3>2. i \in Nat /\ i < hist_len /\ i >= hist_len - HistSize
      BY <1>1, <2>1, <3>1
    <3>3. Show(Former(i))
      BY <2>1, <3>1 DEF Down, Show, Former
    <3>4. /\ Former(i) \in Strings /\ Len(Former(i)) < MaxLine
          /\ Former(i) = entered[i + 1]
      BY <3>2, FormerKnown
    <3>5. LineTypes' /\ Len(line') < MaxLine
      BY <3>3, <3>4, ShowKnown
    <3> QED BY <2>1, <3>1, <3>3, <3>4, <3>5 DEF Show
  <2>2. CASE hist_pos' = hist_len
    <3>1. Show(hist_tmp)
      BY <1>2, <2>2 DEF Down
    <3>2. LineTypes' /\ Len(line') < MaxLine
      BY <1>2, <3>1, ShowKnown
    <3> QED BY <1>2, <2>2, <3>1, <3>2 DEF Show
  <2> QED BY <2>1, <2>2
<1>4. EdTypes'
  BY <1>1, <1>3 DEF EdInv, EdTypes, LineTypes
<1>5. Fitting' /\ Placed' /\ Recalls' /\ Drafted'
  BY <1>1, <1>2, <1>3 DEF EdInv, Fitting, Placed, Recalls, Drafted
<1> QED BY <1>1, <1>3, <1>4, <1>5 DEF EdInv

LEMMA EnterKeeps ==
    ASSUME EdInv, Enter
    PROVE  EdInv' /\ hist_pos' = hist_len'
<1>1. /\ line \in Strings /\ Len(line) < MaxLine /\ Len(line) \in Nat
      /\ history \in [0 .. HistSize - 1 -> Strings] /\ hist_len \in Nat
      /\ entered \in Seq(Strings) /\ Len(entered) = hist_len
      /\ HistSize \in Nat /\ HistSize > 0 /\ MaxLine \in Nat /\ MaxLine >= 2
  <2>1. line \in Strings /\ Len(line) < MaxLine /\ Len(entered) = hist_len
    BY DEF EdInv, EdTypes, Fitting, Recalls
  <2>2. history \in [0 .. HistSize - 1 -> Strings] /\ hist_len \in Nat /\ entered \in Seq(Strings)
    BY DEF EdInv, EdTypes
  <2>3. Len(line) \in Nat
    BY <2>1 DEF Strings
  <2> QED BY <2>1, <2>2, <2>3, HistSizeKnown
<1>2. PICK l : l = Trimmed(line)
  OBVIOUS
<1>3. l \in Strings /\ Len(l) < MaxLine /\ Len(l) \in Nat
  <2>1. l \in Strings /\ Len(l) <= Len(line)
    BY <1>1, <1>2, TrimmedKnown
  <2>2. Len(l) \in Nat
    BY <2>1 DEF Strings
  <2> QED BY <1>1, <2>1, <2>2
<1>4. /\ IF Kept(l)
         THEN /\ hist_len < MaxHist
              /\ history' = [history EXCEPT ![hist_len % HistSize] = l]
              /\ hist_len' = hist_len + 1 /\ hist_has_tmp' = FALSE
         ELSE UNCHANGED <<history, hist_len, hist_has_tmp>>
      /\ hist_pos' = hist_len' /\ line' = <<>> /\ pos' = 0
      /\ entered' = IF l = <<>> \/ (entered # <<>> /\ Last(entered) = l) THEN entered
                    ELSE Append(entered, l)
      /\ UNCHANGED <<hist_tmp, draft>>
  BY <1>2 DEF Enter
<1>5. LineTypes' /\ Len(line') < MaxLine
  BY <1>1, <1>4 DEF LineTypes, Strings
<1>6. Kept(l) <=> ~(l = <<>> \/ (entered # <<>> /\ Last(entered) = l))
  <2>1. entered # <<>> <=> hist_len # 0
    BY <1>1
  <2>2. hist_len # 0 => Former(hist_len - 1) = Last(entered)
    <3> SUFFICES ASSUME hist_len # 0 PROVE Former(hist_len - 1) = Last(entered)
      OBVIOUS
    <3>1. hist_len - 1 \in Nat /\ hist_len - 1 < hist_len /\ hist_len - 1 >= hist_len - HistSize
      BY <1>1
    <3>2. Former(hist_len - 1) = entered[(hist_len - 1) + 1]
      BY <3>1, FormerKnown
    <3> QED BY <1>1, <3>2 DEF Last
  <2> QED BY <2>1, <2>2 DEF Kept
<1>7. CASE ~Kept(l)
  <2>1. UNCHANGED <<history, hist_len, entered, hist_tmp, hist_has_tmp, draft>>
    BY <1>4, <1>6, <1>7
  <2>2. EdTypes'
    BY <1>1, <1>4, <1>5, <2>1 DEF EdInv, EdTypes, LineTypes
  <2>3. Fitting' /\ Placed' /\ Recalls' /\ Drafted'
    BY <1>1, <1>4, <1>5, <2>1 DEF EdInv, Fitting, Placed, Recalls, Drafted
  <2> QED BY <1>4, <2>2, <2>3 DEF EdInv
<1>8. CASE Kept(l)
  <2>1. /\ hist_len < MaxHist /\ history' = [history EXCEPT ![hist_len % HistSize] = l]
        /\ hist_len' = hist_len + 1 /\ hist_has_tmp' = FALSE /\ entered' = Append(entered, l)
    BY <1>4, <1>6, <1>8
  <2>2. hist_len % HistSize \in 0 .. HistSize - 1
    BY <1>1, PlaceKnown
  <2>3. history' \in [0 .. HistSize - 1 -> Strings] /\ hist_len' \in Nat /\ entered' \in Seq(Strings)
    BY <1>1, <1>3, <2>1
  <2>4. EdTypes'
    BY <1>4, <1>5, <2>1, <2>3 DEF EdInv, EdTypes, LineTypes
  <2>5. Fitting'
    <3>1. \A i \in 0 .. HistSize - 1 : Len(history'[i]) < MaxLine
      <4> TAKE i \in 0 .. HistSize - 1
      <4>1. history'[i] = l \/ history'[i] = history[i]
        BY <1>1, <2>1
      <4> QED BY <1>3, <4>1 DEF EdInv, Fitting
    <3> QED BY <1>4, <1>5, <3>1 DEF EdInv, Fitting
  <2>6. Placed'
    BY <1>1, <1>4, <2>1, LineEditorAssumption DEF EdInv, Placed
  <2>7. Recalls'
    <3>1. /\ Len(entered') = hist_len' /\ entered'[hist_len + 1] = l
          /\ \A k \in 1 .. hist_len : entered'[k] = entered[k]
      BY <1>1, <1>3, <2>1
    <3>2. ASSUME NEW i \in Nat, i < hist_len', i >= hist_len' - HistSize
          PROVE  history'[i % HistSize] = entered'[i + 1]
      <4>1. i % HistSize \in 0 .. HistSize - 1
        BY PlaceKnown
      <4>2. CASE i = hist_len
        BY <1>1, <2>1, <2>2, <3>1, <4>2
      <4>3. CASE i # hist_len
        <5>1. i < hist_len /\ i >= hist_len - HistSize /\ hist_len - i < HistSize
              /\ i + 1 \in 1 .. hist_len
          BY <1>1, <2>1, <3>2, <4>3
        <5>2. i % HistSize # hist_len % HistSize
          BY <1>1, <5>1, PlacesApart
        <5>3. history'[i % HistSize] = history[i % HistSize]
          BY <1>1, <2>1, <4>1, <5>2
        <5>4. history[i % HistSize] = entered[i + 1]
          BY <5>1 DEF EdInv, Recalls
        <5> QED BY <3>1, <5>1, <5>3, <5>4
      <4> QED BY <4>2, <4>3
    <3> QED BY <3>1, <3>2 DEF Recalls
  <2>8. Drafted'
    <3>1. ~(hist_pos' < hist_len')
      BY <1>1, <1>4, <2>1
    <3> QED BY <3>1 DEF Drafted
  <2> QED BY <1>4, <2>4, <2>5, <2>6, <2>7, <2>8 DEF EdInv
<1> QED BY <1>7, <1>8

-----------------------------------------------------------------------------
(***************************************************************************)
(* Every key                                                               *)
(***************************************************************************)
LEMMA MoveKeeps ==
    ASSUME EdInv, Move
    PROVE  EdInv'
<1>1. pos' \in 0 .. Len(line) /\ UNCHANGED <<line, ring, recall>>
  BY DEF Move
<1>2. LineTypes' /\ Len(line') < MaxLine
  BY <1>1 DEF EdInv, EdTypes, LineTypes, Fitting
<1> QED BY <1>1, <1>2, LineChanges

LEMMA EditKeeps ==
    ASSUME EdInv, Erase \/ Tab \/ (\E c \in Chars : Type(c))
    PROVE  EdInv' /\ AtTheCursor
<1>1. UNCHANGED <<ring, recall>>
  BY DEF Erase, Tab, Type
<1>2. LineTypes' /\ Len(line') < MaxLine /\ AtTheCursor
  BY EditKnown DEF EdInv, EdTypes, LineTypes, Fitting
<1> QED BY <1>1, <1>2, LineChanges

LEMMA CtrlCKeeps ==
    ASSUME EdInv, CtrlC
    PROVE  EdInv' /\ hist_pos' = hist_len'
<1>1. /\ line' = <<>> /\ pos' = 0 /\ hist_pos' = hist_len
      /\ UNCHANGED <<history, hist_len, entered, hist_tmp, hist_has_tmp, draft>>
  BY DEF CtrlC, ring
<1>2. LineTypes' /\ Len(line') < MaxLine
  BY <1>1, HistSizeKnown DEF LineTypes, Strings
<1>3. EdTypes'
  BY <1>1, <1>2 DEF EdInv, EdTypes, LineTypes
<1>4. Fitting' /\ Placed' /\ Recalls' /\ Drafted'
  BY <1>1, <1>2, HistSizeKnown DEF EdInv, EdTypes, Fitting, Placed, Recalls, Drafted
<1> QED BY <1>1, <1>3, <1>4 DEF EdInv

LEMMA EdStep == EdInv /\ [EdNext]_edVars => EdInv'
<1> SUFFICES ASSUME EdInv, [EdNext]_edVars PROVE EdInv'
  OBVIOUS
<1>1. CASE UNCHANGED edVars
  BY <1>1 DEF edVars, ring, recall, EdInv, EdTypes, Fitting, Placed, Recalls, Drafted
<1> QED
  BY <1>1, MoveKeeps, EditKeeps, UpKeeps, DownKeeps, EnterKeeps, CtrlCKeeps DEF EdNext

LEMMA EdAlways == EdSpec => []EdInv
BY EdStart, EdStep, PTL DEF EdSpec

-----------------------------------------------------------------------------
\* Whatever is typed, completed, erased or recalled, the line has room for its
\* terminator, the cursor is in it or behind it, and hist_pos names a line that
\* is still in the ring, or the end (shell.c: MAX_LINE, HIST_SIZE).
THEOREM EdTypeCorrect == EdSpec => []EdTypeOK
<1>1. EdInv => EdTypeOK
  <2> SUFFICES ASSUME EdInv PROVE EdTypeOK
    OBVIOUS
  <2>1. /\ Len(line) < MaxLine /\ pos \in 0 .. Len(line) /\ Len(hist_tmp) < MaxLine
        /\ hist_has_tmp \in BOOLEAN /\ hist_len \in Nat /\ hist_pos \in Nat
        /\ hist_len <= MaxHist /\ hist_pos <= hist_len /\ hist_pos >= hist_len - HistSize
    BY DEF EdInv, EdTypes, Fitting, Placed
  <2>2. \A i \in DOMAIN history : Len(history[i]) < MaxLine
    BY DEF EdInv, EdTypes, Fitting
  <2>3. hist_pos \in Max({0, hist_len - HistSize}) .. hist_len
    <3>1. 0 \in Int /\ hist_len - HistSize \in Int
      BY <2>1, HistSizeKnown
    <3>2. Max({0, hist_len - HistSize}) = IF 0 >= hist_len - HistSize THEN 0 ELSE hist_len - HistSize
      BY <3>1, GreatestOfTwo
    <3> QED BY <2>1, <3>1, <3>2
  <2>4. hist_len \in 0 .. MaxHist
    BY <2>1, LineEditorAssumption
  <2> QED BY <2>1, <2>2, <2>3, <2>4 DEF EdTypeOK
<1> QED BY <1>1, EdAlways, PTL

\* Up and Down show the lines as they were entered, also when the ring has gone
\* round any number of times (shell.c: % HIST_SIZE and the limit).
THEOREM RecallIsAlwaysRight == EdSpec => RecallIsRight
<1>1. EdInv /\ [EdNext]_edVars =>
        (hist_pos' # hist_pos /\ hist_pos' < hist_len' => line' = entered[hist_pos' + 1])
  <2> SUFFICES ASSUME EdInv, [EdNext]_edVars, hist_pos' # hist_pos, hist_pos' < hist_len'
               PROVE  line' = entered[hist_pos' + 1]
    OBVIOUS
  <2>1. ~UNCHANGED edVars
    BY DEF edVars, recall
  <2>2. ~(Move \/ Erase \/ (\E c \in Chars : Type(c)) \/ Tab)
    BY DEF Move, Erase, Type, Tab, recall
  <2>3. hist_pos' # hist_len'
    <3>1. hist_len \in Nat /\ hist_len' \in Nat
      BY EdStep DEF EdInv, EdTypes
    <3> QED BY <3>1
  <2>4. CASE Up
    <3>1. hist_len' = hist_len
      BY <2>4 DEF Up, ring
    <3> QED BY <2>4, <3>1, UpKeeps
  <2>5. CASE Down
    <3>1. hist_len' = hist_len
      BY <2>5 DEF Down, ring
    <3> QED BY <2>5, <3>1, DownKeeps
  <2> QED BY <2>1, <2>2, <2>3, <2>4, <2>5, EnterKeeps, CtrlCKeeps DEF EdNext
<1> QED BY <1>1, EdAlways, PTL DEF EdSpec, RecallIsRight

\* The line that was begun before Up comes back when Down returns to the end,
\* whatever older lines were changed meanwhile (shell.c: hist_tmp).
THEOREM DraftAlwaysComesBack == EdSpec => DraftComesBack
<1>1. EdInv /\ [EdNext]_edVars => (Down /\ hist_pos' = hist_len => line' = draft)
  BY DownKeeps
<1> QED BY <1>1, EdAlways, PTL DEF EdSpec, DraftComesBack

\* A key that edits takes from one side of the cursor only, next to it, or puts
\* something in at the cursor; the rest of the line stays, whatever its length
\* and whatever Tab completes (shell.c: every loop that shifts line).
THEOREM EditsAlwaysAtTheCursor == EdSpec => EditsAreAtTheCursor
<1>1. EdInv /\ [EdNext]_edVars =>
        (Erase \/ Tab \/ (\E c \in Chars : Type(c)) =>
           \/ IsSuffix(After, line') /\ pos' = Len(line') - Len(After)
              /\ (IsPrefix(Before, line') \/ IsPrefix(SubSeq(line', 1, pos'), Before))
           \/ pos' = pos /\ IsPrefix(Before, line') /\ IsSuffix(SubSeq(line', pos + 1, Len(line')), After))
  BY EditKeeps DEF AtTheCursor
<1> QED BY <1>1, EdAlways, PTL DEF EdSpec, EditsAreAtTheCursor


-----------------------------------------------------------------------------
(***************************************************************************)
(* Completing                                                              *)
(***************************************************************************)
\* Names without spaces.  The commands have none; a file has one if it was saved
\* under a name in quotation marks.
NamesAreWords == \A m \in Commands \cup Files \cup FileCommands : \A k \in 1 .. Len(m) : m[k] # SPACE

LEMMA PrefixElements ==
    ASSUME NEW s \in Strings, NEW t \in Strings
    PROVE  IsPrefix(s, t) <=> Len(s) <= Len(t) /\ \A k \in 1 .. Len(s) : s[k] = t[k]
<1>1. Len(s) \in Nat /\ Len(t) \in Nat /\ 0 \in 0 .. Len(s) /\ 0 \in 0 .. Len(t) /\ 0 + 1 = 1
  BY DEF Strings
<1>2. ASSUME IsPrefix(s, t) PROVE Len(s) <= Len(t) /\ \A k \in 1 .. Len(s) : s[k] = t[k]
  <2>1. Len(s) <= Len(t) /\ SubSeq(s, 0 + 1, Len(s)) = SubSeq(t, 0 + 1, Len(s))
    BY <1>1, <1>2 DEF IsPrefix
  <2>2. Len(s) \in 0 .. Len(s) /\ Len(s) \in 0 .. Len(t)
    BY <1>1, <2>1
  <2>3. \A k \in 1 .. Len(s) - 0 : SubSeq(s, 0 + 1, Len(s))[k] = s[0 + k]
    BY <1>1, <2>2, Piece
  <2>4. \A k \in 1 .. Len(s) - 0 : SubSeq(t, 0 + 1, Len(s))[k] = t[0 + k]
    BY <1>1, <2>2, Piece
  <2>5. \A k \in 1 .. Len(s) : k \in 1 .. Len(s) - 0 /\ 0 + k = k
    BY <1>1
  <2> QED BY <2>1, <2>3, <2>4, <2>5
<1> QED BY <1>2, PrefixByElements

\* Where the last space up to i is.
LEMMA LastSpace ==
    ASSUME NEW l, NEW i \in Nat, NEW w \in 0 .. i, w = 0 \/ l[w] = SPACE,
           \A k \in w + 1 .. i : l[k] # SPACE
    PROVE  Max({0} \cup {k \in 1 .. i : l[k] = SPACE}) = w
<1> DEFINE S == {0} \cup {k \in 1 .. i : l[k] = SPACE}
<1>1. S \in SUBSET (0 .. i) /\ S # {} /\ w \in S
  OBVIOUS
<1>2. Max(S) \in S /\ \A n \in S : Max(S) >= n
  BY <1>1, GreatestElement
<1>3. PICK m : m = Max(S)
  OBVIOUS
<1>4. m \in 0 .. i /\ m >= w /\ (m # 0 => l[m] = SPACE)
  BY <1>1, <1>2, <1>3
<1>5. ~ (m > w)
  BY <1>4
<1> QED BY <1>3, <1>4, <1>5

LEMMA WordStartKnown ==
    ASSUME NEW i \in Nat, NEW w, w = WordStart(i)
    PROVE  /\ w \in 0 .. i /\ (w # 0 => line[w] = SPACE)
           /\ \A k \in w + 1 .. i : line[k] # SPACE
<1> DEFINE S == {0} \cup {k \in 1 .. i : line[k] = SPACE}
<1>1. S \in SUBSET (0 .. i) /\ S # {}
  OBVIOUS
<1>2. w \in S /\ \A n \in S : w >= n
  BY <1>1, GreatestElement DEF WordStart
<1>3. ASSUME NEW k \in w + 1 .. i, line[k] = SPACE PROVE FALSE
  <2>1. k \in S /\ w \in Nat /\ ~ (w >= k)
    BY <1>1, <1>2, <1>3
  <2> QED BY <1>2, <2>1
<1> QED BY <1>1, <1>2, <1>3

\* The prefix is what there is of the word, cut to PrefixMax characters.
WordPart(l, w, q) == SubSeq(l, w + 1, w + Min({q - w, PrefixMax}))

LEMMA WordPartKnown ==
    ASSUME NEW l \in Strings, NEW q \in 0 .. Len(l), NEW w \in 0 .. q
    PROVE  /\ WordPart(l, w, q) \in Strings /\ Len(WordPart(l, w, q)) \in Nat
           /\ Len(WordPart(l, w, q)) = IF q - w <= PrefixMax THEN q - w ELSE PrefixMax
           /\ \A k \in 1 .. Len(WordPart(l, w, q)) : WordPart(l, w, q)[k] = l[w + k]
<1>1. /\ Len(l) \in Nat /\ PrefixMax \in Nat /\ q \in Nat /\ w \in Nat /\ q <= Len(l) /\ w <= q
      /\ q - w \in Nat
  BY LineEditorAssumption DEF Strings
<1>2. PICK n : n = Min({q - w, PrefixMax})
  OBVIOUS
<1>3. n = IF q - w <= PrefixMax THEN q - w ELSE PrefixMax
  <2>1. q - w \in Int /\ PrefixMax \in Int
    BY <1>1
  <2> QED BY <1>2, <2>1, SmallestOfTwo
<1>4. PICK j : j = w + n
  OBVIOUS
<1>5. n \in Nat /\ w \in 0 .. Len(l) /\ j \in w .. Len(l) /\ j - w = n
  BY <1>1, <1>3, <1>4
<1>6. PICK p : p = SubSeq(l, w + 1, j)
  OBVIOUS
<1>7. p \in Strings /\ Len(p) = n /\ \A k \in 1 .. n : p[k] = l[w + k]
  BY <1>5, <1>6, Piece
<1>8. WordPart(l, w, q) = p
  BY <1>2, <1>4, <1>6 DEF WordPart
<1> QED BY <1>3, <1>5, <1>7, <1>8

\* What is inserted stands at the cursor.
LEMMA InsertedStands ==
    ASSUME LineTypes, NEW s \in Strings, Insert(s)
    PROVE  /\ \A k \in 1 .. pos : line'[k] = line[k]
           /\ \A k \in 1 .. Len(s) : line'[pos + k] = s[k]
<1>1. /\ Len(line) \in Nat /\ pos \in Nat /\ Before \in Strings /\ Len(Before) = pos
      /\ After \in Strings /\ Len(s) \in Nat /\ \A k \in 1 .. pos : Before[k] = line[k]
  BY SidesKnown DEF Strings
<1>2. PICK b : b = Before \o s
  OBVIOUS
<1>3. PICK x : x = Before
  OBVIOUS
<1>4. x \in Strings /\ Len(x) = pos /\ b = x \o s
  BY <1>1, <1>2, <1>3
<1>5. /\ b \in Strings /\ Len(b) = pos + Len(s)
      /\ \A k \in 1 .. pos : b[k] = x[k]
      /\ \A k \in 1 .. Len(s) : b[pos + k] = s[k]
  BY <1>4, Joined
<1>6. PICK a : a = After
  OBVIOUS
<1>7. a \in Strings /\ line' = b \o a
  BY <1>1, <1>2, <1>6 DEF Insert
<1>8. \A k \in 1 .. Len(b) : line'[k] = b[k]
  BY <1>5, <1>7, Joined
<1>9. \A k \in 1 .. pos : k \in 1 .. Len(b)
  BY <1>1, <1>5
<1>10. \A k \in 1 .. Len(s) : pos + k \in 1 .. Len(b)
  BY <1>1, <1>5
<1> QED BY <1>1, <1>3, <1>5, <1>8, <1>9, <1>10

\* A first word ends at a space that the line has.
LEMMA FirstWord ==
    ASSUME NEW l \in Strings, NEW w \in 1 .. Len(l), l[w] = SPACE,
           NEW c \in Strings, \A k \in 1 .. Len(c) : c[k] # SPACE,
           IsPrefix(c \o <<SPACE>>, l)
    PROVE  Len(c) + 1 <= w
<1>1. Len(c) \in Nat /\ Len(l) \in Nat
  BY DEF Strings
<1>2. <<SPACE>> \in Strings
  BY LineEditorAssumption DEF Strings
<1>3. PICK d : d = c \o <<SPACE>>
  OBVIOUS
<1>4. d \in Strings /\ Len(d) = Len(c) + 1 /\ \A k \in 1 .. Len(c) : d[k] = c[k]
  BY <1>2, <1>3, Joined
<1>5. \A k \in 1 .. Len(d) : d[k] = l[k]
  BY <1>3, <1>4, PrefixElements
<1> SUFFICES ASSUME w <= Len(c) PROVE FALSE
  BY <1>1
<1>6. w \in 1 .. Len(c) /\ w \in 1 .. Len(d)
  BY <1>1, <1>4
<1> QED BY <1>4, <1>5, <1>6

\* What the candidates share keeps them all: neither the word grows beyond one of
\* them, nor does the choice between commands and files change.
LEMMA TabExcludesNothing ==
    ASSUME NamesAreWords, LineTypes, Tab, Cardinality(Matches) > 1
    PROVE  Matches' = Matches
<1>1. PICK more, n : /\ more = Rest(Common(Matches)) /\ n > 0
                     /\ n = Min({Len(more), MaxLine - 1 - Len(line)}) /\ Insert(SubSeq(more, 1, n))
  <2>1. ASSUME NEW m \in Matches, Matches = {m} PROVE FALSE
    <3>1. Cardinality({m}) = 1
      BY FS_Singleton
    <3> QED BY <2>1, <3>1
  <2> QED BY <2>1 DEF Tab
<1>2. /\ line \in Strings /\ Len(line) \in Nat /\ pos \in Nat /\ pos <= Len(line)
      /\ PrefixMax \in Nat /\ MaxLine \in Nat
  BY SidesKnown, LineEditorAssumption DEF LineTypes
<1>3. PICK c : c = Common(Matches)
  OBVIOUS
<1>4. PICK one \in Matches : TRUE
  <2>1. Cardinality({}) = 0
    BY FS_EmptySet
  <2> QED BY <2>1
<1>5. c \in Strings /\ Len(c) \in Nat /\ \A m \in Matches : IsPrefix(c, m)
  BY <1>3, <1>4, CommonKnown, MatchesKnown DEF Common, Strings
<1>6. \A m \in Matches : /\ m \in Strings /\ Len(m) \in Nat /\ Len(c) <= Len(m)
                         /\ \A k \in 1 .. Len(c) : c[k] = m[k]
  <2> TAKE m \in Matches
  <2>1. m \in Strings /\ Len(m) \in Nat
    BY MatchesKnown DEF Strings
  <2> QED BY <1>5, <2>1, PrefixElements
<1>7. PICK p, w : p = Prefix /\ w = WordStart(pos)
  OBVIOUS
<1>8. /\ w \in 0 .. pos /\ (w # 0 => line[w] = SPACE)
      /\ \A k \in w + 1 .. pos : line[k] # SPACE
  BY <1>2, <1>7, WordStartKnown
<1>9. /\ p \in Strings /\ Len(p) \in Nat
      /\ Len(p) = IF pos - w <= PrefixMax THEN pos - w ELSE PrefixMax
      /\ \A k \in 1 .. Len(p) : p[k] = line[w + k]
  <2>1. p = WordPart(line, w, pos)
    BY <1>7 DEF Prefix, WordPart
  <2>2. pos \in 0 .. Len(line)
    BY <1>2
  <2> QED BY <1>2, <1>8, <2>1, <2>2, WordPartKnown
<1>10. PICK s : s = SubSeq(more, 1, n)
  OBVIOUS
<1>11. /\ s \in Strings /\ n \in Nat /\ Len(s) = n /\ Len(p) + n <= Len(c)
       /\ \A k \in 1 .. n : s[k] = c[Len(p) + k]
  <2>1. more = SubSeq(c, Len(p) + 1, Len(c))
    BY <1>1, <1>3, <1>7 DEF Rest
  <2>2. more \in Strings /\ Len(more) \in Nat
    BY <1>1, <1>3, <1>5, RestKnown
  <2>3. n = IF Len(more) <= MaxLine - 1 - Len(line) THEN Len(more) ELSE MaxLine - 1 - Len(line)
    <3>1. Len(more) \in Int /\ MaxLine - 1 - Len(line) \in Int
      BY <1>2, <2>2
    <3> QED BY <1>1, <3>1, SmallestOfTwo
  <2>4. n \in Nat /\ n <= Len(more) /\ Len(more) > 0
    BY <1>1, <1>2, <2>2, <2>3
  <2>5. Len(p) < Len(c)
    <3> SUFFICES ASSUME Len(c) < Len(p) + 1 PROVE FALSE
      BY <1>5, <1>9
    <3>1. more = <<>>
      BY <1>5, <1>9, <2>1, SubSeqEmpty
    <3> QED BY <2>4, <3>1
  <2>6. Len(p) \in 0 .. Len(c) /\ Len(c) \in Len(p) .. Len(c)
    BY <1>5, <1>9, <2>5
  <2>7. Len(more) = Len(c) - Len(p) /\ \A k \in 1 .. Len(c) - Len(p) : more[k] = c[Len(p) + k]
    BY <1>5, <2>1, <2>6, Piece
  <2>8. 0 \in 0 .. Len(more) /\ n \in 0 .. Len(more) /\ 0 + 1 = 1
    BY <2>2, <2>4
  <2>9. /\ SubSeq(more, 0 + 1, n) \in Strings /\ Len(SubSeq(more, 0 + 1, n)) = n - 0
        /\ \A k \in 1 .. n - 0 : SubSeq(more, 0 + 1, n)[k] = more[0 + k]
    BY <2>2, <2>8, Piece
  <2>10. s \in Strings /\ Len(s) = n /\ \A k \in 1 .. n : s[k] = more[k]
    <3>1. s = SubSeq(more, 0 + 1, n)
      BY <1>10, <2>8
    <3>2. \A k \in 1 .. n : k \in 1 .. n - 0 /\ 0 + k = k
      BY <2>4
    <3> QED BY <2>4, <2>9, <3>1, <3>2
  <2>11. \A k \in 1 .. n : k \in 1 .. Len(c) - Len(p)
    BY <2>4, <2>7
  <2>12. \A k \in 1 .. n : s[k] = c[Len(p) + k]
    BY <2>7, <2>10, <2>11
  <2>13. Len(p) + n <= Len(c)
    BY <1>5, <1>9, <2>4, <2>7
  <2> QED BY <2>4, <2>10, <2>12, <2>13
<1>12. \A k \in 1 .. n : s[k] # SPACE
  <2> TAKE k \in 1 .. n
  <2>1. Len(p) + k \in 1 .. Len(c) /\ Len(p) + k \in 1 .. Len(one)
    BY <1>5, <1>6, <1>9, <1>11
  <2>2. s[k] = one[Len(p) + k]
    BY <1>6, <1>11, <2>1
  <2>3. one \in Commands \cup Files
    BY <1>4 DEF Matches
  <2> QED BY <2>1, <2>2, <2>3 DEF NamesAreWords
<1>13. PICK l, q : l = line' /\ q = pos'
  OBVIOUS
<1>14. /\ l \in Strings /\ Len(l) = Len(line) + n /\ q = pos + n /\ q \in 0 .. Len(l)
       /\ \A k \in 1 .. pos : l[k] = line[k]
       /\ \A k \in 1 .. n : l[pos + k] = s[k]
  <2>1. Insert(s)
    BY <1>1, <1>10
  <2>2. LineTypes' /\ Len(line') = Len(line) + Len(s)
    BY <1>11, <2>1, InsertKnown
  <2>3. pos' = pos + Len(s)
    BY <2>1 DEF Insert
  <2>4. l \in Strings /\ q \in 0 .. Len(l)
    BY <1>13, <2>2 DEF LineTypes
  <2> QED BY <1>11, <1>13, <2>1, <2>2, <2>3, <2>4, InsertedStands
<1>15. WordStart(pos)' = w
  <2>1. \A k \in w + 1 .. q : l[k] # SPACE
    <3> TAKE k \in w + 1 .. q
    <3>1. CASE k <= pos
      BY <1>2, <1>8, <1>14, <3>1
    <3>2. CASE k > pos
      <4>1. k - pos \in 1 .. n /\ pos + (k - pos) = k
        BY <1>2, <1>8, <1>11, <1>14, <3>2
      <4> QED BY <1>12, <1>14, <4>1
    <3> QED BY <1>2, <1>8, <1>14, <3>1, <3>2
  <2>2. q \in Nat /\ w \in 0 .. q /\ (w = 0 \/ l[w] = SPACE)
    BY <1>2, <1>8, <1>11, <1>14
  <2>3. Max({0} \cup {k \in 1 .. q : l[k] = SPACE}) = w
    BY <2>1, <2>2, LastSpace
  <2> QED BY <1>13, <2>3 DEF WordStart
<1>16. WantsFile' <=> WantsFile
  <2>1. ASSUME w # 0, NEW d \in FileCommands
        PROVE  IsPrefix(d \o <<SPACE>>, l) <=> IsPrefix(d \o <<SPACE>>, line)
    <3>1. d \in Strings /\ Len(d) \in Nat /\ \A k \in 1 .. Len(d) : d[k] # SPACE
      BY NamesAssumption DEF NamesAreWords, Strings
    <3>2. PICK e : e = d \o <<SPACE>>
      OBVIOUS
    <3>3. e \in Strings /\ Len(e) = Len(d) + 1
      <4>1. <<SPACE>> \in Strings /\ Len(<<SPACE>>) = 1
        BY LineEditorAssumption DEF Strings
      <4> QED BY <3>1, <3>2, <4>1, Joined
    <3>4. /\ w \in 1 .. Len(line) /\ line[w] = SPACE
          /\ w \in 1 .. Len(l) /\ l[w] = SPACE
      BY <1>2, <1>8, <1>11, <1>14, <2>1
    <3>5. \A k \in 1 .. w : l[k] = line[k]
      BY <1>2, <1>8, <1>14
    <3>6. ASSUME IsPrefix(e, l) PROVE IsPrefix(e, line)
      <4>1. Len(e) <= w
        BY <1>14, <3>1, <3>2, <3>3, <3>4, <3>6, FirstWord
      <4>2. Len(e) <= Len(line) /\ \A k \in 1 .. Len(e) : k \in 1 .. w
        BY <1>2, <3>1, <3>3, <3>4, <4>1
      <4>3. \A k \in 1 .. Len(e) : e[k] = l[k]
        BY <1>14, <3>3, <3>6, PrefixElements
      <4> QED BY <1>2, <3>3, <3>5, <4>2, <4>3, PrefixElements
    <3>7. ASSUME IsPrefix(e, line) PROVE IsPrefix(e, l)
      <4>1. Len(e) <= w
        BY <1>2, <3>1, <3>2, <3>3, <3>4, <3>7, FirstWord
      <4>2. Len(e) <= Len(l) /\ \A k \in 1 .. Len(e) : k \in 1 .. w
        BY <1>2, <1>11, <1>14, <3>1, <3>3, <3>4, <4>1
      <4>3. \A k \in 1 .. Len(e) : e[k] = line[k]
        BY <1>2, <3>3, <3>7, PrefixElements
      <4> QED BY <1>14, <3>3, <3>5, <4>2, <4>3, PrefixElements
    <3> QED BY <3>2, <3>6, <3>7
  <2>2. WantsFile <=> w # 0 /\ \E d \in FileCommands : IsPrefix(d \o <<SPACE>>, line)
    BY <1>7 DEF WantsFile
  <2>3. WantsFile' <=> w # 0 /\ \E d \in FileCommands : IsPrefix(d \o <<SPACE>>, l)
    BY <1>13, <1>15 DEF WantsFile
  <2> QED BY <2>1, <2>2, <2>3
<1>17. PICK r : r = Prefix'
  OBVIOUS
<1>18. /\ r \in Strings /\ Len(r) \in Nat
       /\ Len(r) = IF q - w <= PrefixMax THEN q - w ELSE PrefixMax
       /\ \A k \in 1 .. Len(r) : r[k] = l[w + k]
  <2>1. r = WordPart(l, w, q)
    BY <1>13, <1>15, <1>17 DEF Prefix, WordPart
  <2>2. w \in 0 .. q
    BY <1>2, <1>8, <1>11, <1>14
  <2> QED BY <1>14, <2>1, <2>2, WordPartKnown
<1>19. Len(p) <= Len(r) /\ \A k \in 1 .. Len(p) : r[k] = p[k]
  <2>1. Len(p) <= Len(r) /\ Len(p) <= pos - w
    BY <1>2, <1>8, <1>9, <1>11, <1>14, <1>18
  <2>2. \A k \in 1 .. Len(p) : k \in 1 .. Len(r) /\ w + k \in 1 .. pos
    BY <1>2, <1>8, <1>9, <1>18, <2>1
  <2> QED BY <1>9, <1>14, <1>18, <2>1, <2>2
<1>20. ASSUME NEW m \in Strings, IsPrefix(r, m) PROVE IsPrefix(p, m)
  <2>1. Len(m) \in Nat /\ Len(r) <= Len(m) /\ \A k \in 1 .. Len(r) : r[k] = m[k]
    BY <1>18, <1>20, PrefixElements DEF Strings
  <2>2. Len(p) <= Len(m) /\ \A k \in 1 .. Len(p) : k \in 1 .. Len(r)
    BY <1>9, <1>18, <1>19, <2>1
  <2> QED BY <1>9, <1>19, <1>20, <2>1, <2>2, PrefixElements
<1>21. ASSUME NEW m \in Matches PROVE IsPrefix(r, m)
  <2>1. Len(p) <= Len(m) /\ \A k \in 1 .. Len(p) : p[k] = m[k]
    <3>1. IsPrefix(p, m)
      BY <1>7, <1>21 DEF Matches
    <3> QED BY <1>6, <1>9, <3>1, PrefixElements
  <2>2. ASSUME NEW k \in 1 .. Len(r) PROVE k <= Len(m) /\ r[k] = m[k]
    <3>1. CASE k <= Len(p)
      <4>1. k \in 1 .. Len(p) /\ k <= Len(m)
        BY <1>6, <1>9, <1>18, <2>1, <3>1
      <4> QED BY <1>19, <2>1, <4>1
    <3>2. CASE k > Len(p)
      <4>1. Len(p) = pos - w /\ k <= Len(p) + n
        BY <1>2, <1>8, <1>9, <1>11, <1>14, <1>18, <3>2
      <4>2. PICK j : j = k - Len(p)
        OBVIOUS
      <4>3. j \in 1 .. n /\ Len(p) + j = k /\ pos + j = w + k
        <5>1. Len(p) \in Nat /\ pos \in Int /\ w \in Int /\ n \in Nat /\ k \in Int
          BY <1>2, <1>8, <1>9, <1>11, <1>18
        <5> QED BY <3>2, <4>1, <4>2, <5>1
      <4>4. r[k] = c[k]
        BY <1>11, <1>14, <1>18, <4>3
      <4>5. k \in 1 .. Len(c) /\ k <= Len(m)
        BY <1>5, <1>6, <1>9, <1>11, <4>3
      <4> QED BY <1>6, <4>4, <4>5
    <3> QED BY <1>9, <1>18, <3>1, <3>2
  <2>3. Len(r) <= Len(m)
    BY <1>6, <1>18, <2>2
  <2> QED BY <1>6, <1>18, <2>2, <2>3, PrefixElements
<1>22. Matches' = {m \in IF WantsFile THEN Files ELSE Commands : IsPrefix(r, m)}
  BY <1>16, <1>17 DEF Matches
<1>23. Matches = {m \in IF WantsFile THEN Files ELSE Commands : IsPrefix(p, m)}
  BY <1>7 DEF Matches
<1>24. (IF WantsFile THEN Files ELSE Commands) \subseteq Strings
  BY NamesAssumption DEF Strings
<1> QED BY <1>20, <1>21, <1>22, <1>23, <1>24

\* If no name has a space, completing a word excludes none of its candidates,
\* however long they and the line are (shell.c: the loop over common).
THEOREM CompletionNeverExcludes == NamesAreWords => (EdSpec => CompletionExcludesNothing)
<1> SUFFICES ASSUME NamesAreWords PROVE EdSpec => CompletionExcludesNothing
  OBVIOUS
<1>1. EdInv /\ [EdNext]_edVars => (Tab /\ Cardinality(Matches) > 1 => Matches' = Matches)
  BY TabExcludesNothing DEF EdInv, EdTypes, LineTypes
<1> QED BY <1>1, EdAlways, PTL DEF EdSpec, CompletionExcludesNothing

=============================================================================
