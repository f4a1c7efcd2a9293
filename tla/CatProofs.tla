----------------------------- MODULE CatProofs -----------------------------
(***************************************************************************)
(* Proofs about cat: what the port does to its arguments and to a text is  *)
(* what the original does, except where Misread and Differs say so, for    *)
(* all words and all texts, however long the reads are.                    *)
(*                                                                         *)
(* Both are recursive functions.  Every theorem about them begins with the *)
(* equations that such a function satisfies (RecursionHasSolution and      *)
(* SolutionIsUnique), and goes on along the least place where it would not *)
(* hold (LeastElement).                                                    *)
(*                                                                         *)
(* Piece by piece is first shown to be character by character (PortPrints),*)
(* as the original works (OriginalPrints).  Then the two are compared at   *)
(* each character: is it hidden, and what number is printed before it.     *)
(***************************************************************************)
EXTENDS Cat, SequenceTheorems, FiniteSetTheorems, WellFoundedInduction, TLAPS

LEMMA LeastElement ==
    ASSUME NEW S \in SUBSET Nat, S # {}
    PROVE  \E m \in S : \A n \in S : m <= n
<1>1. IsWellFoundedOn(OpToRel(<, Nat), Nat)
  BY NatLessThanWellFounded
<1>2. PICK m \in S : \A n \in S : <<n, m>> \notin OpToRel(<, Nat)
  BY <1>1, WFMin
<1>3. \A n \in S : ~ (n < m)
  BY <1>2 DEF OpToRel
<1> QED BY <1>3

LEMMA MinIs ==
    ASSUME NEW S \in SUBSET Nat, NEW m \in S, \A n \in S : m <= n
    PROVE  Min(S) = m
<1>1. \A x \in S : (\A y \in S : x <= y) => x = m
  OBVIOUS
<1> QED BY <1>1 DEF Min

-----------------------------------------------------------------------------
(***************************************************************************)
(* Recursive functions on an interval                                      *)
(***************************************************************************)
GoesBack(B, N) == B \in [1 .. N -> Nat] /\ \A i \in 1 .. N : B[i] < i
Obeys(f, a, G, B, N) == f[0] = a /\ \A i \in 1 .. N : f[i] = G[i][f[B[i]]]
FollowsSuit(h, f, B, N) == h[0] = f[0] /\ \A i \in 1 .. N : h[B[i]] = f[B[i]] => h[i] = f[i]

\* A recursion that goes back from i to B[i] has a solution.
LEMMA RecursionHasSolution ==
    ASSUME NEW S, NEW a \in S, NEW N \in Nat, NEW G \in [1 .. N -> [S -> S]],
           NEW B, GoesBack(B, N)
    PROVE  \E f \in [0 .. N -> S] : Obeys(f, a, G, B, N)
<1> DEFINE Follows(f, m) == /\ f \in [0 .. m -> S] /\ f[0] = a
                            /\ \A i \in 1 .. m : f[i] = G[i][f[B[i]]]
           Bad == {m \in 0 .. N : ~\E f : Follows(f, m)}
<1>0. B \in [1 .. N -> Nat] /\ \A i \in 1 .. N : B[i] < i
  BY DEF GoesBack
<1>1. \E f : Follows(f, 0)
  <2>1. PICK f : f = [i \in 0 .. 0 |-> a]
    OBVIOUS
  <2> QED BY <2>1
<1>2. ASSUME NEW m \in 1 .. N, NEW f, Follows(f, m - 1)
      PROVE  \E g : Follows(g, m)
  <2>1. B[m] \in 0 .. m - 1
    BY <1>0
  <2>2. PICK last : last = G[m][f[B[m]]]
    OBVIOUS
  <2>3. last \in S
    <3>1. f[B[m]] \in S
      BY <1>2, <2>1
    <3>2. G[m] \in [S -> S]
      OBVIOUS
    <3> QED BY <2>2, <3>1, <3>2
  <2>4. PICK g : g = [i \in 0 .. m |-> IF i = m THEN last ELSE f[i]]
    OBVIOUS
  <2>5. \A i \in 0 .. m - 1 : i \in 0 .. m /\ i # m /\ g[i] = f[i]
    BY <2>4
  <2>6. g \in [0 .. m -> S] /\ g[0] = a /\ g[m] = last
    <3>1. \A i \in 0 .. m : (IF i = m THEN last ELSE f[i]) \in S
      BY <1>2, <2>3
    <3>2. 0 \in 0 .. m - 1 /\ m \in 0 .. m
      OBVIOUS
    <3>3. g[0] = a
      BY <1>2, <2>5, <3>2
    <3> QED BY <2>4, <3>1, <3>2, <3>3
  <2>7. ASSUME NEW i \in 1 .. m PROVE g[i] = G[i][g[B[i]]]
    <3>1. B[i] \in 0 .. m - 1
      <4>1. i \in 1 .. N
        OBVIOUS
      <4>2. B[i] \in Nat /\ B[i] < i
        BY <1>0, <4>1
      <4> QED BY <4>2
    <3>2. g[B[i]] = f[B[i]]
      BY <2>5, <3>1
    <3>3. CASE i = m
      BY <2>2, <2>6, <3>2, <3>3
    <3>4. CASE i # m
      <4>1. i \in 1 .. m - 1 /\ i \in 0 .. m - 1
        BY <3>4
      <4> QED BY <1>2, <2>5, <3>2, <4>1
    <3> QED BY <3>3, <3>4
  <2> QED BY <2>6, <2>7
<1> HIDE DEF Follows
<1>3. Bad = {}
  <2> SUFFICES ASSUME Bad # {} PROVE FALSE
    OBVIOUS
  <2>1. PICK n \in Bad : \A m \in Bad : n <= m
    <3>1. Bad \in SUBSET Nat
      OBVIOUS
    <3> QED BY <3>1, LeastElement
  <2>2. n \in 1 .. N /\ n - 1 \in 0 .. N /\ ~(n <= n - 1)
    BY <1>1, <2>1
  <2>3. \E f : Follows(f, n - 1)
    BY <2>1, <2>2
  <2> QED BY <1>2, <2>1, <2>2, <2>3
<1>4. PICK f : Follows(f, N)
  <2>1. N \in 0 .. N
    OBVIOUS
  <2> QED BY <1>3, <2>1
<1> QED BY <1>4 DEF Follows, Obeys

\* ... and only one.
LEMMA SolutionIsUnique ==
    ASSUME NEW N \in Nat, NEW f, NEW h, NEW B, GoesBack(B, N), FollowsSuit(h, f, B, N)
    PROVE  \A i \in 0 .. N : h[i] = f[i]
<1> DEFINE Bad == {i \in 0 .. N : h[i] # f[i]}
<1>1. Bad = {}
  <2> SUFFICES ASSUME Bad # {} PROVE FALSE
    OBVIOUS
  <2>1. PICK n \in Bad : \A m \in Bad : n <= m
    <3>1. Bad \in SUBSET Nat
      OBVIOUS
    <3> QED BY <3>1, LeastElement
  <2>2. n \in 1 .. N /\ B[n] \in Nat /\ B[n] < n
    BY <2>1 DEF GoesBack, FollowsSuit
  <2>3. B[n] \in 0 .. N /\ ~(n <= B[n])
    BY <2>2
  <2> QED BY <2>1, <2>2, <2>3 DEF FollowsSuit
<1> QED BY <1>1

-----------------------------------------------------------------------------
(***************************************************************************)
(* The arguments of cat                                                    *)
(***************************************************************************)
CatWord(w) == w = Name \/ w = EndOfOptions \/ IsOption(w)

LEMMA KindsDiffer ==
    /\ ~IsOption(Name) /\ ~IsOption(EndOfOptions) /\ Name # EndOfOptions
    /\ Name.opts = {} /\ \A w : IsOption(w) => w # Name /\ w # EndOfOptions
<1>1. Name.kind = "file" /\ EndOfOptions.kind = "end" /\ Name.opts = {}
  BY DEF Name, EndOfOptions
<1> QED BY <1>1 DEF IsOption

\* What getopt_long does with one word, given the names behind it.
NamesWith(argv, i, rest) ==
    IF argv[i] = EndOfOptions THEN SubSeq(argv, i + 1, Len(argv))
    ELSE (IF IsOption(argv[i]) THEN <<>> ELSE <<argv[i]>>) \o rest

LEMMA NamesWithKnown ==
    ASSUME NEW W, NEW argv \in Seq(W), NEW i \in 1 .. Len(argv), NEW rest \in Seq(W)
    PROVE  NamesWith(argv, i, rest) \in Seq(W)
<1>1. Len(argv) \in Nat /\ argv[i] \in W
  BY LenProperties, ElementOfSeq
<1>2. SubSeq(argv, i + 1, Len(argv)) \in Seq(W)
  BY <1>1, SubSeqProperties
<1>3. PICK one : one = IF IsOption(argv[i]) THEN <<>> ELSE <<argv[i]>>
  OBVIOUS
<1>4. one \in Seq(W)
  <2>1. \A x \in W : <<x>> \in Seq(W)
    OBVIOUS
  <2> QED BY <1>1, <1>3, <2>1, EmptySeq
<1>5. one \o rest \in Seq(W)
  BY <1>4, ConcatProperties
<1> QED BY <1>2, <1>3, <1>5 DEF NamesWith

LEMMA NamesKnown ==
    ASSUME NEW W, NEW argv \in Seq(W)
    PROVE  /\ \A i \in 1 .. Len(argv) + 1 : NamesFrom(argv)[i] \in Seq(W)
           /\ NamesFrom(argv)[Len(argv) + 1] = <<>>
           /\ \A i \in 1 .. Len(argv) :
                 NamesFrom(argv)[i] = NamesWith(argv, i, NamesFrom(argv)[i + 1])
<1> DEFINE N == Len(argv)
           S == Seq(W)
           Step(i, rest) == NamesWith(argv, i, rest)
<1>1. N \in Nat
  BY LenProperties
<1>2. PICK G : G = [m \in 1 .. N |-> [rest \in S |-> Step(N + 1 - m, rest)]]
  OBVIOUS
<1>3. PICK B : B = [m \in 1 .. N |-> m - 1]
  OBVIOUS
<1>4. G \in [1 .. N -> [S -> S]]
  <2>1. ASSUME NEW m \in 1 .. N, NEW rest \in S PROVE Step(N + 1 - m, rest) \in S
    <3>1. N + 1 - m \in 1 .. N
      BY <1>1
    <3> QED BY <3>1, NamesWithKnown
  <2> HIDE DEF Step, S
  <2> QED BY <1>2, <2>1
<1>5. B \in [1 .. N -> Nat] /\ \A m \in 1 .. N : B[m] = m - 1
  BY <1>1, <1>3
<1>6. <<>> \in S
  BY EmptySeq
<1>7. PICK f \in [0 .. N -> S] : f[0] = <<>> /\ \A m \in 1 .. N : f[m] = G[m][f[B[m]]]
  <2>1. GoesBack(B, N)
    BY <1>1, <1>5 DEF GoesBack
  <2> HIDE DEF N, S
  <2>2. \E f \in [0 .. N -> S] : Obeys(f, <<>>, G, B, N)
    BY <1>1, <1>4, <1>6, <2>1, RecursionHasSolution
  <2> QED BY <2>2 DEF Obeys
<1>8. ASSUME NEW m \in 1 .. N PROVE f[m] = Step(N + 1 - m, f[m - 1])
  <2>1. m - 1 \in 0 .. N /\ B[m] = m - 1
    BY <1>1, <1>5
  <2>2. f[m - 1] \in S
    BY <1>7, <2>1
  <2> HIDE DEF Step, S
  <2>3. G[m] = [rest \in S |-> Step(N + 1 - m, rest)]
    BY <1>2
  <2> QED BY <1>7, <2>1, <2>2, <2>3
<1> DEFINE Solves(h) ==
        h = [i \in 1 .. N + 1 |->
                IF i > N THEN <<>>
                ELSE IF argv[i] = EndOfOptions THEN SubSeq(argv, i + 1, N)
                ELSE (IF IsOption(argv[i]) THEN <<>> ELSE <<argv[i]>>) \o h[i + 1]]
<1>9. PICK g : g = [i \in 1 .. N + 1 |-> f[N + 1 - i]]
  OBVIOUS
<1>10. g[N + 1] = <<>> /\ \A i \in 1 .. N : g[i] = Step(i, g[i + 1])
  <2>1. N + 1 \in 1 .. N + 1 /\ N + 1 - (N + 1) = 0
    BY <1>1
  <2>2. ASSUME NEW i \in 1 .. N PROVE g[i] = Step(i, g[i + 1])
    <3>1. PICK m : m = N + 1 - i
      OBVIOUS
    <3>2. m \in 1 .. N /\ i \in 1 .. N + 1 /\ i + 1 \in 1 .. N + 1
          /\ N + 1 - m = i /\ N + 1 - (i + 1) = m - 1
      BY <1>1, <3>1
    <3>3. g[i] = f[m] /\ g[i + 1] = f[m - 1]
      BY <1>9, <3>1, <3>2
    <3> HIDE DEF Step
    <3> QED BY <1>8, <3>2, <3>3
  <2> QED BY <1>7, <1>9, <2>1, <2>2
<1>11. Solves(g)
  <2>1. ASSUME NEW i \in 1 .. N + 1
        PROVE  g[i] = IF i > N THEN <<>>
                      ELSE IF argv[i] = EndOfOptions THEN SubSeq(argv, i + 1, N)
                      ELSE (IF IsOption(argv[i]) THEN <<>> ELSE <<argv[i]>>) \o g[i + 1]
    <3>1. CASE i > N
      <4>1. i = N + 1
        BY <1>1, <3>1
      <4> QED BY <1>10, <3>1, <4>1
    <3>2. CASE ~(i > N)
      <4>1. i \in 1 .. N
        BY <1>1, <3>2
      <4>2. g[i] = NamesWith(argv, i, g[i + 1])
        BY <1>10, <4>1
      <4> QED BY <3>2, <4>2 DEF NamesWith
    <3> QED BY <3>1, <3>2
  <2> QED BY <1>9, <2>1
<1>12. NamesFrom(argv) = CHOOSE h : Solves(h)
  BY DEF NamesFrom
<1>13. PICK h : h = NamesFrom(argv)
  OBVIOUS
<1>14. Solves(h)
  BY <1>11, <1>12, <1>13
<1>15. h[N + 1] = <<>> /\ \A i \in 1 .. N : h[i] = Step(i, h[i + 1])
  <2>1. N + 1 \in 1 .. N + 1 /\ N + 1 > N
    BY <1>1
  <2>2. \A i \in 1 .. N + 1 :
            h[i] = IF i > N THEN <<>>
                   ELSE IF argv[i] = EndOfOptions THEN SubSeq(argv, i + 1, N)
                   ELSE (IF IsOption(argv[i]) THEN <<>> ELSE <<argv[i]>>) \o h[i + 1]
    BY <1>14
  <2>3. ASSUME NEW i \in 1 .. N PROVE h[i] = Step(i, h[i + 1])
    <3>1. i \in 1 .. N + 1 /\ ~(i > N)
      BY <1>1
    <3> QED BY <2>2, <3>1 DEF NamesWith
  <2> QED BY <2>1, <2>2, <2>3
<1>16. ASSUME NEW i \in 1 .. N + 1 PROVE h[i] \in S
  <2>1. PICK k : k = [m \in 0 .. N |-> h[N + 1 - m]]
    OBVIOUS
  <2>2. k[0] = f[0]
    BY <1>1, <1>7, <1>15, <2>1
  <2>3. ASSUME NEW m \in 1 .. N, k[B[m]] = f[B[m]] PROVE k[m] = f[m]
    <3>1. PICK j : j = N + 1 - m
      OBVIOUS
    <3>2. j \in 1 .. N /\ N + 1 - (m - 1) = j + 1 /\ m - 1 \in 0 .. N /\ m \in 0 .. N
      BY <1>1, <3>1
    <3>3. k[m] = h[j] /\ k[m - 1] = h[j + 1]
      BY <2>1, <3>1, <3>2
    <3>4. h[j + 1] = f[m - 1]
      BY <1>5, <2>3, <3>3
    <3> HIDE DEF Step
    <3> QED BY <1>8, <1>15, <3>1, <3>2, <3>3, <3>4
  <2>4. \A m \in 0 .. N : k[m] = f[m]
    <3>1. GoesBack(B, N)
      BY <1>1, <1>5 DEF GoesBack
    <3>2. FollowsSuit(k, f, B, N)
      BY <2>2, <2>3 DEF FollowsSuit
    <3> HIDE DEF N
    <3> QED BY <1>1, <3>1, <3>2, SolutionIsUnique
  <2>5. N + 1 - i \in 0 .. N /\ N + 1 - (N + 1 - i) = i
    BY <1>1
  <2>6. k[N + 1 - i] = h[i]
    BY <2>1, <2>5
  <2> QED BY <1>7, <2>4, <2>5, <2>6
<1> QED BY <1>13, <1>15, <1>16

LEMMA LenOfOne ==
    ASSUME NEW W, NEW w \in W, NEW rest \in Seq(W)
    PROVE  /\ <<>> \o rest = rest
           /\ Len(<<w>> \o rest) = Len(rest) + 1
           /\ (<<w>> \o rest)[1] = w
           /\ \A i \in 1 .. Len(rest) : (<<w>> \o rest)[i + 1] = rest[i]
<1>1. <<w>> \in Seq(W) /\ Len(<<w>>) = 1 /\ <<w>>[1] = w
  OBVIOUS
<1>2. PICK one : one = <<w>>
  OBVIOUS
<1>3. Len(rest) \in Nat
  BY LenProperties
<1>4. one \in Seq(W) /\ Len(one) = 1 /\ one[1] = w
  BY <1>1, <1>2
<1>5. Len(one \o rest) = Len(rest) + 1
  <2>1. Len(one \o rest) = Len(one) + Len(rest)
    BY <1>4, ConcatProperties
  <2> QED BY <1>3, <1>4, <2>1
<1>6. \A i \in 1 .. Len(one) + Len(rest) :
         (one \o rest)[i] = IF i <= Len(one) THEN one[i] ELSE rest[i - Len(one)]
  BY <1>4, ConcatProperties
<1>7. (one \o rest)[1] = w
  BY <1>3, <1>4, <1>6
<1>8. ASSUME NEW i \in 1 .. Len(rest) PROVE (one \o rest)[i + 1] = rest[i]
  <2>1. i + 1 \in 1 .. Len(one) + Len(rest) /\ ~(i + 1 <= Len(one)) /\ i + 1 - Len(one) = i
    BY <1>3, <1>4
  <2> QED BY <1>6, <2>1
<1>9. <<>> \o rest = rest
  BY ConcatEmptySeq
<1> QED BY <1>2, <1>5, <1>7, <1>8, <1>9

\* The names are at most the words, fewer when one is no name, and the words
\* themselves when all are.
Fewer(argv, i, names) ==
    /\ Len(names) <= Len(argv) + 1 - i
    /\ (\E j \in i .. Len(argv) : argv[j] # Name) => Len(names) < Len(argv) + 1 - i
    /\ (\A j \in i .. Len(argv) : argv[j] = Name) => names = SubSeq(argv, i, Len(argv))

LEMMA NamesWithFewer ==
    ASSUME NEW W, NEW argv \in Seq(W), NEW i \in 1 .. Len(argv), NEW rest \in Seq(W),
           CatWord(argv[i]), Fewer(argv, i + 1, rest)
    PROVE  Fewer(argv, i, NamesWith(argv, i, rest))
<1> DEFINE N == Len(argv)
<1>1. PICK w : w = argv[i]
  OBVIOUS
<1>2. N \in Nat /\ Len(rest) \in Nat /\ w \in W
  BY <1>1, LenProperties, ElementOfSeq
<1>3. /\ Len(rest) <= N - i
      /\ (\E j \in i + 1 .. N : argv[j] # Name) => Len(rest) < N - i
      /\ (\A j \in i + 1 .. N : argv[j] = Name) => rest = SubSeq(argv, i + 1, N)
  BY <1>2 DEF Fewer
<1>4. PICK new : new = NamesWith(argv, i, rest)
  OBVIOUS
<1>5. i .. N = {i} \cup i + 1 .. N
  BY <1>2
<1>6. CASE w = Name
  <2>1. new = <<w>> \o rest
    BY <1>1, <1>4, <1>6, KindsDiffer DEF NamesWith
  <2>2. /\ Len(new) = Len(rest) + 1 /\ new[1] = w
        /\ \A k \in 1 .. Len(rest) : new[k + 1] = rest[k]
    BY <1>2, <2>1, LenOfOne
  <2>3. Len(new) <= N + 1 - i
    BY <1>2, <1>3, <2>2
  <2>4. ASSUME NEW j \in i .. N, argv[j] # Name PROVE Len(new) < N + 1 - i
    <3>1. j \in i + 1 .. N
      BY <1>1, <1>5, <1>6, <2>4
    <3>2. Len(rest) < N - i
      BY <1>3, <2>4, <3>1
    <3> QED BY <1>2, <2>2, <3>2
  <2>5. ASSUME \A j \in i .. N : argv[j] = Name PROVE new = SubSeq(argv, i, N)
    <3>1. rest = SubSeq(argv, i + 1, N)
      BY <1>3, <1>5, <2>5
    <3>2. i \in 1 .. Len(argv) /\ N \in i .. N
      BY <1>2
    <3>3. SubSeq(argv, i, N) = <<argv[i]>> \o SubSeq(argv, i + 1, N)
      BY <3>2, SubSeqRecursiveFirst
    <3> QED BY <1>1, <2>1, <3>1, <3>3
  <2> QED BY <1>4, <2>3, <2>4, <2>5 DEF Fewer
<1>7. CASE w # Name
  <2>1. Len(new) <= N - i
    <3>1. CASE w = EndOfOptions
      <4>1. new = SubSeq(argv, i + 1, N)
        BY <1>1, <1>4, <3>1 DEF NamesWith
      <4>2. Len(SubSeq(argv, i + 1, N)) = N - i
        <5>1. i + 1 \in 1 .. N + 1 /\ N \in i .. N
          BY <1>2
        <5> QED BY <1>2, <5>1, SubSeqProperties
      <4> QED BY <1>2, <4>1, <4>2
    <3>2. CASE w # EndOfOptions /\ IsOption(w)
      <4>1. new = <<>> \o rest
        BY <1>1, <1>4, <3>2 DEF NamesWith
      <4>2. new = rest
        BY <1>2, <4>1, LenOfOne
      <4> QED BY <1>3, <4>2
    <3> QED BY <1>1, <1>7, <3>1, <3>2 DEF CatWord
  <2>2. Len(new) \in Nat
    BY <1>4, NamesWithKnown, LenProperties
  <2>3. Len(new) < N + 1 - i
    BY <1>2, <2>1, <2>2
  <2>4. i \in i .. N /\ argv[i] # Name
    BY <1>1, <1>2, <1>7
  <2> QED BY <1>2, <1>4, <2>2, <2>3, <2>4 DEF Fewer
<1> QED BY <1>6, <1>7

LEMMA NamesFewer ==
    ASSUME NEW W, NEW argv \in Seq(W), \A i \in 1 .. Len(argv) : CatWord(argv[i]),
           NEW i \in 1 .. Len(argv) + 1
    PROVE  Fewer(argv, i, NamesFrom(argv)[i])
<1> DEFINE N == Len(argv)
           Names(k) == NamesFrom(argv)[k]
           Bad == {m \in 0 .. N : ~Fewer(argv, N + 1 - m, Names(N + 1 - m))}
<1>1. N \in Nat
  BY LenProperties
<1>2. Fewer(argv, N + 1, Names(N + 1))
  <2>1. Names(N + 1) = <<>> /\ Len(<<>>) = 0
    BY NamesKnown, EmptySeq
  <2>2. SubSeq(argv, N + 1, N) = <<>>
    BY <1>1, SubSeqEmpty
  <2>3. N + 1 .. N = {} /\ N + 1 - (N + 1) = 0
    BY <1>1
  <2> QED BY <2>1, <2>2, <2>3 DEF Fewer
<1>3. Bad = {}
  <2> SUFFICES ASSUME Bad # {} PROVE FALSE
    OBVIOUS
  <2>1. PICK m \in Bad : \A k \in Bad : m <= k
    <3>1. Bad \in SUBSET Nat
      BY <1>1
    <3> QED BY <3>1, LeastElement
  <2>2. PICK j : j = N + 1 - m
    OBVIOUS
  <2>3. m \in 0 .. N /\ ~Fewer(argv, j, Names(j))
    BY <2>1, <2>2
  <2>4. m # 0
    <3> SUFFICES ASSUME m = 0 PROVE FALSE
      OBVIOUS
    <3>1. j = N + 1
      BY <1>1, <2>2
    <3> QED BY <1>2, <2>3, <3>1
  <2>5. j \in 1 .. N /\ m - 1 \in 0 .. N /\ N + 1 - (m - 1) = j + 1 /\ ~(m <= m - 1)
    BY <1>1, <2>2, <2>3, <2>4
  <2>6. Fewer(argv, j + 1, Names(j + 1))
    BY <2>1, <2>5
  <2>7. Names(j + 1) \in Seq(W) /\ Names(j) = NamesWith(argv, j, Names(j + 1))
    <3>1. j + 1 \in 1 .. N + 1
      BY <1>1, <2>5
    <3> QED BY <2>5, <3>1, NamesKnown
  <2> HIDE DEF Names
  <2> QED BY <2>3, <2>5, <2>6, <2>7, NamesWithFewer
<1>4. N + 1 - i \in 0 .. N /\ N + 1 - (N + 1 - i) = i
  BY <1>1
<1>5. \A m \in 0 .. N : Fewer(argv, N + 1 - m, Names(N + 1 - m))
  BY <1>3
<1>6. PICK m : m = N + 1 - i
  OBVIOUS
<1>7. m \in 0 .. N /\ N + 1 - m = i
  BY <1>4, <1>6
<1> QED BY <1>5, <1>7

\* Options alone leave no names.
LEMMA OptionsAreNoNames ==
    ASSUME NEW W, NEW argv \in Seq(W), NEW stop \in 1 .. Len(argv) + 1,
           \A i \in 1 .. stop - 1 : IsOption(argv[i])
    PROVE  NamesFrom(argv)[1] = NamesFrom(argv)[stop]
<1> DEFINE N == Len(argv)
           Bad == {m \in 1 .. stop : NamesFrom(argv)[m] # NamesFrom(argv)[1]}
<1>1. N \in Nat
  BY LenProperties
<1>2. Bad = {}
  <2> SUFFICES ASSUME Bad # {} PROVE FALSE
    OBVIOUS
  <2>1. PICK m \in Bad : \A k \in Bad : m <= k
    <3>1. Bad \in SUBSET Nat
      BY <1>1
    <3> QED BY <3>1, LeastElement
  <2>2. PICK i : i = m - 1
    OBVIOUS
  <2>3. i \in 1 .. stop - 1 /\ i \in 1 .. N /\ i + 1 = m /\ m \in 1 .. N + 1 /\ i \in 1 .. stop /\ ~(m <= i)
    BY <1>1, <2>1, <2>2
  <2>4. NamesFrom(argv)[i] = NamesFrom(argv)[1]
    BY <2>1, <2>3
  <2>5. NamesFrom(argv)[m] \in Seq(W) /\ NamesFrom(argv)[i] = NamesWith(argv, i, NamesFrom(argv)[m])
    BY <2>3, NamesKnown
  <2>6. IsOption(argv[i]) /\ argv[i] # EndOfOptions
    BY <2>3, KindsDiffer
  <2>7. NamesFrom(argv)[i] = <<>> \o NamesFrom(argv)[m]
    BY <2>5, <2>6 DEF NamesWith
  <2>8. NamesFrom(argv)[i] = NamesFrom(argv)[m]
    BY <2>5, <2>7, ConcatEmptySeq
  <2> QED BY <2>1, <2>4, <2>8
<1> QED BY <1>1, <1>2

LEMMA GreatestElement ==
    ASSUME NEW n \in Nat, NEW S \in SUBSET (0 .. n), S # {}
    PROVE  Max(S) \in S /\ \A k \in S : k <= Max(S)
<1>1. PICK T : T = {n - k : k \in S}
  OBVIOUS
<1>2. T \in SUBSET Nat /\ T # {}
  <2>1. \A k \in S : k \in 0 .. n /\ n - k \in Nat
    OBVIOUS
  <2> QED BY <1>1, <2>1
<1>3. PICK m \in T : \A k \in T : m <= k
  BY <1>2, LeastElement
<1>4. PICK g \in S : m = n - g
  BY <1>1, <1>3
<1>5. \A k \in S : k <= g
  <2> TAKE k \in S
  <2>1. n - k \in T
    BY <1>1
  <2>2. m <= n - k /\ k \in 0 .. n /\ g \in 0 .. n
    BY <1>3, <2>1
  <2> QED BY <1>4, <2>2
<1>6. g \in S /\ \A k \in S : g >= k
  BY <1>5
<1> QED BY <1>6 DEF Max

LEMMA MaxIs ==
    ASSUME NEW n \in Nat, NEW S \in SUBSET (0 .. n), NEW g \in S, \A k \in S : k <= g
    PROVE  Max(S) = g
<1>1. Max(S) \in S /\ g <= Max(S) /\ Max(S) <= g
  BY GreatestElement
<1>2. Max(S) \in 0 .. n /\ g \in 0 .. n
  BY <1>1
<1> QED BY <1>1, <1>2

LEMMA StopIs ==
    ASSUME NEW W, NEW argv \in Seq(W)
    PROVE  /\ Stop(argv) \in 1 .. Len(argv) + 1
           /\ \A i \in 1 .. Stop(argv) - 1 : i \in 1 .. Len(argv) /\ IsOption(argv[i])
           /\ Stop(argv) <= Len(argv) => ~IsOption(argv[Stop(argv)])
<1> DEFINE N == Len(argv)
<1>1. N \in Nat /\ DOMAIN argv = 1 .. N
  BY LenProperties
<1>2. PICK S : S = {i \in DOMAIN argv : ~IsOption(argv[i])} \cup {N + 1}
  OBVIOUS
<1>3. S \in SUBSET Nat /\ S # {}
  BY <1>1, <1>2
<1>4. PICK m \in S : \A k \in S : m <= k
  BY <1>3, LeastElement
<1>5. Stop(argv) = m
  BY <1>2, <1>3, <1>4, MinIs DEF Stop
<1>6. m \in 1 .. N + 1
  BY <1>1, <1>2, <1>4
<1>7. m <= N => ~IsOption(argv[m])
  BY <1>1, <1>2, <1>4
<1>8. ASSUME NEW i \in 1 .. m - 1 PROVE i \in 1 .. N /\ IsOption(argv[i])
  <2>1. i \in 1 .. N /\ ~(m <= i)
    BY <1>1, <1>6
  <2> QED BY <1>1, <1>2, <1>4, <2>1
<1> QED BY <1>5, <1>6, <1>7, <1>8

LEMMA EndIs ==
    ASSUME NEW W, NEW argv \in Seq(W), NEW end \in 1 .. Len(argv) + 1,
           end <= Len(argv) => argv[end] = EndOfOptions,
           \A i \in 1 .. end - 1 : argv[i] # EndOfOptions
    PROVE  OriginalArguments(argv) = [opts  |-> Settled(UNION {argv[i].opts : i \in 1 .. end - 1}),
                                      files |-> NamesFrom(argv)[1]]
<1> DEFINE N == Len(argv)
<1>1. N \in Nat /\ DOMAIN argv = 1 .. N
  BY LenProperties
<1>2. PICK S : S = {i \in DOMAIN argv : argv[i] = EndOfOptions} \cup {N + 1}
  OBVIOUS
<1>3. S \in SUBSET Nat /\ end \in S
  BY <1>1, <1>2
<1>4. ASSUME NEW k \in S PROVE end <= k
  <2> SUFFICES ASSUME k < end PROVE FALSE
    BY <1>1, <1>3
  <2>1. k \in 1 .. end - 1
    BY <1>1, <1>2
  <2>2. k # N + 1 /\ argv[k] # EndOfOptions
    BY <1>1, <2>1
  <2> QED BY <1>2, <2>2
<1>5. Min(S) = end
  BY <1>3, <1>4, MinIs
<1> QED BY <1>2, <1>5 DEF OriginalArguments

\* Where files_start is unless "--" ended the options.
LEMMA FilesStartIs ==
    ASSUME NEW W, NEW argv \in Seq(W), ~Ended(argv)
    PROVE  /\ FilesStart(argv) \in 1 .. Stop(argv)
           /\ FilesStart(argv) = Stop(argv) <=> ~(Stop(argv) > 1 /\ argv[Stop(argv) - 1].kind = "long")
<1>1. PICK n : n = Stop(argv) - 1
  OBVIOUS
<1>2. n \in Nat /\ Stop(argv) = n + 1
  <2>1. Stop(argv) \in 1 .. Len(argv) + 1 /\ Len(argv) \in Nat
    BY StopIs, LenProperties
  <2> QED BY <1>1, <2>1
<1>3. PICK S : S = {i \in 1 .. n : argv[i].kind = "short"} \cup {0}
  OBVIOUS
<1>4. S \in SUBSET (0 .. n) /\ S # {}
  BY <1>2, <1>3
<1>5. FilesStart(argv) = Max(S) + 1
  BY <1>1, <1>3 DEF FilesStart
<1>6. Max(S) \in S /\ \A k \in S : k <= Max(S)
  BY <1>2, <1>4, GreatestElement
<1>7. Max(S) \in 0 .. n
  BY <1>4, <1>6
<1>8. CASE n = 0
  BY <1>2, <1>5, <1>7, <1>8
<1>9. CASE n # 0
  <2>1. n \in 1 .. n /\ n \in 1 .. Stop(argv) - 1
    BY <1>2, <1>9
  <2>2. argv[n].kind = "short" \/ argv[n].kind = "long"
    BY <2>1, StopIs DEF IsOption
  <2>3. CASE argv[n].kind = "short"
    <3>1. n \in S
      BY <1>3, <2>1, <2>3
    <3>2. Max(S) = n
      BY <1>2, <1>6, <1>7, <3>1
    <3> QED BY <1>1, <1>2, <1>5, <2>3, <3>2
  <2>4. CASE argv[n].kind = "long"
    <3>1. n \notin S
      BY <1>3, <1>9, <2>4
    <3>2. Max(S) # n
      BY <1>6, <3>1
    <3> QED BY <1>1, <1>2, <1>5, <1>7, <1>9, <2>4, <3>2
  <2> QED BY <2>2, <2>3, <2>4
<1> QED BY <1>8, <1>9

\* What the port makes of its arguments is what the original's getopt_long makes
\* of them, except for exactly the lists that Misread tells: options behind a
\* file, and a long option with no short one behind it (coreutils_port.c:
\* strix_cat, cat.c: main).  For lists of words of any length.
THEOREM ArgumentsAreRead ==
    ASSUME NEW W, NEW argv \in Seq(W), \A i \in 1 .. Len(argv) : CatWord(argv[i])
    PROVE  StrixCat(argv) = OriginalArguments(argv) <=> ~Misread(argv)
<1> DEFINE N == Len(argv)
           Opts(k) == Settled(UNION {argv[i].opts : i \in 1 .. k})
<1>1. N \in Nat
  BY LenProperties
<1>2. PICK stop : stop = Stop(argv)
  OBVIOUS
<1>3. /\ stop \in 1 .. N + 1
      /\ \A i \in 1 .. stop - 1 : i \in 1 .. N /\ IsOption(argv[i]) /\ argv[i] # EndOfOptions
      /\ stop <= N => ~IsOption(argv[stop])
  BY <1>2, StopIs, KindsDiffer
<1>4. NamesFrom(argv)[1] = NamesFrom(argv)[stop]
  BY <1>3, OptionsAreNoNames
<1>5. PICK start : start = FilesStart(argv)
  OBVIOUS
<1>6. StrixCat(argv) = [opts |-> Opts(stop - 1), files |-> SubSeq(argv, start, N)]
  BY <1>2, <1>5 DEF StrixCat
<1>7. CASE Ended(argv)
  <2>1. stop <= N /\ argv[stop] = EndOfOptions /\ start = stop + 1
    BY <1>2, <1>5, <1>7 DEF Ended, FilesStart
  <2>2. OriginalArguments(argv) = [opts |-> Opts(stop - 1), files |-> NamesFrom(argv)[1]]
    BY <1>3, <2>1, EndIs
  <2>3. NamesFrom(argv)[stop] = SubSeq(argv, stop + 1, N)
    <3>1. stop \in 1 .. N
      BY <1>1, <1>3, <2>1
    <3>2. NamesFrom(argv)[stop] = NamesWith(argv, stop, NamesFrom(argv)[stop + 1])
      BY <3>1, NamesKnown
    <3> QED BY <2>1, <3>2 DEF NamesWith
  <2>4. ~Misread(argv)
    BY <1>7 DEF Misread
  <2> QED BY <1>4, <1>6, <2>1, <2>2, <2>3, <2>4
<1>8. CASE ~Ended(argv)
  <2>1. /\ start \in 1 .. stop
        /\ start = stop <=> ~(stop > 1 /\ argv[stop - 1].kind = "long")
    BY <1>2, <1>5, <1>8, FilesStartIs
  <2>2. Fewer(argv, stop, NamesFrom(argv)[stop])
    BY <1>3, NamesFewer
  <2>3. CASE ~Misread(argv)
    <3>1. start = stop /\ \A i \in stop .. N : argv[i] = Name
      BY <1>2, <1>8, <2>1, <2>3 DEF Misread
    <3>2. NamesFrom(argv)[1] = SubSeq(argv, start, N)
      BY <1>4, <2>2, <3>1 DEF Fewer
    <3>3. OriginalArguments(argv) = [opts |-> Opts(N), files |-> NamesFrom(argv)[1]]
      <4>1. PICK end : end = N + 1
        OBVIOUS
      <4>3. end \in 1 .. N + 1 /\ ~(end <= N) /\ end - 1 = N
        BY <1>1, <4>1
      <4>2. ASSUME NEW i \in 1 .. N PROVE argv[i] # EndOfOptions
        <5>1. i \in 1 .. stop - 1 \/ i \in stop .. N
          BY <1>1, <1>3
        <5> QED BY <1>3, <3>1, <5>1, KindsDiffer
      <4> QED BY <4>2, <4>3, EndIs
    <3>4. Opts(N) = Opts(stop - 1)
      <4>1. \A i \in 1 .. N : i \in 1 .. stop - 1 \/ argv[i].opts = {}
        <5> TAKE i \in 1 .. N
        <5>1. i \in 1 .. stop - 1 \/ i \in stop .. N
          BY <1>1, <1>3
        <5> QED BY <3>1, <5>1, KindsDiffer
      <4>2. UNION {argv[i].opts : i \in 1 .. N} = UNION {argv[i].opts : i \in 1 .. stop - 1}
        BY <1>3, <4>1
      <4> QED BY <4>2
    <3> HIDE DEF Opts
    <3> QED BY <1>6, <2>3, <3>2, <3>3, <3>4
  <2>4. CASE Misread(argv)
    <3>1. PICK names : names = NamesFrom(argv)[1]
      OBVIOUS
    <3>2. /\ Len(names) \in Nat /\ Len(names) <= N + 1 - stop
          /\ (\E j \in stop .. N : argv[j] # Name) => Len(names) < N + 1 - stop
      <4>1. names \in Seq(W)
        BY <1>1, <3>1, NamesKnown
      <4>2. Len(names) \in Nat
        BY <4>1, LenProperties
      <4> QED BY <1>4, <2>2, <3>1, <4>2 DEF Fewer
    <3>3. Len(SubSeq(argv, start, N)) = N + 1 - start
      <4>1. start \in Int /\ start >= 1 /\ start <= N + 1
        BY <1>1, <1>3, <2>1
      <4>2. \A i \in start .. N : argv[i] \in W
        BY <1>1, <4>1, ElementOfSeq
      <4>3. Len(SubSeq(argv, start, N)) = IF start <= N THEN N - start + 1 ELSE 0
        BY <1>1, <4>1, <4>2, SubSeqProperties
      <4> QED BY <1>1, <4>1, <4>3
    <3>4. start < stop \/ \E j \in stop .. N : argv[j] # Name
      BY <1>2, <1>3, <2>1, <2>4 DEF Misread
    <3>5. Len(names) < N + 1 - start
      BY <1>1, <1>3, <2>1, <3>2, <3>4
    <3>6. names # SubSeq(argv, start, N)
      BY <1>1, <1>3, <2>1, <3>2, <3>3, <3>5
    <3>7. StrixCat(argv).files = SubSeq(argv, start, N)
      BY <1>5 DEF StrixCat
    <3>8. OriginalArguments(argv).files = names
      BY <3>1 DEF OriginalArguments
    <3>9. StrixCat(argv) # OriginalArguments(argv)
      BY <3>6, <3>7, <3>8
    <3> QED BY <2>4, <3>9
  <2> QED BY <2>3, <2>4
<1> QED BY <1>7, <1>8

-----------------------------------------------------------------------------
(***************************************************************************)
(* What the port prints, character by character                            *)
(***************************************************************************)
Tokens(C) == {Put(c) : c \in C \cup {"$", LF}} \cup {Number(k) : k \in Nat}

LEMMA TokensDiffer ==
    /\ \A c, k : Put(c) # Number(k)
    /\ \A j, k : Number(j) = Number(k) => j = k
<1>1. ASSUME NEW c, NEW k, Put(c) = Number(k) PROVE FALSE
  <2>1. DOMAIN Put(c) = {"char"} /\ DOMAIN Number(k) = {"number"}
    BY DEF Put, Number
  <2> QED BY <1>1, <2>1
<1>2. ASSUME NEW j, NEW k, Number(j) = Number(k) PROVE j = k
  <2>1. Number(j).number = j /\ Number(k).number = k
    BY DEF Number
  <2> QED BY <1>2, <2>1
<1> QED BY <1>1, <1>2

LEMMA OneToken ==
    ASSUME NEW T, NEW x \in T
    PROVE  <<x>> \in Seq(T) /\ Len(<<x>>) = 1 /\ <<x>>[1] = x
OBVIOUS

LEMMA TokensKnown ==
    ASSUME NEW C, NEW o
    PROVE  /\ \A c \in C : Put(c) \in Tokens(C) /\ <<Put(c)>> \in Seq(Tokens(C))
           /\ \A k \in Nat : Number(k) \in Tokens(C) /\ <<Number(k)>> \in Seq(Tokens(C))
           /\ NewLine(o) \in Seq(Tokens(C))
<1>1. Put("$") \in Tokens(C) /\ Put(LF) \in Tokens(C)
  BY DEF Tokens
<1>2. \A c \in C : Put(c) \in Tokens(C)
  BY DEF Tokens
<1>3. \A k \in Nat : Number(k) \in Tokens(C)
  BY DEF Tokens
<1>4. <<Put(LF)>> \in Seq(Tokens(C))
  BY <1>1, OneToken
<1>5. <<Put("$"), Put(LF)>> \in Seq(Tokens(C))
  <2>1. PICK x \in Tokens(C) : x = Put("$")
    BY <1>1
  <2>2. PICK y \in Tokens(C) : y = Put(LF)
    BY <1>1
  <2>3. ASSUME NEW T, NEW u \in T, NEW v \in T PROVE <<u, v>> \in Seq(T)
    OBVIOUS
  <2>4. <<x, y>> \in Seq(Tokens(C))
    BY <2>3
  <2> QED BY <2>1, <2>2, <2>4
<1>6. NewLine(o) \in Seq(Tokens(C))
  BY <1>4, <1>5 DEF NewLine
<1> QED BY <1>2, <1>3, <1>6, OneToken

\* The piece that reaches to p: it begins where it should, and nothing begins
\* behind that.
LEMMA PieceIs ==
    ASSUME NEW t, NEW p \in Nat \ {0}
    PROVE  /\ PieceOf(t, p) \in 1 .. p /\ BeginsPiece(t, PieceOf(t, p))
           /\ \A q \in PieceOf(t, p) + 1 .. p : ~BeginsPiece(t, q)
<1>1. PICK S : S = {q \in 1 .. p : BeginsPiece(t, q)}
  OBVIOUS
<1>2. 1 \in S
  BY <1>1 DEF BeginsPiece, BeginsLine
<1>3. S \in SUBSET (0 .. p) /\ S # {}
  <2>1. 1 .. p \subseteq 0 .. p
    OBVIOUS
  <2> QED BY <1>1, <1>2, <2>1
<1>4. Max(S) \in S /\ \A k \in S : k <= Max(S)
  BY <1>3, GreatestElement
<1>5. PICK b : b = PieceOf(t, p)
  OBVIOUS
<1>6. b \in S /\ \A k \in S : k <= b
  BY <1>1, <1>4, <1>5 DEF PieceOf
<1>7. b \in 1 .. p /\ BeginsPiece(t, b)
  BY <1>1, <1>6
<1>8. ASSUME NEW q \in b + 1 .. p, BeginsPiece(t, q) PROVE FALSE
  <2>1. q \in 1 .. p /\ ~(q <= b)
    BY <1>7
  <2> QED BY <1>1, <1>6, <1>8, <2>1
<1> QED BY <1>5, <1>7, <1>8

LEMMA PieceUnique ==
    ASSUME NEW t, NEW p \in Nat \ {0}, NEW b \in 1 .. p, BeginsPiece(t, b),
           \A q \in b + 1 .. p : ~BeginsPiece(t, q)
    PROVE  PieceOf(t, p) = b
<1>1. PICK a : a = PieceOf(t, p)
  OBVIOUS
<1>2. a \in 1 .. p /\ BeginsPiece(t, a) /\ \A q \in a + 1 .. p : ~BeginsPiece(t, q)
  BY <1>1, PieceIs
<1>3. ~(a < b)
  <2>1. a < b => b \in a + 1 .. p
    BY <1>2
  <2> QED BY <1>2, <2>1
<1>4. ~(b < a)
  <2>1. b < a => a \in b + 1 .. p
    BY <1>2
  <2> QED BY <1>2, <2>1
<1>5. a = b
  BY <1>2, <1>3, <1>4
<1> QED BY <1>1, <1>5

TextOf(t, b, e) == [i \in 1 .. e - b + 1 |-> Put(t[b + i - 1])]
Numbered(o, c) == "n" \in o \/ ("b" \in o /\ c # LF)
NumberIf(numbered, k) == IF numbered THEN <<Number(k)>> ELSE <<>>

LEMMA SeqOfLength ==
    ASSUME NEW T, NEW n \in Nat, NEW f \in [1 .. n -> T]
    PROVE  f \in Seq(T) /\ Len(f) = n
OBVIOUS

LEMMA TextKnown ==
    ASSUME NEW C, NEW t \in Seq(C), NEW b \in 1 .. Len(t), NEW e \in b - 1 .. Len(t)
    PROVE  TextOf(t, b, e) \in Seq(Tokens(C)) /\ Len(TextOf(t, b, e)) = e - b + 1
<1>1. Len(t) \in Nat
  BY LenProperties
<1>2. PICK n : n = e - b + 1
  OBVIOUS
<1>3. n \in Nat
  BY <1>1, <1>2
<1>4. ASSUME NEW i \in 1 .. n PROVE Put(t[b + i - 1]) \in Tokens(C)
  <2>1. b + i - 1 \in 1 .. Len(t)
    BY <1>1, <1>2
  <2>2. t[b + i - 1] \in C
    BY <2>1, ElementOfSeq
  <2> QED BY <2>2, TokensKnown
<1>5. PICK f : f = [i \in 1 .. n |-> Put(t[b + i - 1])]
  OBVIOUS
<1>6. f \in [1 .. n -> Tokens(C)]
  BY <1>4, <1>5
<1>7. f \in Seq(Tokens(C)) /\ Len(f) = n
  BY <1>3, <1>6, SeqOfLength
<1> QED BY <1>2, <1>5, <1>7 DEF TextOf

LEMMA TextGrows ==
    ASSUME NEW C, NEW t \in Seq(C), NEW b \in 1 .. Len(t), NEW e \in b .. Len(t)
    PROVE  /\ TextOf(t, b, e) = TextOf(t, b, e - 1) \o <<Put(t[e])>>
           /\ TextOf(t, b, b - 1) = <<>>
<1>1. Len(t) \in Nat /\ e \in Nat /\ b \in Nat
  BY LenProperties
<1>2. PICK T : T = Tokens(C)
  OBVIOUS
<1>3. PICK x : x = Put(t[e])
  OBVIOUS
<1>4. x \in T /\ <<x>> \in Seq(T) /\ Len(<<x>>) = 1 /\ <<x>>[1] = x
  <2>1. e \in 1 .. Len(t)
    BY <1>1
  <2>2. t[e] \in C
    BY <2>1, ElementOfSeq
  <2>3. x \in T
    BY <1>2, <1>3, <2>2, TokensKnown
  <2> QED BY <2>3, OneToken
<1>5. PICK one : one = <<x>>
  OBVIOUS
<1>6. PICK s1 : s1 = TextOf(t, b, e - 1)
  OBVIOUS
<1>7. PICK s2 : s2 = TextOf(t, b, e)
  OBVIOUS
<1>8. s1 \in Seq(T) /\ s2 \in Seq(T) /\ Len(s1) = e - 1 - b + 1 /\ Len(s2) = e - b + 1
  <2>1. e - 1 \in b - 1 .. Len(t) /\ e \in b - 1 .. Len(t)
    BY <1>1
  <2> QED BY <1>2, <1>6, <1>7, <2>1, TextKnown
<1>9. PICK n : n = e - b
  OBVIOUS
<1>10. n \in Nat /\ e - 1 - b + 1 = n /\ e - b + 1 = n + 1
  BY <1>1, <1>9
<1>11. s1 = [i \in 1 .. n |-> Put(t[b + i - 1])] /\ s2 = [i \in 1 .. n + 1 |-> Put(t[b + i - 1])]
  BY <1>6, <1>7, <1>10 DEF TextOf
<1>12. Len(s1) = n /\ Len(s2) = n + 1
  BY <1>8, <1>10
<1>13. /\ s1 \o one \in Seq(T) /\ Len(s1 \o one) = Len(s1) + Len(one)
       /\ \A i \in 1 .. Len(s1) + Len(one) :
             (s1 \o one)[i] = IF i <= Len(s1) THEN s1[i] ELSE one[i - Len(s1)]
  BY <1>4, <1>5, <1>8, ConcatProperties
<1>14. Len(s1 \o one) = n + 1
  BY <1>4, <1>5, <1>10, <1>12, <1>13
<1>15. ASSUME NEW i \in 1 .. Len(s2) PROVE s2[i] = (s1 \o one)[i]
  <2>1. i \in 1 .. n + 1 /\ i \in 1 .. Len(s1) + Len(one)
    BY <1>4, <1>5, <1>10, <1>12
  <2>2. CASE i <= n
    <3>1. i \in 1 .. n
      BY <1>10, <2>1, <2>2
    <3> QED BY <1>11, <1>12, <1>13, <2>1, <2>2, <3>1
  <2>3. CASE ~(i <= n)
    <3>1. i = n + 1 /\ i - n = 1 /\ b + i - 1 = e
      BY <1>1, <1>9, <1>10, <2>1, <2>3
    <3>2. s2[i] = x
      BY <1>3, <1>11, <2>1, <3>1
    <3> QED BY <1>4, <1>5, <1>12, <1>13, <2>1, <2>3, <3>1, <3>2
  <2> QED BY <2>2, <2>3
<1>16. s2 = s1 \o one
  BY <1>8, <1>12, <1>13, <1>14, <1>15, SeqEqual
<1>17. TextOf(t, b, b - 1) = <<>>
  <2>1. b - 1 \in b - 1 .. Len(t) /\ b - 1 - b + 1 = 0
    BY <1>1
  <2>2. TextOf(t, b, b - 1) \in Seq(T) /\ Len(TextOf(t, b, b - 1)) = 0
    BY <1>2, <2>1, TextKnown
  <2> QED BY <2>2, EmptySeq
<1> QED BY <1>3, <1>5, <1>6, <1>7, <1>16, <1>17

PortStates(C) == [prev_blank : BOOLEAN, line : Nat, out : Seq(Tokens(C))]

LEMMA PieceText ==
    ASSUME NEW C, NEW t \in Seq(C), NEW p \in 1 .. Len(t), NEW b \in 1 .. p, NEW e \in b - 1 .. p
    PROVE  LET piece == SubSeq(t, b, p)
               text  == SubSeq(piece, 1, e - b + 1)
           IN  /\ Head(piece) = t[b] /\ Last(piece) = t[p] /\ Len(piece) = p - b + 1
               /\ [i \in DOMAIN text |-> Put(text[i])] = TextOf(t, b, e)
<1>1. Len(t) \in Nat /\ p \in Nat /\ b \in Nat /\ b \in 1 .. Len(t) /\ p \in b .. Len(t)
  BY LenProperties
<1>2. PICK piece : piece = SubSeq(t, b, p)
  OBVIOUS
<1>3. /\ piece \in Seq(C) /\ Len(piece) = p - b + 1
      /\ \A i \in 1 .. p - b + 1 : piece[i] = t[b + i - 1]
  <2>1. \A i \in b .. p : t[i] \in C
    BY <1>1, ElementOfSeq
  <2>2. b \in Int /\ p \in Int /\ b <= p
    BY <1>1
  <2> QED BY <1>2, <2>1, <2>2, SubSeqProperties
<1>4. PICK n : n = e - b + 1
  OBVIOUS
<1>5. n \in 0 .. Len(piece) /\ n \in Nat
  BY <1>1, <1>3, <1>4
<1>6. PICK text : text = SubSeq(piece, 1, n)
  OBVIOUS
<1>7. /\ text \in Seq(C) /\ Len(text) = n
      /\ \A i \in 1 .. n : text[i] = piece[i]
  <2>1. \A i \in 1 .. n : piece[i] \in C
    BY <1>3, <1>5, ElementOfSeq
  <2>2. /\ SubSeq(piece, 1, n) \in Seq(C)
        /\ Len(SubSeq(piece, 1, n)) = IF 1 <= n THEN n - 1 + 1 ELSE 0
        /\ \A i \in 1 .. n - 1 + 1 : SubSeq(piece, 1, n)[i] = piece[1 + i - 1]
    <3>1. 1 \in Int /\ n \in Int
      BY <1>5
    <3> QED BY <2>1, <3>1, SubSeqProperties
  <2> QED BY <1>5, <1>6, <2>2
<1>8. DOMAIN text = 1 .. n
  BY <1>7, LenProperties
<1>9. \A i \in 1 .. n : text[i] = t[b + i - 1]
  <2> TAKE i \in 1 .. n
  <2>1. i \in 1 .. p - b + 1
    BY <1>3, <1>5
  <2> QED BY <1>3, <1>7, <2>1
<1>10. [i \in DOMAIN text |-> Put(text[i])] = TextOf(t, b, e)
  BY <1>4, <1>8, <1>9 DEF TextOf
<1>11. Head(piece) = t[b]
  BY <1>1, <1>2, HeadTailOfSubSeq
<1>12. Last(piece) = t[p]
  <2>1. Last(piece) = piece[p - b + 1]
    BY <1>3 DEF Last
  <2>2. p - b + 1 \in 1 .. p - b + 1 /\ b + (p - b + 1) - 1 = p
    BY <1>1
  <2> QED BY <1>3, <2>1, <2>2
<1> QED BY <1>2, <1>3, <1>4, <1>6, <1>10, <1>11, <1>12

\* A piece from b to p as it is printed.
PrintedAt(o, st, t, b, p) ==
    [prev_blank |-> t[b] = LF,
     line |-> IF t[p] = LF THEN st.line + 1 ELSE st.line,
     out  |-> st.out \o NumberIf(Numbered(o, t[b]), st.line)
                     \o TextOf(t, b, IF t[p] = LF THEN p - 1 ELSE p)
                     \o (IF t[p] = LF THEN NewLine(o) ELSE <<>>)]

LEMMA PieceIsPrinted ==
    ASSUME NEW C, NEW t \in Seq(C), NEW p \in 1 .. Len(t), NEW b \in 1 .. p, NEW o, NEW st
    PROVE  /\ Printed(o, st, SubSeq(t, b, p)) = PrintedAt(o, st, t, b, p)
           /\ Squeezed(o, st, SubSeq(t, b, p)) <=> "s" \in o /\ t[b] = LF /\ st.prev_blank
<1>1. PICK piece : piece = SubSeq(t, b, p)
  OBVIOUS
<1>2. PICK e : e = IF t[p] = LF THEN p - 1 ELSE p
  OBVIOUS
<1>3. e \in b - 1 .. p /\ p \in Nat /\ b \in Nat
  BY <1>2
<1>4. PICK text : text = SubSeq(piece, 1, e - b + 1)
  OBVIOUS
<1>5. /\ Head(piece) = t[b] /\ Last(piece) = t[p] /\ Len(piece) = p - b + 1
      /\ [i \in DOMAIN text |-> Put(text[i])] = TextOf(t, b, e)
  BY <1>1, <1>3, <1>4, PieceText, SMTT(30)
<1>6. text = IF t[p] = LF THEN Front(piece) ELSE piece
  <2>1. CASE t[p] = LF
    <3>1. e - b + 1 = Len(piece) - 1
      BY <1>2, <1>3, <1>5, <2>1
    <3> QED BY <1>4, <2>1, <3>1 DEF Front
  <2>2. CASE t[p] # LF
    <3>1. e - b + 1 = Len(piece)
      BY <1>2, <1>3, <1>5, <2>2
    <3>2. piece \in Seq(C)
      <4>1. b \in Int /\ p \in Int /\ \A i \in b .. p : i \in 1 .. Len(t)
        BY <1>3, LenProperties
      <4>2. \A i \in b .. p : t[i] \in C
        BY <4>1, ElementOfSeq
      <4> QED BY <1>1, <4>1, <4>2, SubSeqProperties
    <3>3. SubSeq(piece, 1, Len(piece)) = piece
      BY <3>2, SubSeqFull
    <3> QED BY <1>4, <2>2, <3>1, <3>3
  <2> QED BY <2>1, <2>2
<1>7. Printed(o, st, piece) = PrintedAt(o, st, t, b, p)
  BY <1>2, <1>5, <1>6 DEF Printed, PrintedAt, Numbered, NumberIf
<1> QED BY <1>1, <1>5, <1>7 DEF Squeezed

LEMMA PortStateKnown ==
    ASSUME NEW C, NEW t \in Seq(C), NEW p \in 1 .. Len(t), NEW b \in 1 .. p, NEW o,
           NEW st \in PortStates(C)
    PROVE  NextPiece(o, st, SubSeq(t, b, p)) \in PortStates(C)
<1>1. PICK T : T = Tokens(C)
  OBVIOUS
<1>2. st.line \in Nat /\ st.out \in Seq(T) /\ p \in Nat /\ b \in Nat
  BY <1>1 DEF PortStates
<1>3. PICK n : n = NumberIf(Numbered(o, t[b]), st.line)
  OBVIOUS
<1>4. n \in Seq(T)
  BY <1>1, <1>2, <1>3, TokensKnown, EmptySeq DEF NumberIf
<1>5. PICK e : e = IF t[p] = LF THEN p - 1 ELSE p
  OBVIOUS
<1>6. PICK x : x = TextOf(t, b, e)
  OBVIOUS
<1>7. x \in Seq(T)
  <2>1. e \in b - 1 .. Len(t) /\ b \in 1 .. Len(t)
    BY <1>2, <1>5, LenProperties
  <2> QED BY <1>1, <1>6, <2>1, TextKnown
<1>8. PICK y : y = IF t[p] = LF THEN NewLine(o) ELSE <<>>
  OBVIOUS
<1>9. y \in Seq(T)
  BY <1>1, <1>8, TokensKnown, EmptySeq
<1>10. st.out \o n \o x \o y \in Seq(T)
  BY <1>2, <1>4, <1>7, <1>9, ConcatProperties
<1>11. PrintedAt(o, st, t, b, p) \in PortStates(C)
  BY <1>1, <1>2, <1>3, <1>5, <1>6, <1>8, <1>10 DEF PrintedAt, PortStates
<1> QED BY <1>11, PieceIsPrinted DEF NextPiece

\* The recursion of CatUpTo has a solution.
LEMMA PortRuns ==
    ASSUME NEW C, NEW t \in Seq(C), NEW o
    PROVE  LET st(p) == CatUpTo(o, t)[p]
           IN  /\ st(0) = [prev_blank |-> FALSE, line |-> 1, out |-> <<>>]
               /\ \A p \in 0 .. Len(t) : st(p) \in PortStates(C)
               /\ \A p \in 1 .. Len(t) :
                     st(p) = NextPiece(o, st(PieceOf(t, p) - 1), SubSeq(t, PieceOf(t, p), p))
<1> DEFINE N == Len(t)
           S == PortStates(C)
           Start == [prev_blank |-> FALSE, line |-> 1, out |-> <<>>]
           Step(p, st) == NextPiece(o, st, SubSeq(t, PieceOf(t, p), p))
<1>1. N \in Nat
  BY LenProperties
<1>2. \A p \in 1 .. N : PieceOf(t, p) \in 1 .. p
  BY <1>1, PieceIs
<1>3. PICK G : G = [p \in 1 .. N |-> [st \in S |-> Step(p, st)]]
  OBVIOUS
<1>4. PICK B : B = [p \in 1 .. N |-> PieceOf(t, p) - 1]
  OBVIOUS
<1>5. G \in [1 .. N -> [S -> S]]
  <2>1. ASSUME NEW p \in 1 .. N, NEW st \in S PROVE Step(p, st) \in S
    BY <1>2, PortStateKnown
  <2> HIDE DEF Step, S
  <2> QED BY <1>3, <2>1
<1>6. GoesBack(B, N) /\ \A p \in 1 .. N : B[p] = PieceOf(t, p) - 1 /\ B[p] \in 0 .. N
  <2>1. \A p \in 1 .. N : PieceOf(t, p) - 1 \in Nat /\ PieceOf(t, p) - 1 < p
    BY <1>1, <1>2
  <2> QED BY <1>1, <1>4, <2>1 DEF GoesBack
<1>7. Start \in S
  BY EmptySeq DEF PortStates
<1>8. PICK f \in [0 .. N -> S] : Obeys(f, Start, G, B, N)
  <2> HIDE DEF N, S, Start
  <2> QED BY <1>1, <1>5, <1>6, <1>7, RecursionHasSolution
<1>9. f[0] = Start /\ \A p \in 1 .. N : f[p] = Step(p, f[PieceOf(t, p) - 1])
  <2>1. ASSUME NEW p \in 1 .. N PROVE f[p] = Step(p, f[PieceOf(t, p) - 1])
    <3>1. f[p] = G[p][f[B[p]]]
      BY <1>8 DEF Obeys
    <3>2. f[B[p]] \in S /\ B[p] = PieceOf(t, p) - 1
      BY <1>6, <1>8
    <3> HIDE DEF Step, S
    <3>3. G[p] = [st \in S |-> Step(p, st)]
      BY <1>3
    <3> QED BY <3>1, <3>2, <3>3
  <2> QED BY <1>8, <2>1 DEF Obeys
<1> DEFINE Solves(h) ==
        h = [p \in 0 .. N |->
                IF p = 0 THEN [prev_blank |-> FALSE, line |-> 1, out |-> <<>>]
                ELSE NextPiece(o, h[PieceOf(t, p) - 1], SubSeq(t, PieceOf(t, p), p))]
<1>10. Solves(f)
  <2>1. \A p \in 0 .. N : p # 0 => p \in 1 .. N
    BY <1>1
  <2> QED BY <1>8, <1>9, <2>1
<1>11. CatUpTo(o, t) = CHOOSE h : Solves(h)
  BY DEF CatUpTo
<1>12. PICK h : h = CatUpTo(o, t)
  OBVIOUS
<1>13. Solves(h)
  BY <1>10, <1>11, <1>12
<1>14. h[0] = Start /\ \A p \in 1 .. N : h[p] = Step(p, h[PieceOf(t, p) - 1])
  <2>1. 0 \in 0 .. N /\ \A p \in 1 .. N : p \in 0 .. N /\ p # 0
    BY <1>1
  <2>2. \A p \in 0 .. N : h[p] = IF p = 0 THEN Start ELSE Step(p, h[PieceOf(t, p) - 1])
    BY <1>13
  <2> HIDE DEF Step, Start
  <2> QED BY <2>1, <2>2
<1>15. \A p \in 0 .. N : h[p] = f[p]
  <2>1. FollowsSuit(h, f, B, N)
    <3> HIDE DEF Step, Start
    <3> QED BY <1>6, <1>9, <1>14 DEF FollowsSuit
  <2> HIDE DEF N
  <2> QED BY <1>1, <1>6, <2>1, SolutionIsUnique
<1>16. \A p \in 0 .. N : h[p] \in S
  BY <1>8, <1>15
<1> QED BY <1>12, <1>14, <1>16

\* Which new lines the two leave out, and where they print a number.
PortHides(o, t, p) == "s" \in o /\ t[p] = LF /\ p > 1 /\ t[p - 1] = LF /\ BeginsPiece(t, p - 1)
OriginalHides(o, t, p) == "s" \in o /\ t[p] = LF /\ p > 1 /\ t[p - 1] = LF /\ BeginsLine(t, p - 1)
PortNumbers(o, t, p) == BeginsPiece(t, p) /\ Numbered(o, t[p])
OriginalNumbers(o, t, p) == BeginsLine(t, p) /\ Numbered(o, t[p])

Shown(o, c) == IF c = LF THEN NewLine(o) ELSE <<Put(c)>>
Emits(o, c, hidden, numbered, k) ==
    IF hidden THEN <<>> ELSE NumberIf(numbered, k) \o Shown(o, c)

LEMMA EmitsKnown ==
    ASSUME NEW C, NEW o, NEW c \in C, NEW hidden, NEW numbered, NEW k \in Nat
    PROVE  /\ NumberIf(numbered, k) \in Seq(Tokens(C)) /\ Shown(o, c) \in Seq(Tokens(C))
           /\ Emits(o, c, hidden, numbered, k) \in Seq(Tokens(C))
<1>1. PICK T : T = Tokens(C)
  OBVIOUS
<1>2. NumberIf(numbered, k) \in Seq(T) /\ Shown(o, c) \in Seq(T)
  BY <1>1, TokensKnown, EmptySeq DEF NumberIf, Shown
<1>3. NumberIf(numbered, k) \o Shown(o, c) \in Seq(T)
  BY <1>2, ConcatProperties
<1> QED BY <1>1, <1>2, <1>3, EmptySeq DEF Emits

LEMMA LineBehind ==
    ASSUME NEW t, NEW q \in Nat \ {0}, NEW p, p = q + 1
    PROVE  BeginsLine(t, p) <=> t[q] = LF
<1>1. p # 1 /\ p - 1 = q
  OBVIOUS
<1> QED BY <1>1 DEF BeginsLine

\* prev_blank: the last character was a new line where a piece begins.
LEMMA PrevBlankIs ==
    ASSUME NEW C, NEW t \in Seq(C), NEW o, NEW p \in 0 .. Len(t)
    PROVE  CatUpTo(o, t)[p].prev_blank <=> p > 0 /\ t[p] = LF /\ BeginsPiece(t, p)
<1> DEFINE St(q) == CatUpTo(o, t)[q]
<1>1. CASE p = 0
  <2>1. St(0) = [prev_blank |-> FALSE, line |-> 1, out |-> <<>>]
    BY PortRuns
  <2>2. ~St(0).prev_blank
    BY <2>1
  <2> QED BY <1>1, <2>2
<1>2. CASE p # 0
  <2>1. p \in 1 .. Len(t) /\ p \in Nat \ {0} /\ Len(t) \in Nat
    BY <1>2, LenProperties
  <2>2. PICK b : b = PieceOf(t, p)
    OBVIOUS
  <2>3. b \in 1 .. p /\ BeginsPiece(t, b) /\ \A q \in b + 1 .. p : ~BeginsPiece(t, q)
    BY <2>1, <2>2, PieceIs
  <2>4. St(p) = NextPiece(o, St(b - 1), SubSeq(t, b, p))
    BY <2>1, <2>2, PortRuns
  <2>5. t[b] = LF <=> t[p] = LF /\ BeginsPiece(t, p)
    <3>1. CASE b = p
      BY <2>3, <3>1
    <3>2. CASE b # p
      <4>1. p \in b + 1 .. p /\ b + 1 \in b + 1 .. p /\ b + 1 - 1 = b
        BY <2>1, <2>3, <3>2
      <4>2. ~BeginsPiece(t, p) /\ ~BeginsLine(t, b + 1)
        BY <2>3, <4>1 DEF BeginsPiece
      <4>3. t[b] # LF
        <5>1. b \in Nat \ {0}
          BY <2>1, <2>3
        <5> QED BY <4>2, <5>1, LineBehind
      <4> QED BY <4>2, <4>3
    <3> QED BY <3>1, <3>2
  <2>6. PICK old : old = St(b - 1)
    OBVIOUS
  <2>7. PICK new : new = St(p)
    OBVIOUS
  <2>8. new = IF Squeezed(o, old, SubSeq(t, b, p)) THEN old ELSE PrintedAt(o, old, t, b, p)
    BY <2>1, <2>3, <2>4, <2>6, <2>7, PieceIsPrinted DEF NextPiece
  <2>9. CASE Squeezed(o, old, SubSeq(t, b, p))
    <3>1. new = old /\ t[b] = LF /\ old.prev_blank
      BY <2>1, <2>3, <2>8, <2>9, PieceIsPrinted
    <3> QED BY <2>1, <2>5, <2>7, <3>1
  <2>10. CASE ~Squeezed(o, old, SubSeq(t, b, p))
    <3>1. new.prev_blank <=> t[b] = LF
      BY <2>8, <2>10 DEF PrintedAt
    <3> QED BY <2>1, <2>5, <2>7, <3>1
  <2> QED BY <2>9, <2>10
<1> QED BY <1>1, <1>2

\* One character more.
LEMMA PortPrints ==
    ASSUME NEW C, NEW t \in Seq(C), NEW o, NEW p \in 1 .. Len(t)
    PROVE  LET old == CatUpTo(o, t)[p - 1]
               new == CatUpTo(o, t)[p]
           IN  /\ new.line = IF t[p] = LF /\ ~PortHides(o, t, p) THEN old.line + 1 ELSE old.line
               /\ new.out = old.out \o Emits(o, t[p], PortHides(o, t, p), PortNumbers(o, t, p), old.line)
<1> DEFINE St(q) == CatUpTo(o, t)[q]
           N == Len(t)
<1>1. N \in Nat /\ p \in 1 .. N /\ p \in Nat \ {0} /\ p - 1 \in 0 .. N
  BY LenProperties
<1>2. PICK b : b = PieceOf(t, p)
  OBVIOUS
<1>3. b \in 1 .. p /\ BeginsPiece(t, b) /\ \A q \in b + 1 .. p : ~BeginsPiece(t, q)
  BY <1>1, <1>2, PieceIs
<1>4. St(p) = NextPiece(o, St(b - 1), SubSeq(t, b, p))
  BY <1>1, <1>2, PortRuns
<1>5. PICK old : old = St(p - 1)
  OBVIOUS
<1>6. PICK new : new = St(p)
  OBVIOUS
<1>7. PICK T : T = Tokens(C)
  OBVIOUS
<1>8. PICK c : c = t[p]
  OBVIOUS
<1>9. c \in C
  BY <1>1, <1>8, ElementOfSeq
<1>10. old \in PortStates(C) /\ old.out \in Seq(T) /\ old.line \in Nat
  BY <1>1, <1>5, <1>7, PortRuns DEF PortStates
<1>11. CASE b = p
  <2>1. new = NextPiece(o, old, SubSeq(t, p, p))
    BY <1>4, <1>5, <1>6, <1>11
  <2>2. Squeezed(o, old, SubSeq(t, p, p)) <=> PortHides(o, t, p)
    <3>1. old.prev_blank <=> p > 1 /\ t[p - 1] = LF /\ BeginsPiece(t, p - 1)
      <4>1. old.prev_blank <=> p - 1 > 0 /\ t[p - 1] = LF /\ BeginsPiece(t, p - 1)
        BY <1>1, <1>5, PrevBlankIs
      <4>2. p - 1 > 0 <=> p > 1
        BY <1>1
      <4> QED BY <4>1, <4>2
    <3>2. p \in 1 .. p
      BY <1>1
    <3>3. Squeezed(o, old, SubSeq(t, p, p)) <=> "s" \in o /\ t[p] = LF /\ old.prev_blank
      BY <1>1, <3>2, PieceIsPrinted
    <3> QED BY <3>1, <3>3 DEF PortHides
  <2>3. CASE PortHides(o, t, p)
    <3>1. new = old
      BY <2>1, <2>2, <2>3 DEF NextPiece
    <3>2. old.out \o <<>> = old.out
      BY <1>10, ConcatEmptySeq
    <3> QED BY <1>5, <1>6, <2>3, <3>1, <3>2 DEF Emits
  <2>4. CASE ~PortHides(o, t, p)
    <3>1. new = PrintedAt(o, old, t, p, p)
      <4>1. p \in 1 .. p
        BY <1>1
      <4> QED BY <1>1, <2>1, <2>2, <2>4, <4>1, PieceIsPrinted DEF NextPiece
    <3>2. PortNumbers(o, t, p) <=> Numbered(o, c)
      BY <1>3, <1>8, <1>11 DEF PortNumbers
    <3>3. PICK n : n = NumberIf(Numbered(o, c), old.line)
      OBVIOUS
    <3>4. NumberIf(PortNumbers(o, t, p), old.line) = n
      BY <3>2, <3>3 DEF NumberIf
    <3>5. n \in Seq(T) /\ Shown(o, c) \in Seq(T)
      BY <1>7, <1>9, <1>10, <3>3, EmitsKnown
    <3>6. old.out \o n \in Seq(T)
      BY <1>10, <3>5, ConcatProperties
    <3>7. /\ new.line = IF c = LF THEN old.line + 1 ELSE old.line
          /\ new.out = old.out \o n \o TextOf(t, p, IF c = LF THEN p - 1 ELSE p)
                               \o (IF c = LF THEN NewLine(o) ELSE <<>>)
      BY <1>8, <3>1, <3>3 DEF PrintedAt
    <3>8. p \in p .. Len(t) /\ p \in 1 .. Len(t)
      BY <1>1
    <3>9. new.out = (old.out \o n) \o Shown(o, c)
      <4>1. TextOf(t, p, p) = TextOf(t, p, p - 1) \o <<Put(t[p])>> /\ TextOf(t, p, p - 1) = <<>>
        BY <3>8, TextGrows
      <4>2. CASE c = LF
        <5>1. (old.out \o n) \o <<>> = old.out \o n
          BY <3>6, ConcatEmptySeq
        <5> QED BY <3>7, <4>1, <4>2, <5>1 DEF Shown
      <4>3. CASE c # LF
        <5>1. Shown(o, c) = <<Put(c)>>
          BY <4>3 DEF Shown
        <5>2. <<>> \o Shown(o, c) = Shown(o, c)
          BY <3>5, ConcatEmptySeq
        <5>3. TextOf(t, p, p) = Shown(o, c)
          BY <1>8, <4>1, <5>1, <5>2
        <5>4. (old.out \o n) \o Shown(o, c) \in Seq(T)
          BY <3>5, <3>6, ConcatProperties
        <5>5. ((old.out \o n) \o Shown(o, c)) \o <<>> = (old.out \o n) \o Shown(o, c)
          BY <5>4, ConcatEmptySeq
        <5> QED BY <3>7, <4>3, <5>3, <5>5
      <4> QED BY <4>2, <4>3
    <3>10. (old.out \o n) \o Shown(o, c) = old.out \o (n \o Shown(o, c))
      <4>1. PICK u \in Seq(T) : u = old.out
        BY <1>10
      <4>2. PICK w \in Seq(T) : w = Shown(o, c)
        BY <3>5
      <4>3. (u \o n) \o w = u \o (n \o w)
        BY <3>5, ConcatAssociative
      <4> QED BY <4>1, <4>2, <4>3
    <3>11. Emits(o, c, PortHides(o, t, p), PortNumbers(o, t, p), old.line) = n \o Shown(o, c)
      BY <2>4, <3>4 DEF Emits
    <3> QED BY <1>5, <1>6, <1>8, <2>4, <3>7, <3>9, <3>10, <3>11
  <2> QED BY <2>3, <2>4
<1>12. CASE b # p
  <2>1. PICK q : q = p - 1
    OBVIOUS
  <2>2. /\ q \in 1 .. N /\ q \in Nat \ {0} /\ b \in 1 .. q /\ p \in b + 1 .. p /\ b + 1 \in b + 1 .. p
        /\ b + 1 - 1 = b /\ p # 1 /\ p > 1 /\ b + 1 # 1
    BY <1>1, <1>3, <1>12, <2>1
  <2>3. \A r \in b + 1 .. q : ~BeginsPiece(t, r)
    <3>1. \A r \in b + 1 .. q : r \in b + 1 .. p
      BY <1>1, <1>3, <2>1
    <3> QED BY <1>3, <3>1
  <2>4. PieceOf(t, q) = b
    BY <1>3, <2>2, <2>3, PieceUnique
  <2>5. PICK base : base = St(b - 1)
    OBVIOUS
  <2>6. base \in PortStates(C) /\ base.out \in Seq(T) /\ base.line \in Nat
    <3>1. b - 1 \in 0 .. N
      BY <1>1, <2>2
    <3> QED BY <1>7, <2>5, <3>1, PortRuns DEF PortStates
  <2>7. ~BeginsPiece(t, p) /\ t[b] # LF /\ t[q] # LF
    <3>1. ~BeginsPiece(t, p) /\ ~BeginsLine(t, p) /\ ~BeginsLine(t, b + 1)
      BY <1>3, <2>2 DEF BeginsPiece
    <3>2. b \in Nat \ {0} /\ q \in Nat \ {0} /\ p = q + 1
      BY <1>1, <1>3, <2>1, <2>2
    <3> QED BY <3>1, <3>2, LineBehind
  <2>8. old = PrintedAt(o, base, t, b, q)
    <3>1. old = NextPiece(o, base, SubSeq(t, b, q))
      BY <1>5, <2>1, <2>2, <2>4, <2>5, PortRuns
    <3> QED BY <2>2, <2>7, <3>1, PieceIsPrinted DEF NextPiece
  <2>9. new = PrintedAt(o, base, t, b, p)
    <3>1. new = NextPiece(o, base, SubSeq(t, b, p))
      BY <1>4, <1>6, <2>5
    <3> QED BY <1>1, <1>3, <2>7, <3>1, PieceIsPrinted DEF NextPiece
  <2>10. PICK h : h = base.out \o NumberIf(Numbered(o, t[b]), base.line)
    OBVIOUS
  <2>11. PICK x : x = TextOf(t, b, q)
    OBVIOUS
  <2>12. old.line = base.line /\ old.out = h \o x \o <<>>
    BY <2>7, <2>8, <2>10, <2>11 DEF PrintedAt
  <2>13. /\ new.line = IF c = LF THEN base.line + 1 ELSE base.line
         /\ new.out = h \o TextOf(t, b, IF c = LF THEN q ELSE p) \o (IF c = LF THEN NewLine(o) ELSE <<>>)
    BY <1>8, <2>1, <2>9, <2>10 DEF PrintedAt
  <2>14. h \in Seq(T) /\ x \in Seq(T) /\ h \o x \in Seq(T) /\ Shown(o, c) \in Seq(T)
    <3>1. t[b] \in C
      <4>1. b \in 1 .. Len(t)
        BY <1>1, <2>2
      <4> QED BY <4>1, ElementOfSeq
    <3>2. NumberIf(Numbered(o, t[b]), base.line) \in Seq(T)
      BY <1>7, <2>6, <3>1, EmitsKnown
    <3>3. h \in Seq(T)
      BY <2>6, <2>10, <3>2, ConcatProperties
    <3>4. b \in 1 .. Len(t) /\ q \in b - 1 .. Len(t)
      BY <1>1, <2>1, <2>2
    <3>5. x \in Seq(T)
      BY <1>7, <2>11, <3>4, TextKnown
    <3>6. Shown(o, c) \in Seq(T)
      BY <1>1, <1>7, <1>9, EmitsKnown
    <3> QED BY <3>3, <3>5, <3>6, ConcatProperties
  <2>15. old.out = h \o x
    <3>1. (h \o x) \o <<>> = h \o x
      BY <2>14, ConcatEmptySeq
    <3> QED BY <2>12, <3>1
  <2>16. new.out = (h \o x) \o Shown(o, c)
    <3>1. CASE c = LF
      BY <2>11, <2>13, <3>1 DEF Shown
    <3>2. CASE c # LF
      <4>1. b \in 1 .. Len(t) /\ p \in b .. Len(t)
        BY <1>1, <1>3
      <4>2. TextOf(t, b, p) = TextOf(t, b, p - 1) \o <<Put(t[p])>>
        BY <4>1, TextGrows
      <4>3. TextOf(t, b, p) = x \o Shown(o, c)
        BY <1>8, <2>1, <2>11, <3>2, <4>2 DEF Shown
      <4>4. new.out = h \o (x \o Shown(o, c)) \o <<>>
        BY <2>13, <3>2, <4>3
      <4>5. h \o (x \o Shown(o, c)) = (h \o x) \o Shown(o, c)
        BY <2>14, ConcatAssociative, SMTT(30)
      <4>6. (h \o x) \o Shown(o, c) \in Seq(T)
        BY <2>14, ConcatProperties
      <4>7. ((h \o x) \o Shown(o, c)) \o <<>> = (h \o x) \o Shown(o, c)
        BY <4>6, ConcatEmptySeq
      <4> QED BY <4>4, <4>5, <4>7
    <3> QED BY <3>1, <3>2
  <2>17. ~PortHides(o, t, p) /\ ~PortNumbers(o, t, p)
    BY <2>1, <2>7 DEF PortHides, PortNumbers
  <2>18. Emits(o, c, PortHides(o, t, p), PortNumbers(o, t, p), old.line) = Shown(o, c)
    <3>1. <<>> \o Shown(o, c) = Shown(o, c)
      BY <2>14, ConcatEmptySeq
    <3> QED BY <2>17, <3>1 DEF Emits, NumberIf
  <2> QED BY <1>5, <1>6, <1>8, <2>12, <2>13, <2>15, <2>16, <2>17, <2>18
<1> QED BY <1>11, <1>12

-----------------------------------------------------------------------------
(***************************************************************************)
(* What the original prints, character by character                        *)
(***************************************************************************)
OriginalStates(C) == [newlines : -1 .. 2, lines : Nat, out : Seq(Tokens(C))]

\* newlines after the character c.
NewlinesAfter(k, c) == IF c # LF THEN -1 ELSE IF k < 2 THEN k + 1 ELSE 2

Taken(o, st, c) ==
    LET newlines == NewlinesAfter(st.newlines, c)
        hidden   == c = LF /\ newlines = 2 /\ "s" \in o
        numbered == st.newlines >= 0 /\ Numbered(o, c)
    IN  [newlines |-> newlines,
         lines |-> IF numbered /\ ~hidden THEN st.lines + 1 ELSE st.lines,
         out |-> st.out \o Emits(o, c, hidden, numbered, st.lines + 1)]

LEMMA CharacterTaken ==
    ASSUME NEW C, NEW o, NEW c \in C, NEW st \in OriginalStates(C)
    PROVE  NextCharacter(o, st, c) = Taken(o, st, c) /\ Taken(o, st, c) \in OriginalStates(C)
<1>1. PICK T : T = Tokens(C)
  OBVIOUS
<1>2. PICK k : k = st.newlines
  OBVIOUS
<1>3. PICK n : n = st.lines
  OBVIOUS
<1>4. PICK s : s = st.out
  OBVIOUS
<1>5. k \in -1 .. 2 /\ n \in Nat /\ n + 1 \in Nat /\ s \in Seq(T)
        /\ st = [newlines |-> k, lines |-> n, out |-> s]
  BY <1>1, <1>2, <1>3, <1>4 DEF OriginalStates
<1>6. PICK newlines : newlines = NewlinesAfter(k, c)
  OBVIOUS
<1>7. newlines \in -1 .. 2
  BY <1>5, <1>6 DEF NewlinesAfter
<1>8. ASSUME NEW hidden, NEW numbered PROVE s \o Emits(o, c, hidden, numbered, n + 1) \in Seq(T)
  BY <1>1, <1>5, EmitsKnown, ConcatProperties
<1>9. Taken(o, st, c) \in OriginalStates(C)
  <2>1. PICK out : out = s \o Emits(o, c, c = LF /\ newlines = 2 /\ "s" \in o, k >= 0 /\ Numbered(o, c), n + 1)
    OBVIOUS
  <2>2. out \in Seq(T)
    BY <1>8, <2>1
  <2>3. Taken(o, st, c) = [newlines |-> newlines,
                           lines |-> IF (k >= 0 /\ Numbered(o, c)) /\ ~(c = LF /\ newlines = 2 /\ "s" \in o)
                                     THEN n + 1 ELSE n,
                           out |-> out]
    BY <1>2, <1>3, <1>4, <1>6, <2>1 DEF Taken
  <2> QED BY <1>1, <1>5, <1>7, <2>2, <2>3 DEF OriginalStates
<1>10. ASSUME NEW old \in OriginalStates(C), old.lines = n, old.out = s, NEW numbered \in BOOLEAN
       PROVE  /\ WithNumber(old, numbered).newlines = old.newlines
              /\ WithNumber(old, numbered).lines = IF numbered THEN n + 1 ELSE n
              /\ WithNumber(old, numbered).out = s \o NumberIf(numbered, n + 1)
              /\ WithNumber(old, numbered) \in OriginalStates(C)
  <2>1. Append(s, Number(n + 1)) = s \o <<Number(n + 1)>> /\ s \o <<>> = s
        /\ Append(s, Number(n + 1)) \in Seq(T)
    BY <1>1, <1>5, TokensKnown, AppendIsConcat, ConcatEmptySeq, AppendProperties
  <2>2. WithNumber(old, numbered) =
            [newlines |-> old.newlines, lines |-> IF numbered THEN n + 1 ELSE n,
             out |-> IF numbered THEN Append(s, Number(n + 1)) ELSE s]
    BY <1>10 DEF WithNumber, OriginalStates
  <2> QED BY <1>1, <1>5, <1>10, <2>1, <2>2 DEF NumberIf, OriginalStates
<1>11. CASE c = LF
  <2>1. newlines = IF k < 2 THEN k + 1 ELSE 2
    BY <1>6, <1>11 DEF NewlinesAfter
  <2>2. PICK counted : counted = [newlines |-> newlines, lines |-> n, out |-> s]
    OBVIOUS
  <2>3. [st EXCEPT !.newlines = newlines] = counted
    BY <1>5, <2>2
  <2>4. counted \in OriginalStates(C) /\ counted.lines = n /\ counted.out = s /\ counted.newlines = newlines
    BY <1>1, <1>5, <1>7, <2>2 DEF OriginalStates
  <2>5. PICK numbered \in BOOLEAN : numbered <=> newlines > 0 /\ "n" \in o
    OBVIOUS
  <2>6. numbered <=> k >= 0 /\ Numbered(o, c)
    BY <1>5, <1>11, <2>1, <2>5 DEF Numbered
  <2>7. PICK with : with = WithNumber(counted, numbered)
    OBVIOUS
  <2>8. /\ with.newlines = newlines /\ with.lines = IF numbered THEN n + 1 ELSE n
        /\ with.out = s \o NumberIf(numbered, n + 1) /\ with \in OriginalStates(C)
    BY <1>10, <2>4, <2>7
  <2>9. NextCharacter(o, st, c) = IF newlines = 2 /\ "s" \in o THEN counted
                                  ELSE [with EXCEPT !.out = @ \o NewLine(o)]
    <3>1. WithNumber(counted, newlines > 0 /\ "n" \in o) = with
      BY <2>5, <2>7 DEF WithNumber
    <3> QED BY <1>2, <1>11, <2>1, <2>3, <3>1 DEF NextCharacter, RealNewline
  <2>10. CASE newlines = 2 /\ "s" \in o
    <3>1. s \o <<>> = s
      BY <1>5, ConcatEmptySeq
    <3>2. Taken(o, st, c) = counted
      BY <1>2, <1>3, <1>4, <1>6, <1>11, <2>2, <2>10, <3>1 DEF Taken, Emits
    <3> QED BY <1>9, <2>9, <2>10, <3>2
  <2>11. CASE ~(newlines = 2 /\ "s" \in o)
    <3>1. [with EXCEPT !.out = @ \o NewLine(o)] =
              [newlines |-> newlines, lines |-> IF numbered THEN n + 1 ELSE n,
               out |-> (s \o NumberIf(numbered, n + 1)) \o NewLine(o)]
      <4>1. PICK w : w = with.out
        OBVIOUS
      <4>2. PICK e : e = NewLine(o)
        OBVIOUS
      <4>3. PICK l : l = with.lines
        OBVIOUS
      <4>4. with = [newlines |-> newlines, lines |-> l, out |-> w]
        BY <2>8, <4>1, <4>3 DEF OriginalStates
      <4>5. PICK we : we = w \o e
        OBVIOUS
      <4>6. with \in OriginalStates(C) /\ we \in Seq(T) /\ w \in Seq(T)
        <5>1. with \in OriginalStates(C) /\ w \in Seq(T)
          BY <1>1, <2>8, <4>1 DEF OriginalStates
        <5>2. e \in Seq(T)
          BY <1>1, <4>2, TokensKnown
        <5> QED BY <4>5, <5>1, <5>2, ConcatProperties
      <4>7. [with EXCEPT !.out = we] = [newlines |-> newlines, lines |-> l, out |-> we]
        BY <1>1, <4>4, <4>6 DEF OriginalStates
      <4> QED BY <2>8, <4>1, <4>2, <4>3, <4>5, <4>7
    <3>2. (s \o NumberIf(numbered, n + 1)) \o NewLine(o) = s \o (NumberIf(numbered, n + 1) \o NewLine(o))
      BY <1>1, <1>5, EmitsKnown, TokensKnown, ConcatAssociative
    <3>3. Emits(o, c, FALSE, numbered, n + 1) = NumberIf(numbered, n + 1) \o NewLine(o)
      BY <1>11 DEF Emits, Shown
    <3>4. Taken(o, st, c) = [newlines |-> newlines, lines |-> IF numbered THEN n + 1 ELSE n,
                             out |-> s \o Emits(o, c, FALSE, numbered, n + 1)]
      BY <1>2, <1>3, <1>4, <1>6, <2>6, <2>11 DEF Taken, Emits, NumberIf
    <3> QED BY <1>9, <2>9, <2>11, <3>1, <3>2, <3>3, <3>4
  <2> QED BY <2>10, <2>11
<1>12. CASE c # LF
  <2>1. newlines = -1
    BY <1>6, <1>12 DEF NewlinesAfter
  <2>2. PICK numbered \in BOOLEAN : numbered <=> k >= 0 /\ Numbered(o, c)
    OBVIOUS
  <2>3. Numbered(o, c) <=> o \cap {"n", "b"} # {}
    BY <1>12 DEF Numbered
  <2>4. PICK with : with = WithNumber(st, numbered)
    OBVIOUS
  <2>5. /\ with.lines = IF numbered THEN n + 1 ELSE n
        /\ with.out = s \o NumberIf(numbered, n + 1) /\ with \in OriginalStates(C)
    BY <1>3, <1>4, <1>10, <2>4
  <2>6. NextCharacter(o, st, c) =
            [newlines |-> -1, lines |-> with.lines, out |-> Append(with.out, Put(c))]
    <3>1. WithNumber(st, st.newlines >= 0 /\ o \cap {"n", "b"} # {}) = with
      BY <1>2, <2>2, <2>3, <2>4 DEF WithNumber
    <3> QED BY <1>12, <3>1 DEF NextCharacter, OtherCharacter
  <2>7. PICK out : out = s \o NumberIf(numbered, n + 1)
    OBVIOUS
  <2>8. out \in Seq(T)
    BY <1>1, <1>5, <2>7, EmitsKnown, ConcatProperties
  <2>9. Append(out, Put(c)) = out \o <<Put(c)>>
    BY <1>1, <2>8, TokensKnown, AppendIsConcat
  <2>10. [newlines |-> -1, lines |-> with.lines, out |-> Append(with.out, Put(c))] =
              [newlines |-> -1, lines |-> IF numbered THEN n + 1 ELSE n, out |-> Append(out, Put(c))]
    BY <2>5, <2>7
  <2>11. out \o <<Put(c)>> = s \o (NumberIf(numbered, n + 1) \o <<Put(c)>>)
    BY <1>1, <1>5, <2>7, EmitsKnown, TokensKnown, ConcatAssociative
  <2>12. Emits(o, c, FALSE, numbered, n + 1) = NumberIf(numbered, n + 1) \o <<Put(c)>>
    BY <1>12 DEF Emits, Shown
  <2>13. Taken(o, st, c) = [newlines |-> -1, lines |-> IF numbered THEN n + 1 ELSE n,
                            out |-> s \o Emits(o, c, FALSE, numbered, n + 1)]
    BY <1>2, <1>3, <1>4, <1>6, <1>12, <2>1, <2>2 DEF Taken, Emits, NumberIf
  <2> QED BY <1>9, <2>6, <2>9, <2>10, <2>11, <2>12, <2>13
<1> QED BY <1>11, <1>12

\* The recursion of OriginalUpTo has a solution.
LEMMA OriginalRuns ==
    ASSUME NEW C, NEW t \in Seq(C), NEW o
    PROVE  LET st(p) == OriginalUpTo(o, t)[p]
           IN  /\ st(0) = [newlines |-> 0, lines |-> 0, out |-> <<>>]
               /\ \A p \in 0 .. Len(t) : st(p) \in OriginalStates(C)
               /\ \A p \in 1 .. Len(t) : st(p) = Taken(o, st(p - 1), t[p])
<1> DEFINE N == Len(t)
           S == OriginalStates(C)
           Start == [newlines |-> 0, lines |-> 0, out |-> <<>>]
           Step(p, st) == NextCharacter(o, st, t[p])
<1>1. N \in Nat /\ \A p \in 1 .. N : t[p] \in C
  BY LenProperties, ElementOfSeq
<1>2. PICK G : G = [p \in 1 .. N |-> [st \in S |-> Step(p, st)]]
  OBVIOUS
<1>3. PICK B : B = [p \in 1 .. N |-> p - 1]
  OBVIOUS
<1>4. G \in [1 .. N -> [S -> S]]
  <2>1. ASSUME NEW p \in 1 .. N, NEW st \in S PROVE Step(p, st) \in S
    BY <1>1, CharacterTaken
  <2> HIDE DEF Step, S
  <2> QED BY <1>2, <2>1
<1>5. GoesBack(B, N) /\ \A p \in 1 .. N : B[p] = p - 1 /\ p - 1 \in 0 .. N
  BY <1>1, <1>3 DEF GoesBack
<1>6. Start \in S
  BY EmptySeq DEF OriginalStates
<1>7. PICK f \in [0 .. N -> S] : Obeys(f, Start, G, B, N)
  <2> HIDE DEF N, S, Start
  <2> QED BY <1>1, <1>4, <1>5, <1>6, RecursionHasSolution
<1>8. f[0] = Start /\ \A p \in 1 .. N : f[p] = Step(p, f[p - 1])
  <2>1. ASSUME NEW p \in 1 .. N PROVE f[p] = Step(p, f[p - 1])
    <3>1. f[p] = G[p][f[B[p]]]
      BY <1>7 DEF Obeys
    <3>2. f[p - 1] \in S /\ B[p] = p - 1
      BY <1>5, <1>7
    <3> HIDE DEF Step, S
    <3>3. G[p] = [st \in S |-> Step(p, st)]
      BY <1>2
    <3> QED BY <3>1, <3>2, <3>3
  <2> QED BY <1>7, <2>1 DEF Obeys
<1> DEFINE Solves(h) ==
        h = [p \in 0 .. N |->
                IF p = 0 THEN [newlines |-> 0, lines |-> 0, out |-> <<>>]
                ELSE NextCharacter(o, h[p - 1], t[p])]
<1>9. Solves(f)
  <2>1. \A p \in 0 .. N : p # 0 => p \in 1 .. N
    BY <1>1
  <2> QED BY <1>7, <1>8, <2>1
<1>10. OriginalUpTo(o, t) = CHOOSE h : Solves(h)
  BY DEF OriginalUpTo
<1>11. PICK h : h = OriginalUpTo(o, t)
  OBVIOUS
<1>12. Solves(h)
  BY <1>9, <1>10, <1>11
<1>13. h[0] = Start /\ \A p \in 1 .. N : h[p] = Step(p, h[p - 1])
  <2>1. 0 \in 0 .. N /\ \A p \in 1 .. N : p \in 0 .. N /\ p # 0
    BY <1>1
  <2>2. \A p \in 0 .. N : h[p] = IF p = 0 THEN Start ELSE Step(p, h[p - 1])
    BY <1>12
  <2> HIDE DEF Step, Start
  <2> QED BY <2>1, <2>2
<1>14. \A p \in 0 .. N : h[p] = f[p]
  <2>1. FollowsSuit(h, f, B, N)
    <3> HIDE DEF Step, Start
    <3> QED BY <1>5, <1>8, <1>13 DEF FollowsSuit
  <2> HIDE DEF N
  <2> QED BY <1>1, <1>5, <2>1, SolutionIsUnique
<1>15. \A p \in 0 .. N : h[p] \in S
  BY <1>7, <1>14
<1>16. ASSUME NEW p \in 1 .. N PROVE h[p] = Taken(o, h[p - 1], t[p])
  <2>1. h[p - 1] \in S /\ h[p] = NextCharacter(o, h[p - 1], t[p])
    BY <1>5, <1>13, <1>15
  <2> QED BY <1>1, <2>1, CharacterTaken
<1> QED BY <1>11, <1>13, <1>15, <1>16

\* How many new lines in a row end at p, as newlines counts them.
Row(t, p) ==
    IF p = 0 THEN 0
    ELSE IF t[p] # LF THEN -1
    ELSE IF ~BeginsLine(t, p) THEN 0
    ELSE IF p = 1 \/ ~BeginsLine(t, p - 1) THEN 1 ELSE 2

LEMMA RowGrows ==
    ASSUME NEW t, NEW p \in Nat \ {0}
    PROVE  Row(t, p) = NewlinesAfter(Row(t, p - 1), t[p])
<1>1. CASE p = 1
  BY <1>1 DEF Row, NewlinesAfter, BeginsLine
<1>2. CASE p # 1
  <2>1. PICK q : q = p - 1
    OBVIOUS
  <2>2. q \in Nat \ {0} /\ p = q + 1 /\ p # 0 /\ q # 0
    BY <1>2, <2>1
  <2>3. BeginsLine(t, p) <=> t[q] = LF
    BY <2>2, LineBehind
  <2>4. Row(t, p) = IF t[p] # LF THEN -1 ELSE IF t[q] # LF THEN 0
                    ELSE IF ~BeginsLine(t, q) THEN 1 ELSE 2
    BY <1>2, <2>1, <2>2, <2>3 DEF Row
  <2>5. Row(t, q) = IF t[q] # LF THEN -1 ELSE IF ~BeginsLine(t, q) THEN 0
                    ELSE IF q = 1 \/ ~BeginsLine(t, q - 1) THEN 1 ELSE 2
    BY <2>2 DEF Row
  <2> HIDE DEF BeginsLine
  <2>6. Row(t, p) = NewlinesAfter(Row(t, q), t[p])
    BY <2>4, <2>5 DEF NewlinesAfter
  <2> QED BY <2>1, <2>6
<1> QED BY <1>1, <1>2

LEMMA NewlinesAre ==
    ASSUME NEW C, NEW t \in Seq(C), NEW o, NEW p \in 0 .. Len(t)
    PROVE  OriginalUpTo(o, t)[p].newlines = Row(t, p)
<1> DEFINE St(q) == OriginalUpTo(o, t)[q]
           Bad == {q \in 0 .. Len(t) : St(q).newlines # Row(t, q)}
<1>1. Len(t) \in Nat
  BY LenProperties
<1>2. Bad = {}
  <2> SUFFICES ASSUME Bad # {} PROVE FALSE
    OBVIOUS
  <2>1. PICK q \in Bad : \A k \in Bad : q <= k
    <3>1. Bad \in SUBSET Nat
      BY <1>1
    <3> QED BY <3>1, LeastElement
  <2>2. q # 0
    <3>1. St(0) = [newlines |-> 0, lines |-> 0, out |-> <<>>]
      BY OriginalRuns
    <3>2. St(0).newlines = Row(t, 0)
      BY <3>1 DEF Row
    <3> QED BY <2>1, <3>2
  <2>3. q \in 1 .. Len(t) /\ q - 1 \in 0 .. Len(t) /\ q \in Nat \ {0} /\ ~(q <= q - 1)
    BY <1>1, <2>1, <2>2
  <2>4. St(q - 1).newlines = Row(t, q - 1)
    BY <2>1, <2>3
  <2>5. St(q) = Taken(o, St(q - 1), t[q])
    BY <2>3, OriginalRuns
  <2>6. St(q).newlines = NewlinesAfter(St(q - 1).newlines, t[q])
    BY <2>5 DEF Taken
  <2>7. St(q).newlines = Row(t, q)
    BY <2>3, <2>4, <2>6, RowGrows
  <2> QED BY <2>1, <2>7
<1> QED BY <1>2

\* One character more.
LEMMA OriginalPrints ==
    ASSUME NEW C, NEW t \in Seq(C), NEW o, NEW p \in 1 .. Len(t)
    PROVE  LET old == OriginalUpTo(o, t)[p - 1]
               new == OriginalUpTo(o, t)[p]
           IN  /\ new.lines = IF OriginalNumbers(o, t, p) /\ ~OriginalHides(o, t, p)
                              THEN old.lines + 1 ELSE old.lines
               /\ new.out = old.out \o Emits(o, t[p], OriginalHides(o, t, p),
                                             OriginalNumbers(o, t, p), old.lines + 1)
<1>1. PICK old : old = OriginalUpTo(o, t)[p - 1]
  OBVIOUS
<1>2. PICK new : new = OriginalUpTo(o, t)[p]
  OBVIOUS
<1>3. Len(t) \in Nat /\ p - 1 \in 0 .. Len(t) /\ p \in 0 .. Len(t) /\ p \in Nat \ {0}
  BY LenProperties
<1>4. new = Taken(o, old, t[p]) /\ old.newlines = Row(t, p - 1) /\ new.newlines = Row(t, p)
  BY <1>1, <1>2, <1>3, OriginalRuns, NewlinesAre
<1>5. NewlinesAfter(old.newlines, t[p]) = Row(t, p)
  BY <1>3, <1>4, RowGrows
<1>6. Row(t, p - 1) >= 0 <=> BeginsLine(t, p)
  <2>1. CASE p = 1
    BY <2>1 DEF Row, BeginsLine
  <2>2. CASE p # 1
    BY <1>3, <2>2 DEF Row, BeginsLine
  <2> QED BY <2>1, <2>2
<1>7. OriginalHides(o, t, p) <=> t[p] = LF /\ Row(t, p) = 2 /\ "s" \in o
  BY <1>3 DEF Row, BeginsLine, OriginalHides
<1>8. PICK h \in BOOLEAN : h <=> OriginalHides(o, t, p)
  OBVIOUS
<1>9. PICK n \in BOOLEAN : n <=> OriginalNumbers(o, t, p)
  OBVIOUS
<1>10. /\ h <=> (t[p] = LF /\ NewlinesAfter(old.newlines, t[p]) = 2 /\ "s" \in o)
       /\ n <=> (old.newlines >= 0 /\ Numbered(o, t[p]))
  BY <1>4, <1>5, <1>6, <1>7, <1>8, <1>9 DEF OriginalNumbers
<1>11. /\ new.lines = IF n /\ ~h THEN old.lines + 1 ELSE old.lines
       /\ new.out = old.out \o Emits(o, t[p], h, n, old.lines + 1)
  BY <1>4, <1>10 DEF Taken, Emits, NumberIf
<1>12. Emits(o, t[p], h, n, old.lines + 1) =
          Emits(o, t[p], OriginalHides(o, t, p), OriginalNumbers(o, t, p), old.lines + 1)
  BY <1>8, <1>9 DEF Emits, NumberIf
<1> QED BY <1>1, <1>2, <1>8, <1>9, <1>11, <1>12

-----------------------------------------------------------------------------
(***************************************************************************)
(* Where the two differ                                                    *)
(***************************************************************************)
LEMMA OutputsKnown ==
    ASSUME NEW C, NEW t \in Seq(C), NEW o
    PROVE  /\ \A p \in 0 .. Len(t) :
                 /\ CatUpTo(o, t)[p].out \in Seq(Tokens(C)) /\ CatUpTo(o, t)[p].line \in Nat
                 /\ OriginalUpTo(o, t)[p].out \in Seq(Tokens(C)) /\ OriginalUpTo(o, t)[p].lines \in Nat
           /\ CatUpTo(o, t)[0].out = <<>> /\ CatUpTo(o, t)[0].line = 1
           /\ OriginalUpTo(o, t)[0].out = <<>> /\ OriginalUpTo(o, t)[0].lines = 0
<1>1. \A p \in 0 .. Len(t) :
         CatUpTo(o, t)[p].out \in Seq(Tokens(C)) /\ CatUpTo(o, t)[p].line \in Nat
  BY PortRuns DEF PortStates
<1>2. \A p \in 0 .. Len(t) :
         OriginalUpTo(o, t)[p].out \in Seq(Tokens(C)) /\ OriginalUpTo(o, t)[p].lines \in Nat
  BY OriginalRuns DEF OriginalStates
<1>3. CatUpTo(o, t)[0] = [prev_blank |-> FALSE, line |-> 1, out |-> <<>>]
  BY PortRuns
<1>4. OriginalUpTo(o, t)[0] = [newlines |-> 0, lines |-> 0, out |-> <<>>]
  BY OriginalRuns
<1> QED BY <1>1, <1>2, <1>3, <1>4

\* What the original leaves out the port leaves out too: an empty line that is
\* not the first.
LEMMA HidingKnown ==
    ASSUME NEW C, NEW t \in Seq(C), NEW o, NEW p \in 1 .. Len(t)
    PROVE  /\ OriginalHides(o, t, p) => PortHides(o, t, p)
           /\ PortHides(o, t, p) => t[p] = LF /\ BeginsLine(t, p) /\ p > 1
           /\ OriginalNumbers(o, t, p) => PortNumbers(o, t, p)
BY DEF OriginalHides, PortHides, OriginalNumbers, PortNumbers, BeginsPiece, BeginsLine

HidesMore(o, t) == \E p \in 1 .. Len(t) : PortHides(o, t, p) /\ ~OriginalHides(o, t, p)

LEMMA HidesMoreIs ==
    ASSUME NEW C, NEW t \in Seq(C), NEW o
    PROVE  HidesMore(o, t) <=> "s" \in o /\ \E p \in Cuts(t) : t[p] = LF /\ p + 1 \in EmptyLines(t)
<1>1. Len(t) \in Nat /\ DOMAIN t = 1 .. Len(t)
  BY LenProperties
<1>2. ASSUME NEW p \in 1 .. Len(t), PortHides(o, t, p), ~OriginalHides(o, t, p)
      PROVE  "s" \in o /\ \E q \in Cuts(t) : t[q] = LF /\ q + 1 \in EmptyLines(t)
  <2>1. PICK q : q = p - 1
    OBVIOUS
  <2>2. "s" \in o /\ t[p] = LF /\ p > 1 /\ t[q] = LF /\ BeginsPiece(t, q) /\ ~BeginsLine(t, q)
    BY <1>2, <2>1 DEF PortHides, OriginalHides
  <2>3. q \in 1 .. Len(t) /\ q + 1 = p
    BY <1>1, <2>1, <2>2
  <2>4. q \in Cuts(t)
    BY <1>1, <2>2, <2>3 DEF Cuts, BeginsPiece
  <2>5. p \in EmptyLines(t)
    BY <1>1, <1>2, HidingKnown DEF EmptyLines
  <2> QED BY <2>2, <2>3, <2>4, <2>5
<1>3. ASSUME "s" \in o, NEW q \in Cuts(t), t[q] = LF, q + 1 \in EmptyLines(t)
      PROVE  HidesMore(o, t)
  <2>1. PICK p : p = q + 1
    OBVIOUS
  <2>2. q \in 1 .. Len(t) /\ BeginsPiece(t, q) /\ ~BeginsLine(t, q)
    BY <1>1 DEF Cuts, BeginsPiece
  <2>3. p \in 1 .. Len(t) /\ t[p] = LF
    BY <1>1, <1>3, <2>1 DEF EmptyLines
  <2>4. p > 1 /\ p - 1 = q
    BY <1>1, <2>1, <2>2
  <2>5. PortHides(o, t, p) /\ ~OriginalHides(o, t, p)
    BY <1>3, <2>2, <2>3, <2>4 DEF PortHides, OriginalHides
  <2> QED BY <2>3, <2>5 DEF HidesMore
<1> QED BY <1>2, <1>3 DEF HidesMore

-----------------------------------------------------------------------------
\* How many characters there are among the tokens of s.
IsPut(x) == \E c : x = Put(c)
Spots(s) == {i \in 1 .. Len(s) : IsPut(s[i])}
Count(s) == Cardinality(Spots(s))
AsNumber(b) == IF b THEN 1 ELSE 0

LEMMA CountOneMore ==
    ASSUME NEW T, NEW s \in Seq(T), NEW x \in T
    PROVE  /\ Count(s) \in Nat
           /\ Count(s \o <<x>>) = Count(s) + AsNumber(IsPut(x))
           /\ s \o <<x>> \in Seq(T)
<1>1. PICK n : n = Len(s)
  OBVIOUS
<1>2. n \in Nat
  BY <1>1, LenProperties
<1>3. PICK r : r = s \o <<x>>
  OBVIOUS
<1>4. /\ r \in Seq(T) /\ Len(r) = n + 1 /\ r[n + 1] = x
      /\ \A i \in 1 .. n : r[i] = s[i]
  <2>1. r = Append(s, x)
    BY <1>3, AppendIsConcat
  <2> QED BY <1>1, <2>1, AppendProperties
<1>5. IsFiniteSet(1 .. n) /\ Spots(s) \subseteq 1 .. n
  BY <1>1, <1>2, FS_Interval DEF Spots
<1>6. IsFiniteSet(Spots(s)) /\ n + 1 \notin Spots(s)
  BY <1>2, <1>5, FS_Subset
<1>7. Spots(r) = IF IsPut(x) THEN Spots(s) \cup {n + 1} ELSE Spots(s)
  <2>1. 1 .. n + 1 = 1 .. n \cup {n + 1}
    BY <1>2
  <2> HIDE DEF IsPut
  <2> QED BY <1>1, <1>4, <2>1 DEF Spots
<1>8. Count(s) \in Nat
  BY <1>6, FS_CardinalityType DEF Count
<1>9. Count(r) = Count(s) + AsNumber(IsPut(x))
  <2>1. Cardinality(Spots(s) \cup {n + 1}) = Cardinality(Spots(s)) + 1
    BY <1>6, FS_AddElement
  <2> QED BY <1>7, <1>8, <2>1 DEF Count, AsNumber
<1> QED BY <1>3, <1>4, <1>8, <1>9

LEMMA PairIs ==
    ASSUME NEW S, NEW u \in S, NEW v \in S
    PROVE  <<u, v>> = <<u>> \o <<v>>
<1>1. PICK r : r = <<u>> \o <<v>>
  OBVIOUS
<1>2. <<u>> \in Seq(S) /\ Len(<<u>>) = 1 /\ <<u>>[1] = u /\ <<v>> \in Seq(S) /\ Len(<<v>>) = 1 /\ <<v>>[1] = v
  BY OneToken
<1>3. /\ r \in Seq(S) /\ Len(r) = Len(<<u>>) + Len(<<v>>)
      /\ \A i \in 1 .. Len(<<u>>) + Len(<<v>>) :
            r[i] = IF i <= Len(<<u>>) THEN <<u>>[i] ELSE <<v>>[i - Len(<<u>>)]
  BY <1>1, <1>2, ConcatProperties
<1>4. Len(r) = 2 /\ r[1] = u /\ r[2] = v
  BY <1>2, <1>3
<1>5. PICK q : q = <<u, v>>
  OBVIOUS
<1>6. q \in Seq(S) /\ Len(q) = 2 /\ q[1] = u /\ q[2] = v
  BY <1>5
<1>7. \A i \in 1 .. Len(r) : r[i] = q[i]
  <2>1. \A i \in 1 .. 2 : i = 1 \/ i = 2
    OBVIOUS
  <2> QED BY <1>4, <1>6, <2>1
<1>8. r = q
  BY <1>3, <1>4, <1>6, <1>7, SeqEqual
<1> QED BY <1>1, <1>5, <1>8

Width(o, c) == IF c = LF /\ "E" \in o THEN 2 ELSE 1

LEMMA CountShown ==
    ASSUME NEW C, NEW c \in C, NEW o, NEW s \in Seq(Tokens(C))
    PROVE  Count(s \o Shown(o, c)) = Count(s) + Width(o, c)
<1>1. PICK T : T = Tokens(C)
  OBVIOUS
<1>2. Put(c) \in T /\ Put(LF) \in T /\ Put("$") \in T
  BY <1>1 DEF Tokens
<1>3. IsPut(Put(c)) /\ IsPut(Put(LF)) /\ IsPut(Put("$"))
  BY DEF IsPut
<1>4. ASSUME NEW x \in T, IsPut(x), NEW r \in Seq(T)
      PROVE  Count(r) \in Nat /\ Count(r \o <<x>>) = Count(r) + 1 /\ r \o <<x>> \in Seq(T)
  BY <1>4, CountOneMore DEF AsNumber
<1>5. s \in Seq(T)
  BY <1>1
<1>6. CASE c # LF
  BY <1>2, <1>3, <1>4, <1>5, <1>6 DEF Shown, Width
<1>7. CASE c = LF /\ "E" \notin o
  BY <1>2, <1>3, <1>4, <1>5, <1>7 DEF Shown, Width, NewLine
<1>8. CASE c = LF /\ "E" \in o
  <2>1. PICK x \in T : x = Put("$")
    BY <1>2
  <2>2. PICK y \in T : y = Put(LF)
    BY <1>2
  <2>4. <<x, y>> = <<x>> \o <<y>>
    BY PairIs
  <2>5. <<x>> \in Seq(T) /\ <<y>> \in Seq(T)
    BY OneToken
  <2>6. s \o (<<x>> \o <<y>>) = (s \o <<x>>) \o <<y>>
    BY <1>5, <2>5, ConcatAssociative
  <2>7. Shown(o, c) = <<x, y>>
    BY <1>8, <2>1, <2>2 DEF Shown, NewLine
  <2>8. /\ Count(s) \in Nat /\ Count(s \o <<x>>) = Count(s) + 1
        /\ Count((s \o <<x>>) \o <<y>>) = Count(s \o <<x>>) + 1
    BY <1>3, <1>4, <1>5, <2>1, <2>2
  <2>9. Count(s \o Shown(o, c)) = Count(s) + 2
    <3>1. s \o Shown(o, c) = (s \o <<x>>) \o <<y>>
      BY <2>4, <2>6, <2>7
    <3>2. PICK a, b, d : a = Count(s) /\ b = Count(s \o <<x>>) /\ d = Count((s \o <<x>>) \o <<y>>)
      OBVIOUS
    <3>3. a \in Nat /\ b = a + 1 /\ d = b + 1
      BY <2>8, <3>2
    <3>4. d = a + 2
      BY <3>3
    <3> QED BY <3>1, <3>2, <3>4
  <2> QED BY <1>8, <2>9 DEF Width
<1> QED BY <1>6, <1>7, <1>8

LEMMA CountEmits ==
    ASSUME NEW C, NEW c \in C, NEW o, NEW k \in Nat, NEW n, n = <<>> \/ n = <<Number(k)>>,
           NEW s \in Seq(Tokens(C))
    PROVE  Count(s \o (n \o Shown(o, c))) = Count(s) + Width(o, c)
<1>1. PICK T : T = Tokens(C)
  OBVIOUS
<1>2. s \in Seq(T) /\ Number(k) \in T /\ Put(c) \in T /\ <<Number(k)>> \in Seq(T)
  BY <1>1, TokensKnown
<1>3. Count(s) \in Nat
  BY <1>2, CountOneMore
<1>4. PICK x : x = Shown(o, c)
  OBVIOUS
<1>5. x \in Seq(T)
  BY <1>1, <1>4, EmitsKnown
<1>6. n \in Seq(T)
  BY <1>2, EmptySeq
<1>7. s \o (n \o x) = (s \o n) \o x
  BY <1>2, <1>5, <1>6, ConcatAssociative
<1>8. Count(s \o n) = Count(s) /\ s \o n \in Seq(T)
  <2>1. CASE n = <<>>
    BY <1>2, <2>1, ConcatEmptySeq
  <2>2. CASE n = <<Number(k)>>
    <3>1. ~IsPut(Number(k))
      BY TokensDiffer DEF IsPut
    <3>2. Count(s \o <<Number(k)>>) = Count(s) + 0
      BY <1>2, <3>1, CountOneMore DEF AsNumber
    <3> QED BY <1>2, <1>3, <1>6, <2>2, <3>2, ConcatProperties
  <2> QED BY <2>1, <2>2
<1>9. Count((s \o n) \o x) = Count(s \o n) + Width(o, c)
  BY <1>1, <1>4, <1>8, CountShown
<1> QED BY <1>4, <1>7, <1>8, <1>9

\* A line that only the port leaves out is missing.
LEMMA LessIsPrinted ==
    ASSUME NEW C, NEW t \in Seq(C), NEW o, HidesMore(o, t)
    PROVE  CatFile(o, t) # OriginalCat(o, t)
<1> DEFINE N == Len(t)
           P(p) == Count(CatUpTo(o, t)[p].out)
           O(p) == Count(OriginalUpTo(o, t)[p].out)
<1>1. N \in Nat /\ \A p \in 1 .. N : t[p] \in C /\ p - 1 \in 0 .. N
  BY LenProperties, ElementOfSeq
<1>2. PICK h \in 1 .. N : PortHides(o, t, h) /\ ~OriginalHides(o, t, h)
  BY DEF HidesMore
<1>3. ASSUME NEW p \in 1 .. N
      PROVE  /\ P(p - 1) \in Nat /\ O(p - 1) \in Nat
             /\ P(p) = IF PortHides(o, t, p) THEN P(p - 1) ELSE P(p - 1) + Width(o, t[p])
             /\ O(p) = IF OriginalHides(o, t, p) THEN O(p - 1) ELSE O(p - 1) + Width(o, t[p])
  <2>1. PICK s : s = CatUpTo(o, t)[p - 1]
    OBVIOUS
  <2>2. PICK r : r = OriginalUpTo(o, t)[p - 1]
    OBVIOUS
  <2>3. s.out \in Seq(Tokens(C)) /\ s.line \in Nat /\ r.out \in Seq(Tokens(C)) /\ r.lines + 1 \in Nat
    BY <1>1, <2>1, <2>2, OutputsKnown
  <2>4. PICK m : m = NumberIf(PortNumbers(o, t, p), s.line)
    OBVIOUS
  <2>5. PICK n : n = NumberIf(OriginalNumbers(o, t, p), r.lines + 1)
    OBVIOUS
  <2>6. PICK u, v, c, j, k : u = s.out /\ v = r.out /\ c = t[p] /\ j = s.line /\ k = r.lines + 1
    OBVIOUS
  <2>7. /\ c \in C /\ j \in Nat /\ k \in Nat /\ u \in Seq(Tokens(C)) /\ v \in Seq(Tokens(C))
        /\ m = <<>> \/ m = <<Number(j)>>
        /\ n = <<>> \/ n = <<Number(k)>>
    BY <1>1, <2>3, <2>4, <2>5, <2>6 DEF NumberIf
  <2>8. /\ Count(u \o (m \o Shown(o, c))) = Count(u) + Width(o, c)
        /\ Count(v \o (n \o Shown(o, c))) = Count(v) + Width(o, c)
    BY <2>7, CountEmits
  <2>9. u \o <<>> = u /\ v \o <<>> = v /\ Count(u) \in Nat /\ Count(v) \in Nat
    <3>1. Put(LF) \in Tokens(C)
      BY DEF Tokens
    <3> QED BY <2>7, <3>1, ConcatEmptySeq, CountOneMore
  <2>10. CatUpTo(o, t)[p].out = u \o (IF PortHides(o, t, p) THEN <<>> ELSE m \o Shown(o, c))
    BY <2>1, <2>4, <2>6, PortPrints DEF Emits
  <2>11. OriginalUpTo(o, t)[p].out = v \o (IF OriginalHides(o, t, p) THEN <<>> ELSE n \o Shown(o, c))
    BY <2>2, <2>5, <2>6, OriginalPrints DEF Emits
  <2>12. P(p) = IF PortHides(o, t, p) THEN Count(u) ELSE Count(u) + Width(o, c)
    BY <2>8, <2>9, <2>10
  <2>13. O(p) = IF OriginalHides(o, t, p) THEN Count(v) ELSE Count(v) + Width(o, c)
    BY <2>8, <2>9, <2>11
  <2> QED BY <2>1, <2>2, <2>6, <2>9, <2>12, <2>13
<1>4. P(0) = O(0)
  BY OutputsKnown
<1> DEFINE Fine(p) == P(p) <= O(p) /\ (h <= p => P(p) < O(p))
           Bad == {p \in 0 .. N : ~Fine(p)}
<1>5. Bad = {}
  <2> SUFFICES ASSUME Bad # {} PROVE FALSE
    OBVIOUS
  <2>1. PICK p \in Bad : \A k \in Bad : p <= k
    <3>1. Bad \in SUBSET Nat
      BY <1>1
    <3> QED BY <3>1, LeastElement
  <2>2. p # 0
    <3>1. P(0) \in Nat
      <4>1. 1 \in 1 .. N /\ 1 - 1 = 0
        BY <1>1
      <4> QED BY <1>3, <4>1
    <3>2. Fine(0)
      BY <1>1, <1>4, <3>1
    <3> QED BY <2>1, <3>2
  <2>3. p \in 1 .. N /\ p - 1 \in 0 .. N /\ ~(p <= p - 1)
    BY <1>1, <2>1, <2>2
  <2>4. Fine(p - 1)
    BY <2>1, <2>3
  <2>5. OriginalHides(o, t, p) => PortHides(o, t, p)
    BY <2>3, HidingKnown
  <2>6. Width(o, t[p]) \in {1, 2}
    BY DEF Width
  <2>7. PICK a, b, c, d, w : a = P(p - 1) /\ b = O(p - 1) /\ c = P(p) /\ d = O(p) /\ w = Width(o, t[p])
    OBVIOUS
  <2>8. /\ a \in Nat /\ b \in Nat /\ w \in {1, 2} /\ a <= b /\ (h <= p - 1 => a < b)
        /\ c = IF PortHides(o, t, p) THEN a ELSE a + w
        /\ d = IF OriginalHides(o, t, p) THEN b ELSE b + w
    BY <1>3, <2>3, <2>4, <2>6, <2>7
  <2>9. c <= d /\ (h <= p => c < d)
    <3>1. CASE h = p
      BY <1>2, <2>8, <3>1
    <3>2. CASE h # p
      <4>1. h <= p => h <= p - 1
        BY <1>1, <2>3, <3>2
      <4> QED BY <2>5, <2>8, <4>1
    <3> QED BY <3>1, <3>2
  <2>10. Fine(p)
    BY <2>7, <2>9
  <2> QED BY <2>1, <2>10
<1>6. N \in 0 .. N /\ h <= N /\ N \in 1 .. N
  BY <1>1
<1>7. P(N) < O(N)
  BY <1>5, <1>6
<1>8. P(N) # O(N)
  <2>1. P(N) \in Nat
    <3>1. CatUpTo(o, t)[N].out \in Seq(Tokens(C)) /\ Put(LF) \in Tokens(C)
      BY <1>6, OutputsKnown DEF Tokens
    <3> QED BY <3>1, CountOneMore
  <2> QED BY <1>7, <2>1
<1> QED BY <1>8 DEF CatFile, OriginalCat

\* The number of a line is printed by the port alone, or it is another one.
Differing(o, t, p) ==
    /\ ~PortHides(o, t, p) /\ PortNumbers(o, t, p)
    /\ \/ ~OriginalNumbers(o, t, p)
       \/ CatUpTo(o, t)[p - 1].line # OriginalUpTo(o, t)[p - 1].lines + 1

\* What is printed is never taken back.
LengthenedTo(s, r, T) == \E e \in Seq(T) : r = s \o e
Grows(f, N, T) ==
    /\ \A p \in 0 .. N : f[p] \in Seq(T)
    /\ \A p \in 1 .. N : LengthenedTo(f[p - 1], f[p], T)

LEMMA Lengthened ==
    ASSUME NEW T, NEW s \in Seq(T), NEW r, NEW q, LengthenedTo(s, r, T), LengthenedTo(r, q, T)
    PROVE  LengthenedTo(s, q, T)
<1>1. PICK d \in Seq(T) : r = s \o d
  BY DEF LengthenedTo
<1>2. PICK e \in Seq(T) : q = r \o e
  BY DEF LengthenedTo
<1>3. (s \o d) \o e = s \o (d \o e)
  BY ConcatAssociative
<1>4. d \o e \in Seq(T)
  BY ConcatProperties
<1> QED BY <1>1, <1>2, <1>3, <1>4 DEF LengthenedTo

LEMMA OutputGrows ==
    ASSUME NEW T, NEW N \in Nat, NEW f, Grows(f, N, T), NEW q \in 0 .. N
    PROVE  LengthenedTo(f[q], f[N], T)
<1> DEFINE Bad == {p \in q .. N : ~LengthenedTo(f[q], f[p], T)}
<1>1. Bad = {}
  <2> SUFFICES ASSUME Bad # {} PROVE FALSE
    OBVIOUS
  <2>1. PICK p \in Bad : \A k \in Bad : p <= k
    <3>1. Bad \in SUBSET Nat
      OBVIOUS
    <3> QED BY <3>1, LeastElement
  <2>2. f[q] \in Seq(T)
    BY DEF Grows
  <2>3. p # q
    <3>1. f[q] \o <<>> = f[q] /\ <<>> \in Seq(T)
      BY <2>2, ConcatEmptySeq, EmptySeq
    <3> QED BY <2>1, <3>1 DEF LengthenedTo
  <2>4. p \in 1 .. N /\ p - 1 \in q .. N /\ ~(p <= p - 1)
    BY <2>1, <2>3
  <2>5. LengthenedTo(f[q], f[p - 1], T)
    BY <2>1, <2>4
  <2>6. LengthenedTo(f[p - 1], f[p], T)
    BY <2>4 DEF Grows
  <2>7. LengthenedTo(f[q], f[p], T)
    BY <2>2, <2>5, <2>6, Lengthened
  <2> QED BY <2>1, <2>7
<1>2. N \in q .. N
  OBVIOUS
<1> QED BY <1>1, <1>2

LEMMA PortOutputGrows ==
    ASSUME NEW C, NEW t \in Seq(C), NEW o, NEW q \in 0 .. Len(t)
    PROVE  LengthenedTo(CatUpTo(o, t)[q].out, CatFile(o, t), Tokens(C))
<1>1. PICK N : N = Len(t)
  OBVIOUS
<1>2. N \in Nat /\ \A p \in 1 .. N : t[p] \in C /\ p - 1 \in 0 .. N
  BY <1>1, LenProperties, ElementOfSeq
<1>3. PICK f : f = [p \in 0 .. N |-> CatUpTo(o, t)[p].out]
  OBVIOUS
<1>4. \A p \in 0 .. N : f[p] = CatUpTo(o, t)[p].out
  BY <1>3
<1>5. \A p \in 0 .. N : f[p] \in Seq(Tokens(C))
  BY <1>1, <1>4, OutputsKnown
<1>6. ASSUME NEW p \in 1 .. N PROVE LengthenedTo(f[p - 1], f[p], Tokens(C))
  <2>1. PICK e : e = Emits(o, t[p], PortHides(o, t, p), PortNumbers(o, t, p), CatUpTo(o, t)[p - 1].line)
    OBVIOUS
  <2>2. e \in Seq(Tokens(C))
    <3>1. CatUpTo(o, t)[p - 1].line \in Nat
      BY <1>1, <1>2, OutputsKnown
    <3> QED BY <1>2, <2>1, <3>1, EmitsKnown
  <2>3. CatUpTo(o, t)[p].out = CatUpTo(o, t)[p - 1].out \o e
    BY <1>1, <2>1, PortPrints
  <2>4. p \in 0 .. N /\ p - 1 \in 0 .. N
    BY <1>2
  <2> QED BY <1>4, <2>2, <2>3, <2>4 DEF LengthenedTo
<1>7. N \in 0 .. N
  BY <1>2
<1>8. LengthenedTo(f[q], f[N], Tokens(C))
  <2>1. PICK T : T = Tokens(C)
    OBVIOUS
  <2>2. Grows(f, N, T)
    BY <1>5, <1>6, <2>1 DEF Grows
  <2>3. N \in Nat /\ q \in 0 .. N
    BY <1>1, <1>2
  <2>4. LengthenedTo(f[q], f[N], T)
    BY <2>2, <2>3, OutputGrows
  <2> QED BY <2>1, <2>4
<1> QED BY <1>1, <1>4, <1>7, <1>8 DEF CatFile

LEMMA OriginalOutputGrows ==
    ASSUME NEW C, NEW t \in Seq(C), NEW o, NEW q \in 0 .. Len(t)
    PROVE  LengthenedTo(OriginalUpTo(o, t)[q].out, OriginalCat(o, t), Tokens(C))
<1>1. PICK N : N = Len(t)
  OBVIOUS
<1>2. N \in Nat /\ \A p \in 1 .. N : t[p] \in C /\ p - 1 \in 0 .. N
  BY <1>1, LenProperties, ElementOfSeq
<1>3. PICK f : f = [p \in 0 .. N |-> OriginalUpTo(o, t)[p].out]
  OBVIOUS
<1>4. \A p \in 0 .. N : f[p] = OriginalUpTo(o, t)[p].out
  BY <1>3
<1>5. \A p \in 0 .. N : f[p] \in Seq(Tokens(C))
  BY <1>1, <1>4, OutputsKnown
<1>6. ASSUME NEW p \in 1 .. N PROVE LengthenedTo(f[p - 1], f[p], Tokens(C))
  <2>1. PICK e : e = Emits(o, t[p], OriginalHides(o, t, p), OriginalNumbers(o, t, p),
                           OriginalUpTo(o, t)[p - 1].lines + 1)
    OBVIOUS
  <2>2. e \in Seq(Tokens(C))
    <3>1. OriginalUpTo(o, t)[p - 1].lines \in Nat
      BY <1>1, <1>2, OutputsKnown
    <3>2. OriginalUpTo(o, t)[p - 1].lines + 1 \in Nat
      BY <3>1
    <3> QED BY <1>2, <2>1, <3>2, EmitsKnown
  <2>3. OriginalUpTo(o, t)[p].out = OriginalUpTo(o, t)[p - 1].out \o e
    BY <1>1, <2>1, OriginalPrints
  <2>4. p \in 0 .. N /\ p - 1 \in 0 .. N
    BY <1>2
  <2> QED BY <1>4, <2>2, <2>3, <2>4 DEF LengthenedTo
<1>7. N \in 0 .. N
  BY <1>2
<1>8. LengthenedTo(f[q], f[N], Tokens(C))
  <2>1. PICK T : T = Tokens(C)
    OBVIOUS
  <2>2. Grows(f, N, T)
    BY <1>5, <1>6, <2>1 DEF Grows
  <2>3. N \in Nat /\ q \in 0 .. N
    BY <1>1, <1>2
  <2>4. LengthenedTo(f[q], f[N], T)
    BY <2>2, <2>3, OutputGrows
  <2> QED BY <2>1, <2>4
<1> QED BY <1>1, <1>4, <1>7, <1>8 DEF OriginalCat

\* As long as no number differs the outputs are the same.
LEMMA SameSoFar ==
    ASSUME NEW C, NEW t \in Seq(C), NEW o, ~HidesMore(o, t), NEW p \in 0 .. Len(t),
           \A q \in 1 .. p : ~Differing(o, t, q)
    PROVE  CatUpTo(o, t)[p].out = OriginalUpTo(o, t)[p].out
<1> DEFINE Bad == {q \in 0 .. p : CatUpTo(o, t)[q].out # OriginalUpTo(o, t)[q].out}
<1>1. Len(t) \in Nat /\ p \in Nat
  BY LenProperties
<1>2. Bad = {}
  <2> SUFFICES ASSUME Bad # {} PROVE FALSE
    OBVIOUS
  <2>1. PICK q \in Bad : \A k \in Bad : q <= k
    <3>1. Bad \in SUBSET Nat
      BY <1>1
    <3> QED BY <3>1, LeastElement
  <2>2. q # 0
    BY <2>1, OutputsKnown
  <2>3. q \in 1 .. p /\ q \in 1 .. Len(t) /\ q - 1 \in 0 .. p /\ ~(q <= q - 1)
    BY <1>1, <2>1, <2>2
  <2>4. CatUpTo(o, t)[q - 1].out = OriginalUpTo(o, t)[q - 1].out
    BY <2>1, <2>3
  <2>5. ~Differing(o, t, q)
    BY <2>3
  <2>6. PortHides(o, t, q) <=> OriginalHides(o, t, q)
    BY <2>3, HidingKnown DEF HidesMore
  <2>7. OriginalNumbers(o, t, q) => PortNumbers(o, t, q)
    BY <2>3, HidingKnown
  <2>8. PICK j : j = CatUpTo(o, t)[q - 1].line
    OBVIOUS
  <2>9. PICK k : k = OriginalUpTo(o, t)[q - 1].lines + 1
    OBVIOUS
  <2>10. Emits(o, t[q], PortHides(o, t, q), PortNumbers(o, t, q), j)
            = Emits(o, t[q], OriginalHides(o, t, q), OriginalNumbers(o, t, q), k)
    <3>1. CASE PortHides(o, t, q)
      BY <2>6, <3>1 DEF Emits
    <3>2. CASE ~PortHides(o, t, q) /\ PortNumbers(o, t, q)
      <4>1. OriginalNumbers(o, t, q) /\ j = k
        BY <2>5, <2>8, <2>9, <3>2 DEF Differing
      <4> QED BY <2>6, <3>2, <4>1 DEF Emits, NumberIf
    <3>3. CASE ~PortHides(o, t, q) /\ ~PortNumbers(o, t, q)
      BY <2>6, <2>7, <3>3 DEF Emits, NumberIf
    <3> QED BY <3>1, <3>2, <3>3
  <2>11. CatUpTo(o, t)[q].out = CatUpTo(o, t)[q - 1].out
                                   \o Emits(o, t[q], PortHides(o, t, q), PortNumbers(o, t, q), j)
    BY <2>3, <2>8, PortPrints
  <2>12. OriginalUpTo(o, t)[q].out = OriginalUpTo(o, t)[q - 1].out
                                   \o Emits(o, t[q], OriginalHides(o, t, q), OriginalNumbers(o, t, q), k)
    BY <2>3, <2>9, OriginalPrints
  <2> QED BY <2>1, <2>4, <2>10, <2>11, <2>12
<1>3. p \in 0 .. p
  BY <1>1
<1> QED BY <1>2, <1>3

LEMMA FirstOf ==
    ASSUME NEW T, NEW x \in T, NEW y \in T, NEW s \in Seq(T), NEW r \in Seq(T), x # y
    PROVE  <<x>> \o s # <<y>> \o r
<1>1. <<x>> \in Seq(T) /\ Len(<<x>>) = 1 /\ <<x>>[1] = x /\ <<y>> \in Seq(T) /\ Len(<<y>>) = 1 /\ <<y>>[1] = y
  BY OneToken
<1>2. (<<x>> \o s)[1] = x
  <2>1. Len(s) \in Nat /\ 1 \in 1 .. Len(<<x>>) + Len(s) /\ 1 <= Len(<<x>>)
    BY <1>1, LenProperties
  <2> QED BY <1>1, <2>1, ConcatProperties
<1>3. (<<y>> \o r)[1] = y
  <2>1. Len(r) \in Nat /\ 1 \in 1 .. Len(<<y>>) + Len(r) /\ 1 <= Len(<<y>>)
    BY <1>1, LenProperties
  <2> QED BY <1>1, <2>1, ConcatProperties
<1> QED BY <1>2, <1>3

LEMMA CancelLeft ==
    ASSUME NEW T, NEW s \in Seq(T), NEW r \in Seq(T), NEW q \in Seq(T), s \o r = s \o q
    PROVE  r = q
BY ConcatSimplifications

\* What begins with x after u.
GoesOn(T, r, u, x) == \E p \in Seq(T) : r = u \o (<<x>> \o p)

LEMMA MiddleBegins ==
    ASSUME NEW T, NEW x \in T, NEW u \in Seq(T), NEW w \in Seq(T), NEW d \in Seq(T)
    PROVE  GoesOn(T, (u \o (<<x>> \o w)) \o d, u, x)
<1>1. PICK p \in Seq(T) : p = w \o d
  BY ConcatProperties
<1>2. PICK z \in Seq(T) : z = <<x>>
  BY OneToken
<1>3. PICK m \in Seq(T) : m = z \o w
  BY ConcatProperties
<1>4. (u \o m) \o d = u \o (m \o d)
  BY ConcatAssociative, SMTT(30)
<1>5. (z \o w) \o d = z \o (w \o d)
  BY ConcatAssociative, SMTT(30)
<1> QED BY <1>1, <1>2, <1>3, <1>4, <1>5 DEF GoesOn

LEMMA MiddlesDiffer ==
    ASSUME NEW T, NEW x \in T, NEW y \in T, x # y, NEW u \in Seq(T), NEW r, NEW s,
           GoesOn(T, r, u, x), GoesOn(T, s, u, y)
    PROVE  r # s
<1>1. PICK p \in Seq(T) : r = u \o (<<x>> \o p)
  BY DEF GoesOn
<1>2. PICK q \in Seq(T) : s = u \o (<<y>> \o q)
  BY DEF GoesOn
<1>3. <<x>> \in Seq(T) /\ <<y>> \in Seq(T)
  BY OneToken
<1>4. <<x>> \o p # <<y>> \o q
  BY FirstOf
<1>5. PICK k \in Seq(T) : k = <<x>> \o p
  BY <1>3, ConcatProperties
<1>6. PICK l \in Seq(T) : l = <<y>> \o q
  BY <1>3, ConcatProperties
<1>7. u \o k = u \o l => k = l
  BY CancelLeft
<1> QED BY <1>1, <1>2, <1>4, <1>5, <1>6, <1>7

LEMMA ShownBegins ==
    ASSUME NEW C, NEW c \in C, NEW o
    PROVE  \E x \in Tokens(C) : \E s \in Seq(Tokens(C)) : IsPut(x) /\ Shown(o, c) = <<x>> \o s
<1>1. PICK T : T = Tokens(C)
  OBVIOUS
<1>2. Put(c) \in T /\ Put(LF) \in T /\ Put("$") \in T
  BY <1>1 DEF Tokens
<1>3. IsPut(Put(c)) /\ IsPut(Put(LF)) /\ IsPut(Put("$"))
  BY DEF IsPut
<1>4. ASSUME NEW x \in T PROVE <<x>> = <<x>> \o <<>> /\ <<>> \in Seq(T)
  BY OneToken, ConcatEmptySeq, EmptySeq
<1>5. CASE c # LF
  BY <1>1, <1>2, <1>3, <1>4, <1>5 DEF Shown
<1>6. CASE c = LF /\ "E" \notin o
  BY <1>1, <1>2, <1>3, <1>4, <1>6 DEF Shown, NewLine
<1>7. CASE c = LF /\ "E" \in o
  <2>1. PICK x \in T : x = Put("$")
    BY <1>2
  <2>2. PICK y \in T : y = Put(LF)
    BY <1>2
  <2>3. <<x, y>> = <<x>> \o <<y>> /\ <<y>> \in Seq(T)
    BY PairIs, OneToken
  <2>4. Shown(o, c) = <<x, y>>
    BY <1>7, <2>1, <2>2 DEF Shown, NewLine
  <2> QED BY <1>1, <1>3, <2>1, <2>3, <2>4
<1> QED BY <1>5, <1>6, <1>7

\* The first number that differs shows in what is printed.
FirstDiffering(o, t, p) == Differing(o, t, p) /\ \A q \in 1 .. p - 1 : ~Differing(o, t, q)

LEMMA DifferingShows ==
    ASSUME NEW C, NEW t \in Seq(C), NEW o, ~HidesMore(o, t), NEW p \in 1 .. Len(t),
           FirstDiffering(o, t, p)
    PROVE  CatFile(o, t) # OriginalCat(o, t)
<1>1. PICK T : T = Tokens(C)
  OBVIOUS
<1>2. Len(t) \in Nat /\ p - 1 \in 0 .. Len(t) /\ p \in 0 .. Len(t) /\ t[p] \in C
  BY LenProperties, ElementOfSeq
<1>3. PICK u : u = CatUpTo(o, t)[p - 1].out
  OBVIOUS
<1>4. u = OriginalUpTo(o, t)[p - 1].out
  BY <1>2, <1>3, SameSoFar DEF FirstDiffering
<1>5. PICK j : j = CatUpTo(o, t)[p - 1].line
  OBVIOUS
<1>6. PICK k : k = OriginalUpTo(o, t)[p - 1].lines + 1
  OBVIOUS
<1>7. u \in Seq(T) /\ j \in Nat /\ k \in Nat
  <2>1. OriginalUpTo(o, t)[p - 1].lines \in Nat
    BY <1>2, OutputsKnown
  <2> QED BY <1>1, <1>2, <1>3, <1>5, <1>6, <2>1, OutputsKnown
<1>8. PICK w : w = Shown(o, t[p])
  OBVIOUS
<1>9. w \in Seq(T) /\ Number(j) \in T /\ Number(k) \in T /\ <<Number(j)>> \in Seq(T) /\ <<Number(k)>> \in Seq(T)
  BY <1>1, <1>2, <1>7, <1>8, EmitsKnown, TokensKnown
<1>10. ~PortHides(o, t, p) /\ PortNumbers(o, t, p) /\ (~OriginalNumbers(o, t, p) \/ j # k)
  BY <1>5, <1>6 DEF FirstDiffering, Differing
<1>11. ~OriginalHides(o, t, p)
  BY <1>10, HidingKnown
<1>12. PICK a : a = <<Number(j)>> \o w
  OBVIOUS
<1>13. CatUpTo(o, t)[p].out = u \o a
  <2>1. Emits(o, t[p], PortHides(o, t, p), PortNumbers(o, t, p), j) = a
    BY <1>8, <1>10, <1>12 DEF Emits, NumberIf
  <2>2. CatUpTo(o, t)[p].out = u \o Emits(o, t[p], PortHides(o, t, p), PortNumbers(o, t, p), j)
    BY <1>3, <1>5, PortPrints
  <2> QED BY <2>1, <2>2
<1>14. PICK b : b = NumberIf(OriginalNumbers(o, t, p), k) \o w
  OBVIOUS
<1>15. OriginalUpTo(o, t)[p].out = u \o b
  <2>1. Emits(o, t[p], OriginalHides(o, t, p), OriginalNumbers(o, t, p), k) = b
    BY <1>8, <1>11, <1>14 DEF Emits
  <2>2. OriginalUpTo(o, t)[p].out = u \o Emits(o, t[p], OriginalHides(o, t, p), OriginalNumbers(o, t, p), k)
    BY <1>4, <1>6, OriginalPrints
  <2> QED BY <2>1, <2>2
<1>16. PICK x \in T, s \in Seq(T) : x # Number(j) /\ b = <<x>> \o s
  <2>1. CASE OriginalNumbers(o, t, p)
    <3>1. b = <<Number(k)>> \o w
      BY <1>14, <2>1 DEF NumberIf
    <3>2. Number(k) # Number(j)
      BY <1>10, <2>1, TokensDiffer
    <3> QED BY <1>9, <3>1, <3>2
  <2>2. CASE ~OriginalNumbers(o, t, p)
    <3>1. <<>> \o w = w
      BY <1>9, ConcatEmptySeq
    <3>2. b = w
      BY <1>14, <2>2, <3>1 DEF NumberIf
    <3>3. PICK x \in T, s \in Seq(T) : IsPut(x) /\ w = <<x>> \o s
      BY <1>1, <1>2, <1>8, ShownBegins
    <3>4. x # Number(j)
      BY <3>3, TokensDiffer DEF IsPut
    <3> QED BY <3>2, <3>3, <3>4
  <2> QED BY <2>1, <2>2
<1>17. PICK r : r = CatFile(o, t)
  OBVIOUS
<1>18. PICK q : q = OriginalCat(o, t)
  OBVIOUS
<1>19. LengthenedTo(u \o a, r, T)
  <2>1. LengthenedTo(CatUpTo(o, t)[p].out, CatFile(o, t), T)
    BY <1>1, <1>2, PortOutputGrows
  <2> QED BY <1>13, <1>17, <2>1
<1>20. LengthenedTo(u \o b, q, T)
  <2>1. LengthenedTo(OriginalUpTo(o, t)[p].out, OriginalCat(o, t), T)
    BY <1>1, <1>2, OriginalOutputGrows
  <2> QED BY <1>15, <1>18, <2>1
<1>21. GoesOn(T, r, u, Number(j))
  <2>1. PICK d \in Seq(T) : r = (u \o a) \o d
    BY <1>19 DEF LengthenedTo
  <2>2. GoesOn(T, (u \o (<<Number(j)>> \o w)) \o d, u, Number(j))
    BY <1>7, <1>9, MiddleBegins
  <2> QED BY <1>12, <2>1, <2>2
<1>22. GoesOn(T, q, u, x)
  <2>1. PICK d \in Seq(T) : q = (u \o b) \o d
    BY <1>20 DEF LengthenedTo
  <2>2. GoesOn(T, (u \o (<<x>> \o s)) \o d, u, x)
    BY <1>7, MiddleBegins
  <2> QED BY <1>16, <2>1, <2>2
<1>23. r # q
  BY <1>7, <1>9, <1>16, <1>21, <1>22, MiddlesDiffer
<1> QED BY <1>17, <1>18, <1>23

\* Whether a line begins behind p.
Ahead(t, p) == IF p = 0 \/ t[p] = LF THEN 1 ELSE 0

LEMMA AheadIs ==
    ASSUME NEW t, NEW p \in Nat \ {0}
    PROVE  /\ Ahead(t, p - 1) = IF BeginsLine(t, p) THEN 1 ELSE 0
           /\ Ahead(t, p) = IF t[p] = LF THEN 1 ELSE 0
<1>1. p # 0 /\ (p = 1 <=> p - 1 = 0)
  OBVIOUS
<1> QED BY <1>1 DEF Ahead, BeginsLine

\* The lines the two count, one character further.
LEMMA LinesStep ==
    ASSUME NEW C, NEW t \in Seq(C), NEW o, ~HidesMore(o, t), NEW p \in 1 .. Len(t)
    PROVE  \E j \in Nat : \E k \in Nat : \E hides \in BOOLEAN :
              /\ hides <=> PortHides(o, t, p)
              /\ CatUpTo(o, t)[p - 1].line = j /\ OriginalUpTo(o, t)[p - 1].lines = k
              /\ CatUpTo(o, t)[p].line = IF t[p] = LF /\ ~hides THEN j + 1 ELSE j
              /\ OriginalUpTo(o, t)[p].lines = IF BeginsLine(t, p) /\ Numbered(o, t[p]) /\ ~hides
                                               THEN k + 1 ELSE k
<1>1. PICK j : j = CatUpTo(o, t)[p - 1].line
  OBVIOUS
<1>2. PICK k : k = OriginalUpTo(o, t)[p - 1].lines
  OBVIOUS
<1>3. PICK hides \in BOOLEAN : hides <=> PortHides(o, t, p)
  OBVIOUS
<1>4. hides <=> OriginalHides(o, t, p)
  BY <1>3, HidingKnown DEF HidesMore
<1>5. p - 1 \in 0 .. Len(t)
  BY LenProperties
<1>6. j \in Nat /\ k \in Nat
  BY <1>1, <1>2, <1>5, OutputsKnown
<1>7. CatUpTo(o, t)[p].line = IF t[p] = LF /\ ~hides THEN j + 1 ELSE j
  BY <1>1, <1>3, PortPrints
<1>8. OriginalUpTo(o, t)[p].lines = IF BeginsLine(t, p) /\ Numbered(o, t[p]) /\ ~hides THEN k + 1 ELSE k
  BY <1>2, <1>4, OriginalPrints DEF OriginalNumbers
<1> QED BY <1>1, <1>2, <1>3, <1>6, <1>7, <1>8

\* With -n the two count alike.
LEMMA LinesWithN ==
    ASSUME NEW C, NEW t \in Seq(C), NEW o, ~HidesMore(o, t), "n" \in o, NEW p \in 0 .. Len(t)
    PROVE  CatUpTo(o, t)[p].line = OriginalUpTo(o, t)[p].lines + Ahead(t, p)
<1> DEFINE Fine(q) == CatUpTo(o, t)[q].line = OriginalUpTo(o, t)[q].lines + Ahead(t, q)
           Bad == {q \in 0 .. Len(t) : ~Fine(q)}
<1>1. Len(t) \in Nat
  BY LenProperties
<1>2. Bad = {}
  <2> SUFFICES ASSUME Bad # {} PROVE FALSE
    OBVIOUS
  <2>1. PICK q \in Bad : \A k \in Bad : q <= k
    <3>1. Bad \in SUBSET Nat
      BY <1>1
    <3> QED BY <3>1, LeastElement
  <2>2. q # 0
    <3>1. Ahead(t, 0) = 1
      BY DEF Ahead
    <3>2. Fine(0)
      BY <3>1, OutputsKnown
    <3> QED BY <2>1, <3>2
  <2>3. q \in 1 .. Len(t) /\ q - 1 \in 0 .. Len(t) /\ q \in Nat \ {0} /\ ~(q <= q - 1)
    BY <1>1, <2>1, <2>2
  <2>4. Fine(q - 1)
    BY <2>1, <2>3
  <2>5. PICK j \in Nat, k \in Nat, hides \in BOOLEAN :
              /\ hides <=> PortHides(o, t, q)
              /\ CatUpTo(o, t)[q - 1].line = j /\ OriginalUpTo(o, t)[q - 1].lines = k
              /\ CatUpTo(o, t)[q].line = IF t[q] = LF /\ ~hides THEN j + 1 ELSE j
              /\ OriginalUpTo(o, t)[q].lines = IF BeginsLine(t, q) /\ Numbered(o, t[q]) /\ ~hides
                                               THEN k + 1 ELSE k
    BY <2>3, LinesStep
  <2>6. Numbered(o, t[q])
    BY DEF Numbered
  <2>7. j = k + (IF BeginsLine(t, q) THEN 1 ELSE 0)
    BY <2>3, <2>4, <2>5, AheadIs
  <2>8. hides => t[q] = LF /\ BeginsLine(t, q)
    BY <2>3, <2>5, HidingKnown
  <2>9. (IF t[q] = LF /\ ~hides THEN j + 1 ELSE j)
          = (IF BeginsLine(t, q) /\ ~hides THEN k + 1 ELSE k) + (IF t[q] = LF THEN 1 ELSE 0)
    BY <2>7, <2>8
  <2>10. Fine(q)
    BY <2>3, <2>5, <2>6, <2>9, AheadIs
  <2> QED BY <2>1, <2>10
<1> QED BY <1>2

\* Behind the first empty line the port is ahead with -b, and not before.
LEMMA LinesWithB ==
    ASSUME NEW C, NEW t \in Seq(C), NEW o, ~HidesMore(o, t), "b" \in o, "n" \notin o, NEW p \in 0 .. Len(t)
    PROVE  /\ CatUpTo(o, t)[p].line >= OriginalUpTo(o, t)[p].lines + Ahead(t, p)
           /\ CatUpTo(o, t)[p].line = OriginalUpTo(o, t)[p].lines + Ahead(t, p)
                 <=> ~\E e \in EmptyLines(t) : e <= p
<1> DEFINE Line(q) == CatUpTo(o, t)[q].line
           Lines(q) == OriginalUpTo(o, t)[q].lines + Ahead(t, q)
           Behind(q) == \E e \in EmptyLines(t) : e <= q
           Fine(q) == Line(q) >= Lines(q) /\ (Line(q) = Lines(q) <=> ~Behind(q))
           Bad == {q \in 0 .. Len(t) : ~Fine(q)}
<1>1. Len(t) \in Nat /\ DOMAIN t = 1 .. Len(t)
  BY LenProperties
<1>2. EmptyLines(t) \subseteq 1 .. Len(t)
  BY <1>1 DEF EmptyLines
<1>3. Bad = {}
  <2> SUFFICES ASSUME Bad # {} PROVE FALSE
    OBVIOUS
  <2>1. PICK q \in Bad : \A k \in Bad : q <= k
    <3>1. Bad \in SUBSET Nat
      BY <1>1
    <3> QED BY <3>1, LeastElement
  <2>2. q # 0
    <3>1. Ahead(t, 0) = 1
      BY DEF Ahead
    <3>2. Line(0) = 1 /\ Lines(0) = 1
      BY <3>1, OutputsKnown
    <3>3. ~Behind(0)
      BY <1>2
    <3>4. Fine(0)
      BY <3>2, <3>3
    <3> QED BY <2>1, <3>4
  <2>3. q \in 1 .. Len(t) /\ q - 1 \in 0 .. Len(t) /\ q \in Nat \ {0} /\ ~(q <= q - 1)
    BY <1>1, <2>1, <2>2
  <2>4. Fine(q - 1)
    BY <2>1, <2>3
  <2>5. PICK j \in Nat, k \in Nat, hides \in BOOLEAN :
              /\ hides <=> PortHides(o, t, q)
              /\ CatUpTo(o, t)[q - 1].line = j /\ OriginalUpTo(o, t)[q - 1].lines = k
              /\ CatUpTo(o, t)[q].line = IF t[q] = LF /\ ~hides THEN j + 1 ELSE j
              /\ OriginalUpTo(o, t)[q].lines = IF BeginsLine(t, q) /\ Numbered(o, t[q]) /\ ~hides
                                               THEN k + 1 ELSE k
    BY <2>3, LinesStep
  <2>6. Numbered(o, t[q]) <=> t[q] # LF
    BY DEF Numbered
  <2>7. PICK a : a = IF BeginsLine(t, q) THEN 1 ELSE 0
    OBVIOUS
  <2>8. PICK old \in BOOLEAN : old <=> Behind(q - 1)
    OBVIOUS
  <2>9. j >= k + a /\ (j = k + a <=> ~old)
    BY <2>3, <2>4, <2>5, <2>7, <2>8, AheadIs
  <2>10. PICK empty \in BOOLEAN : empty <=> t[q] = LF /\ BeginsLine(t, q)
    OBVIOUS
  <2>11. Behind(q) <=> old \/ empty
    <3>1. empty <=> q \in EmptyLines(t)
      BY <1>1, <2>3, <2>10 DEF EmptyLines
    <3>2. \A e \in EmptyLines(t) : e <= q <=> (e <= q - 1 \/ e = q)
      BY <1>2, <2>3
    <3> QED BY <2>8, <3>1, <3>2
  <2>12. hides => empty /\ old
    <3> SUFFICES ASSUME hides PROVE empty /\ old
      OBVIOUS
    <3>1. empty
      BY <2>3, <2>5, <2>10, HidingKnown
    <3>2. OriginalHides(o, t, q)
      BY <2>3, <2>5 DEF HidesMore
    <3>3. q > 1 /\ t[q - 1] = LF /\ BeginsLine(t, q - 1)
      BY <3>2 DEF OriginalHides
    <3>4. q - 1 \in 1 .. Len(t)
      BY <2>3, <3>3
    <3>5. q - 1 \in EmptyLines(t)
      BY <1>1, <3>3, <3>4 DEF EmptyLines
    <3> QED BY <2>3, <2>8, <3>1, <3>5
  <2>13. PICK l, m : l = Line(q) /\ m = Lines(q)
    OBVIOUS
  <2>14. /\ l = IF t[q] = LF /\ ~hides THEN j + 1 ELSE j
         /\ m = (IF BeginsLine(t, q) /\ t[q] # LF /\ ~hides THEN k + 1 ELSE k) + (IF t[q] = LF THEN 1 ELSE 0)
    BY <2>3, <2>5, <2>6, <2>13, AheadIs
  <2>15. l >= m /\ (l = m <=> ~(old \/ empty))
    <3>1. CASE t[q] = LF
      BY <2>7, <2>9, <2>10, <2>12, <2>14, <3>1
    <3>2. CASE t[q] # LF
      BY <2>7, <2>9, <2>10, <2>12, <2>14, <3>2
    <3> QED BY <3>1, <3>2
  <2>16. Fine(q)
    BY <2>11, <2>13, <2>15
  <2> QED BY <2>1, <2>16
<1> QED BY <1>3

NumbersDiffer(o, t) ==
    \/ "n" \in o /\ Cuts(t) # {}
    \/ "b" \in o /\ \/ \E p \in Cuts(t) : t[p] # LF
                    \/ \E p \in EmptyLines(t) : \E q \in p .. Len(t) : t[q] # LF

\* A piece that is cut off has a number of its own.
LEMMA CutsDiffer ==
    ASSUME NEW C, NEW t \in Seq(C), NEW o, NEW p \in Cuts(t), Numbered(o, t[p])
    PROVE  p \in 1 .. Len(t) /\ Differing(o, t, p)
<1>1. DOMAIN t = 1 .. Len(t)
  BY LenProperties
<1>2. p \in 1 .. Len(t) /\ BeginsPiece(t, p) /\ ~BeginsLine(t, p)
  BY <1>1 DEF Cuts, BeginsPiece
<1>3. ~PortHides(o, t, p)
  BY <1>2, HidingKnown
<1> QED BY <1>2, <1>3 DEF Differing, PortNumbers, OriginalNumbers

\* Where the line begins for both, the number differs when the count does.
LEMMA CountsDiffer ==
    ASSUME NEW C, NEW t \in Seq(C), NEW o, NEW p \in 1 .. Len(t), BeginsLine(t, p),
           Numbered(o, t[p]), ~PortHides(o, t, p)
    PROVE  Differing(o, t, p) <=> CatUpTo(o, t)[p - 1].line # OriginalUpTo(o, t)[p - 1].lines + Ahead(t, p - 1)
<1>1. p \in Nat \ {0}
  BY LenProperties
<1>2. Ahead(t, p - 1) = 1
  BY <1>1, AheadIs
<1> QED BY <1>2 DEF Differing, PortNumbers, OriginalNumbers, BeginsPiece

LEMMA DifferingMeans ==
    ASSUME NEW C, NEW t \in Seq(C), NEW o, ~HidesMore(o, t), ~("n" \in o /\ "b" \in o)
    PROVE  (\E p \in 1 .. Len(t) : Differing(o, t, p)) <=> NumbersDiffer(o, t)
<1>1. Len(t) \in Nat /\ DOMAIN t = 1 .. Len(t)
  BY LenProperties
<1>2. ASSUME NEW p \in 1 .. Len(t), Differing(o, t, p) PROVE NumbersDiffer(o, t)
  <2>1. ~PortHides(o, t, p) /\ BeginsPiece(t, p) /\ Numbered(o, t[p]) /\ p - 1 \in 0 .. Len(t)
    BY <1>1, <1>2 DEF Differing, PortNumbers
  <2>2. CASE ~BeginsLine(t, p)
    <3>1. p \in Cuts(t)
      BY <1>1, <2>1, <2>2 DEF Cuts, BeginsPiece
    <3> QED BY <2>1, <3>1 DEF NumbersDiffer, Numbered
  <2>3. CASE BeginsLine(t, p)
    <3>1. CatUpTo(o, t)[p - 1].line # OriginalUpTo(o, t)[p - 1].lines + Ahead(t, p - 1)
      BY <1>2, <2>1, <2>3, CountsDiffer
    <3>2. "n" \notin o
      BY <2>1, <3>1, LinesWithN
    <3>3. "b" \in o /\ t[p] # LF
      BY <2>1, <3>2 DEF Numbered
    <3>4. PICK e \in EmptyLines(t) : e <= p - 1
      BY <2>1, <3>1, <3>2, <3>3, LinesWithB
    <3>5. p \in e .. Len(t)
      BY <1>1, <3>4 DEF EmptyLines
    <3> QED BY <3>3, <3>5 DEF NumbersDiffer
  <2> QED BY <2>2, <2>3
<1>3. ASSUME "n" \in o, Cuts(t) # {} PROVE \E p \in 1 .. Len(t) : Differing(o, t, p)
  BY <1>3, CutsDiffer DEF Numbered
<1>4. ASSUME "b" \in o, NEW p \in Cuts(t), t[p] # LF PROVE \E q \in 1 .. Len(t) : Differing(o, t, q)
  BY <1>4, CutsDiffer DEF Numbered
<1>5. ASSUME "b" \in o, NEW e \in EmptyLines(t), NEW r \in e .. Len(t), t[r] # LF
      PROVE  \E p \in 1 .. Len(t) : Differing(o, t, p)
  <2>1. e \in 1 .. Len(t) /\ t[e] = LF
    BY <1>1 DEF EmptyLines
  <2>2. PICK q \in {p \in e .. Len(t) : t[p] # LF} : \A k \in {p \in e .. Len(t) : t[p] # LF} : q <= k
    <3>1. {p \in e .. Len(t) : t[p] # LF} \in SUBSET Nat
      BY <1>1, <2>1
    <3>2. r \in {p \in e .. Len(t) : t[p] # LF}
      BY <1>5
    <3> QED BY <3>1, <3>2, LeastElement
  <2>3. q \in e .. Len(t) /\ t[q] # LF /\ q # e
    BY <2>1, <2>2
  <2>4. q - 1 \in e .. Len(t) /\ q \in 1 .. Len(t) /\ q - 1 \in 0 .. Len(t) /\ e <= q - 1 /\ ~(q <= q - 1)
    BY <1>1, <2>1, <2>3
  <2>5. t[q - 1] = LF
    BY <2>2, <2>4
  <2>6. BeginsLine(t, q) /\ Numbered(o, t[q]) /\ ~PortHides(o, t, q)
    BY <1>5, <2>3, <2>5 DEF BeginsLine, Numbered, PortHides
  <2>7. CatUpTo(o, t)[q - 1].line # OriginalUpTo(o, t)[q - 1].lines + Ahead(t, q - 1)
    <3>1. "n" \notin o
      BY <1>5
    <3>2. \E d \in EmptyLines(t) : d <= q - 1
      BY <2>4
    <3> QED BY <1>5, <2>4, <3>1, <3>2, LinesWithB
  <2>8. Differing(o, t, q)
    BY <2>4, <2>6, <2>7, CountsDiffer
  <2> QED BY <2>4, <2>8
<1> QED BY <1>2, <1>3, <1>4, <1>5 DEF NumbersDiffer

\* What the port prints of a file is what the original prints, except for exactly
\* the texts that Differs tells, where a read that ends within a line or an empty
\* line is counted shows (coreutils_port.c: cat_file, cat.c: cat).  For texts and
\* reads of any length.
THEOREM FilesArePrinted ==
    ASSUME NEW C, NEW t \in Seq(C), NEW o, ~("n" \in o /\ "b" \in o)
    PROVE  CatFile(o, t) = OriginalCat(o, t) <=> ~Differs(o, t)
<1>1. Differs(o, t) <=> HidesMore(o, t) \/ NumbersDiffer(o, t)
  BY HidesMoreIs DEF Differs, NumbersDiffer
<1>2. CASE HidesMore(o, t)
  BY <1>1, <1>2, LessIsPrinted
<1>3. CASE ~HidesMore(o, t) /\ \E p \in 1 .. Len(t) : Differing(o, t, p)
  <2>1. PICK p \in 1 .. Len(t) : FirstDiffering(o, t, p)
    <3> DEFINE S == {p \in 1 .. Len(t) : Differing(o, t, p)}
    <3>1. S \in SUBSET Nat /\ S # {}
      BY <1>3, LenProperties
    <3>2. PICK p \in S : \A k \in S : p <= k
      BY <3>1, LeastElement
    <3>3. ASSUME NEW q \in 1 .. p - 1 PROVE ~Differing(o, t, q)
      <4>1. Len(t) \in Nat
        BY LenProperties
      <4>2. q \in 1 .. Len(t) /\ ~(p <= q)
        BY <3>2, <4>1
      <4> QED BY <3>2, <4>2
    <3> QED BY <3>2, <3>3 DEF FirstDiffering
  <2>2. CatFile(o, t) # OriginalCat(o, t)
    BY <1>3, <2>1, DifferingShows
  <2>3. Differs(o, t)
    BY <1>1, <1>3, DifferingMeans
  <2> QED BY <2>2, <2>3
<1>4. CASE ~HidesMore(o, t) /\ ~\E p \in 1 .. Len(t) : Differing(o, t, p)
  <2>1. Len(t) \in 0 .. Len(t)
    BY LenProperties
  <2>2. CatUpTo(o, t)[Len(t)].out = OriginalUpTo(o, t)[Len(t)].out
    BY <1>4, <2>1, SameSoFar
  <2>3. ~Differs(o, t)
    BY <1>1, <1>4, DifferingMeans
  <2> QED BY <2>2, <2>3 DEF CatFile, OriginalCat
<1> QED BY <1>2, <1>3, <1>4

\* -b overrides -n in what the port makes of the options.
LEMMA SettledOptions ==
    ASSUME NEW argv
    PROVE  ~("n" \in StrixCat(argv).opts /\ "b" \in StrixCat(argv).opts)
BY DEF StrixCat, Settled

=============================================================================
