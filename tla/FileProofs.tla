----------------------------- MODULE FileProofs -----------------------------
(***************************************************************************)
(* The heap stays sound and is an arena, every file owns its buffer, a     *)
(* descriptor goes on reading its file, and what is saved is what opens:   *)
(* for any files, names, sizes and number of descriptors.                  *)
(*                                                                         *)
(* First what the calls of the heap do, for any list of blocks: to the     *)
(* list (Split, Merged, Taken, Freed), then to those who hold the blocks   *)
(* in use, and to the arena the heap is to its callers.  Then what a       *)
(* change does to any directory, the steps, and the theorems.              *)
(***************************************************************************)
EXTENDS FileSystem, TLAPS

Block == [size : Nat, free : BOOLEAN, next : Int]

\* Where the block b of the list bs ends.
End(bs, b) == b + Header + bs[b].size

\* The list bs is a chain of blocks from the start of the heap to its end.
Chain(bs) ==
    /\ bs \in [DOMAIN bs -> Block] /\ DOMAIN bs \subseteq Nat
    /\ DOMAIN bs # {} => 0 \in DOMAIN bs
    /\ \A b \in DOMAIN bs :
         /\ End(bs, b) <= HeapSize
         /\ bs[b].next = IF End(bs, b) = HeapSize THEN NULL ELSE End(bs, b)
         /\ bs[b].next # NULL => bs[b].next \in DOMAIN bs
         /\ \A c \in DOMAIN bs : c > b => c >= End(bs, b)

\* No two free blocks are neighbours.
Merges(bs) == \A b, c \in DOMAIN bs : bs[b].free /\ bs[b].next = c => ~bs[c].free

Used(bs) == {b \in DOMAIN bs : ~bs[b].free}

LEMMA Numbers ==
    HeapSize \in Nat /\ Header \in Nat /\ Header > 0 /\ Least \in Nat /\ HeapSize >= Header /\ NULL = -1
  BY HeapAssumption DEF NULL

-----------------------------------------------------------------------------
(***************************************************************************)
(* Marking, splitting and merging                                          *)
(***************************************************************************)
LEMMA MarkKeepsChain ==
    ASSUME NEW bs, Chain(bs), NEW b \in DOMAIN bs, NEW f \in BOOLEAN
    PROVE  LET ms == [bs EXCEPT ![b].free = f]
           IN  /\ Chain(ms) /\ DOMAIN ms = DOMAIN bs
               /\ ms[b].free = f
               /\ \A c \in DOMAIN bs : ms[c].size = bs[c].size /\ ms[c].next = bs[c].next
               /\ \A c \in DOMAIN bs \ {b} : ms[c] = bs[c]
<1>. DEFINE ms == [bs EXCEPT ![b].free = f]
<1>1. bs \in [DOMAIN bs -> Block]
  BY DEF Chain
<1>2. ms \in [DOMAIN bs -> Block] /\ DOMAIN ms = DOMAIN bs
  BY <1>1 DEF Block
<1>3. /\ ms[b].free = f
      /\ \A c \in DOMAIN bs : ms[c].size = bs[c].size /\ ms[c].next = bs[c].next
      /\ \A c \in DOMAIN bs \ {b} : ms[c] = bs[c]
  BY <1>1 DEF Block
<1>. HIDE DEF ms
<1>4. \A c \in DOMAIN bs : End(ms, c) = End(bs, c)
  BY <1>3 DEF End
<1>5. Chain(ms)
  BY <1>2, <1>3, <1>4 DEF Chain
<1>. QED  BY <1>2, <1>3, <1>5 DEF ms

LEMMA SplitKeepsChain ==
    ASSUME NEW bs, Chain(bs), NEW b \in DOMAIN bs,
           NEW size \in Nat, bs[b].size >= size + Header
    PROVE  LET ss == Split(bs, b, size)
               rest == b + Header + size
           IN  /\ Chain(ss) /\ DOMAIN ss = DOMAIN bs \cup {rest} /\ rest \notin DOMAIN bs
               /\ ss[b].size = size /\ ~ss[b].free /\ ss[b].next = rest
               /\ ss[rest].free /\ ss[rest].next = bs[b].next
               /\ \A c \in DOMAIN bs \ {b} : ss[c] = bs[c]
<1>. DEFINE ss == Split(bs, b, size)
            rest == b + Header + size
            D == DOMAIN bs
<1>1. /\ bs \in [D -> Block] /\ D \subseteq Nat /\ b \in Nat /\ rest \in Nat
      /\ bs[b].size \in Nat /\ bs[b].next \in Int
  BY Numbers DEF Chain, Block
<1>2. bs[b].size - size - Header \in Nat /\ rest # b
  BY <1>1, Numbers
<1>3. /\ DOMAIN ss = D \cup {rest}
      /\ ss[b] = [size |-> size, free |-> FALSE, next |-> rest]
      /\ ss[rest] = [size |-> bs[b].size - size - Header, free |-> TRUE, next |-> bs[b].next]
      /\ \A c \in D \ {b, rest} : ss[c] = bs[c]
  BY <1>2 DEF Split, NewBlock
<1>4. ss = [x \in D \cup {rest} |-> ss[x]]
  BY DEF Split
<1>. HIDE DEF ss
<1>5. b < rest /\ rest < End(bs, b) /\ rest \notin D
  <2>1. b < rest /\ rest < End(bs, b)
    BY <1>1, Numbers DEF End
  <2>2. \A c \in D : c > b => c >= End(bs, b)
    BY DEF Chain
  <2>3. End(bs, b) \in Nat
    BY <1>1, Numbers DEF End
  <2>4. ASSUME rest \in D PROVE FALSE
    <3>. HIDE DEF rest
    <3>1. rest > b /\ End(bs, b) > rest
      BY <1>1, <2>1, <2>3
    <3>2. rest >= End(bs, b)
      BY <2>2, <2>4, <3>1
    <3>. QED  BY <1>1, <2>3, <3>1, <3>2
  <2>. QED  BY <2>1, <2>4
<1>6. ss \in [D \cup {rest} -> Block]
  <2>1. ss[b] \in Block /\ ss[rest] \in Block
    BY <1>1, <1>2, <1>3 DEF Block
  <2>2. \A c \in D \ {b, rest} : ss[c] \in Block
    BY <1>1, <1>3
  <2>3. \A c \in D \cup {rest} : ss[c] \in Block
    BY <2>1, <2>2
  <2>. QED  BY <1>4, <2>3
<1>7. End(ss, b) = rest /\ End(ss, rest) = End(bs, b) /\ \A c \in D \ {b} : End(ss, c) = End(bs, c)
  BY <1>1, <1>2, <1>3, <1>5, Numbers DEF End
<1>8. \A c \in D : End(bs, c) \in Nat /\ (c # b => c >= End(bs, b) \/ End(bs, c) <= b)
  <2>1. SUFFICES ASSUME NEW c \in D PROVE End(bs, c) \in Nat /\ (c # b => c >= End(bs, b) \/ End(bs, c) <= b)
    OBVIOUS
  <2>2. c \in Nat /\ bs[c].size \in Nat
    BY <1>1 DEF Block
  <2>3. (c > b => c >= End(bs, b)) /\ (b > c => b >= End(bs, c))
    BY DEF Chain
  <2>. QED  BY <1>1, <2>2, <2>3, Numbers DEF End
<1>9. Chain(ss)
  <2>1. DOMAIN ss \subseteq Nat /\ 0 \in DOMAIN ss
    BY <1>1, <1>3 DEF Chain
  <2>2. ASSUME NEW c \in DOMAIN ss
        PROVE  /\ End(ss, c) <= HeapSize
               /\ ss[c].next = IF End(ss, c) = HeapSize THEN NULL ELSE End(ss, c)
               /\ ss[c].next # NULL => ss[c].next \in DOMAIN ss
    <3>1. CASE c = b
      BY <3>1, <1>1, <1>3, <1>5, <1>7, <1>8, Numbers DEF Chain
    <3>2. CASE c = rest
      BY <3>2, <1>1, <1>3, <1>5, <1>7 DEF Chain
    <3>3. CASE c \in D \ {b}
      BY <3>3, <1>3, <1>5, <1>7 DEF Chain
    <3>. QED  BY <3>1, <3>2, <3>3, <1>3
  <2>3. ASSUME NEW c \in DOMAIN ss, NEW d \in DOMAIN ss, d > c
        PROVE  d >= End(ss, c)
    <3>1. CASE c = b
      BY <3>1, <2>3, <1>1, <1>3, <1>5, <1>7, <1>8 DEF Chain
    <3>2. CASE c = rest
      BY <3>2, <2>3, <1>1, <1>3, <1>5, <1>7, <1>8 DEF Chain
    <3>3. CASE c \in D \ {b}
      BY <3>3, <2>3, <1>1, <1>3, <1>5, <1>7, <1>8 DEF Chain
    <3>. QED  BY <3>1, <3>2, <3>3, <1>3
  <2>. QED  BY <1>3, <1>6, <2>1, <2>2, <2>3 DEF Chain
<1>. QED  BY <1>3, <1>5, <1>9 DEF ss

LEMMA MergedKeepsChain ==
    ASSUME NEW bs, Chain(bs), NEW b \in DOMAIN bs, bs[b].next # NULL
    PROVE  LET ms == Merged(bs, b)
               n == bs[b].next
           IN  /\ n \in DOMAIN bs /\ n # b
               /\ Chain(ms) /\ DOMAIN ms = DOMAIN bs \ {n}
               /\ ms[b].free = bs[b].free /\ ms[b].next = bs[n].next
               /\ \A c \in DOMAIN ms \ {b} : ms[c] = bs[c]
<1>. DEFINE ms == Merged(bs, b)
            n == bs[b].next
            D == DOMAIN bs
<1>1. /\ bs \in [D -> Block] /\ D \subseteq Nat /\ n \in D /\ n = End(bs, b)
      /\ bs[b].size \in Nat /\ bs[n].size \in Nat /\ bs[n].next \in Int
  BY DEF Chain, Block
<1>2. n > b
  BY <1>1, Numbers DEF End
<1>3. /\ DOMAIN ms = D \ {n}
      /\ ms[b] = [size |-> bs[b].size + Header + bs[n].size, free |-> bs[b].free, next |-> bs[n].next]
      /\ \A c \in D \ {b, n} : ms[c] = bs[c]
      /\ ms = [x \in D \ {n} |-> ms[x]]
  BY <1>1, <1>2 DEF Merged
<1>. HIDE DEF ms
<1>4. /\ ms[b] \in Block /\ ms[b].size = bs[b].size + Header + bs[n].size
      /\ ms[b].next = bs[n].next /\ ms[b].free = bs[b].free
  BY <1>1, <1>3, Numbers DEF Block
<1>5. ms \in [D \ {n} -> Block]
  BY <1>1, <1>3, <1>4
<1>6. End(ms, b) = End(bs, n) /\ \A c \in D \ {b, n} : End(ms, c) = End(bs, c)
  <2>1. n = b + Header + bs[b].size /\ b \in Nat
    BY <1>1 DEF End
  <2>2. End(ms, b) = End(bs, n)
    BY <2>1, <1>1, <1>4, Numbers DEF End
  <2>3. \A c \in D \ {b, n} : End(ms, c) = End(bs, c)
    BY <1>3 DEF End
  <2>. QED  BY <2>2, <2>3
<1>7. \A c \in D : c \in Nat /\ (c > b => c >= n) /\ (c > n => c >= End(bs, n)) /\ (bs[c].next = n => c = b)
  <2>1. SUFFICES ASSUME NEW c \in D
                 PROVE c \in Nat /\ (c > b => c >= n) /\ (c > n => c >= End(bs, n)) /\ (bs[c].next = n => c = b)
    OBVIOUS
  <2>2. c \in Nat /\ bs[c].size \in Nat /\ (c > b => c >= n) /\ (c > n => c >= End(bs, n))
    BY <1>1 DEF Chain, Block
  <2>3. b > c => b >= End(bs, c)
    BY DEF Chain
  <2>4. bs[c].next = n => n = End(bs, c)
    BY <1>1, Numbers DEF Chain
  <2>. QED  BY <1>1, <1>2, <2>2, <2>3, <2>4, Numbers DEF End
<1>8. Chain(ms)
  <2>1. DOMAIN ms \subseteq Nat /\ 0 \in DOMAIN ms
    BY <1>1, <1>2, <1>3 DEF Chain
  <2>2. ASSUME NEW c \in DOMAIN ms
        PROVE  /\ End(ms, c) <= HeapSize
               /\ ms[c].next = IF End(ms, c) = HeapSize THEN NULL ELSE End(ms, c)
               /\ ms[c].next # NULL => ms[c].next \in DOMAIN ms
    <3>1. CASE c = b
      <4>1. ms[b].next # n
        BY <1>1, <1>2, <1>4, <1>7
      <4>. QED  BY <3>1, <4>1, <1>1, <1>3, <1>4, <1>6 DEF Chain
    <3>2. CASE c \in D \ {b, n}
      BY <3>2, <1>3, <1>6, <1>7 DEF Chain
    <3>. QED  BY <3>1, <3>2, <1>3
  <2>3. ASSUME NEW c \in DOMAIN ms, NEW d \in DOMAIN ms, d > c
        PROVE  d >= End(ms, c)
    <3>1. CASE c = b
      BY <3>1, <2>3, <1>1, <1>2, <1>3, <1>6, <1>7
    <3>2. CASE c \in D \ {b, n}
      BY <3>2, <2>3, <1>3, <1>6 DEF Chain
    <3>. QED  BY <3>1, <3>2, <1>3
  <2>. QED  BY <1>3, <1>5, <2>1, <2>2, <2>3 DEF Chain
<1>. QED  BY <1>1, <1>2, <1>3, <1>4, <1>8 DEF ms

LEMMA NextIsHigher ==
    ASSUME NEW bs, Chain(bs), NEW b \in DOMAIN bs, bs[b].next # NULL
    PROVE  bs[b].next > b /\ bs[b].next \in DOMAIN bs
<1>1. b \in Nat /\ bs[b].size \in Nat /\ bs[b].next = End(bs, b)
  BY DEF Chain, Block
<1>2. bs[b].next \in DOMAIN bs
  BY DEF Chain
<1>. QED  BY <1>1, <1>2, Numbers DEF End

-----------------------------------------------------------------------------
(***************************************************************************)
(* What kmalloc and kfree do to the chain                                  *)
(***************************************************************************)
LEMMA TakenIsSound ==
    ASSUME NEW bs, Chain(bs), Merges(bs), NEW b \in DOMAIN bs, bs[b].free,
           NEW n, Rounded(n) \in Nat, bs[b].size >= Rounded(n)
    PROVE  LET ts == Taken(bs, b, n)
           IN  /\ Chain(ts) /\ Merges(ts)
               /\ Used(ts) = Used(bs) \cup {b} /\ b \notin Used(bs)
               /\ ts[b].size >= Rounded(n)
               /\ \A c \in Used(bs) : ts[c] = bs[c]
<1>. DEFINE ts == Taken(bs, b, n)
            size == Rounded(n)
            D == DOMAIN bs
<1>. HIDE DEF size
<1>1. b \notin Used(bs) /\ size \in Nat /\ bs[b].size \in Nat
  BY DEF Used, Chain, Block, size
<1>2. CASE bs[b].size >= size + Header + Least
  <2>. DEFINE rest == b + Header + size
  <2>1. ts = Split(bs, b, size)
    BY <1>2 DEF Taken, size
  <2>. HIDE DEF ts, rest
  <2>2. bs[b].size >= size + Header
    BY <1>1, <1>2, Numbers
  <2>3. /\ Chain(ts) /\ DOMAIN ts = D \cup {rest} /\ rest \notin D
        /\ ts[b].size = size /\ ~ts[b].free
        /\ ts[rest].free /\ ts[rest].next = bs[b].next
        /\ \A c \in D \ {b} : ts[c] = bs[c]
    BY <1>1, <2>1, <2>2, SplitKeepsChain DEF rest
  <2>4. \A x \in D : bs[x].next # rest
    <3>1. rest # NULL
      BY <1>1, Numbers DEF rest, Chain
    <3>. QED  BY <2>3, <3>1 DEF Chain
  <2>5. Merges(ts)
    <3>1. SUFFICES ASSUME NEW x \in DOMAIN ts, NEW y \in DOMAIN ts, ts[x].free, ts[x].next = y
                   PROVE ~ts[y].free
      BY DEF Merges
    <3>2. ts[x].next = bs[IF x = rest THEN b ELSE x].next /\ bs[IF x = rest THEN b ELSE x].free
      BY <2>3, <3>1
    <3>3. y # rest
      BY <2>3, <2>4, <3>1, <3>2
    <3>4. CASE y = b
      BY <2>3, <3>4
    <3>5. CASE y # b
      BY <2>3, <3>1, <3>2, <3>3, <3>5 DEF Merges
    <3>. QED  BY <3>4, <3>5
  <2>6. Used(ts) = Used(bs) \cup {b}
    BY <2>3 DEF Used
  <2>7. \A c \in Used(bs) : ts[c] = bs[c]
    BY <1>1, <2>3 DEF Used
  <2>8. ts[b].size >= size
    BY <1>1, <2>3
  <2>. QED  BY <1>1, <2>3, <2>5, <2>6, <2>7, <2>8 DEF size, ts
<1>3. CASE ~(bs[b].size >= size + Header + Least)
  <2>1. ts = [bs EXCEPT ![b].free = FALSE]
    BY <1>3 DEF Taken, size
  <2>. HIDE DEF ts
  <2>2. /\ Chain(ts) /\ DOMAIN ts = D /\ ~ts[b].free /\ ts[b].size = bs[b].size
        /\ \A c \in D : ts[c].next = bs[c].next
        /\ \A c \in D \ {b} : ts[c] = bs[c]
    BY <2>1, MarkKeepsChain
  <2>3. Merges(ts)
    BY <2>2 DEF Merges
  <2>4. Used(ts) = Used(bs) \cup {b}
    BY <2>2 DEF Used
  <2>5. \A c \in Used(bs) : ts[c] = bs[c]
    BY <1>1, <2>2 DEF Used
  <2>. QED  BY <1>1, <2>2, <2>3, <2>4, <2>5 DEF size, ts
<1>. QED  BY <1>2, <1>3

\* What kfree does to the block b.
Freeing(bs, b) == MergedPrev(MergedNext([bs EXCEPT ![b].free = TRUE], b), b)

LEMMA FreeingIsSound ==
    ASSUME NEW bs, Chain(bs), Merges(bs), NEW b \in DOMAIN bs, ~bs[b].free
    PROVE  LET fs == Freeing(bs, b)
           IN  /\ Chain(fs) /\ Merges(fs)
               /\ Used(fs) = Used(bs) \ {b}
               /\ \A c \in Used(fs) : fs[c].size = bs[c].size
<1>. DEFINE m0 == [bs EXCEPT ![b].free = TRUE]
            m1 == MergedNext(m0, b)
            fs == MergedPrev(m1, b)
<1>1. Freeing(bs, b) = fs
  BY DEF Freeing
<1>2. /\ Chain(m0) /\ DOMAIN m0 = DOMAIN bs /\ m0[b].free
      /\ \A c \in DOMAIN bs : m0[c].size = bs[c].size /\ m0[c].next = bs[c].next
      /\ \A c \in DOMAIN bs \ {b} : m0[c] = bs[c]
  BY MarkKeepsChain
<1>. HIDE DEF m0
<1>3. Used(m0) = Used(bs) \ {b}
  BY <1>2 DEF Used
<1>4. /\ Chain(m1) /\ b \in DOMAIN m1 /\ m1[b].free
      /\ Used(m1) = Used(m0) /\ \A c \in Used(m1) : m1[c].size = m0[c].size
      /\ \A c \in DOMAIN m1 : m1[b].next = c => ~m1[c].free
      /\ \A x, y \in DOMAIN m1 \ {b} : m1[x].free /\ m1[x].next = y => ~m1[y].free
  <2>. DEFINE n == m0[b].next
  <2>1. CASE n # NULL /\ m0[n].free
    <3>1. m1 = Merged(m0, b)
      BY <2>1 DEF MergedNext
    <3>. HIDE DEF m1
    <3>2. /\ n \in DOMAIN m0 /\ n # b /\ Chain(m1) /\ DOMAIN m1 = DOMAIN m0 \ {n}
          /\ m1[b].free /\ m1[b].next = m0[n].next
          /\ \A c \in DOMAIN m1 \ {b} : m1[c] = m0[c]
      <4>1. Chain(m0) /\ b \in DOMAIN m0 /\ m0[b].next # NULL /\ m0[b].free
        BY <1>2, <2>1
      <4>. QED  BY <3>1, <4>1, MergedKeepsChain
    <3>3. Used(m1) = Used(m0) /\ \A c \in Used(m1) : m1[c] = m0[c]
      BY <1>2, <2>1, <3>2 DEF Used
    <3>4. ASSUME NEW c \in DOMAIN m1, m1[b].next = c
          PROVE  ~m1[c].free
      <4>1. bs[n].free /\ bs[n].next = c /\ c \in DOMAIN bs
        BY <1>2, <2>1, <3>2, <3>4
      <4>2. c \in Nat /\ n \in Nat /\ b \in Nat /\ c # NULL
        BY <1>2, <3>2, <4>1, Numbers DEF Chain
      <4>3. c > n /\ n > b
        BY <1>2, <2>1, <3>2, <4>1, <4>2, NextIsHigher
      <4>4. c # b
        BY <4>2, <4>3
      <4>. QED  BY <1>2, <3>2, <4>1, <4>4 DEF Merges
    <3>5. \A x, y \in DOMAIN m1 \ {b} : m1[x].free /\ m1[x].next = y => ~m1[y].free
      BY <1>2, <3>2 DEF Merges
    <3>. QED  BY <1>2, <3>2, <3>3, <3>4, <3>5
  <2>2. CASE ~(n # NULL /\ m0[n].free)
    <3>1. m1 = m0
      BY <2>2 DEF MergedNext
    <3>2. \A c \in DOMAIN m0 : m0[b].next = c => ~m0[c].free
      BY <1>2, <2>2, Numbers DEF Chain
    <3>3. \A x, y \in DOMAIN m0 \ {b} : m0[x].free /\ m0[x].next = y => ~m0[y].free
      BY <1>2 DEF Merges
    <3>. QED  BY <1>2, <3>1, <3>2, <3>3
  <2>. QED  BY <2>1, <2>2
<1>. HIDE DEF m1
<1>5. Chain(fs) /\ Merges(fs) /\ Used(fs) = Used(m1) /\ \A c \in Used(fs) : fs[c].size = m1[c].size
  <2>. DEFINE IsPrev(c) == m1[c].next = b /\ m1[c].free
  <2>1. CASE \E c \in DOMAIN m1 : IsPrev(c)
    <3>. DEFINE c0 == CHOOSE c \in DOMAIN m1 : IsPrev(c)
    <3>1. c0 \in DOMAIN m1 /\ IsPrev(c0)
      BY <2>1
    <3>2. fs = Merged(m1, c0)
      BY <2>1 DEF MergedPrev
    <3>. HIDE DEF fs, c0
    <3>3. b # NULL
      BY <1>4, Numbers DEF Chain
    <3>4. /\ c0 # b /\ Chain(fs) /\ DOMAIN fs = DOMAIN m1 \ {b}
          /\ fs[c0].free /\ fs[c0].next = m1[b].next
          /\ \A c \in DOMAIN fs \ {c0} : fs[c] = m1[c]
      BY <1>4, <3>1, <3>2, <3>3, MergedKeepsChain
    <3>5. Used(fs) = Used(m1) /\ \A c \in Used(fs) : fs[c] = m1[c]
      BY <1>4, <3>1, <3>4 DEF Used
    <3>6. Merges(fs)
      <4>1. SUFFICES ASSUME NEW x \in DOMAIN fs, NEW y \in DOMAIN fs, fs[x].free, fs[x].next = y
                     PROVE ~fs[y].free
        BY DEF Merges
      <4>2. CASE x = c0
        <5>1. y \in DOMAIN m1 /\ m1[b].next = y /\ ~m1[y].free
          BY <1>4, <3>4, <4>1, <4>2
        <5>2. y # c0
          BY <3>1, <5>1
        <5>. QED  BY <3>4, <4>1, <5>1, <5>2
      <4>3. CASE x # c0 /\ y # c0
        BY <1>4, <3>4, <4>1, <4>3
      <4>4. CASE x # c0 /\ y = c0
        BY <1>4, <3>1, <3>4, <4>1, <4>4
      <4>. QED  BY <4>2, <4>3, <4>4
    <3>. QED  BY <3>4, <3>5, <3>6
  <2>2. CASE ~\E c \in DOMAIN m1 : IsPrev(c)
    <3>1. fs = m1
      BY <2>2 DEF MergedPrev
    <3>2. Merges(m1)
      BY <1>4, <2>2 DEF Merges
    <3>. QED  BY <1>4, <3>1, <3>2
  <2>. QED  BY <2>1, <2>2
<1>. HIDE DEF fs
<1>6. \A c \in Used(fs) : fs[c].size = bs[c].size
  BY <1>2, <1>3, <1>4, <1>5 DEF Used
<1>7. Used(fs) = Used(bs) \ {b}
  BY <1>3, <1>4, <1>5
<1>. QED  BY <1>1, <1>5, <1>6, <1>7

LEMMA FreedIsSound ==
    ASSUME NEW bs, Chain(bs), Merges(bs), NEW p, p - Header \in Used(bs)
    PROVE  LET fs == Freed(bs, p)
           IN  /\ Chain(fs) /\ Merges(fs)
               /\ Used(fs) = Used(bs) \ {p - Header}
               /\ \A c \in Used(fs) : fs[c].size = bs[c].size
<1>. DEFINE b == p - Header
<1>1. Freed(bs, p) = Freeing(bs, b)
  BY DEF Freed, Freeing
<1>2. b \in DOMAIN bs /\ ~bs[b].free
  BY DEF Used
<1>. HIDE DEF b
<1>3. /\ Chain(Freeing(bs, b)) /\ Merges(Freeing(bs, b))
      /\ Used(Freeing(bs, b)) = Used(bs) \ {b}
      /\ \A c \in Used(Freeing(bs, b)) : Freeing(bs, b)[c].size = bs[c].size
  BY <1>2, FreeingIsSound
<1>. QED  BY <1>1, <1>3 DEF b

-----------------------------------------------------------------------------
(***************************************************************************)
(* The blocks and their holders                                            *)
(***************************************************************************)
LEMMA RoundedUp ==
    ASSUME NEW n \in Nat
    PROVE  Rounded(n) \in Nat /\ (n <= Word - Align => Rounded(n) >= n)
<1>. DEFINE x == n + Align - 1
<1>1. /\ Align \in Nat /\ Align > 0 /\ Word \in Nat /\ Word > 0
      /\ x \in Nat /\ x % Word \in Nat
  <2>1. Align \in Nat /\ Align > 0 /\ Word \in Nat /\ Word > 0
    <3>1. Word > 2 * (HeapSize + Header + Least) /\ Word \in Nat
      BY HeapAssumption
    <3>. QED  BY <3>1, Numbers, HeapAssumption
  <2>2. x \in Nat
    BY <2>1
  <2>. HIDE DEF x
  <2>3. x % Word \in 0 .. Word - 1
    BY <2>1, <2>2
  <2>. QED  BY <2>1, <2>2, <2>3
<1>2. \A y \in Nat : (y \div Align) * Align \in Nat /\ (y \div Align) * Align + Align > y
  <2>1. \A y \in Nat : y \div Align \in Nat
    BY <1>1
  <2>2. \A y \in Nat : (y \div Align) * Align + Align > y
    BY <1>1
  <2>. QED  BY <1>1, <2>1, <2>2
<1>3. Rounded(n) = ((x % Word) \div Align) * Align
  BY DEF Rounded
<1>4. n <= Word - Align => x % Word = x
  <2>1. n <= Word - Align => x \in 0 .. Word - 1
    BY <1>1
  <2>. HIDE DEF x
  <2>. QED  BY <1>1, <2>1
<1>5. Rounded(n) \in Nat
  BY <1>1, <1>2, <1>3
<1>6. ASSUME n <= Word - Align PROVE Rounded(n) >= n
  <2>1. Rounded(n) = (x \div Align) * Align
    BY <1>3, <1>4, <1>6
  <2>2. Rounded(n) + Align > x
    BY <1>1, <1>2, <2>1
  <2>. QED  BY <1>1, <1>5, <2>2
<1>. QED  BY <1>5, <1>6

\* How long the buffer at p is.
Payload(bs, p) == bs[p - Header].size

\* The blocks of bs in use are what the holders lv hold, each long enough.
HeldBy(bs, lv) ==
    /\ Chain(bs) /\ Merges(bs)
    /\ DOMAIN lv = {b + Header : b \in Used(bs)}
    /\ \A p \in DOMAIN lv : lv[p].asked <= Word - Align => Payload(bs, p) >= lv[p].asked

\* The holder of p notices nothing of a step from bs, lv to bs2, lv2.
Keeps(p, bs, lv, bs2, lv2) ==
    p \in DOMAIN lv2 /\ lv2[p] = lv[p] /\ Payload(bs2, p) = Payload(bs, p)

\* The holder of the new buffer q joins lv.
Joins(q, n, what, lv, lv2) ==
    /\ DOMAIN lv2 = DOMAIN lv \cup {q}
    /\ lv2[q] = [asked |-> n, holds |-> what]

LEMMA HeldByIsHeapSound ==
    ASSUME HeldBy(blocks, live) PROVE HeapSound
<1>1. Chain(blocks) /\ Merges(blocks)
  BY DEF HeldBy
<1>2. BlocksTile
  BY <1>1 DEF BlocksTile, Headers, Chain, End
<1>3. NoFreeNeighbours
  BY <1>1 DEF NoFreeNeighbours, Headers, Chain, Merges
<1>4. InUseIsHeld
  BY DEF HeldBy, InUseIsHeld, Headers, Used, Payload
<1>. QED  BY <1>2, <1>3, <1>4 DEF HeapSound

\* A pointer is its block's header plus Header, and no other block's.
LEMMA PointersAreBlocks ==
    ASSUME NEW bs, NEW lv, HeldBy(bs, lv), NEW p \in DOMAIN lv
    PROVE  /\ p - Header \in Used(bs) /\ p \in Nat /\ p >= Header
           /\ Payload(bs, p) = bs[p - Header].size /\ Payload(bs, p) \in Nat
<1>1. PICK b \in Used(bs) : p = b + Header
  BY DEF HeldBy
<1>2. b \in Nat /\ b \in DOMAIN bs /\ bs[b].size \in Nat
  BY DEF HeldBy, Chain, Used, Block
<1>3. p - Header = b /\ p \in Nat /\ p >= Header
  BY <1>1, <1>2, Numbers
<1>. QED  BY <1>2, <1>3 DEF Payload

\* kmalloc(n) that took the block b, for a holder that puts "what" there.
LEMMA TakeKeepsHeld ==
    ASSUME NEW bs, NEW lv, HeldBy(bs, lv), NEW n \in Nat, NEW what,
           NEW b \in DOMAIN bs, Takes(bs, n, b),
           NEW q, q = b + Header,
           NEW ts, ts = Taken(bs, b, n),
           NEW tl, tl = Held(lv, q, n, what)
    PROVE  /\ HeldBy(ts, tl) /\ q \in Nat /\ q > 0
           /\ q \notin DOMAIN lv /\ Joins(q, n, what, lv, tl)
           /\ \A p \in DOMAIN lv : Keeps(p, bs, lv, ts, tl)
           /\ n <= Word - Align => Payload(ts, q) >= n
<1>1. bs[b].free /\ bs[b].size >= Rounded(n) /\ Chain(bs) /\ Merges(bs)
  BY DEF Takes, Fit, HeldBy
<1>2. Rounded(n) \in Nat /\ (n <= Word - Align => Rounded(n) >= n)
  BY RoundedUp
<1>3. /\ Chain(ts) /\ Merges(ts) /\ Used(ts) = Used(bs) \cup {b} /\ b \notin Used(bs)
      /\ ts[b].size >= Rounded(n) /\ \A c \in Used(bs) : ts[c] = bs[c]
  BY <1>1, <1>2, TakenIsSound
<1>4. b \in Nat /\ q \in Nat /\ q > 0 /\ (q) - Header = b
  <2>1. b \in Nat
    BY <1>1 DEF Chain
  <2>. QED  BY <2>1, Numbers
<1>5. \A p \in DOMAIN lv : p - Header \in Used(bs)
  BY PointersAreBlocks
<1>6. q \notin DOMAIN lv
  BY <1>3, <1>4, <1>5
<1>7. /\ DOMAIN tl = DOMAIN lv \cup {q}
      /\ tl[q] = [asked |-> n, holds |-> what]
      /\ \A p \in DOMAIN lv : tl[p] = lv[p]
  BY <1>6 DEF Held
<1>8. ts[b].size \in Nat /\ (n <= Word - Align => ts[b].size >= n)
  <2>1. ts[b].size \in Nat
    BY <1>3 DEF Chain, Used, Block
  <2>2. ASSUME n <= Word - Align PROVE ts[b].size >= n
    BY <1>2, <1>3, <2>1, <2>2
  <2>. QED  BY <2>1, <2>2
<1>9. \A p \in DOMAIN lv : Keeps(p, bs, lv, ts, tl)
  BY <1>3, <1>5, <1>7 DEF Keeps, Payload
<1>10. HeldBy(ts, tl)
  <2>1. DOMAIN tl = {c + Header : c \in Used(ts)}
    BY <1>3, <1>7 DEF HeldBy
  <2>2. ASSUME NEW p \in DOMAIN tl, tl[p].asked <= Word - Align
        PROVE  Payload(ts, p) >= tl[p].asked
    <3>1. CASE p = q
      <4>1. tl[p].asked = n /\ p - Header = b
        BY <1>4, <1>7, <3>1
      <4>. QED  BY <1>8, <2>2, <4>1 DEF Payload
    <3>2. CASE p \in DOMAIN lv
      BY <1>9, <2>2, <3>2 DEF HeldBy, Keeps
    <3>. QED  BY <1>7, <3>1, <3>2
  <2>. QED  BY <1>3, <2>1, <2>2 DEF HeldBy
<1>11. n <= Word - Align => Payload(ts, q) >= n
  BY <1>4, <1>8 DEF Payload
<1>12. Joins(q, n, what, lv, tl)
  BY <1>7 DEF Joins
<1>. QED  BY <1>4, <1>6, <1>9, <1>10, <1>11, <1>12

\* kfree(p) of a pointer somebody holds.
LEMMA GiveKeepsHeld ==
    ASSUME NEW bs, NEW lv, HeldBy(bs, lv), NEW p \in DOMAIN lv
    PROVE  LET fs == Freed(bs, p)
               fl == Dropped(lv, p)
           IN  /\ HeldBy(fs, fl) /\ DOMAIN fl = DOMAIN lv \ {p}
               /\ \A q \in DOMAIN fl : Keeps(q, bs, lv, fs, fl)
<1>. DEFINE fs == Freed(bs, p)
            fl == Dropped(lv, p)
<1>1. Chain(bs) /\ Merges(bs) /\ p - Header \in Used(bs) /\ p \in Nat
  BY PointersAreBlocks DEF HeldBy
<1>2. /\ Chain(fs) /\ Merges(fs) /\ Used(fs) = Used(bs) \ {p - Header}
      /\ \A c \in Used(fs) : fs[c].size = bs[c].size
  BY <1>1, FreedIsSound
<1>. HIDE DEF fs
<1>3. DOMAIN fl = DOMAIN lv \ {p} /\ \A q \in DOMAIN fl : fl[q] = lv[q]
  BY DEF Dropped
<1>. HIDE DEF fl
<1>4. \A q \in DOMAIN lv : q - Header \in Used(bs) /\ q \in Nat
  BY PointersAreBlocks
<1>5. \A q \in DOMAIN fl : q - Header \in Used(fs)
  <2>1. SUFFICES ASSUME NEW q \in DOMAIN fl PROVE q - Header # p - Header
    BY <1>2, <1>3, <1>4
  <2>2. q \in Nat /\ q # p
    BY <1>3, <1>4
  <2>. QED  BY <1>1, <2>2, Numbers
<1>6. \A q \in DOMAIN fl : Keeps(q, bs, lv, fs, fl)
  BY <1>2, <1>3, <1>5 DEF Keeps, Payload
<1>7. DOMAIN fl = {c + Header : c \in Used(fs)}
  <2>1. \A c \in Used(bs) : (c + Header) - Header = c /\ c + Header \in DOMAIN lv
    <3>1. \A c \in Used(bs) : c \in Nat
      BY <1>1 DEF Chain, Used
    <3>. QED  BY <3>1, Numbers DEF HeldBy
  <2>2. \A q \in DOMAIN lv : (q - Header) + Header = q
    BY <1>4, Numbers
  <2>3. ASSUME NEW q \in DOMAIN fl PROVE \E c \in Used(fs) : q = c + Header
    BY <1>3, <1>5, <2>2
  <2>4. ASSUME NEW c \in Used(fs) PROVE c + Header \in DOMAIN fl
    BY <1>2, <1>3, <2>1
  <2>. QED  BY <2>3, <2>4
<1>8. HeldBy(fs, fl)
  BY <1>2, <1>3, <1>6, <1>7 DEF HeldBy, Keeps
<1>. QED  BY <1>3, <1>6, <1>8 DEF fs, fl

-----------------------------------------------------------------------------
(***************************************************************************)
(* What a call of kmalloc, kfree or both does to the holders, and to the   *)
(* arena                                                                   *)
(***************************************************************************)
LEMMA PayloadsAreApart ==
    ASSUME NEW bs, NEW lv, HeldBy(bs, lv), NEW p \in DOMAIN lv
    PROVE  /\ p \in Nat /\ Payload(bs, p) \in Nat
           /\ p + Payload(bs, p) <= HeapSize
           /\ \A q \in DOMAIN lv \ {p} :
                p + Payload(bs, p) <= q \/ q + Payload(bs, q) <= p
<1>1. \A q \in DOMAIN lv :
        /\ q - Header \in DOMAIN bs /\ q \in Nat
        /\ Payload(bs, q) \in Nat /\ Payload(bs, q) = bs[q - Header].size
  BY PointersAreBlocks DEF Used
<1>2. \A q \in DOMAIN lv : End(bs, q - Header) = q + Payload(bs, q)
  BY <1>1, Numbers DEF End
<1>3. p + Payload(bs, p) <= HeapSize
  BY <1>1, <1>2 DEF HeldBy, Chain
<1>4. ASSUME NEW q \in DOMAIN lv, NEW r \in DOMAIN lv, q < r PROVE q + Payload(bs, q) <= r
  <2>1. r - Header > q - Header
    BY <1>1, <1>4, Numbers
  <2>2. r - Header >= End(bs, q - Header)
    BY <1>1, <2>1 DEF HeldBy, Chain
  <2>. QED  BY <1>1, <1>2, <2>2, Numbers
<1>5. \A q \in DOMAIN lv \ {p} : p < q \/ q < p
  BY <1>1
<1>. QED  BY <1>1, <1>3, <1>4, <1>5

\* The regions of the arena: what holders hold, and how long each is.
Regions(bs, lv) == [p \in DOMAIN lv |-> Payload(bs, p)]

LEMMA RegionsAreRegions ==
    /\ [p \in DOMAIN live |-> blocks[p - Header].size] = Regions(blocks, live)
    /\ [p \in DOMAIN live' |-> blocks'[p - Header].size] = Regions(blocks', live')
  BY DEF Regions, Payload

\* The steps of the arena, said of its regions.
LEMMA TakeInArena ==
    ASSUME NEW p \in DOMAIN live',
           HeapArena!Fits(p, Payload(blocks', p), DOMAIN live),
           Regions(blocks', live') = HeapArena!With(p, Payload(blocks', p), DOMAIN live)
    PROVE  HeapArena!Next
<1>1. HeapArena!Take(p, Payload(blocks', p))
  BY RegionsAreRegions DEF HeapArena!Take, HeapArena!Starts
<1>2. HeapArena!Take(p, blocks'[p - Header].size)
  BY <1>1 DEF Payload
<1>. QED  BY <1>2 DEF HeapArena!Next, HeapArena!Take

LEMMA GiveInArena ==
    ASSUME NEW p \in DOMAIN live,
           Regions(blocks', live') = [q \in DOMAIN live \ {p} |-> Payload(blocks, q)]
    PROVE  HeapArena!Next
<1>1. HeapArena!Give(p)
  BY RegionsAreRegions DEF HeapArena!Give, HeapArena!Starts, Regions
<1>. QED  BY <1>1 DEF HeapArena!Next, HeapArena!Starts

LEMMA ExchangeInArena ==
    ASSUME NEW old \in DOMAIN live, NEW p \in DOMAIN live',
           HeapArena!Fits(p, Payload(blocks', p), DOMAIN live),
           Regions(blocks', live') = HeapArena!With(p, Payload(blocks', p), DOMAIN live \ {old})
    PROVE  HeapArena!Next
<1>1. HeapArena!Exchange(old, p, Payload(blocks', p))
  BY RegionsAreRegions DEF HeapArena!Exchange, HeapArena!Starts
<1>2. HeapArena!Exchange(old, p, blocks'[p - Header].size)
  BY <1>1 DEF Payload
<1>. QED  BY <1>2 DEF HeapArena!Next, HeapArena!Exchange, HeapArena!Starts

\* Where kmalloc's buffer is put, the arena is free.
LEMMA TakenFits ==
    ASSUME HeldBy(blocks, live), NEW n \in Nat, NEW what,
           NEW b \in DOMAIN blocks, Takes(blocks, n, b)
    PROVE  HeapArena!Fits(b + Header, Payload(Taken(blocks, b, n), b + Header), DOMAIN live)
<1>. DEFINE q == b + Header
            ts == Taken(blocks, b, n)
            tl == Held(live, q, n, what)
<1>0. q = b + Header /\ ts = Taken(blocks, b, n) /\ tl = Held(live, q, n, what)
  OBVIOUS
<1>. HIDE DEF q, ts, tl
<1>1. /\ HeldBy(ts, tl) /\ q \notin DOMAIN live /\ Joins(q, n, what, live, tl)
      /\ \A p \in DOMAIN live : Keeps(p, blocks, live, ts, tl)
  BY <1>0, TakeKeepsHeld
<1>2. /\ q \in Nat /\ Payload(ts, q) \in Nat /\ q + Payload(ts, q) <= HeapSize
      /\ \A p \in DOMAIN live : q + Payload(ts, q) <= p \/ p + Payload(ts, p) <= q
  <2>1. DOMAIN tl = DOMAIN live \cup {q}
    BY <1>1 DEF Joins
  <2>. QED  BY <1>1, <2>1, PayloadsAreApart
<1>3. \A p \in DOMAIN live : p # q /\ Payload(ts, p) = blocks[p - Header].size
  BY <1>1 DEF Keeps, Payload
<1>4. HeapArena!Fits(q, Payload(ts, q), DOMAIN live)
  BY <1>2, <1>3 DEF HeapArena!Fits
<1>. QED  BY <1>4 DEF q, ts

LEMMA TakeStep ==
    ASSUME HeldBy(blocks, live), NEW n \in Nat, NEW what,
           NEW b \in DOMAIN blocks, Takes(blocks, n, b),
           blocks' = Taken(blocks, b, n), live' = Held(live, b + Header, n, what)
    PROVE  /\ HeldBy(blocks', live') /\ HeapArena!Next
           /\ b + Header \in Nat /\ b + Header > 0
           /\ b + Header \notin DOMAIN live /\ b + Header \in DOMAIN live'
           /\ live'[b + Header] = [asked |-> n, holds |-> what]
           /\ n <= Word - Align => Payload(blocks', b + Header) >= n
           /\ \A p \in DOMAIN live : Keeps(p, blocks, live, blocks', live')
<1>. DEFINE q == b + Header
            ts == Taken(blocks, b, n)
            tl == Held(live, q, n, what)
<1>0. q = b + Header /\ ts = Taken(blocks, b, n) /\ tl = Held(live, q, n, what)
  OBVIOUS
<1>. HIDE DEF q, ts, tl
<1>1. /\ HeldBy(ts, tl) /\ q \in Nat /\ q > 0
      /\ q \notin DOMAIN live /\ Joins(q, n, what, live, tl)
      /\ \A p \in DOMAIN live : Keeps(p, blocks, live, ts, tl)
      /\ n <= Word - Align => Payload(ts, q) >= n
  BY <1>0, TakeKeepsHeld
<1>2. HeapArena!Fits(q, Payload(ts, q), DOMAIN live)
  BY TakenFits DEF q, ts
<1>3. blocks' = ts /\ live' = tl
  BY DEF q, ts, tl
<1>4. Regions(blocks', live') = HeapArena!With(q, Payload(blocks', q), DOMAIN live)
  BY <1>1, <1>3 DEF Regions, Keeps, Joins, HeapArena!With, Payload
<1>5. DOMAIN tl = DOMAIN live \cup {q} /\ tl[q] = [asked |-> n, holds |-> what]
  BY <1>1 DEF Joins
<1>6. HeapArena!Next
  BY <1>2, <1>3, <1>4, <1>5, TakeInArena
<1>. QED  BY <1>1, <1>3, <1>5, <1>6 DEF q

LEMMA GiveStep ==
    ASSUME HeldBy(blocks, live), NEW p \in DOMAIN live,
           blocks' = Freed(blocks, p), live' = Dropped(live, p)
    PROVE  /\ HeldBy(blocks', live') /\ HeapArena!Next
           /\ \A q \in DOMAIN live \ {p} : Keeps(q, blocks, live, blocks', live')
<1>1. /\ HeldBy(blocks', live') /\ DOMAIN live' = DOMAIN live \ {p}
      /\ \A q \in DOMAIN live' : Keeps(q, blocks, live, blocks', live')
  BY GiveKeepsHeld
<1>2. Regions(blocks', live') = [q \in DOMAIN live \ {p} |-> Payload(blocks, q)]
  BY <1>1 DEF Regions, Keeps
<1>. QED  BY <1>1, <1>2, GiveInArena

\* kmalloc(n), then kfree(p), as in initrd_save and krealloc.
LEMMA ExchangeStep ==
    ASSUME HeldBy(blocks, live), NEW n \in Nat, NEW what, NEW p \in DOMAIN live,
           NEW b \in DOMAIN blocks, Takes(blocks, n, b),
           blocks' = Freed(Taken(blocks, b, n), p),
           live' = Dropped(Held(live, b + Header, n, what), p)
    PROVE  /\ HeldBy(blocks', live') /\ HeapArena!Next
           /\ b + Header \in Nat /\ b + Header > 0
           /\ b + Header \notin DOMAIN live /\ b + Header \in DOMAIN live'
           /\ live'[b + Header] = [asked |-> n, holds |-> what]
           /\ n <= Word - Align => Payload(blocks', b + Header) >= n
           /\ \A q \in DOMAIN live \ {p} : Keeps(q, blocks, live, blocks', live')
<1>. DEFINE q == b + Header
            ts == Taken(blocks, b, n)
            tl == Held(live, q, n, what)
<1>0. q = b + Header /\ ts = Taken(blocks, b, n) /\ tl = Held(live, q, n, what)
  OBVIOUS
<1>. HIDE DEF q, ts, tl
<1>1. /\ HeldBy(ts, tl) /\ q \in Nat /\ q > 0
      /\ q \notin DOMAIN live /\ Joins(q, n, what, live, tl)
      /\ \A o \in DOMAIN live : Keeps(o, blocks, live, ts, tl)
      /\ n <= Word - Align => Payload(ts, q) >= n
  BY <1>0, TakeKeepsHeld
<1>2. HeapArena!Fits(q, Payload(ts, q), DOMAIN live)
  BY TakenFits DEF q, ts
<1>3. blocks' = Freed(ts, p) /\ live' = Dropped(tl, p)
  BY DEF q, ts, tl
<1>4. /\ DOMAIN tl = DOMAIN live \cup {q} /\ tl[q] = [asked |-> n, holds |-> what]
      /\ p \in DOMAIN tl /\ p # q
  BY <1>1 DEF Joins
<1>5. /\ HeldBy(blocks', live') /\ DOMAIN live' = DOMAIN tl \ {p}
      /\ \A o \in DOMAIN live' : Keeps(o, ts, tl, blocks', live')
  <2>1. HeldBy(ts, tl) /\ p \in DOMAIN tl
    BY <1>1, <1>4
  <2>2. /\ HeldBy(Freed(ts, p), Dropped(tl, p)) /\ DOMAIN Dropped(tl, p) = DOMAIN tl \ {p}
        /\ \A o \in DOMAIN Dropped(tl, p) : Keeps(o, ts, tl, Freed(ts, p), Dropped(tl, p))
    BY <2>1, GiveKeepsHeld, Zenon
  <2>. QED  BY <1>3, <2>2
<1>6. DOMAIN live' = (DOMAIN live \ {p}) \cup {q}
  BY <1>4, <1>5
<1>7. \A o \in DOMAIN live \ {p} : Keeps(o, blocks, live, blocks', live')
  BY <1>1, <1>5, <1>6 DEF Keeps
<1>8. live'[q] = tl[q] /\ Payload(blocks', q) = Payload(ts, q)
  BY <1>5, <1>6 DEF Keeps
<1>9. Regions(blocks', live') = HeapArena!With(q, Payload(blocks', q), DOMAIN live \ {p})
  BY <1>1, <1>6, <1>7 DEF Regions, Keeps, HeapArena!With, Payload
<1>10. HeapArena!Next
  BY <1>2, <1>6, <1>8, <1>9, ExchangeInArena
<1>. QED  BY <1>1, <1>4, <1>5, <1>6, <1>7, <1>8, <1>10 DEF q

-----------------------------------------------------------------------------
(***************************************************************************)
(* The calls                                                               *)
(***************************************************************************)
\* The arena takes a step or none.
ArenaStep == HeapArena!Next \/ Regions(blocks', live') = Regions(blocks, live)

LEMMA KmallocStep ==
    ASSUME HeldBy(blocks, live), NEW n \in Nat, NEW what, Kmalloc(n, what)
    PROVE  /\ HeldBy(blocks', live') /\ ArenaStep
           /\ \A p \in DOMAIN live : Keeps(p, blocks, live, blocks', live')
<1>1. CASE UNCHANGED heapVars
  BY <1>1 DEF heapVars, ArenaStep, Keeps
<1>2. ASSUME NEW b \in Headers, Takes(blocks, n, b), blocks' = Taken(blocks, b, n),
             live' = Held(live, b + Header, n, what)
      PROVE  /\ HeldBy(blocks', live') /\ ArenaStep
             /\ \A p \in DOMAIN live : Keeps(p, blocks, live, blocks', live')
  BY <1>2, TakeStep DEF ArenaStep, Headers
<1>. QED  BY <1>1, <1>2 DEF Kmalloc

LEMMA KfreeStep ==
    ASSUME HeldBy(blocks, live), NEW p \in DOMAIN live \cup {NULL}, Kfree(p)
    PROVE  /\ HeldBy(blocks', live') /\ ArenaStep
           /\ \A q \in DOMAIN live \ {p} : Keeps(q, blocks, live, blocks', live')
<1>1. CASE p = NULL
  BY <1>1 DEF Kfree, heapVars, ArenaStep, Keeps
<1>2. CASE p # NULL
  BY <1>2, GiveStep DEF Kfree, ArenaStep
<1>. QED  BY <1>1, <1>2

LEMMA KreallocStep ==
    ASSUME HeldBy(blocks, live), NEW n \in Nat, NEW p \in DOMAIN live \cup {NULL}, Krealloc(p, n)
    PROVE  /\ HeldBy(blocks', live') /\ ArenaStep
           /\ \A q \in DOMAIN live \ {p} : Keeps(q, blocks, live, blocks', live')
<1>1. CASE p = NULL
  BY <1>1, KmallocStep DEF Krealloc
<1>2. CASE p # NULL /\ n = 0
  BY <1>2, KfreeStep DEF Krealloc
<1>3. CASE p # NULL /\ n # 0 /\ blocks[p - Header].size >= n
  <2>1. blocks' = blocks /\ live' = [live EXCEPT ![p] = [asked |-> n, holds |-> @.holds]]
    BY <1>3 DEF Krealloc
  <2>2. Payload(blocks, p) >= n /\ p \in DOMAIN live
    BY <1>3 DEF Payload
  <2>3. /\ DOMAIN live' = DOMAIN live /\ live'[p].asked = n
        /\ \A q \in DOMAIN live \ {p} : live'[q] = live[q]
    BY <2>1, <2>2
  <2>4. HeldBy(blocks', live')
    BY <2>1, <2>2, <2>3 DEF HeldBy
  <2>5. Regions(blocks', live') = Regions(blocks, live)
    BY <2>1, <2>3 DEF Regions
  <2>6. \A q \in DOMAIN live \ {p} : Keeps(q, blocks, live, blocks', live')
    BY <2>1, <2>3 DEF Keeps
  <2>. QED  BY <2>4, <2>5, <2>6 DEF ArenaStep
<1>4. CASE p # NULL /\ n # 0 /\ ~(blocks[p - Header].size >= n)
  <2>1. CASE UNCHANGED heapVars
    BY <2>1 DEF heapVars, ArenaStep, Keeps
  <2>2. ASSUME NEW c \in Headers, Takes(blocks, n, c), blocks' = Freed(Taken(blocks, c, n), p),
               live' = Dropped(Held(live, c + Header, n, live[p].holds), p)
        PROVE  /\ HeldBy(blocks', live') /\ ArenaStep
               /\ \A q \in DOMAIN live \ {p} : Keeps(q, blocks, live, blocks', live')
    BY <1>4, <2>2, ExchangeStep DEF ArenaStep, Headers
  <2>. QED  BY <1>4, <2>1, <2>2 DEF Krealloc
<1>. QED  BY <1>1, <1>2, <1>3, <1>4

-----------------------------------------------------------------------------
(***************************************************************************)
(* The files own their buffers                                             *)
(***************************************************************************)
Entry == [name : Names, data : Int, size : Nat]

\* Memory(p), of any holders lv.
Holds(lv, p) ==
    IF IsStatic(p) THEN Initrd[-1 - p].holds ELSE IF p \in DOMAIN lv THEN lv[p].holds ELSE Absent

EntryOk(e, bs, lv) ==
    /\ e.size <= Word - Align /\ Holds(lv, e.data).len = e.size
    /\ IsStatic(e.data) \/ (e.data \in DOMAIN lv /\ Payload(bs, e.data) >= e.size)

\* The entries of dr are sound, and no two share their data.
Files(dr, bs, lv) ==
    /\ dr \in Seq(Entry)
    /\ \A i \in 1 .. Len(dr) : EntryOk(dr[i], bs, lv)
    /\ \A i, j \in 1 .. Len(dr) : dr[i].data = dr[j].data => i = j

LEMMA EntryKept ==
    ASSUME NEW e, NEW bs, NEW lv, NEW bs2, NEW lv2, EntryOk(e, bs, lv),
           e.data \in DOMAIN lv => Keeps(e.data, bs, lv, bs2, lv2)
    PROVE  EntryOk(e, bs2, lv2)
<1>1. CASE IsStatic(e.data)
  BY <1>1 DEF EntryOk, Holds
<1>2. CASE ~IsStatic(e.data)
  BY <1>2 DEF EntryOk, Holds, Keeps
<1>. QED  BY <1>1, <1>2

LEMMA FilesKept ==
    ASSUME NEW dr, NEW bs, NEW lv, NEW bs2, NEW lv2, Files(dr, bs, lv),
           \A i \in 1 .. Len(dr) : dr[i].data \in DOMAIN lv => Keeps(dr[i].data, bs, lv, bs2, lv2)
    PROVE  Files(dr, bs2, lv2)
  BY EntryKept DEF Files

LEMMA FileReplaced ==
    ASSUME NEW dr, NEW bs, NEW lv, NEW bs2, NEW lv2, Files(dr, bs, lv),
           NEW k \in 1 .. Len(dr), NEW e \in Entry, EntryOk(e, bs2, lv2),
           \A i \in 1 .. Len(dr) : dr[i].data # e.data,
           \A i \in (1 .. Len(dr)) \ {k} :
               dr[i].data \in DOMAIN lv => Keeps(dr[i].data, bs, lv, bs2, lv2)
    PROVE  Files([dr EXCEPT ![k] = e], bs2, lv2)
<1>. DEFINE dr2 == [dr EXCEPT ![k] = e]
<1>1. dr \in Seq(Entry)
  BY DEF Files
<1>2. dr2 \in Seq(Entry) /\ Len(dr2) = Len(dr)
  BY <1>1
<1>3. \A i \in 1 .. Len(dr) : dr2[i] = IF i = k THEN e ELSE dr[i]
  BY <1>1
<1>. HIDE DEF dr2
<1>4. \A i \in 1 .. Len(dr) : EntryOk(dr2[i], bs2, lv2)
  BY <1>3, EntryKept DEF Files
<1>5. \A i, j \in 1 .. Len(dr) : dr2[i].data = dr2[j].data => i = j
  BY <1>3 DEF Files
<1>6. Files(dr2, bs2, lv2)
  BY <1>2, <1>4, <1>5 DEF Files
<1>. QED  BY <1>6 DEF dr2

LEMMA FileAppended ==
    ASSUME NEW dr, NEW bs, NEW lv, NEW bs2, NEW lv2, Files(dr, bs, lv),
           NEW e \in Entry, EntryOk(e, bs2, lv2),
           \A i \in 1 .. Len(dr) : dr[i].data # e.data,
           \A i \in 1 .. Len(dr) : dr[i].data \in DOMAIN lv => Keeps(dr[i].data, bs, lv, bs2, lv2)
    PROVE  Files(Append(dr, e), bs2, lv2) /\ Len(Append(dr, e)) = Len(dr) + 1
<1>. DEFINE dr2 == Append(dr, e)
<1>1. dr \in Seq(Entry) /\ Len(dr) \in Nat
  BY DEF Files
<1>2. dr2 \in Seq(Entry) /\ Len(dr2) = Len(dr) + 1
  BY <1>1
<1>3. \A i \in 1 .. Len(dr) + 1 : dr2[i] = IF i = Len(dr) + 1 THEN e ELSE dr[i]
  BY <1>1
<1>4. \A i \in 1 .. Len(dr) + 1 : i = Len(dr) + 1 \/ i \in 1 .. Len(dr)
  BY <1>1
<1>. HIDE DEF dr2
<1>5. \A i \in 1 .. Len(dr) + 1 : EntryOk(dr2[i], bs2, lv2)
  BY <1>3, <1>4, EntryKept DEF Files
<1>6. \A i, j \in 1 .. Len(dr) + 1 : dr2[i].data = dr2[j].data => i = j
  BY <1>3, <1>4 DEF Files
<1>7. Files(dr2, bs2, lv2)
  BY <1>2, <1>5, <1>6 DEF Files
<1>. QED  BY <1>2, <1>7 DEF dr2

\* Without(k), of any directory dr.
Cut(dr, k) == [j \in 1 .. Len(dr) - 1 |-> IF j < k THEN dr[j] ELSE dr[j + 1]]

LEMMA FileRemoved ==
    ASSUME NEW dr, NEW bs, NEW lv, NEW bs2, NEW lv2, Files(dr, bs, lv),
           NEW k \in 1 .. Len(dr),
           \A i \in (1 .. Len(dr)) \ {k} :
               dr[i].data \in DOMAIN lv => Keeps(dr[i].data, bs, lv, bs2, lv2)
    PROVE  Files(Cut(dr, k), bs2, lv2) /\ Len(Cut(dr, k)) = Len(dr) - 1
<1>. DEFINE dr2 == Cut(dr, k)
            from(j) == IF j < k THEN j ELSE j + 1
<1>1. dr \in Seq(Entry) /\ Len(dr) \in Nat /\ k \in Int /\ Len(dr) - 1 \in Nat
  BY DEF Files
<1>2. \A j \in 1 .. Len(dr) - 1 : from(j) \in (1 .. Len(dr)) \ {k}
  BY <1>1
<1>3. \A i, j \in 1 .. Len(dr) - 1 : from(i) = from(j) => i = j
  BY <1>1
<1>4. \A j \in 1 .. Len(dr) - 1 : dr2[j] = dr[from(j)]
  BY DEF Cut
<1>5. dr2 \in Seq(Entry) /\ Len(dr2) = Len(dr) - 1
  <2>1. \A i \in 1 .. Len(dr) : dr[i] \in Entry
    BY <1>1
  <2>2. \A j \in 1 .. Len(dr) - 1 : dr2[j] \in Entry
    BY <1>2, <1>4, <2>1
  <2>3. dr2 = [j \in 1 .. Len(dr) - 1 |-> dr2[j]]
    BY DEF Cut
  <2>. HIDE DEF dr2
  <2>4. dr2 \in [1 .. Len(dr) - 1 -> Entry]
    BY <2>2, <2>3
  <2>. QED  BY <1>1, <2>4
<1>. HIDE DEF dr2, from
<1>6. \A j \in 1 .. Len(dr) - 1 : EntryOk(dr2[j], bs2, lv2)
  BY <1>2, <1>4, EntryKept DEF Files
<1>7. \A i, j \in 1 .. Len(dr) - 1 : dr2[i].data = dr2[j].data => i = j
  BY <1>2, <1>3, <1>4 DEF Files
<1>8. Files(dr2, bs2, lv2)
  BY <1>5, <1>6, <1>7 DEF Files
<1>. QED  BY <1>5, <1>8 DEF dr2

-----------------------------------------------------------------------------
(***************************************************************************)
(* Which entry a name leads to                                             *)
(***************************************************************************)
\* e is the first entry of dr with the name n.
LeadsTo(dr, n, e) ==
    \E i \in 1 .. Len(dr) : dr[i] = e /\ e.name = n /\ \A j \in 1 .. i - 1 : dr[j].name # n

\* No two entries have the same name.
NamesDiffer(dr) == \A i, j \in 1 .. Len(dr) : dr[i].name = dr[j].name => i = j

LEMMA LeadsReplaced ==
    ASSUME NEW dr \in Seq(Entry), NEW k \in 1 .. Len(dr), NEW e, e.name = dr[k].name
    PROVE  LET dr2 == [dr EXCEPT ![k] = e] IN
           /\ \A m, x : m # e.name => (LeadsTo(dr, m, x) <=> LeadsTo(dr2, m, x))
           /\ (\A j \in 1 .. k - 1 : dr[j].name # e.name) => LeadsTo(dr2, e.name, e)
           /\ NamesDiffer(dr) => NamesDiffer(dr2)
<1>. DEFINE dr2 == [dr EXCEPT ![k] = e]
<1>1. Len(dr2) = Len(dr) /\ Len(dr) \in Nat
  OBVIOUS
<1>2. \A i \in 1 .. Len(dr) : dr2[i].name = dr[i].name /\ dr2[i] = IF i = k THEN e ELSE dr[i]
  OBVIOUS
<1>. HIDE DEF dr2
<1>3. ASSUME NEW m, NEW x, m # e.name PROVE LeadsTo(dr, m, x) <=> LeadsTo(dr2, m, x)
  <2>1. ASSUME NEW i \in 1 .. Len(dr)
        PROVE  (\A j \in 1 .. i - 1 : dr[j].name # m) <=> (\A j \in 1 .. i - 1 : dr2[j].name # m)
    <3>1. \A j \in 1 .. i - 1 : j \in 1 .. Len(dr)
      BY <1>1
    <3>. QED  BY <1>2, <3>1
  <2>2. ASSUME NEW i \in 1 .. Len(dr)
        PROVE  (dr[i] = x /\ x.name = m) <=> (dr2[i] = x /\ x.name = m)
    BY <1>2, <1>3
  <2>. QED  BY <1>1, <2>1, <2>2 DEF LeadsTo
<1>4. ASSUME \A j \in 1 .. k - 1 : dr[j].name # e.name PROVE LeadsTo(dr2, e.name, e)
  <2>1. \A j \in 1 .. k - 1 : j \in 1 .. Len(dr)
    BY <1>1
  <2>2. \A j \in 1 .. k - 1 : dr2[j].name # e.name
    BY <1>2, <1>4, <2>1
  <2>. QED  BY <1>1, <1>2, <2>2 DEF LeadsTo
<1>5. NamesDiffer(dr) => NamesDiffer(dr2)
  BY <1>1, <1>2 DEF NamesDiffer
<1>. QED  BY <1>3, <1>4, <1>5 DEF dr2

LEMMA LeadsAppended ==
    ASSUME NEW dr \in Seq(Entry), NEW e
    PROVE  LET dr2 == Append(dr, e) IN
           /\ \A m, x : LeadsTo(dr, m, x) => LeadsTo(dr2, m, x)
           /\ \A m, x : m # e.name /\ LeadsTo(dr2, m, x) => LeadsTo(dr, m, x)
           /\ (\A j \in 1 .. Len(dr) : dr[j].name # e.name) =>
                LeadsTo(dr2, e.name, e) /\ (NamesDiffer(dr) => NamesDiffer(dr2))
<1>. DEFINE dr2 == Append(dr, e)
<1>1. Len(dr2) = Len(dr) + 1 /\ Len(dr) \in Nat /\ dr2[Len(dr) + 1] = e
  OBVIOUS
<1>2. \A i \in 1 .. Len(dr) : dr2[i] = dr[i]
  OBVIOUS
<1>. HIDE DEF dr2
<1>3. \A i \in 1 .. Len(dr) + 1 : i = Len(dr) + 1 \/ i \in 1 .. Len(dr)
  BY <1>1
<1>4. \A i \in 1 .. Len(dr) + 1 : \A j \in 1 .. i - 1 : j \in 1 .. Len(dr) /\ dr2[j] = dr[j]
  BY <1>1, <1>2
<1>5. ASSUME NEW m, NEW x, LeadsTo(dr, m, x) PROVE LeadsTo(dr2, m, x)
  <2>1. PICK i \in 1 .. Len(dr) : dr[i] = x /\ x.name = m /\ \A j \in 1 .. i - 1 : dr[j].name # m
    BY <1>5 DEF LeadsTo
  <2>2. i \in 1 .. Len(dr2) /\ dr2[i] = x /\ \A j \in 1 .. i - 1 : dr2[j].name # m
    BY <1>1, <1>2, <1>4, <2>1
  <2>. QED  BY <2>1, <2>2 DEF LeadsTo
<1>6. ASSUME NEW m, NEW x, m # e.name, LeadsTo(dr2, m, x) PROVE LeadsTo(dr, m, x)
  <2>1. PICK i \in 1 .. Len(dr2) : dr2[i] = x /\ x.name = m /\ \A j \in 1 .. i - 1 : dr2[j].name # m
    BY <1>6 DEF LeadsTo
  <2>2. i \in 1 .. Len(dr)
    BY <1>1, <1>3, <1>6, <2>1
  <2>3. dr[i] = x /\ \A j \in 1 .. i - 1 : dr[j].name # m
    BY <1>1, <1>2, <1>4, <2>1, <2>2
  <2>. QED  BY <2>1, <2>2, <2>3 DEF LeadsTo
<1>7. ASSUME \A j \in 1 .. Len(dr) : dr[j].name # e.name
      PROVE  LeadsTo(dr2, e.name, e) /\ (NamesDiffer(dr) => NamesDiffer(dr2))
  <2>1. Len(dr) + 1 \in 1 .. Len(dr2)
    BY <1>1
  <2>2. \A j \in 1 .. (Len(dr) + 1) - 1 : dr2[j].name # e.name
    BY <1>1, <1>2, <1>7
  <2>3. LeadsTo(dr2, e.name, e)
    BY <1>1, <2>1, <2>2 DEF LeadsTo
  <2>4. NamesDiffer(dr) => NamesDiffer(dr2)
    BY <1>1, <1>2, <1>3, <1>7 DEF NamesDiffer
  <2>. QED  BY <2>3, <2>4
<1>. QED  BY <1>5, <1>6, <1>7 DEF dr2

LEMMA LeadsCut ==
    ASSUME NEW dr \in Seq(Entry), NEW k \in 1 .. Len(dr)
    PROVE  LET dr2 == Cut(dr, k) IN
           /\ \A m, x : m # dr[k].name => (LeadsTo(dr, m, x) <=> LeadsTo(dr2, m, x))
           /\ NamesDiffer(dr) => NamesDiffer(dr2) /\ \A x : ~LeadsTo(dr2, dr[k].name, x)
<1>. DEFINE dr2 == Cut(dr, k)
            from(j) == IF j < k THEN j ELSE j + 1
            to(i) == IF i < k THEN i ELSE i - 1
<1>1. Len(dr) \in Nat /\ k \in Int /\ Len(dr) - 1 \in Nat
  OBVIOUS
<1>2. Len(dr2) = Len(dr) - 1 /\ \A j \in 1 .. Len(dr) - 1 : dr2[j] = dr[from(j)]
  BY <1>1 DEF Cut
<1>. HIDE DEF dr2
<1>3. \A j \in 1 .. Len(dr) - 1 : from(j) \in (1 .. Len(dr)) \ {k} /\ to(from(j)) = j
  BY <1>1
<1>4. \A i \in (1 .. Len(dr)) \ {k} : to(i) \in 1 .. Len(dr) - 1 /\ from(to(i)) = i
  BY <1>1
<1>5. \A i, j \in 1 .. Len(dr) - 1 : i < j <=> from(i) < from(j)
  BY <1>1
<1>. HIDE DEF from, to
<1>6. ASSUME NEW m, NEW x, m # dr[k].name, LeadsTo(dr, m, x) PROVE LeadsTo(dr2, m, x)
  <2>1. PICK i \in 1 .. Len(dr) : dr[i] = x /\ x.name = m /\ \A j \in 1 .. i - 1 : dr[j].name # m
    BY <1>6 DEF LeadsTo
  <2>2. i # k /\ to(i) \in 1 .. Len(dr2) /\ dr2[to(i)] = x
    BY <1>2, <1>4, <1>6, <2>1
  <2>3. ASSUME NEW j \in 1 .. to(i) - 1 PROVE dr2[j].name # m
    <3>1. j \in 1 .. Len(dr) - 1 /\ j < to(i) /\ to(i) \in 1 .. Len(dr) - 1
      BY <1>1, <1>2, <2>2
    <3>2. from(j) < from(to(i)) /\ from(to(i)) = i /\ from(j) \in 1 .. Len(dr)
      BY <1>3, <1>4, <1>5, <2>2, <3>1
    <3>3. from(j) \in 1 .. i - 1
      BY <1>1, <3>2
    <3>. QED  BY <1>2, <2>1, <3>1, <3>3
  <2>. QED  BY <2>1, <2>2, <2>3 DEF LeadsTo
<1>7. ASSUME NEW m, NEW x, m # dr[k].name, LeadsTo(dr2, m, x) PROVE LeadsTo(dr, m, x)
  <2>1. PICK i \in 1 .. Len(dr2) : dr2[i] = x /\ x.name = m /\ \A j \in 1 .. i - 1 : dr2[j].name # m
    BY <1>7 DEF LeadsTo
  <2>2. i \in 1 .. Len(dr) - 1 /\ from(i) \in 1 .. Len(dr) /\ dr[from(i)] = x
    BY <1>2, <1>3, <2>1
  <2>3. ASSUME NEW j \in 1 .. from(i) - 1 PROVE dr[j].name # m
    <3>1. CASE j = k
      BY <1>7, <3>1
    <3>2. CASE j # k
      <4>1. j \in (1 .. Len(dr)) \ {k} /\ j < from(i)
        BY <1>1, <2>2, <3>2
      <4>2. to(j) \in 1 .. Len(dr) - 1 /\ from(to(j)) = j
        BY <1>4, <4>1
      <4>3. to(j) < i
        BY <1>5, <2>2, <4>1, <4>2
      <4>4. to(j) \in 1 .. i - 1
        BY <1>1, <2>2, <4>2, <4>3
      <4>. QED  BY <1>2, <2>1, <4>2, <4>4
    <3>. QED  BY <3>1, <3>2
  <2>. QED  BY <2>1, <2>2, <2>3 DEF LeadsTo
<1>8. ASSUME NamesDiffer(dr) PROVE NamesDiffer(dr2) /\ \A x : ~LeadsTo(dr2, dr[k].name, x)
  <2>1. \A j \in 1 .. Len(dr2) : dr2[j].name # dr[k].name
    BY <1>2, <1>3, <1>8 DEF NamesDiffer
  <2>2. NamesDiffer(dr2)
    BY <1>2, <1>3, <1>8 DEF NamesDiffer
  <2>. QED  BY <2>1, <2>2 DEF LeadsTo
<1>. QED  BY <1>6, <1>7, <1>8 DEF dr2

\* Entries with other names than n keep their data.
OthersKept(n, dr, bs, lv, bs2, lv2) ==
    \A i \in 1 .. Len(dr) :
        dr[i].name # n /\ dr[i].data \in DOMAIN lv => Keeps(dr[i].data, bs, lv, bs2, lv2)

\* What other names than n lead to holds what it held.
SameContents(n, dr, lv, lv2) ==
    \A m, x : m # n /\ LeadsTo(dr, m, x) => Holds(lv2, x.data) = Holds(lv, x.data)

\* Other names than n lead to the entries they led to, with the data they had.
OthersStay(n, dr, lv, dr2, lv2) ==
    SameContents(n, dr, lv, lv2) /\ \A m, x : m # n /\ LeadsTo(dr, m, x) => LeadsTo(dr2, m, x)

\* No name but n leads anywhere it did not.
NothingElseComes(n, dr, dr2) == \A m, x : m # n /\ LeadsTo(dr2, m, x) => LeadsTo(dr, m, x)

\* n leads to the content c.
LeadsToContent(n, c, dr, lv) == \E e : LeadsTo(dr, n, e) /\ Holds(lv, e.data) = c /\ e.size = c.len

\* Every name leads to what it led to.
ContentsStay(dr, lv, lv2) == \A m, x : LeadsTo(dr, m, x) => Holds(lv2, x.data) = Holds(lv, x.data)

LEMMA AllContentsStay ==
    ASSUME NEW dr, NEW bs, NEW lv, NEW bs2, NEW lv2, Files(dr, bs, lv),
           \A i \in 1 .. Len(dr) : dr[i].data \in DOMAIN lv => Keeps(dr[i].data, bs, lv, bs2, lv2)
    PROVE  ContentsStay(dr, lv, lv2)
<1>1. \A i \in 1 .. Len(dr) : EntryOk(dr[i], bs, lv)
  BY DEF Files
<1>2. \A i \in 1 .. Len(dr) : Holds(lv2, dr[i].data) = Holds(lv, dr[i].data)
  BY <1>1 DEF EntryOk, Holds, Keeps
<1>. QED  BY <1>2 DEF ContentsStay, LeadsTo

LEMMA OtherContentsStay ==
    ASSUME NEW dr, NEW bs, NEW lv, NEW bs2, NEW lv2, Files(dr, bs, lv), NEW n,
           OthersKept(n, dr, bs, lv, bs2, lv2)
    PROVE  SameContents(n, dr, lv, lv2)
<1>1. SUFFICES ASSUME NEW m, NEW x, m # n, LeadsTo(dr, m, x)
               PROVE  Holds(lv2, x.data) = Holds(lv, x.data)
  BY DEF SameContents
<1>2. PICK i \in 1 .. Len(dr) : dr[i] = x /\ x.name = m
  BY <1>1 DEF LeadsTo
<1>3. dr[i].data \in DOMAIN lv => Keeps(dr[i].data, bs, lv, bs2, lv2)
  <2>1. dr[i].name # n
    BY <1>1, <1>2
  <2>. QED  BY <2>1 DEF OthersKept
<1>4. Holds(lv2, dr[i].data) = Holds(lv, dr[i].data)
  <2>1. EntryOk(dr[i], bs, lv)
    BY DEF Files
  <2>. QED  BY <1>3, <2>1 DEF EntryOk, Holds, Keeps
<1>. QED  BY <1>2, <1>4

-----------------------------------------------------------------------------
(***************************************************************************)
(* The steps: what holds of blocks, holders and directory is kept          *)
(***************************************************************************)
HeapAndFiles == HeldBy(blocks, live) /\ Files(dir, blocks, live) /\ Count < MaxFiles

LEMMA Lengths ==
    /\ Word - Align \in Nat /\ MaxFiles \in Nat /\ Len(Initrd) \in Nat /\ Len(Initrd) < MaxFiles
    /\ \A c \in Contents : c.len \in 0 .. Word - Align
    /\ \A i \in 1 .. Len(Initrd) : Initrd[i].holds.len \in 0 .. Word - Align
<1>1. Word \in Nat /\ Align \in Nat /\ Word > 0 /\ Align > 0
  <2>1. Word > 2 * (HeapSize + Header + Least) /\ Word \in Nat
    BY HeapAssumption
  <2>. QED  BY <2>1, Numbers, HeapAssumption
<1>2. Word - Align \in Nat
  <2>1. Word % Align = 0
    BY HeapAssumption
  <2>2. ASSUME Word < Align PROVE FALSE
    <3>1. Word \in 0 .. Align - 1
      BY <1>1, <2>2
    <3>2. Word % Align = Word
      BY <1>1, <3>1
    <3>. QED  BY <1>1, <2>1, <3>2
  <2>. QED  BY <1>1, <2>2
<1>3. MaxFiles \in Nat /\ Len(Initrd) \in 0 .. MaxFiles - 1
  BY FileSystemAssumption
<1>4. /\ \A c \in Contents : c.len \in 0 .. Word - Align
      /\ \A i \in 1 .. Len(Initrd) : Initrd[i].holds.len \in 0 .. Word - Align
  BY FileSystemAssumption
<1>. QED  BY <1>2, <1>3, <1>4

LEMMA NothingStep ==
    ASSUME HeapAndFiles, UNCHANGED <<dir, blocks, live>> PROVE HeapAndFiles' /\ ArenaStep
  BY DEF HeapAndFiles, ArenaStep, Count

\* Data is static or in use, and then not where the next buffer will be.
LEMMA NewBufferIsNoData ==
    ASSUME HeapAndFiles, NEW q \in Nat, q > 0, q \notin DOMAIN live, NEW i \in Indices
    PROVE  dir[i].data # q
<1>1. EntryOk(dir[i], blocks, live)
  BY DEF HeapAndFiles, Files, Indices, Count
<1>2. CASE IsStatic(dir[i].data)
  BY <1>2 DEF IsStatic, NULL
<1>3. CASE ~IsStatic(dir[i].data)
  BY <1>1, <1>3 DEF EntryOk
<1>. QED  BY <1>2, <1>3

LEMMA SavedEntryOk ==
    ASSUME HeldBy(blocks', live'), NEW q \in DOMAIN live', q > 0, NEW c, c.len \in 0 .. Word - Align,
           live'[q] = [asked |-> Asked(c), holds |-> c],
           Asked(c) <= Word - Align => Payload(blocks', q) >= Asked(c),
           NEW e, e.data = q, e.size = c.len
    PROVE  EntryOk(e, blocks', live')
<1>1. q \in Nat /\ Payload(blocks', q) \in Nat
  BY PayloadsAreApart
<1>2. c.len \in Nat /\ c.len <= Word - Align
  BY Lengths
<1>3. Payload(blocks', q) >= c.len
  BY <1>1, <1>2 DEF Asked
<1>4. ~IsStatic(q)
  BY <1>1 DEF IsStatic, NULL
<1>5. Holds(live', q) = c
  BY <1>4 DEF Holds
<1>. QED  BY <1>2, <1>3, <1>5 DEF EntryOk

\* What callers expect after n changed to c.
Expected(n, c, sv, og, sv2, og2) ==
    /\ sv2 = [sv EXCEPT ![n] = c]
    /\ og2 = [fd \in Fds |-> IF og[fd].name = n THEN NoOrigin ELSE og[fd]]

\* What initrd_save(n) with the content c does to the names, if it succeeds.
Saved(n, c, dr, lv, sv, og, dr2, lv2, sv2, og2) ==
    /\ Expected(n, c, sv, og, sv2, og2)
    /\ OthersStay(n, dr, lv, dr2, lv2)
    /\ Stored[n] = n =>
         /\ NothingElseComes(n, dr, dr2) /\ LeadsToContent(n, c, dr2, lv2)
         /\ NamesDiffer(dr) => NamesDiffer(dr2)

\* And initrd_remove(n).
Removed(n, dr, lv, sv, og, dr2, lv2, sv2, og2) ==
    /\ Expected(n, Absent, sv, og, sv2, og2)
    /\ OthersStay(n, dr, lv, dr2, lv2) /\ NothingElseComes(n, dr, dr2)
    /\ NamesDiffer(dr) => NamesDiffer(dr2) /\ \A x : ~LeadsTo(dr2, n, x)

LEMMA SaveStep ==
    ASSUME HeapAndFiles, NEW n \in Names, NEW c, c.len \in 0 .. Word - Align, InitrdSave(n, c)
    PROVE  HeapAndFiles' /\ ArenaStep /\ (Nothing \/ Saved(n, c, dir, live, saved, origin, dir', live', saved', origin'))
<1>0. /\ HeldBy(blocks, live) /\ Files(dir, blocks, live) /\ Count < MaxFiles
      /\ dir \in Seq(Entry) /\ Count \in Nat
  BY DEF HeapAndFiles, Files, Count
<1>1. CASE Nothing
  BY <1>1, NothingStep DEF Nothing, heapVars
<1>2. ASSUME NEW b \in Headers, Takes(blocks, Asked(c), b), NEW i \in Indices,
             IsEntry(i, n), Replace(i, n, c, b)
      PROVE  HeapAndFiles' /\ ArenaStep /\ Saved(n, c, dir, live, saved, origin, dir', live', saved', origin')
  <2>. DEFINE q == b + Header
              old == dir[i].data
              e == [name |-> dir[i].name, data |-> q, size |-> c.len]
  <2>1. Asked(c) \in Nat /\ b \in DOMAIN blocks
    BY Lengths DEF Asked, Headers
  <2>2. dir' = [dir EXCEPT ![i] = e] /\ Expected(n, c, saved, origin, saved', origin')
    BY <1>2 DEF Replace, Expect, Expected
  <2>3. dir[i] \in Entry /\ EntryOk(dir[i], blocks, live)
    BY <1>0 DEF Files, Indices, Count
  <2>4. /\ HeldBy(blocks', live') /\ ArenaStep
        /\ q \in Nat /\ q > 0 /\ q \notin DOMAIN live /\ q \in DOMAIN live'
        /\ live'[q] = [asked |-> Asked(c), holds |-> c]
        /\ Asked(c) <= Word - Align => Payload(blocks', q) >= Asked(c)
        /\ \A p \in DOMAIN live \ {old} : Keeps(p, blocks, live, blocks', live')
    <3>1. CASE IsStatic(old)
      <4>1. blocks' = Taken(blocks, b, Asked(c)) /\ live' = Held(live, b + Header, Asked(c), c)
        BY <1>2, <3>1 DEF Replace
      <4>. QED  BY <1>0, <1>2, <2>1, <4>1, TakeStep DEF ArenaStep
    <3>2. CASE ~IsStatic(old)
      <4>1. /\ blocks' = Freed(Taken(blocks, b, Asked(c)), old)
            /\ live' = Dropped(Held(live, b + Header, Asked(c), c), old)
        BY <1>2, <3>2 DEF Replace
      <4>2. old \in DOMAIN live
        BY <2>3, <3>2 DEF EntryOk
      <4>. QED  BY <1>0, <1>2, <2>1, <4>1, <4>2, ExchangeStep DEF ArenaStep
    <3>. QED  BY <3>1, <3>2
  <2>. HIDE DEF q
  <2>5. e \in Entry /\ EntryOk(e, blocks', live')
    <3>1. e \in Entry
      BY <2>3, <2>4, Lengths DEF Entry
    <3>. QED  BY <2>4, <3>1, SavedEntryOk
  <2>6. \A j \in Indices : dir[j].data # e.data
    BY <2>4, NewBufferIsNoData
  <2>7. \A j \in Indices \ {i} : dir[j].data \in DOMAIN live => Keeps(dir[j].data, blocks, live, blocks', live')
    BY <1>0, <2>4 DEF Files, Indices, Count
  <2>8. Files(dir', blocks', live')
    BY <1>0, <2>2, <2>5, <2>6, <2>7, FileReplaced DEF Indices, Count
  <2>9. Len(dir') = Len(dir)
    BY <1>0, <2>2
  <2>10. /\ \A m, x : m # n => (LeadsTo(dir, m, x) <=> LeadsTo(dir', m, x))
         /\ LeadsTo(dir', n, e)
         /\ NamesDiffer(dir) => NamesDiffer(dir')
    <3>1. e.name = dir[i].name /\ dir[i].name = n /\ \A j \in 1 .. i - 1 : dir[j].name # e.name
      BY <1>2 DEF IsEntry
    <3>. QED  BY <1>0, <2>2, <3>1, LeadsReplaced DEF Indices, Count
  <2>11. OthersStay(n, dir, live, dir', live')
    <3>1. OthersKept(n, dir, blocks, live, blocks', live')
      BY <1>2, <2>7 DEF OthersKept, IsEntry, Indices, Count
    <3>. QED  BY <1>0, <2>10, <3>1, OtherContentsStay DEF OthersStay
  <2>12. LeadsToContent(n, c, dir', live')
    <3>1. Holds(live', q) = c
      BY <2>4 DEF Holds, IsStatic, NULL
    <3>. QED  BY <2>10, <3>1 DEF LeadsToContent
  <2>13. Saved(n, c, dir, live, saved, origin, dir', live', saved', origin')
    BY <2>2, <2>10, <2>11, <2>12 DEF Saved, NothingElseComes
  <2>. QED  BY <1>0, <2>4, <2>8, <2>9, <2>13 DEF HeapAndFiles, Count
<1>3. ASSUME NEW b \in Headers, Takes(blocks, Asked(c), b), ~Exists(n), ~DirFull, NewEntry(n, c, b)
      PROVE  HeapAndFiles' /\ ArenaStep /\ Saved(n, c, dir, live, saved, origin, dir', live', saved', origin')
  <2>. DEFINE q == b + Header
              e == [name |-> Stored[n], data |-> q, size |-> c.len]
  <2>1. Asked(c) \in Nat /\ b \in DOMAIN blocks
    BY Lengths DEF Asked, Headers
  <2>2. dir' = Append(dir, e) /\ Expected(n, c, saved, origin, saved', origin')
    BY <1>3 DEF NewEntry, Expect, Expected
  <2>3. /\ HeldBy(blocks', live') /\ ArenaStep
        /\ q \in Nat /\ q > 0 /\ q \notin DOMAIN live /\ q \in DOMAIN live'
        /\ live'[q] = [asked |-> Asked(c), holds |-> c]
        /\ Asked(c) <= Word - Align => Payload(blocks', q) >= Asked(c)
        /\ \A p \in DOMAIN live : Keeps(p, blocks, live, blocks', live')
    <3>1. blocks' = Taken(blocks, b, Asked(c)) /\ live' = Held(live, b + Header, Asked(c), c)
      BY <1>3 DEF NewEntry
    <3>. QED  BY <1>0, <1>3, <2>1, <3>1, TakeStep DEF ArenaStep
  <2>. HIDE DEF q
  <2>4. e \in Entry /\ EntryOk(e, blocks', live')
    <3>1. Stored[n] \in Names
      BY FileSystemAssumption
    <3>2. e \in Entry
      BY <2>3, <3>1, Lengths DEF Entry
    <3>. QED  BY <2>3, <3>2, SavedEntryOk
  <2>5. \A j \in Indices : dir[j].data # e.data
    BY <2>3, NewBufferIsNoData
  <2>6. Files(dir', blocks', live') /\ Len(dir') = Len(dir) + 1
    BY <1>0, <2>2, <2>3, <2>4, <2>5, FileAppended DEF Indices, Count
  <2>7. Len(dir') < MaxFiles
    BY <1>0, <1>3, <2>6, Lengths DEF DirFull, Count
  <2>8. /\ \A m, x : LeadsTo(dir, m, x) => LeadsTo(dir', m, x)
        /\ \A m, x : m # e.name /\ LeadsTo(dir', m, x) => LeadsTo(dir, m, x)
        /\ (\A j \in 1 .. Len(dir) : dir[j].name # e.name) =>
             LeadsTo(dir', e.name, e) /\ (NamesDiffer(dir) => NamesDiffer(dir'))
    BY <1>0, <2>2, LeadsAppended
  <2>9. OthersStay(n, dir, live, dir', live')
    <3>1. OthersKept(n, dir, blocks, live, blocks', live')
      BY <2>3 DEF OthersKept
    <3>. QED  BY <1>0, <2>8, <3>1, OtherContentsStay DEF OthersStay
  <2>10. ASSUME Stored[n] = n
         PROVE  /\ NothingElseComes(n, dir, dir') /\ LeadsToContent(n, c, dir', live')
                /\ NamesDiffer(dir) => NamesDiffer(dir')
    <3>1. e.name = n /\ \A j \in 1 .. Len(dir) : dir[j].name # n
      BY <1>3, <2>10 DEF Exists, Indices, Count
    <3>2. Holds(live', q) = c
      BY <2>3 DEF Holds, IsStatic, NULL
    <3>3. LeadsToContent(n, c, dir', live')
      BY <2>8, <3>1, <3>2 DEF LeadsToContent
    <3>. QED  BY <2>8, <3>1, <3>3 DEF NothingElseComes
  <2>11. Saved(n, c, dir, live, saved, origin, dir', live', saved', origin')
    BY <2>2, <2>9, <2>10 DEF Saved
  <2>. QED  BY <2>3, <2>6, <2>7, <2>11 DEF HeapAndFiles, Count
<1>. QED  BY <1>1, <1>2, <1>3 DEF InitrdSave

LEMMA RemoveStep ==
    ASSUME HeapAndFiles, NEW n \in Names, InitrdRemove(n)
    PROVE  HeapAndFiles' /\ ArenaStep /\ (Nothing \/ Removed(n, dir, live, saved, origin, dir', live', saved', origin'))
<1>0. /\ HeldBy(blocks, live) /\ Files(dir, blocks, live) /\ Count < MaxFiles
      /\ dir \in Seq(Entry) /\ Count \in Nat
  BY DEF HeapAndFiles, Files, Count
<1>1. CASE Nothing
  BY <1>1, NothingStep DEF Nothing, heapVars
<1>2. ASSUME NEW i \in Indices, IsEntry(i, n), dir' = Without(i), Expect(n, Absent),
             blocks' = IF IsStatic(dir[i].data) THEN blocks ELSE Freed(blocks, dir[i].data),
             live' = IF IsStatic(dir[i].data) THEN live ELSE Dropped(live, dir[i].data)
      PROVE  HeapAndFiles' /\ ArenaStep /\ Removed(n, dir, live, saved, origin, dir', live', saved', origin')
  <2>. DEFINE old == dir[i].data
  <2>1. EntryOk(dir[i], blocks, live)
    BY <1>0 DEF Files, Indices, Count
  <2>2. /\ HeldBy(blocks', live') /\ ArenaStep
        /\ \A p \in DOMAIN live \ {old} : Keeps(p, blocks, live, blocks', live')
    <3>1. CASE IsStatic(old)
      BY <1>0, <1>2, <3>1 DEF ArenaStep, Keeps
    <3>2. CASE ~IsStatic(old)
      <4>1. old \in DOMAIN live /\ blocks' = Freed(blocks, old) /\ live' = Dropped(live, old)
        BY <1>2, <2>1, <3>2 DEF EntryOk
      <4>. QED  BY <1>0, <4>1, GiveStep DEF ArenaStep
    <3>. QED  BY <3>1, <3>2
  <2>3. \A j \in Indices \ {i} : dir[j].data \in DOMAIN live => Keeps(dir[j].data, blocks, live, blocks', live')
    BY <1>0, <2>2 DEF Files, Indices, Count
  <2>4. dir' = Cut(dir, i)
    BY <1>2 DEF Without, Cut, Count
  <2>5. Files(dir', blocks', live') /\ Len(dir') = Len(dir) - 1
    BY <1>0, <2>3, <2>4, FileRemoved DEF Indices, Count
  <2>6. Len(dir') < MaxFiles
    BY <1>0, <2>5, Lengths DEF Count
  <2>7. dir[i].name = n /\ Expected(n, Absent, saved, origin, saved', origin')
    BY <1>2 DEF IsEntry, Expect, Expected
  <2>8. /\ \A m, x : m # n => (LeadsTo(dir, m, x) <=> LeadsTo(dir', m, x))
        /\ NamesDiffer(dir) => NamesDiffer(dir') /\ \A x : ~LeadsTo(dir', n, x)
    BY <1>0, <2>4, <2>7, LeadsCut DEF Indices, Count
  <2>9. OthersStay(n, dir, live, dir', live')
    <3>1. OthersKept(n, dir, blocks, live, blocks', live')
      BY <2>3, <2>7 DEF OthersKept, Indices, Count
    <3>. QED  BY <1>0, <2>8, <3>1, OtherContentsStay DEF OthersStay
  <2>10. Removed(n, dir, live, saved, origin, dir', live', saved', origin')
    BY <2>7, <2>8, <2>9 DEF Removed, NothingElseComes
  <2>. QED  BY <2>2, <2>5, <2>6, <2>10 DEF HeapAndFiles, Count
<1>. QED  BY <1>1, <1>2 DEF InitrdRemove

\* What touch reads is no longer than its buffer, and no longer than the file.
LEMMA PrefixLength ==
    ASSUME NEW c, c.len \in 0 .. Word - Align
    PROVE  Prefix(c, TouchBuffer).len \in 0 .. Word - Align
<1>1. TouchBuffer \in Nat /\ TouchBuffer # 0
  BY FileSystemAssumption
<1>2. Prefix(c, TouchBuffer) = IF c.len <= TouchBuffer THEN c ELSE [id |-> c.id, len |-> TouchBuffer]
  BY <1>1 DEF Prefix
<1>3. CASE c.len <= TouchBuffer
  BY <1>2, <1>3
<1>4. CASE ~(c.len <= TouchBuffer)
  BY <1>1, <1>2, <1>4, Lengths
<1>. QED  BY <1>3, <1>4

\* What touch(n) may save.
TouchSaves(n, c) ==
    c = Empty \/ \E i \in Indices : Opens(i, n) /\ c = Prefix(Memory(dir[i].data), TouchBuffer)

LEMMA TouchStep ==
    ASSUME HeapAndFiles, NEW n \in Names, NEW noCreate \in BOOLEAN, Touch(n, noCreate)
    PROVE  \/ Nothing
           \/ \E c : c.len \in 0 .. Word - Align /\ TouchSaves(n, c) /\ InitrdSave(n, c)
<1>1. ASSUME NEW i \in Indices, Opens(i, n), InitrdSave(n, Prefix(Memory(dir[i].data), TouchBuffer))
      PROVE  \E c : c.len \in 0 .. Word - Align /\ TouchSaves(n, c) /\ InitrdSave(n, c)
  <2>. DEFINE c == Memory(dir[i].data)
  <2>1. EntryOk(dir[i], blocks, live) /\ dir[i] \in Entry
    BY DEF HeapAndFiles, Files, Indices, Count
  <2>2. c = Holds(live, dir[i].data)
    BY DEF Memory, Holds
  <2>3. c.len \in 0 .. Word - Align
    BY <2>1, <2>2, Lengths DEF EntryOk, Entry
  <2>4. TouchSaves(n, Prefix(c, TouchBuffer))
    BY <1>1 DEF TouchSaves
  <2>. HIDE DEF c
  <2>5. Prefix(c, TouchBuffer).len \in 0 .. Word - Align
    BY <2>3, PrefixLength
  <2>6. InitrdSave(n, Prefix(c, TouchBuffer))
    BY <1>1 DEF c
  <2>. QED  BY <2>4, <2>5, <2>6
<1>2. CASE InitrdSave(n, Empty)
  <2>1. Empty.len \in 0 .. Word - Align /\ TouchSaves(n, Empty)
    BY Lengths DEF Empty, TouchSaves
  <2>. QED  BY <1>2, <2>1
<1>. QED  BY <1>1, <1>2 DEF Touch

LEMMA OtherBufferStep ==
    ASSUME HeapAndFiles, OtherBuffer
    PROVE  HeapAndFiles' /\ ArenaStep /\ ContentsStay(dir, live, live')
<1>0. HeldBy(blocks, live) /\ Files(dir, blocks, live) /\ Count < MaxFiles /\ UNCHANGED dir
  BY DEF HeapAndFiles, OtherBuffer
<1>1. \A n \in Sizes : n \in Nat /\ (2 * n) % Word \in Nat
  <2>1. Word \in Nat /\ Word > 0 /\ Sizes \subseteq Nat
    <3>1. Word > 2 * (HeapSize + Header + Least) /\ Word \in Nat /\ Sizes \subseteq 0 .. Word - 1
      BY HeapAssumption
    <3>. QED  BY <3>1, Numbers
  <2>. QED  BY <2>1
<1>2. ASSUME NEW p, p \notin {dir[i].data : i \in Indices}, HeldBy(blocks', live'), ArenaStep,
             \A q \in DOMAIN live \ {p} : Keeps(q, blocks, live, blocks', live')
      PROVE  HeapAndFiles' /\ ArenaStep /\ ContentsStay(dir, live, live')
  <2>1. \A i \in 1 .. Len(dir) :
          dir[i].data \in DOMAIN live => Keeps(dir[i].data, blocks, live, blocks', live')
    BY <1>2 DEF Indices, Count
  <2>2. Files(dir, blocks', live')
    BY <1>0, <2>1, FilesKept
  <2>3. ContentsStay(dir, live, live')
    BY <1>0, <2>1, AllContentsStay
  <2>. QED  BY <1>0, <1>2, <2>2, <2>3 DEF HeapAndFiles, Count
<1>3. NULL \notin {dir[i].data : i \in Indices}
  <2>1. \A i \in Indices : EntryOk(dir[i], blocks, live)
    BY <1>0 DEF Files, Indices, Count
  <2>2. \A q \in DOMAIN live : q \in Nat
    BY <1>0, PayloadsAreApart
  <2>. QED  BY <2>1, <2>2 DEF EntryOk, IsStatic, NULL
<1>4. Buffers \cup {NULL} \subseteq DOMAIN live \cup {NULL}
  BY DEF Buffers
<1>5. \A p \in Buffers \cup {NULL} : p \notin {dir[i].data : i \in Indices}
  BY <1>3 DEF Buffers
<1>6. ASSUME NEW n \in Sizes, Kmalloc(n, Junk) \/ Kcalloc(2, n)
      PROVE  HeapAndFiles' /\ ArenaStep /\ ContentsStay(dir, live, live')
  <2>1. PICK m \in Nat : Kmalloc(m, Junk)
    BY <1>1, <1>6 DEF Kcalloc
  <2>. QED  BY <1>0, <1>2, <1>3, <2>1, KmallocStep
<1>7. ASSUME NEW p \in Buffers \cup {NULL}, Kfree(p)
      PROVE  HeapAndFiles' /\ ArenaStep /\ ContentsStay(dir, live, live')
  BY <1>0, <1>2, <1>4, <1>5, <1>7, KfreeStep
<1>8. ASSUME NEW p \in Buffers \cup {NULL}, NEW n \in Sizes, Krealloc(p, n)
      PROVE  HeapAndFiles' /\ ArenaStep /\ ContentsStay(dir, live, live')
  BY <1>0, <1>1, <1>2, <1>4, <1>5, <1>8, KreallocStep
<1>. QED  BY <1>6, <1>7, <1>8 DEF OtherBuffer

-----------------------------------------------------------------------------
(***************************************************************************)
(* The specification                                                       *)
(***************************************************************************)
LEMMA InitHeld == ASSUME HeapInit PROVE HeldBy(blocks, live) /\ DOMAIN live = {}
<1>1. DOMAIN live = {}
  BY DEF HeapInit
<1>2. CASE blocks = [b \in {0} |-> NewBlock(HeapSize - Header, NULL)]
  <2>1. DOMAIN blocks = {0} /\ blocks[0] = [size |-> HeapSize - Header, free |-> TRUE, next |-> NULL]
    BY <1>2 DEF NewBlock
  <2>2. HeapSize - Header \in Nat /\ NULL \in Int
    BY Numbers
  <2>3. blocks \in [{0} -> Block]
    <3>1. NewBlock(HeapSize - Header, NULL) \in Block
      BY <2>2 DEF Block, NewBlock
    <3>. QED  BY <1>2, <3>1
  <2>4. End(blocks, 0) = HeapSize
    BY <2>1, <2>2, Numbers DEF End
  <2>5. Chain(blocks)
    BY <2>1, <2>2, <2>3, <2>4, Numbers DEF Chain
  <2>6. Merges(blocks) /\ Used(blocks) = {}
    BY <2>1, Numbers DEF Merges, Used
  <2>. QED  BY <1>1, <2>5, <2>6 DEF HeldBy
<1>3. CASE blocks = [b \in {} |-> NewBlock(0, NULL)]
  <2>1. DOMAIN blocks = {} /\ blocks \in [{} -> Block]
    BY <1>3
  <2>2. Chain(blocks) /\ Merges(blocks) /\ Used(blocks) = {}
    BY <2>1 DEF Chain, Merges, Used
  <2>. QED  BY <1>1, <2>2 DEF HeldBy
<1>. QED  BY <1>2, <1>3 DEF HeapInit

LEMMA InitHeapAndFiles == ASSUME FsInit PROVE HeapAndFiles
<1>1. HeldBy(blocks, live)
  BY InitHeld DEF FsInit
<1>2. /\ dir = [i \in 1 .. Len(Initrd) |->
                  [name |-> Initrd[i].name, data |-> StaticAt(i), size |-> Initrd[i].holds.len]]
      /\ Len(Initrd) \in Nat /\ Len(Initrd) < MaxFiles
  BY Lengths DEF FsInit
<1>3. \A i \in 1 .. Len(Initrd) :
        /\ Initrd[i].name \in Names /\ Initrd[i].holds.len \in Nat /\ Initrd[i].holds.len <= Word - Align
        /\ StaticAt(i) \in Int /\ IsStatic(StaticAt(i)) /\ -1 - StaticAt(i) = i
  <2>1. \A i \in 1 .. Len(Initrd) : Initrd[i].name \in Names
    BY FileSystemAssumption
  <2>2. \A i \in 1 .. Len(Initrd) : Initrd[i].holds.len \in Nat /\ Initrd[i].holds.len <= Word - Align
    BY Lengths
  <2>3. \A i \in 1 .. Len(Initrd) : StaticAt(i) \in Int /\ IsStatic(StaticAt(i)) /\ -1 - StaticAt(i) = i
    BY DEF StaticAt, IsStatic, NULL
  <2>. QED  BY <2>1, <2>2, <2>3
<1>4. dir \in Seq(Entry) /\ Len(dir) = Len(Initrd)
  BY <1>2, <1>3 DEF Entry
<1>5. \A i \in 1 .. Len(Initrd) : dir[i].data = StaticAt(i) /\ dir[i].size = Initrd[i].holds.len
  BY <1>2
<1>6. \A i \in 1 .. Len(Initrd) : EntryOk(dir[i], blocks, live)
  BY <1>3, <1>5 DEF EntryOk, Holds
<1>7. \A i, j \in 1 .. Len(Initrd) : dir[i].data = dir[j].data => i = j
  BY <1>3, <1>5
<1>. QED  BY <1>1, <1>2, <1>4, <1>6, <1>7 DEF HeapAndFiles, Files, Count

LEMMA StepKeepsHeapAndFiles ==
    ASSUME HeapAndFiles, [FsNext]_fsVars PROVE HeapAndFiles' /\ ArenaStep
<1>1. CASE UNCHANGED fsVars
  BY <1>1, NothingStep DEF fsVars, heapVars
<1>2. ASSUME NEW n \in Names, NEW c \in Contents, Save(n, c) PROVE HeapAndFiles' /\ ArenaStep
  BY <1>2, SaveStep, Lengths DEF Save
<1>3. ASSUME NEW n \in Names, Remove(n) PROVE HeapAndFiles' /\ ArenaStep
  BY <1>3, RemoveStep DEF Remove
<1>4. ASSUME NEW n \in Names, Open(n) PROVE HeapAndFiles' /\ ArenaStep
  BY <1>4, NothingStep DEF Open, heapVars
<1>5. ASSUME NEW fd \in Fds, NEW len \in Sizes, Read(fd, len) PROVE HeapAndFiles' /\ ArenaStep
  BY <1>5, NothingStep DEF Read, heapVars
<1>6. ASSUME NEW fd \in Fds, Close(fd) PROVE HeapAndFiles' /\ ArenaStep
  BY <1>6, NothingStep DEF Close, heapVars
<1>7. ASSUME NEW n \in Names, NEW noCreate \in BOOLEAN, Touch(n, noCreate) PROVE HeapAndFiles' /\ ArenaStep
  <2>1. CASE Nothing
    BY <2>1, NothingStep DEF Nothing, heapVars
  <2>2. ASSUME NEW c, c.len \in 0 .. Word - Align, InitrdSave(n, c) PROVE HeapAndFiles' /\ ArenaStep
    BY <2>2, SaveStep
  <2>. QED  BY <1>7, <2>1, <2>2, TouchStep
<1>8. CASE OtherBuffer
  BY <1>8, OtherBufferStep
<1>. QED  BY <1>1, <1>2, <1>3, <1>4, <1>5, <1>6, <1>7, <1>8 DEF FsNext

\* The blocks, their holders and the directory stay consistent: the inductive
\* invariant of the steps that save, remove and take buffers.
THEOREM HeapAndFilesHold == FsSpec => []HeapAndFiles
<1>1. FsInit => HeapAndFiles
  BY InitHeapAndFiles
<1>2. HeapAndFiles /\ [FsNext]_fsVars => HeapAndFiles'
  BY StepKeepsHeapAndFiles
<1>. QED  BY <1>1, <1>2, PTL DEF FsSpec

\* Whatever the file system, the editor and the loader take and give back, the
\* blocks tile the heap, free ones are merged, and the ones in use are exactly
\* those held, each long enough (heap.c: kmalloc, kfree, krealloc).
THEOREM HeapIsSound == FsSpec => []HeapSound
<1>1. HeapAndFiles => HeapSound
  BY HeldByIsHeapSound DEF HeapAndFiles
<1>. QED  BY <1>1, HeapAndFilesHold, PTL

\* The data of every file is static or a buffer of its own in the heap, as long
\* as the entry says (initrd.c: initrd_save and initrd_remove, in every order).
THEOREM FilesOwnTheirData == FsSpec => []EntriesOwnTheirData
<1>1. HeapAndFiles => EntriesOwnTheirData
  BY DEF HeapAndFiles, Files, EntryOk, Payload, EntriesOwnTheirData, Indices, Count
<1>. QED  BY <1>1, HeapAndFilesHold, PTL

\* The heap implements the arena: holders get regions that nobody else has and
\* that stay as they are until they are given back.
THEOREM HeapIsAnArena == FsSpec => PayloadsAreDisjoint
<1>1. FsInit => HeapArena!Init
  BY DEF FsInit, HeapInit, HeapArena!Init
<1>2. HeapAndFiles /\ [FsNext]_fsVars =>
        HeapArena!Next \/ UNCHANGED [p \in DOMAIN live |-> blocks[p - Header].size]
  BY StepKeepsHeapAndFiles, RegionsAreRegions DEF ArenaStep
<1>. QED  BY <1>1, <1>2, HeapAndFilesHold, PTL DEF FsSpec, PayloadsAreDisjoint, HeapArena!Spec

-----------------------------------------------------------------------------
(***************************************************************************)
(* The descriptors                                                         *)
(***************************************************************************)
Descriptor == [used : BOOLEAN, data : Int, size : Nat, offset : Nat]

\* The descriptor f shows what its name leads to, opened as o says.
Follows(f, o, dr, lv) ==
    \E e : LeadsTo(dr, o.name, e) /\ e.data = f.data /\ e.size = f.size /\ Holds(lv, e.data) = o.holds

FdsFollow(fs, og, dr, lv) ==
    /\ fs \in [Fds -> Descriptor] /\ DOMAIN og = Fds
    /\ \A fd \in Fds : fs[fd].offset <= fs[fd].size
    /\ \A fd \in Fds : fs[fd].used /\ og[fd].fresh => Follows(fs[fd], og[fd], dr, lv)

\* The files are sound, and the descriptors follow them.
FilesInv == HeapAndFiles /\ FdsFollow(fds, origin, dir, live)

LEMMA FdsFollowChanges ==
    ASSUME NEW n, NEW c, NEW dr, NEW lv, NEW sv, NEW og, NEW dr2, NEW lv2, NEW sv2, NEW og2, NEW fs,
           FdsFollow(fs, og, dr, lv), Expected(n, c, sv, og, sv2, og2), OthersStay(n, dr, lv, dr2, lv2)
    PROVE  FdsFollow(fs, og2, dr2, lv2)
<1>1. og2 = [fd \in Fds |-> IF og[fd].name = n THEN NoOrigin ELSE og[fd]]
  BY DEF Expected
<1>2. ASSUME NEW fd \in Fds, fs[fd].used, og2[fd].fresh PROVE Follows(fs[fd], og2[fd], dr2, lv2)
  <2>1. og2[fd] = og[fd] /\ og[fd].name # n
    BY <1>1, <1>2 DEF NoOrigin
  <2>2. Follows(fs[fd], og[fd], dr, lv)
    BY <1>2, <2>1 DEF FdsFollow
  <2>3. PICK e : LeadsTo(dr, og[fd].name, e) /\ e.data = fs[fd].data /\ e.size = fs[fd].size
                 /\ Holds(lv, e.data) = og[fd].holds
    BY <2>2 DEF Follows
  <2>4. LeadsTo(dr2, og[fd].name, e) /\ Holds(lv2, e.data) = Holds(lv, e.data)
    BY <2>1, <2>3 DEF OthersStay, SameContents
  <2>. QED  BY <2>1, <2>3, <2>4 DEF Follows
<1>. QED  BY <1>1, <1>2 DEF FdsFollow

LEMMA FdsFollowContents ==
    ASSUME NEW dr, NEW lv, NEW lv2, NEW fs, NEW og, FdsFollow(fs, og, dr, lv), ContentsStay(dr, lv, lv2)
    PROVE  FdsFollow(fs, og, dr, lv2)
<1>1. ASSUME NEW f, NEW o, Follows(f, o, dr, lv) PROVE Follows(f, o, dr, lv2)
  BY <1>1 DEF Follows, ContentsStay
<1>. QED  BY <1>1 DEF FdsFollow

LEMMA OpenFollows ==
    ASSUME FilesInv, NEW n \in Names, Open(n) PROVE FdsFollow(fds', origin', dir', live')
<1>0. FdsFollow(fds, origin, dir, live) /\ UNCHANGED <<dir, live>>
  BY DEF FilesInv, Open, heapVars
<1>1. CASE UNCHANGED <<fds, origin>>
  BY <1>0, <1>1
<1>2. ASSUME NEW i \in Indices, NEW fd \in FreeFds, Opens(i, n),
             fds' = [fds EXCEPT ![fd] = [used |-> TRUE, data |-> dir[i].data,
                                           size |-> dir[i].size, offset |-> 0]],
             origin' = [origin EXCEPT ![fd] = [name |-> n, holds |-> Memory(dir[i].data), fresh |-> TRUE]]
      PROVE  FdsFollow(fds', origin', dir', live')
  <2>. DEFINE f == [used |-> TRUE, data |-> dir[i].data, size |-> dir[i].size, offset |-> 0]
              o == [name |-> n, holds |-> Memory(dir[i].data), fresh |-> TRUE]
  <2>1. dir[i] \in Entry /\ fd \in Fds
    BY DEF FilesInv, HeapAndFiles, Files, Indices, Count, FreeFds
  <2>2. f \in Descriptor /\ f.offset <= f.size
    BY <2>1 DEF Entry, Descriptor
  <2>3. LeadsTo(dir, n, dir[i])
    BY <1>2 DEF Opens, IsEntry, LeadsTo, Indices, Count
  <2>4. Holds(live, dir[i].data) = Memory(dir[i].data)
    BY DEF Holds, Memory
  <2>5. Follows(f, o, dir, live)
    BY <2>3, <2>4 DEF Follows
  <2>6. /\ fds' = [fds EXCEPT ![fd] = f] /\ fds'[fd] = f
        /\ origin' = [origin EXCEPT ![fd] = o] /\ origin'[fd] = o
        /\ \A other \in Fds \ {fd} : fds'[other] = fds[other] /\ origin'[other] = origin[other]
    BY <1>0, <1>2, <2>1 DEF FdsFollow
  <2>. HIDE DEF f, o
  <2>7. fds' \in [Fds -> Descriptor] /\ DOMAIN origin' = Fds
    BY <1>0, <2>2, <2>6 DEF FdsFollow
  <2>. QED  BY <1>0, <2>2, <2>5, <2>6, <2>7 DEF FdsFollow
<1>. QED  BY <1>1, <1>2 DEF Open

LEMMA ReadFollows ==
    ASSUME FilesInv, NEW fd \in Fds, NEW len \in Sizes, Read(fd, len)
    PROVE  FdsFollow(fds', origin', dir', live')
<1>. DEFINE off == IF fds[fd].offset >= fds[fd].size THEN fds[fd].offset
                   ELSE Min({fds[fd].offset + len, fds[fd].size})
<1>0. FdsFollow(fds, origin, dir, live) /\ UNCHANGED <<dir, origin, live>>
  BY DEF FilesInv, Read, heapVars
<1>1. fds[fd] \in Descriptor /\ fds[fd].offset <= fds[fd].size /\ fds \in [Fds -> Descriptor]
  BY <1>0 DEF FdsFollow
<1>2. len \in Nat
  <2>1. Sizes \subseteq 0 .. Word - 1
    BY HeapAssumption
  <2>2. Word \in Nat
    BY HeapAssumption
  <2>. QED  BY <2>1, <2>2
<1>3. off \in Nat /\ off <= fds[fd].size
  <2>1. fds[fd].offset \in Nat /\ fds[fd].size \in Nat
    BY <1>1 DEF Descriptor
  <2>2. \A a, b \in Nat : Min({a, b}) \in Nat /\ Min({a, b}) <= b
    BY DEF Min
  <2>. QED  BY <1>1, <1>2, <2>1, <2>2
<1>4. fds' = [fds EXCEPT ![fd].offset = off]
  BY DEF Read
<1>. HIDE DEF off
<1>5. fds' \in [Fds -> Descriptor]
  BY <1>1, <1>3, <1>4 DEF Descriptor
<1>6. \A other \in Fds :
        /\ fds'[other].offset <= fds'[other].size /\ fds'[other].used = fds[other].used
        /\ fds'[other].data = fds[other].data /\ fds'[other].size = fds[other].size
  BY <1>0, <1>1, <1>3, <1>4 DEF Descriptor, FdsFollow
<1>7. \A other \in Fds : fds'[other].used /\ origin[other].fresh => Follows(fds'[other], origin[other], dir, live)
  BY <1>0, <1>6 DEF FdsFollow, Follows
<1>. QED  BY <1>0, <1>5, <1>6, <1>7 DEF FdsFollow

LEMMA CloseFollows ==
    ASSUME FilesInv, NEW fd \in Fds, Close(fd)
    PROVE  FdsFollow(fds', origin', dir', live')
<1>0. FdsFollow(fds, origin, dir, live) /\ UNCHANGED <<dir, live>>
  BY DEF FilesInv, Close, heapVars
<1>1. Closed \in Descriptor /\ ~Closed.used /\ Closed.offset <= Closed.size
  BY DEF Closed, Descriptor, NULL
<1>2. fds' = [fds EXCEPT ![fd] = Closed] /\ origin' = [origin EXCEPT ![fd] = NoOrigin]
  BY DEF Close
<1>3. /\ fds' \in [Fds -> Descriptor] /\ DOMAIN origin' = Fds /\ fds'[fd] = Closed
      /\ \A other \in Fds \ {fd} : fds'[other] = fds[other] /\ origin'[other] = origin[other]
  BY <1>0, <1>1, <1>2 DEF FdsFollow
<1>. QED  BY <1>0, <1>1, <1>3 DEF FdsFollow

LEMMA StepKeepsFilesInv ==
    ASSUME FilesInv, [FsNext]_fsVars PROVE FilesInv'
<1>0. HeapAndFiles' /\ HeapAndFiles /\ FdsFollow(fds, origin, dir, live)
  BY StepKeepsHeapAndFiles DEF FilesInv
<1>1. SUFFICES FdsFollow(fds', origin', dir', live')
  BY <1>0 DEF FilesInv
<1>2. ASSUME UNCHANGED <<dir, fds, origin, live>> PROVE FdsFollow(fds', origin', dir', live')
  BY <1>0, <1>2
<1>3. ASSUME NEW n \in Names, NEW c, c.len \in 0 .. Word - Align, InitrdSave(n, c), UNCHANGED fds
      PROVE  FdsFollow(fds', origin', dir', live')
  <2>1. Nothing \/ Saved(n, c, dir, live, saved, origin, dir', live', saved', origin')
    BY <1>0, <1>3, SaveStep
  <2>2. CASE Nothing
    BY <1>2, <1>3, <2>2 DEF Nothing, heapVars
  <2>3. CASE Saved(n, c, dir, live, saved, origin, dir', live', saved', origin')
    <3>1. FdsFollow(fds, origin', dir', live')
      BY <1>0, <2>3, FdsFollowChanges DEF Saved
    <3>. QED  BY <1>3, <3>1
  <2>. QED  BY <2>1, <2>2, <2>3
<1>4. ASSUME NEW n \in Names, NEW c \in Contents, Save(n, c) PROVE FdsFollow(fds', origin', dir', live')
  BY <1>3, <1>4, Lengths DEF Save
<1>5. ASSUME NEW n \in Names, Remove(n) PROVE FdsFollow(fds', origin', dir', live')
  <2>1. Nothing \/ Removed(n, dir, live, saved, origin, dir', live', saved', origin')
    BY <1>0, <1>5, RemoveStep DEF Remove
  <2>2. CASE Nothing
    BY <1>2, <1>5, <2>2 DEF Nothing, Remove, heapVars
  <2>3. CASE Removed(n, dir, live, saved, origin, dir', live', saved', origin')
    <3>1. FdsFollow(fds, origin', dir', live')
      BY <1>0, <2>3, FdsFollowChanges DEF Removed
    <3>. QED  BY <1>5, <3>1 DEF Remove
  <2>. QED  BY <2>1, <2>2, <2>3
<1>6. ASSUME NEW n \in Names, NEW noCreate \in BOOLEAN, Touch(n, noCreate)
      PROVE  FdsFollow(fds', origin', dir', live')
  <2>1. UNCHANGED fds
    BY <1>6 DEF Touch
  <2>2. CASE Nothing
    BY <1>2, <2>1, <2>2 DEF Nothing, heapVars
  <2>. QED  BY <1>0, <1>3, <1>6, <2>1, <2>2, TouchStep
<1>7. CASE OtherBuffer
  <2>1. ContentsStay(dir, live, live') /\ UNCHANGED <<dir, fds, origin>>
    BY <1>0, <1>7, OtherBufferStep DEF OtherBuffer
  <2>2. FdsFollow(fds, origin, dir, live')
    BY <1>0, <2>1, FdsFollowContents
  <2>. QED  BY <2>1, <2>2
<1>8. CASE UNCHANGED fsVars
  BY <1>2, <1>8 DEF fsVars, heapVars
<1>9. ASSUME NEW n \in Names, Open(n) PROVE FdsFollow(fds', origin', dir', live')
  BY <1>9, OpenFollows
<1>10. ASSUME NEW fd \in Fds, NEW len \in Sizes, Read(fd, len) PROVE FdsFollow(fds', origin', dir', live')
  BY <1>10, ReadFollows
<1>11. ASSUME NEW fd \in Fds, Close(fd) PROVE FdsFollow(fds', origin', dir', live')
  BY <1>11, CloseFollows
<1>. QED  BY <1>4, <1>5, <1>6, <1>7, <1>8, <1>9, <1>10, <1>11 DEF FsNext

\* And the descriptors that nothing has overtaken lead where their names lead.
THEOREM FilesInvariant == FsSpec => []FilesInv
<1>1. ASSUME FsInit PROVE FilesInv
  <2>1. fds = [fd \in Fds |-> Closed] /\ origin = [fd \in Fds |-> NoOrigin]
    BY <1>1 DEF FsInit
  <2>2. Closed \in Descriptor /\ ~Closed.used /\ Closed.offset <= Closed.size
    BY DEF Closed, Descriptor, NULL
  <2>3. FdsFollow(fds, origin, dir, live)
    BY <2>1, <2>2 DEF FdsFollow
  <2>. QED  BY <1>1, <2>3, InitHeapAndFiles DEF FilesInv
<1>2. FilesInv /\ [FsNext]_fsVars => FilesInv'
  BY StepKeepsFilesInv
<1>. QED  BY <1>1, <1>2, PTL DEF FsSpec

\* The heap, the directory and the descriptors keep their types, and a place is
\* left for the terminator of initrd_files (initrd.c, vfs.c).
THEOREM FilesHaveTheirTypes == FsSpec => []FsTypeOK
<1>1. ASSUME FilesInv PROVE FsTypeOK
  <2>1. /\ HeldBy(blocks, live) /\ Files(dir, blocks, live) /\ Count < MaxFiles
        /\ Chain(blocks) /\ FdsFollow(fds, origin, dir, live)
    BY <1>1 DEF FilesInv, HeapAndFiles, HeldBy
  <2>2. \A b \in Headers :
          /\ b \in Nat /\ blocks[b] \in Block /\ End(blocks, b) <= HeapSize
          /\ blocks[b].next \in Headers \cup {NULL}
    BY <2>1 DEF Chain, Headers
  <2>3. ASSUME NEW b \in Headers
        PROVE  /\ b \in 0 .. HeapSize - Header /\ DOMAIN blocks[b] = {"size", "free", "next"}
               /\ blocks[b].size \in 0 .. HeapSize /\ blocks[b].free \in BOOLEAN
    <3>1. /\ DOMAIN blocks[b] = {"size", "free", "next"}
          /\ blocks[b].size \in Nat /\ blocks[b].free \in BOOLEAN
      BY <2>2 DEF Block
    <3>2. b \in Nat /\ b + Header + blocks[b].size <= HeapSize
      BY <2>2 DEF End
    <3>. QED  BY <3>1, <3>2, Numbers
  <2>4. \A p \in DOMAIN live : p - Header \in Headers
    BY <2>1, PointersAreBlocks DEF Used, Headers
  <2>5. HeapTypeOK
    BY <2>2, <2>3, <2>4 DEF HeapTypeOK
  <2>6. \A i \in Indices : dir[i] \in Entry
    BY <2>1 DEF Files, Indices, Count
  <2>7. \A fd \in Fds : fds[fd] \in Descriptor /\ fds[fd].offset <= fds[fd].size
    BY <2>1 DEF FdsFollow
  <2>8. \A fd \in Fds : fds[fd].used \in BOOLEAN /\ fds[fd].offset \in 0 .. fds[fd].size
    BY <2>7 DEF Descriptor
  <2>. QED  BY <2>1, <2>5, <2>6, <2>8 DEF FsTypeOK, Entry
<1>. QED  BY <1>1, FilesInvariant, PTL

\* A descriptor goes on reading what it was opened on, whatever is done to other
\* files and however the directory moves (vfs.c: vfs_open copies what it finds).
THEOREM FdsReadOn == FsSpec => []FdsReadTheirFile
<1>1. ASSUME FilesInv, NEW fd \in Fds, fds[fd].used, origin[fd].fresh
      PROVE  Memory(fds[fd].data) = origin[fd].holds /\ fds[fd].size = origin[fd].holds.len
  <2>1. Follows(fds[fd], origin[fd], dir, live)
    BY <1>1 DEF FilesInv, FdsFollow
  <2>2. PICK e : LeadsTo(dir, origin[fd].name, e) /\ e.data = fds[fd].data /\ e.size = fds[fd].size
                 /\ Holds(live, e.data) = origin[fd].holds
    BY <2>1 DEF Follows
  <2>3. EntryOk(e, blocks, live)
    BY <1>1, <2>2 DEF LeadsTo, FilesInv, HeapAndFiles, Files
  <2>4. Memory(fds[fd].data) = Holds(live, e.data)
    BY <2>2 DEF Memory, Holds
  <2>. QED  BY <2>2, <2>3, <2>4 DEF EntryOk
<1>2. FilesInv => FdsReadTheirFile
  BY <1>1 DEF FdsReadTheirFile
<1>. QED  BY <1>2, FilesInvariant, PTL

-----------------------------------------------------------------------------
(***************************************************************************)
(* What is saved is what is opened                                         *)
(***************************************************************************)
\* Every name fits into an entry, there is none without a name, the files at
\* boot have different names, and every content is one.
NamesFit ==
    /\ \A n \in Names : Stored[n] = n /\ n # ""
    /\ \A i, j \in 1 .. Len(Initrd) : Initrd[i].name = Initrd[j].name => i = j
    /\ Absent \notin Contents /\ \A i \in 1 .. Len(Initrd) : Initrd[i].holds # Absent

\* Each name leads to what was saved under it.
SavesLead(dr, lv, sv) ==
    /\ NamesDiffer(dr) /\ DOMAIN sv = Names
    /\ \A n \in Names :
         IF sv[n] = Absent THEN \A x : ~LeadsTo(dr, n, x) ELSE LeadsToContent(n, sv[n], dr, lv)

SavesInv == FilesInv /\ SavesLead(dir, live, saved)

LEMMA SavesLeadChanges ==
    ASSUME NEW n \in Names, NEW c, NEW dr, NEW lv, NEW sv, NEW og, NEW dr2, NEW lv2, NEW sv2, NEW og2,
           SavesLead(dr, lv, sv), Expected(n, c, sv, og, sv2, og2),
           OthersStay(n, dr, lv, dr2, lv2), NothingElseComes(n, dr, dr2), NamesDiffer(dr2),
           IF c = Absent THEN \A x : ~LeadsTo(dr2, n, x) ELSE LeadsToContent(n, c, dr2, lv2)
    PROVE  SavesLead(dr2, lv2, sv2)
<1>1. DOMAIN sv2 = Names /\ sv2[n] = c /\ \A m \in Names \ {n} : sv2[m] = sv[m]
  BY DEF Expected, SavesLead
<1>2. ASSUME NEW m \in Names \ {n}
      PROVE  IF sv2[m] = Absent THEN \A x : ~LeadsTo(dr2, m, x) ELSE LeadsToContent(m, sv2[m], dr2, lv2)
  <2>1. sv2[m] = sv[m] /\ m # n
    BY <1>1
  <2>2. IF sv[m] = Absent THEN \A x : ~LeadsTo(dr, m, x) ELSE LeadsToContent(m, sv[m], dr, lv)
    BY DEF SavesLead
  <2>3. CASE sv[m] = Absent
    BY <2>1, <2>2, <2>3 DEF NothingElseComes
  <2>4. CASE sv[m] # Absent
    <3>1. PICK e : LeadsTo(dr, m, e) /\ Holds(lv, e.data) = sv[m] /\ e.size = sv[m].len
      BY <2>2, <2>4 DEF LeadsToContent
    <3>2. LeadsTo(dr2, m, e) /\ Holds(lv2, e.data) = Holds(lv, e.data)
      BY <2>1, <3>1 DEF OthersStay, SameContents
    <3>. QED  BY <2>1, <2>4, <3>1, <3>2 DEF LeadsToContent
  <2>. QED  BY <2>3, <2>4
<1>. QED  BY <1>1, <1>2 DEF SavesLead

LEMMA SavesLeadContents ==
    ASSUME NEW dr, NEW lv, NEW lv2, NEW sv, SavesLead(dr, lv, sv), ContentsStay(dr, lv, lv2)
    PROVE  SavesLead(dr, lv2, sv)
<1>1. ASSUME NEW n, NEW c, LeadsToContent(n, c, dr, lv) PROVE LeadsToContent(n, c, dr, lv2)
  BY <1>1 DEF LeadsToContent, ContentsStay
<1>. QED  BY <1>1 DEF SavesLead

\* touch saves contents.
LEMMA TouchSavesContent ==
    ASSUME SavesInv, NEW n \in Names, NEW c, TouchSaves(n, c) PROVE c # Absent
<1>1. CASE c = Empty
  BY <1>1 DEF Empty, Absent
<1>2. ASSUME NEW i \in Indices, Opens(i, n), c = Prefix(Memory(dir[i].data), TouchBuffer)
      PROVE  c # Absent
  <2>. DEFINE d == Memory(dir[i].data)
  <2>1. LeadsTo(dir, n, dir[i])
    BY <1>2 DEF Opens, IsEntry, LeadsTo, Indices, Count
  <2>2. saved[n] # Absent
    BY <2>1 DEF SavesInv, SavesLead
  <2>3. PICK e : LeadsTo(dir, n, e) /\ Holds(live, e.data) = saved[n]
    BY <2>2 DEF SavesInv, SavesLead, LeadsToContent
  <2>4. e = dir[i]
    <3>1. PICK j \in 1 .. Len(dir) : dir[j] = e /\ e.name = n
      BY <2>3 DEF LeadsTo
    <3>2. dir[i].name = n /\ i \in 1 .. Len(dir)
      BY <1>2 DEF Opens, IsEntry, Indices, Count
    <3>. QED  BY <3>1, <3>2 DEF SavesInv, SavesLead, NamesDiffer
  <2>5. d = saved[n]
    BY <2>3, <2>4 DEF Memory, Holds
  <2>. HIDE DEF d
  <2>6. d # Absent /\ c = Prefix(d, TouchBuffer) /\ TouchBuffer # 0
    BY <1>2, <2>2, <2>5, FileSystemAssumption DEF d
  <2>7. c = d \/ c = [id |-> d.id, len |-> TouchBuffer]
    BY <2>6 DEF Prefix
  <2>8. [id |-> d.id, len |-> TouchBuffer].len # Absent.len
    BY <2>6 DEF Absent
  <2>. QED  BY <2>6, <2>7, <2>8
<1>. QED  BY <1>1, <1>2 DEF TouchSaves

LEMMA StepKeepsSaves ==
    ASSUME NamesFit, SavesInv, [FsNext]_fsVars PROVE SavesInv'
<1>0. FilesInv' /\ FilesInv /\ HeapAndFiles /\ SavesLead(dir, live, saved) /\ NamesDiffer(dir)
  BY StepKeepsFilesInv DEF SavesInv, FilesInv, SavesLead
<1>1. SUFFICES SavesLead(dir', live', saved')
  BY <1>0 DEF SavesInv
<1>2. ASSUME UNCHANGED <<dir, saved, live>> PROVE SavesLead(dir', live', saved')
  BY <1>0, <1>2
<1>3. ASSUME NEW n \in Names, NEW c, c.len \in 0 .. Word - Align, c # Absent, InitrdSave(n, c)
      PROVE  SavesLead(dir', live', saved')
  <2>1. Nothing \/ Saved(n, c, dir, live, saved, origin, dir', live', saved', origin')
    BY <1>0, <1>3, SaveStep
  <2>2. CASE Nothing
    BY <1>2, <2>2 DEF Nothing, heapVars
  <2>3. CASE Saved(n, c, dir, live, saved, origin, dir', live', saved', origin')
    <3>1. Stored[n] = n
      BY DEF NamesFit
    <3>. QED  BY <1>0, <1>3, <2>3, <3>1, SavesLeadChanges DEF Saved
  <2>. QED  BY <2>1, <2>2, <2>3
<1>4. ASSUME NEW n \in Names, NEW c \in Contents, Save(n, c) PROVE SavesLead(dir', live', saved')
  <2>1. c # Absent
    BY DEF NamesFit
  <2>. QED  BY <1>3, <1>4, <2>1, Lengths DEF Save
<1>5. ASSUME NEW n \in Names, Remove(n) PROVE SavesLead(dir', live', saved')
  <2>1. Nothing \/ Removed(n, dir, live, saved, origin, dir', live', saved', origin')
    BY <1>0, <1>5, RemoveStep DEF Remove
  <2>2. CASE Nothing
    BY <1>2, <2>2 DEF Nothing, heapVars
  <2>3. CASE Removed(n, dir, live, saved, origin, dir', live', saved', origin')
    BY <1>0, <2>3, SavesLeadChanges DEF Removed
  <2>. QED  BY <2>1, <2>2, <2>3
<1>6. ASSUME NEW n \in Names, NEW noCreate \in BOOLEAN, Touch(n, noCreate)
      PROVE  SavesLead(dir', live', saved')
  <2>1. CASE Nothing
    BY <1>2, <2>1 DEF Nothing, heapVars
  <2>. QED  BY <1>0, <1>3, <1>6, <2>1, TouchStep, TouchSavesContent
<1>7. CASE OtherBuffer
  <2>1. ContentsStay(dir, live, live') /\ UNCHANGED <<dir, saved>>
    BY <1>0, <1>7, OtherBufferStep DEF OtherBuffer
  <2>2. SavesLead(dir, live', saved)
    BY <1>0, <2>1, SavesLeadContents
  <2>. QED  BY <2>1, <2>2
<1>8. CASE UNCHANGED fsVars
  BY <1>2, <1>8 DEF fsVars, heapVars
<1>9. ASSUME NEW n \in Names, Open(n) PROVE SavesLead(dir', live', saved')
  BY <1>2, <1>9 DEF Open, heapVars
<1>10. ASSUME NEW fd \in Fds, NEW len \in Sizes, Read(fd, len) PROVE SavesLead(dir', live', saved')
  BY <1>2, <1>10 DEF Read, heapVars
<1>11. ASSUME NEW fd \in Fds, Close(fd) PROVE SavesLead(dir', live', saved')
  BY <1>2, <1>11 DEF Close, heapVars
<1>. QED  BY <1>4, <1>5, <1>6, <1>7, <1>8, <1>9, <1>10, <1>11 DEF FsNext

LEMMA InitSaves == ASSUME NamesFit, FsInit PROVE SavesLead(dir, live, saved)
<1>1. /\ dir = [i \in 1 .. Len(Initrd) |->
                  [name |-> Initrd[i].name, data |-> StaticAt(i), size |-> Initrd[i].holds.len]]
      /\ Len(Initrd) \in Nat /\ \A i \in 1 .. Len(Initrd) : Initrd[i].name \in Names
  BY Lengths, FileSystemAssumption DEF FsInit
<1>2. Len(dir) = Len(Initrd) /\ \A i \in 1 .. Len(Initrd) :
        /\ dir[i].name = Initrd[i].name /\ dir[i].data = StaticAt(i)
        /\ dir[i].size = Initrd[i].holds.len
  BY <1>1
<1>3. \A i \in 1 .. Len(Initrd) : Holds(live, dir[i].data) = Initrd[i].holds
  <2>1. \A i \in 1 .. Len(Initrd) : IsStatic(StaticAt(i)) /\ -1 - StaticAt(i) = i
    BY DEF StaticAt, IsStatic, NULL
  <2>. QED  BY <1>2, <2>1 DEF Holds
<1>4. NamesDiffer(dir)
  BY <1>2 DEF NamesDiffer, NamesFit
<1>5. ASSUME NEW n \in Names
      PROVE  IF saved[n] = Absent THEN \A x : ~LeadsTo(dir, n, x) ELSE LeadsToContent(n, saved[n], dir, live)
  <2>1. CASE ~\E i \in 1 .. Len(Initrd) : Initrd[i].name = n
    <3>1. saved[n] = Absent
      BY <2>1 DEF FsInit
    <3>. QED  BY <1>2, <2>1, <3>1 DEF LeadsTo
  <2>2. CASE \E i \in 1 .. Len(Initrd) : Initrd[i].name = n
    <3>. DEFINE i == CHOOSE k \in 1 .. Len(Initrd) : Initrd[k].name = n
    <3>1. i \in 1 .. Len(Initrd) /\ Initrd[i].name = n
      BY <2>2
    <3>2. saved[n] = Initrd[i].holds
      BY <2>2 DEF FsInit
    <3>. HIDE DEF i
    <3>3. saved[n] # Absent
      BY <3>1, <3>2 DEF NamesFit
    <3>4. \A j \in 1 .. i - 1 : dir[j].name # n
      <4>1. \A j \in 1 .. i - 1 : j \in 1 .. Len(Initrd) /\ j # i
        BY <1>1, <3>1
      <4>. QED  BY <1>2, <3>1, <4>1 DEF NamesFit
    <3>5. LeadsTo(dir, n, dir[i])
      BY <1>2, <3>1, <3>4 DEF LeadsTo
    <3>6. Holds(live, dir[i].data) = saved[n] /\ dir[i].size = saved[n].len
      BY <1>2, <1>3, <3>1, <3>2
    <3>7. LeadsToContent(n, saved[n], dir, live)
      BY <3>5, <3>6 DEF LeadsToContent
    <3>. QED  BY <3>3, <3>7
  <2>. QED  BY <2>1, <2>2
<1>6. DOMAIN saved = Names
  BY DEF FsInit
<1>. QED  BY <1>4, <1>5, <1>6 DEF SavesLead

\* As long as names fit into an entry, "save really saves": a name opens exactly
\* if something was saved under it and not removed, and gives what was saved
\* last, whatever runs out (vfs.c: vfs_open; initrd.c: initrd_save).
THEOREM SaveDoesSave == NamesFit => (FsSpec => []SaveReallySaves)
<1>. SUFFICES ASSUME NamesFit PROVE FsSpec => []SaveReallySaves
  OBVIOUS
<1>1. FsInit /\ FilesInv => SavesInv
  BY InitSaves DEF SavesInv
<1>2. SavesInv /\ [FsNext]_fsVars => SavesInv'
  BY StepKeepsSaves
<1>3. SavesInv => SaveReallySaves
  <2>. SUFFICES ASSUME SavesInv, NEW n \in Names
                PROVE IF saved[n] = Absent THEN ~(\E i \in Indices : Opens(i, n))
                      ELSE \E i \in Indices : /\ Opens(i, n) /\ Memory(dir[i].data) = saved[n]
                                              /\ dir[i].size = saved[n].len
    BY DEF SaveReallySaves
  <2>1. IF saved[n] = Absent THEN \A x : ~LeadsTo(dir, n, x) ELSE LeadsToContent(n, saved[n], dir, live)
    BY DEF SavesInv, SavesLead
  <2>2. \A i \in Indices : Opens(i, n) => LeadsTo(dir, n, dir[i])
    BY DEF Opens, IsEntry, LeadsTo, Indices, Count
  <2>3. ASSUME saved[n] # Absent
        PROVE \E i \in Indices : /\ Opens(i, n) /\ Memory(dir[i].data) = saved[n]
                                 /\ dir[i].size = saved[n].len
    <3>1. PICK e : LeadsTo(dir, n, e) /\ Holds(live, e.data) = saved[n] /\ e.size = saved[n].len
      BY <2>1, <2>3 DEF LeadsToContent
    <3>2. PICK i \in Indices : dir[i] = e /\ e.name = n /\ \A j \in 1 .. i - 1 : dir[j].name # n
      BY <3>1 DEF LeadsTo, Indices, Count
    <3>3. \A j \in 1 .. i : dir[j].name # ""
      <4>1. Len(dir) \in Nat /\ \A j \in 1 .. Len(dir) : dir[j] \in Entry
        BY DEF SavesInv, FilesInv, HeapAndFiles, Files
      <4>2. \A j \in 1 .. i : j \in 1 .. Len(dir)
        BY <4>1, <3>2 DEF Indices, Count
      <4>3. \A j \in 1 .. i : dir[j].name \in Names
        BY <4>1, <4>2 DEF Entry
      <4>. QED  BY <4>3 DEF NamesFit
    <3>4. Memory(dir[i].data) = saved[n]
      BY <3>1, <3>2 DEF Memory, Holds
    <3>. QED  BY <3>1, <3>2, <3>3, <3>4 DEF Opens, IsEntry
  <2>. QED  BY <2>1, <2>2, <2>3
<1>. QED  BY <1>1, <1>2, <1>3, FilesInvariant, PTL DEF FsSpec

=============================================================================
