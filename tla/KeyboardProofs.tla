--------------------------- MODULE KeyboardProofs ---------------------------
(***************************************************************************)
(* Proofs about the keyboard, for every size of the ring and every set of  *)
(* keys: what comes out of the ring wherever the interrupt comes inside a  *)
(* poll (RingInv), and what callers get unless it does (OrderInv).         *)
(***************************************************************************)
EXTENDS Keyboard, FiniteSetTheorems, SequenceTheorems, TLAPS

Places  == 0 .. Size - 1
Chars   == [key : Keys \cup {"none"}, upper : BOOLEAN]
Entries == [of : Nat, char : Chars, no : Nat]

KbTypes ==
    /\ typed \in Seq(Codes) /\ fetched \in 0 .. Len(typed)
    /\ shift \in BOOLEAN /\ caps \in BOOLEAN
    /\ kbuf \in [Places -> Entries] /\ khead \in Places /\ ktail \in Places
    /\ code \in Nat /\ char \in Chars /\ next \in Places
    /\ pushes \in Nat /\ taken \in Seq(Entries)

-----------------------------------------------------------------------------
(***************************************************************************)
(* The ring, slot by slot: how far a slot is from the tail.                *)
(***************************************************************************)
Offset(s) == IF s >= ktail THEN s - ktail ELSE s + Size - ktail
Queued(s) == Offset(s) < Offset(khead)

LEMMA SizeKnown == Size \in Nat /\ Size > 1 /\ 0 \in Places /\ 1 \in Places /\ Places \subseteq Nat
BY KeyboardAssumption DEF Places

LEMMA SuccKnown ==
    ASSUME NEW i \in Places
    PROVE  Succ(i) \in Places /\ Succ(i) = IF i = Size - 1 THEN 0 ELSE i + 1
<1>1. Size \in Nat /\ Size > 1 /\ i \in Nat /\ i <= Size - 1
  BY SizeKnown DEF Places
<1>2. CASE i = Size - 1
  <2>1. (i + 1) % Size = 0
    BY <1>1, <1>2
  <2> QED BY <1>1, <1>2, <2>1 DEF Succ, Places
<1>3. CASE i # Size - 1
  <2>1. (i + 1) % Size = i + 1
    BY <1>1, <1>3
  <2> QED BY <1>1, <1>3, <2>1 DEF Succ, Places
<1> QED BY <1>2, <1>3

LEMMA OffsetKnown ==
    ASSUME khead \in Places, ktail \in Places
    PROVE  /\ \A s \in Places : Offset(s) \in Places
           /\ \A s, t \in Places : Offset(s) = Offset(t) => s = t
           /\ \A s \in Places : Offset(s) = 0 <=> s = ktail
           /\ \A s \in Places : Succ(s) # ktail => Offset(Succ(s)) = Offset(s) + 1
           /\ \A s \in Places : Succ(s) = ktail => Offset(s) = Size - 1
<1>1. Size \in Nat /\ Size > 1 /\ ktail \in Nat /\ ktail <= Size - 1
  BY SizeKnown DEF Places
<1>2. \A s \in Places : Offset(s) \in Places /\ (Offset(s) = 0 <=> s = ktail)
  BY <1>1 DEF Offset, Places
<1>3. \A s, t \in Places : Offset(s) = Offset(t) => s = t
  BY <1>1 DEF Offset, Places
<1>4. ASSUME NEW s \in Places
      PROVE  /\ Succ(s) # ktail => Offset(Succ(s)) = Offset(s) + 1
             /\ Succ(s) = ktail => Offset(s) = Size - 1
  <2>1. Succ(s) = IF s = Size - 1 THEN 0 ELSE s + 1
    BY SuccKnown
  <2>2. s \in Nat /\ s <= Size - 1
    BY <1>1 DEF Places
  <2> QED BY <1>1, <2>1, <2>2 DEF Offset
<1> QED BY <1>2, <1>3, <1>4

\* Taking one out brings every other slot one nearer to the tail.
LEMMA TailMoves ==
    ASSUME khead \in Places, ktail \in Places, ktail' = Succ(ktail), khead' = khead
    PROVE  \A s \in Places : IF s = ktail THEN Offset(s)' = Size - 1 ELSE Offset(s)' = Offset(s) - 1
<1>1. Size \in Nat /\ Size > 1 /\ ktail \in Nat /\ ktail <= Size - 1
  BY SizeKnown DEF Places
<1>2. ktail' = IF ktail = Size - 1 THEN 0 ELSE ktail + 1
  BY SuccKnown
<1>3. ASSUME NEW s \in Places
      PROVE  IF s = ktail THEN Offset(s)' = Size - 1 ELSE Offset(s)' = Offset(s) - 1
  <2>1. s \in Nat /\ s <= Size - 1
    BY <1>1 DEF Places
  <2> QED BY <1>1, <1>2, <2>1 DEF Offset
<1> QED BY <1>3

\* Waiting is what is queued, in order.
LEMMA WaitingKnown ==
    ASSUME khead \in Places, ktail \in Places, kbuf \in [Places -> Entries]
    PROVE  /\ Waiting \in Seq(Entries) /\ Len(Waiting) = Offset(khead)
           /\ \A i \in 1 .. Offset(khead) :
                \E s \in Places : Queued(s) /\ Offset(s) = i - 1 /\ Waiting[i] = kbuf[s]
           /\ \A s \in Places : Queued(s) =>
                Offset(s) + 1 \in 1 .. Offset(khead) /\ Waiting[Offset(s) + 1] = kbuf[s]
<1>1. /\ Size \in Nat /\ Size > 1 /\ ktail \in Nat /\ ktail <= Size - 1
      /\ khead \in Nat /\ khead <= Size - 1
  BY SizeKnown DEF Places
<1>2. (khead + Size - ktail) % Size = Offset(khead)
  <2>1. CASE khead >= ktail
    <3>1. (khead + Size - ktail) % Size = khead - ktail
      BY <1>1, <2>1
    <3> QED BY <2>1, <3>1 DEF Offset
  <2>2. CASE ~(khead >= ktail)
    <3>1. (khead + Size - ktail) % Size = khead + Size - ktail
      BY <1>1, <2>2
    <3> QED BY <2>2, <3>1 DEF Offset
  <2> QED BY <2>1, <2>2
<1>3. Waiting = [i \in 1 .. Offset(khead) |-> kbuf[(ktail + i - 1) % Size]]
  BY <1>2 DEF Waiting
<1>4. Offset(khead) \in Nat /\ Offset(khead) <= Size - 1
  BY <1>1 DEF Offset
<1>5. ASSUME NEW i \in 1 .. Offset(khead)
      PROVE  \E s \in Places : Queued(s) /\ Offset(s) = i - 1 /\ (ktail + i - 1) % Size = s
  <2>1. PICK s : s = IF ktail + i - 1 < Size THEN ktail + i - 1 ELSE ktail + i - 1 - Size
    OBVIOUS
  <2>2. (ktail + i - 1) % Size = s
    <3>1. CASE ktail + i - 1 < Size
      BY <1>1, <1>4, <2>1, <3>1
    <3>2. CASE ~(ktail + i - 1 < Size)
      BY <1>1, <1>4, <2>1, <3>2
    <3> QED BY <3>1, <3>2
  <2>3. s \in Places /\ Offset(s) = i - 1
    BY <1>1, <1>4, <2>1 DEF Places, Offset
  <2>4. Queued(s)
    BY <1>4, <2>3 DEF Queued
  <2> QED BY <2>2, <2>3, <2>4
<1>6. \A i \in 1 .. Offset(khead) :
        \E s \in Places : Queued(s) /\ Offset(s) = i - 1 /\ Waiting[i] = kbuf[s]
  BY <1>3, <1>5
<1>7. Waiting \in Seq(Entries) /\ Len(Waiting) = Offset(khead)
  <2>1. \A i \in 1 .. Offset(khead) : Waiting[i] \in Entries
    BY <1>6
  <2> QED BY <1>3, <1>4, <2>1
<1>8. ASSUME NEW s \in Places, Queued(s)
      PROVE  Offset(s) + 1 \in 1 .. Offset(khead) /\ Waiting[Offset(s) + 1] = kbuf[s]
  <2>1. Offset(s) \in Nat /\ Offset(s) < Offset(khead)
    BY <1>8, OffsetKnown, SizeKnown DEF Queued
  <2>2. PICK i : i = Offset(s) + 1
    OBVIOUS
  <2>3. i \in 1 .. Offset(khead) /\ i - 1 = Offset(s)
    BY <1>4, <2>1, <2>2
  <2>4. PICK t \in Places : Offset(t) = i - 1 /\ Waiting[i] = kbuf[t]
    BY <1>6, <2>3
  <2>5. t = s
    BY <2>3, <2>4, OffsetKnown
  <2> QED BY <2>2, <2>3, <2>4, <2>5
<1> QED BY <1>6, <1>7, <1>8

-----------------------------------------------------------------------------
(***************************************************************************)
(* What was pushed comes out once and in its order.  An interrupt between  *)
(* the statements of kpush may put several characters behind the place the *)
(* poll has computed; the poll then takes khead back to it, and what was   *)
(* behind is lost, but nothing is out of order.                            *)
(***************************************************************************)
Numbered ==
    /\ \A k \in 1 .. Len(taken) : taken[k].no > 0 /\ taken[k].no <= pushes
    /\ \A j, k \in 1 .. Len(taken) : j < k => taken[j].no < taken[k].no
    /\ \A s \in Places : Queued(s) =>
         /\ kbuf[s].no > 0 /\ kbuf[s].no <= pushes
         /\ \A k \in 1 .. Len(taken) : taken[k].no < kbuf[s].no
    /\ \A s, t \in Places : Queued(s) /\ Queued(t) /\ Offset(s) < Offset(t) => kbuf[s].no < kbuf[t].no

\* The character in slot s was pushed after everything taken or queued.
Latest(s) ==
    /\ kbuf[s].no > 0 /\ kbuf[s].no <= pushes
    /\ \A k \in 1 .. Len(taken) : taken[k].no < kbuf[s].no
    /\ \A t \in Places : Queued(t) => kbuf[t].no < kbuf[s].no

\* The place the poll has computed is not the tail and not behind the next one.
Pushing ==
    /\ pc \in {"store", "advance"} => next # ktail /\ Offset(next) <= Offset(khead) + 1
    /\ pc = "advance" /\ Offset(next) = Offset(khead) + 1 => Latest(khead)

RingInv == KbTypes /\ Numbered /\ Pushing

LEMMA CharacterTyped ==
    ASSUME NEW key \in Keys, NEW sh \in BOOLEAN, NEW cl \in BOOLEAN
    PROVE  Character(key, sh, cl) \in Chars
<1>1. (IF key \in Letters THEN sh # cl ELSE sh) \in BOOLEAN
  BY Zenon
<1> DEFINE u == IF key \in Letters THEN sh # cl ELSE sh
<1>2. Character(key, sh, cl) = [key |-> key, upper |-> u]
  BY Zenon DEF Character
<1>3. key \in Keys \cup {"none"}
  OBVIOUS
<1> HIDE DEF u
<1>4. [key |-> key, upper |-> u] \in Chars
  BY <1>1, <1>3 DEF Chars, u
<1> QED BY <1>2, <1>4

LEMMA RingInit == KbInit => RingInv
<1> SUFFICES ASSUME KbInit PROVE RingInv
  OBVIOUS
<1>1. /\ typed = <<>> /\ fetched = 0 /\ shift = FALSE /\ caps = FALSE
      /\ kbuf = [i \in 0 .. Size - 1 |-> Unwritten] /\ khead = 0 /\ ktail = 0
      /\ pc = "idle" /\ code = 0 /\ char = Nothing /\ next = 0 /\ pushes = 0 /\ taken = <<>>
  BY DEF KbInit
<1>2. Nothing \in Chars
  BY DEF Nothing, Chars
<1>3. Unwritten \in Entries
  BY <1>2 DEF Unwritten, Slot, Entries
<1>4. KbTypes
  BY <1>1, <1>2, <1>3, SizeKnown DEF KbTypes, Places
<1>5. \A s \in Places : ~Queued(s)
  BY <1>1, SizeKnown DEF Queued, Offset, Places
<1> QED BY <1>1, <1>4, <1>5 DEF RingInv, Numbered, Pushing

\* Nothing the ring is made of changes, and the poll is not inside kpush or
\* stays where it is.
LEMMA RingStays ==
    ASSUME Numbered, Pushing, UNCHANGED <<kbuf, khead, ktail, pushes, taken>>,
           pc' \notin {"store", "advance"} \/ (pc' = pc /\ next' = next)
    PROVE  Numbered' /\ Pushing'
BY DEF Numbered, Pushing, Latest, Queued, Offset

\* One more character behind the last one, written into the slot khead names.
LEMMA PushKeepsOrder ==
    ASSUME RingInv, NEW e \in Entries, e.no = pushes + 1, kbuf' = [kbuf EXCEPT ![khead] = e],
           pushes' = pushes + 1, UNCHANGED <<ktail, taken>>,
           \/ /\ Succ(khead) # ktail /\ khead' = Succ(khead) /\ UNCHANGED <<pc, next>>
           \/ /\ khead' = khead /\ next' = next /\ pc = "store" /\ pc' = "advance"
    PROVE  Numbered' /\ Pushing'
<1>1. /\ khead \in Places /\ ktail \in Places /\ next \in Places /\ kbuf \in [Places -> Entries]
      /\ taken \in Seq(Entries) /\ pushes \in Nat /\ Size \in Nat
      /\ Len(taken) \in Nat /\ \A k \in 1 .. Len(taken) : taken[k].no \in Nat
      /\ \A s \in Places : kbuf[s].no \in Nat
  <2>1. /\ khead \in Places /\ ktail \in Places /\ next \in Places /\ kbuf \in [Places -> Entries]
        /\ taken \in Seq(Entries) /\ pushes \in Nat /\ Size \in Nat
    BY SizeKnown DEF RingInv, KbTypes
  <2>2. \A x \in Entries : x.no \in Nat
    BY DEF Entries
  <2>3. \A k \in 1 .. Len(taken) : taken[k] \in Entries
    BY <2>1
  <2> QED BY <2>1, <2>2, <2>3
<1>2. /\ \A s \in Places : Offset(s) \in Nat
      /\ \A s, t \in Places : Offset(s) = Offset(t) => s = t
      /\ \A s \in Places : Offset(s) = 0 <=> s = ktail
      /\ Succ(khead) # ktail => Offset(Succ(khead)) = Offset(khead) + 1
      /\ Succ(khead) \in Places
  BY <1>1, OffsetKnown, SuccKnown, SizeKnown
<1>3. /\ kbuf'[khead] = e /\ \A s \in Places : s # khead => kbuf'[s] = kbuf[s]
      /\ \A s : Offset(s)' = Offset(s)
  BY <1>1 DEF Offset
<1>4. \A k \in 1 .. Len(taken) : taken[k].no <= pushes
  BY DEF RingInv, Numbered
<1>5. \A s \in Places : Queued(s) => kbuf[s].no <= pushes /\ s # khead
  <2>1. ~(Offset(khead) < Offset(khead))
    BY <1>1, <1>2
  <2> QED BY <2>1 DEF RingInv, Numbered, Queued
<1>6. CASE Succ(khead) # ktail /\ khead' = Succ(khead) /\ UNCHANGED <<pc, next>>
  <2>1. \A s \in Places : Queued(s)' <=> Queued(s) \/ s = khead
    BY <1>1, <1>2, <1>3, <1>6 DEF Queued
  <2>2. \A s \in Places : Queued(s) => Offset(s) < Offset(khead)
    BY DEF Queued
  <2>3. Numbered'
    <3>1. \A k \in 1 .. Len(taken') : taken'[k].no > 0 /\ taken'[k].no <= pushes'
      BY <1>1, <1>4 DEF RingInv, Numbered
    <3>2. \A j, k \in 1 .. Len(taken') : j < k => taken'[j].no < taken'[k].no
      BY DEF RingInv, Numbered
    <3>3. ASSUME NEW s \in Places, Queued(s)'
          PROVE  /\ kbuf'[s].no > 0 /\ kbuf'[s].no <= pushes'
                 /\ \A k \in 1 .. Len(taken') : taken'[k].no < kbuf'[s].no
      <4>1. CASE s = khead
        BY <1>1, <1>3, <1>4, <4>1
      <4>2. CASE s # khead
        BY <1>1, <1>3, <2>1, <3>3, <4>2 DEF RingInv, Numbered
      <4> QED BY <4>1, <4>2
    <3>4. ASSUME NEW s \in Places, NEW t \in Places, Queued(s)', Queued(t)', Offset(s) < Offset(t)
          PROVE  kbuf'[s].no < kbuf'[t].no
      <4>1. s # khead /\ Queued(s)
        BY <1>1, <1>2, <2>1, <2>2, <3>4
      <4>2. CASE t = khead
        BY <1>1, <1>3, <1>5, <4>1, <4>2
      <4>3. CASE t # khead
        BY <1>3, <2>1, <3>4, <4>1, <4>3 DEF RingInv, Numbered
      <4> QED BY <4>2, <4>3
    <3> QED BY <1>3, <3>1, <3>2, <3>3, <3>4 DEF Numbered
  <2>4. Pushing'
    <3>1. pc \in {"store", "advance"} => next # ktail /\ Offset(next) <= Offset(khead) + 1
      BY DEF RingInv, Pushing
    <3>2. Offset(khead)' = Offset(khead) + 1
      BY <1>2, <1>3, <1>6 DEF Offset
    <3>3. pc' \in {"store", "advance"} => next' # ktail' /\ Offset(next)' <= Offset(khead)
                                          + 1
      BY <1>3, <1>6, <3>1 DEF Offset
    <3>4. pc' \in {"store", "advance"} => Offset(next)' \in Nat
      BY <1>1, <1>2, <1>6 DEF Offset
    <3> QED BY <1>1, <1>2, <3>2, <3>3, <3>4 DEF Pushing
  <2> QED BY <2>3, <2>4
<1>7. CASE khead' = khead /\ next' = next /\ pc = "store" /\ pc' = "advance"
  <2>1. \A s \in Places : Queued(s)' <=> Queued(s)
    BY <1>3, <1>7 DEF Queued, Offset
  <2>2. \A s \in Places : Queued(s) => kbuf'[s] = kbuf[s]
    BY <1>3, <1>5
  <2>3. Numbered'
    <3>1. \A k \in 1 .. Len(taken') : taken'[k].no > 0 /\ taken'[k].no <= pushes'
      BY <1>1, <1>4 DEF RingInv, Numbered
    <3>2. \A j, k \in 1 .. Len(taken') : j < k => taken'[j].no < taken'[k].no
      BY DEF RingInv, Numbered
    <3>3. ASSUME NEW s \in Places, Queued(s)'
          PROVE  /\ kbuf'[s].no > 0 /\ kbuf'[s].no <= pushes'
                 /\ \A k \in 1 .. Len(taken') : taken'[k].no < kbuf'[s].no
      BY <1>1, <2>1, <2>2, <3>3 DEF RingInv, Numbered
    <3>4. ASSUME NEW s \in Places, NEW t \in Places, Queued(s)', Queued(t)', Offset(s) < Offset(t)
          PROVE  kbuf'[s].no < kbuf'[t].no
      BY <2>1, <2>2, <3>4 DEF RingInv, Numbered
    <3> QED BY <1>3, <3>1, <3>2, <3>3, <3>4 DEF Numbered
  <2>4. Latest(khead)'
    <3>1. kbuf'[khead].no = pushes + 1
      BY <1>3
    <3>2. \A t \in Places : Queued(t)' => kbuf'[t].no < pushes + 1
      BY <1>1, <1>5, <2>1, <2>2
    <3>3. \A k \in 1 .. Len(taken') : taken'[k].no < pushes + 1
      BY <1>1, <1>4
    <3> QED BY <1>1, <1>7, <3>1, <3>2, <3>3 DEF Latest
  <2>5. Pushing'
    <3>1. next # ktail /\ Offset(next) <= Offset(khead) + 1
      BY <1>7 DEF RingInv, Pushing
    <3> QED BY <1>3, <1>7, <2>4, <3>1 DEF Pushing, Offset
  <2> QED BY <2>3, <2>5
<1> QED BY <1>6, <1>7

\* khead goes on, or back, to the place the poll has computed.
LEMMA AdvanceKeepsOrder ==
    ASSUME RingInv, PushAdvance
    PROVE  Numbered' /\ Pushing'
<1>1. /\ khead \in Places /\ ktail \in Places /\ next \in Places /\ Size \in Nat
      /\ pc = "advance" /\ pc' = "idle" /\ khead' = next
      /\ UNCHANGED <<kbuf, ktail, pushes, taken>>
  BY SizeKnown DEF RingInv, KbTypes, PushAdvance, history
<1>2. /\ \A s \in Places : Offset(s) \in Nat
      /\ \A s, t \in Places : Offset(s) = Offset(t) => s = t
  BY <1>1, OffsetKnown, SizeKnown
<1>3. Offset(next) <= Offset(khead) + 1 /\ (Offset(next) = Offset(khead) + 1 => Latest(khead))
  BY <1>1 DEF RingInv, Pushing
<1>4. \A s : Offset(s)' = Offset(s)
  BY <1>1 DEF Offset
<1>5. \A s \in Places : Queued(s)' => Offset(s) < Offset(next)
  BY <1>1, <1>4 DEF Queued, Offset
<1>6. \A s \in Places : Queued(s)' => Queued(s) \/ (s = khead /\ Latest(khead))
  <2> SUFFICES ASSUME NEW s \in Places, Queued(s)', ~Queued(s) PROVE s = khead /\ Latest(khead)
    OBVIOUS
  <2>1. Offset(s) < Offset(next) /\ ~(Offset(s) < Offset(khead))
    BY <1>5 DEF Queued
  <2>2. Offset(s) = Offset(khead) /\ Offset(next) = Offset(khead) + 1
    BY <1>1, <1>2, <1>3, <2>1
  <2> QED BY <1>1, <1>2, <1>3, <2>2
<1>7. \A s \in Places : Queued(s)' =>
        /\ kbuf[s].no > 0 /\ kbuf[s].no <= pushes
        /\ \A k \in 1 .. Len(taken) : taken[k].no < kbuf[s].no
  BY <1>6 DEF RingInv, Numbered, Latest
<1>8. ASSUME NEW s \in Places, NEW t \in Places, Queued(s)', Queued(t)', Offset(s) < Offset(t)
      PROVE  kbuf[s].no < kbuf[t].no
  <2>1. CASE Queued(t)
    <3>1. Queued(s)
      BY <1>1, <1>2, <1>8, <2>1 DEF Queued
    <3> QED BY <1>8, <2>1, <3>1 DEF RingInv, Numbered
  <2>2. CASE ~Queued(t)
    <3>1. t = khead /\ Latest(khead)
      BY <1>6, <1>8, <2>2
    <3>2. Queued(s)
      BY <1>8, <3>1 DEF Queued
    <3> QED BY <3>1, <3>2 DEF Latest
  <2> QED BY <2>1, <2>2
<1>9. Numbered'
  <2>1. \A k \in 1 .. Len(taken') : taken'[k].no > 0 /\ taken'[k].no <= pushes'
    BY <1>1 DEF RingInv, Numbered
  <2>2. \A j, k \in 1 .. Len(taken') : j < k => taken'[j].no < taken'[k].no
    BY <1>1 DEF RingInv, Numbered
  <2> QED BY <1>1, <1>4, <1>7, <1>8, <2>1, <2>2 DEF Numbered
<1> QED BY <1>1, <1>9 DEF Pushing

LEMMA TakeKeepsOrder ==
    ASSUME RingInv, Take
    PROVE  Numbered' /\ Pushing'
<1>1. /\ khead \in Places /\ ktail \in Places /\ kbuf \in [Places -> Entries] /\ Size \in Nat
      /\ taken \in Seq(Entries) /\ Len(taken) \in Nat /\ pc' = "idle"
      /\ khead # ktail /\ ktail' = Succ(ktail) /\ taken' = Append(taken, kbuf[ktail])
      /\ UNCHANGED <<kbuf, khead, pushes>>
  BY SizeKnown DEF RingInv, KbTypes, Take, TailAfter
<1>2. /\ \A s \in Places : Offset(s) \in Nat /\ Offset(s) <= Size - 1
      /\ \A s \in Places : Offset(s) = 0 <=> s = ktail
      /\ \A s \in Places : IF s = ktail THEN Offset(s)' = Size - 1 ELSE Offset(s)' = Offset(s) - 1
  BY <1>1, OffsetKnown, SizeKnown, TailMoves DEF Places
<1>3. Offset(khead)' = Offset(khead) - 1
  BY <1>1, <1>2
<1>4. ASSUME NEW s \in Places, Queued(s)'
      PROVE  Queued(s) /\ s # ktail /\ Offset(s)' = Offset(s) - 1
  <2>1. Offset(s)' < Offset(khead) - 1
    BY <1>1, <1>3, <1>4 DEF Queued, Offset
  <2> QED BY <1>1, <1>2, <2>1 DEF Queued
<1>5. Queued(ktail)
  BY <1>1, <1>2 DEF Queued
<1>6. /\ Len(taken') = Len(taken) + 1 /\ taken'[Len(taken) + 1] = kbuf[ktail]
      /\ \A k \in 1 .. Len(taken) : taken'[k] = taken[k]
  BY <1>1
<1>7. \A s \in Places : Queued(s)' => kbuf[ktail].no < kbuf[s].no
  BY <1>1, <1>2, <1>4, <1>5 DEF RingInv, Numbered
<1>8. \A k \in 1 .. Len(taken') : k \in 1 .. Len(taken) \/ k = Len(taken) + 1
  BY <1>1, <1>6
<1>9. Numbered'
  <2>1. \A k \in 1 .. Len(taken') : taken'[k].no > 0 /\ taken'[k].no <= pushes'
    BY <1>1, <1>5, <1>6, <1>8 DEF RingInv, Numbered
  <2>2. ASSUME NEW j \in 1 .. Len(taken'), NEW k \in 1 .. Len(taken'), j < k
        PROVE  taken'[j].no < taken'[k].no
    <3>1. j \in 1 .. Len(taken)
      BY <1>1, <1>6, <2>2
    <3> QED BY <1>1, <1>5, <1>6, <1>8, <2>2, <3>1 DEF RingInv, Numbered
  <2>3. ASSUME NEW s \in Places, Queued(s)'
        PROVE  /\ kbuf'[s].no > 0 /\ kbuf'[s].no <= pushes'
               /\ \A k \in 1 .. Len(taken') : taken'[k].no < kbuf'[s].no
    BY <1>1, <1>4, <1>6, <1>7, <1>8, <2>3 DEF RingInv, Numbered
  <2>4. ASSUME NEW s \in Places, NEW t \in Places, Queued(s)', Queued(t)', Offset(s)' < Offset(t)'
        PROVE  kbuf'[s].no < kbuf'[t].no
    <3>1. Queued(s) /\ Queued(t) /\ Offset(s) < Offset(t)
      BY <1>2, <1>4, <2>4
    <3> QED BY <1>1, <3>1 DEF RingInv, Numbered
  <2> QED BY <2>1, <2>2, <2>3, <2>4 DEF Numbered
<1> QED BY <1>1, <1>9 DEF Pushing


-----------------------------------------------------------------------------
(***************************************************************************)
(* Every step                                                              *)
(***************************************************************************)
LEMMA FetchedKnown ==
    ASSUME KbTypes
    PROVE  Fetched \in 0 .. Len(typed) /\ Fetched \in Nat /\ Len(typed) \in Nat
<1>1. typed \in Seq(Codes) /\ fetched \in 0 .. Len(typed)
  BY DEF KbTypes
<1>2. Len(typed) \in Nat
  BY <1>1
<1> QED BY <1>1, <1>2 DEF Fetched

\* An entry that kpush writes.
LEMMA SlotTyped ==
    ASSUME NEW i \in Nat, NEW c \in Chars, NEW no \in Nat
    PROVE  Slot(i, c, no) \in Entries /\ Slot(i, c, no).no = no
BY DEF Slot, Entries

\* kpush as the interrupt runs it: one character behind the last, or none.
LEMMA PushedKeeps ==
    ASSUME RingInv, NEW i \in Nat, NEW c \in Chars, Pushed(i, c), UNCHANGED <<ktail, taken, pc, next>>
    PROVE  /\ kbuf' \in [Places -> Entries] /\ khead' \in Places /\ pushes' \in Nat
           /\ Numbered' /\ Pushing'
<1>1. kbuf \in [Places -> Entries] /\ khead \in Places /\ pushes \in Nat
  BY DEF RingInv, KbTypes
<1>2. CASE Full(Succ(khead), ktail)
  <2>1. UNCHANGED <<kbuf, khead, pushes>>
    BY <1>2 DEF Pushed
  <2>2. Numbered' /\ Pushing'
    BY <2>1, RingStays DEF RingInv
  <2> QED BY <1>1, <2>1, <2>2
<1>3. CASE ~Full(Succ(khead), ktail)
  <2>1. /\ kbuf' = [kbuf EXCEPT ![khead] = Slot(i, c, pushes + 1)]
        /\ khead' = Succ(khead) /\ pushes' = pushes + 1
    BY <1>3 DEF Pushed
  <2>2. PICK e : e = Slot(i, c, pushes + 1)
    OBVIOUS
  <2>3. pushes + 1 \in Nat
    BY <1>1
  <2>4. e \in Entries /\ e.no = pushes + 1
    BY <2>2, <2>3, SlotTyped
  <2>5. kbuf' = [kbuf EXCEPT ![khead] = e] /\ Succ(khead) # ktail
    BY <1>3, <2>1, <2>2 DEF Full
  <2>6. Numbered' /\ Pushing'
    BY <2>1, <2>4, <2>5, PushKeepsOrder
  <2>7. khead' \in Places
    BY <1>1, <2>1, SuccKnown
  <2> QED BY <1>1, <2>1, <2>3, <2>4, <2>5, <2>6, <2>7
<1> QED BY <1>2, <1>3

LEMMA InterruptKeeps ==
    ASSUME RingInv, KeyboardInterrupt
    PROVE  RingInv'
<1>1. /\ typed \in Seq(Codes) /\ fetched \in 0 .. Len(typed) /\ shift \in BOOLEAN /\ caps \in BOOLEAN
      /\ kbuf \in [Places -> Entries] /\ khead \in Places /\ ktail \in Places
      /\ code \in Nat /\ char \in Chars /\ next \in Places /\ pushes \in Nat /\ taken \in Seq(Entries)
  BY DEF RingInv, KbTypes
<1>2. Fetched \in 0 .. Len(typed) /\ Fetched \in Nat
  BY FetchedKnown DEF RingInv
<1>3. /\ fetched' = Fetched /\ HandleScancode(Fetched)
      /\ UNCHANGED <<typed, ktail, pc, code, char, next, taken>>
  BY DEF KeyboardInterrupt, locals
<1>4. PICK sc : sc = typed[Fetched]
  OBVIOUS
<1>5. /\ shift' = (sc = "shift" \/ (shift /\ sc # "unshift")) /\ caps' = (caps # (sc = "caps"))
      /\ IF sc \in Keys THEN Pushed(Fetched, Character(sc, shift, caps))
         ELSE UNCHANGED <<kbuf, khead, pushes, dropped>>
  BY <1>3, <1>4 DEF HandleScancode
<1>6. shift' \in BOOLEAN /\ caps' \in BOOLEAN
  BY <1>5
<1>7. /\ kbuf' \in [Places -> Entries] /\ khead' \in Places /\ pushes' \in Nat
      /\ Numbered' /\ Pushing'
  <2>1. CASE sc \in Keys
    <3>1. Character(sc, shift, caps) \in Chars
      BY <1>1, <2>1, CharacterTyped
    <3>2. Pushed(Fetched, Character(sc, shift, caps))
      BY <1>5, <2>1
    <3> QED BY <1>2, <1>3, <3>1, <3>2, PushedKeeps
  <2>2. CASE sc \notin Keys
    <3>1. UNCHANGED <<kbuf, khead, pushes>>
      BY <1>5, <2>2
    <3>2. Numbered' /\ Pushing'
      BY <1>3, <3>1, RingStays DEF RingInv
    <3> QED BY <1>1, <3>1, <3>2
  <2> QED BY <2>1, <2>2
<1>8. KbTypes'
  BY <1>1, <1>2, <1>3, <1>6, <1>7 DEF KbTypes
<1> QED BY <1>7, <1>8 DEF RingInv

\* The steps of the poll up to kpush.
LEMMA PollKeeps ==
    ASSUME RingInv, PollStatus \/ PollData \/ PollModifier \/ PollCaps \/ PollKey \/ PushRoom
    PROVE  RingInv'
<1>1. /\ typed \in Seq(Codes) /\ fetched \in 0 .. Len(typed) /\ shift \in BOOLEAN /\ caps \in BOOLEAN
      /\ kbuf \in [Places -> Entries] /\ khead \in Places /\ ktail \in Places
      /\ code \in Nat /\ char \in Chars /\ next \in Places /\ pushes \in Nat /\ taken \in Seq(Entries)
  BY DEF RingInv, KbTypes
<1>2. Numbered /\ Pushing
  BY DEF RingInv
<1>3. CASE PollStatus
  <2>1. /\ pc' \notin {"store", "advance"}
        /\ UNCHANGED <<typed, fetched, shift, caps, kbuf, khead, ktail, code, char, next, pushes, taken>>
    BY <1>3 DEF PollStatus, AfterStatus, Devices, ring, locals, history
  <2>2. Numbered' /\ Pushing'
    BY <1>2, <2>1, RingStays
  <2> QED BY <1>1, <2>1, <2>2 DEF RingInv, KbTypes
<1>4. CASE PollData
  <2>1. /\ pc' \notin {"store", "advance"} /\ code' = Fetched /\ fetched' = Fetched
        /\ UNCHANGED <<typed, shift, caps, kbuf, khead, ktail, char, next, pushes, taken>>
    BY <1>4 DEF PollData, Devices, ring, history
  <2>2. Numbered' /\ Pushing'
    BY <1>2, <2>1, RingStays
  <2>3. code' \in Nat /\ fetched' \in 0 .. Len(typed')
    BY <2>1, FetchedKnown DEF RingInv
  <2> QED BY <1>1, <2>1, <2>2, <2>3 DEF RingInv, KbTypes
<1>5. CASE PollModifier
  <2>1. /\ pc' \notin {"store", "advance"}
        /\ shift' = (typed[code] = "shift" \/ (shift /\ typed[code] # "unshift"))
        /\ next' = IF caps THEN 0 ELSE 1
        /\ UNCHANGED <<typed, fetched, caps, kbuf, khead, ktail, code, char, pushes, taken>>
    BY <1>5 DEF PollModifier, Devices, history
  <2>2. Numbered' /\ Pushing'
    BY <1>2, <2>1, RingStays
  <2>3. shift' \in BOOLEAN /\ next' \in Places
    BY <2>1, SizeKnown
  <2> QED BY <1>1, <2>1, <2>2, <2>3 DEF RingInv, KbTypes
<1>6. CASE PollCaps
  <2>1. /\ pc' \notin {"store", "advance"} /\ caps' = (next = 1)
        /\ UNCHANGED <<typed, fetched, shift, kbuf, khead, ktail, code, char, next, pushes, taken>>
    BY <1>6 DEF PollCaps, Devices, locals, history
  <2>2. Numbered' /\ Pushing'
    BY <1>2, <2>1, RingStays
  <2>3. caps' \in BOOLEAN
    BY <2>1
  <2> QED BY <1>1, <2>1, <2>2, <2>3 DEF RingInv, KbTypes
<1>7. CASE PollKey
  <2>1. /\ pc' \notin {"store", "advance"} /\ typed[code] \in Keys
        /\ char' = Character(typed[code], shift, caps)
        /\ UNCHANGED <<typed, fetched, shift, caps, kbuf, khead, ktail, code, next, pushes, taken>>
    BY <1>7 DEF PollKey, Devices, ring, history
  <2>2. Numbered' /\ Pushing'
    BY <1>2, <2>1, RingStays
  <2>3. char' \in Chars
    BY <1>1, <2>1, CharacterTyped
  <2> QED BY <1>1, <2>1, <2>2, <2>3 DEF RingInv, KbTypes
<1>8. CASE PushRoom
  <2>1. /\ next' = Succ(khead)
        /\ IF Full(Succ(khead), ktail) THEN pc' = "idle" ELSE pc' = "store"
        /\ UNCHANGED <<typed, fetched, shift, caps, kbuf, khead, ktail, code, char, pushes, taken>>
    BY <1>8 DEF PushRoom, Devices, ring
  <2>2. next' \in Places
    BY <1>1, <2>1, SuccKnown
  <2>3. KbTypes'
    BY <1>1, <2>1, <2>2 DEF KbTypes
  <2>4. Numbered'
    BY <1>2, <2>1 DEF Numbered, Queued, Offset
  <2>5. Pushing'
    <3>1. pc' # "advance"
      BY <2>1
    <3>2. ASSUME pc' = "store" PROVE next' # ktail' /\ Offset(next)' <= Offset(khead)' + 1
      <4>1. Succ(khead) # ktail
        BY <2>1, <3>2 DEF Full
      <4>2. Offset(Succ(khead)) = Offset(khead) + 1 /\ Offset(khead) \in Nat
        BY <1>1, <4>1, OffsetKnown, SizeKnown
      <4>3. Offset(next)' = Offset(Succ(khead)) /\ Offset(khead)' = Offset(khead)
        BY <2>1 DEF Offset
      <4> QED BY <2>1, <4>1, <4>2, <4>3
    <3> QED BY <3>1, <3>2 DEF Pushing
  <2> QED BY <2>3, <2>4, <2>5 DEF RingInv
<1> QED BY <1>3, <1>4, <1>5, <1>6, <1>7, <1>8

LEMMA RingStep == RingInv /\ [KbNext]_kbVars => RingInv'
<1> SUFFICES ASSUME RingInv, [KbNext]_kbVars PROVE RingInv'
  OBVIOUS
<1>1. /\ typed \in Seq(Codes) /\ fetched \in 0 .. Len(typed) /\ shift \in BOOLEAN /\ caps \in BOOLEAN
      /\ kbuf \in [Places -> Entries] /\ khead \in Places /\ ktail \in Places
      /\ code \in Nat /\ char \in Chars /\ next \in Places /\ pushes \in Nat /\ taken \in Seq(Entries)
  BY DEF RingInv, KbTypes
<1>2. Numbered /\ Pushing
  BY DEF RingInv
<1>3. ASSUME NEW c \in Codes, Press(c) PROVE RingInv'
  <2>1. /\ typed' = Append(typed, c)
        /\ UNCHANGED <<fetched, shift, caps, kbuf, khead, ktail, pc, code, char, next, pushes, taken>>
    BY <1>3 DEF Press, ring, locals, history
  <2>2. typed' \in Seq(Codes) /\ fetched' \in 0 .. Len(typed')
    BY <1>1, <2>1
  <2>3. Numbered' /\ Pushing'
    BY <1>2, <2>1, RingStays
  <2> QED BY <1>1, <2>1, <2>2, <2>3 DEF RingInv, KbTypes
<1>4. CASE Hold \/ Return \/ UNCHANGED kbVars
  <2>1. /\ pc' = pc \/ pc' = "idle"
        /\ UNCHANGED <<typed, fetched, shift, caps, kbuf, khead, ktail, code, char, next, pushes, taken>>
    BY <1>4 DEF Hold, Return, kbVars, Devices, ring, locals, history
  <2>2. Numbered' /\ Pushing'
    BY <1>2, <2>1, RingStays
  <2> QED BY <1>1, <2>1, <2>2 DEF RingInv, KbTypes
<1>5. CASE PushStore
  <2>1. /\ pc = "store" /\ pc' = "advance" /\ pushes' = pushes + 1
        /\ kbuf' = [kbuf EXCEPT ![khead] = Slot(code, char, pushes + 1)]
        /\ UNCHANGED <<typed, fetched, shift, caps, khead, ktail, code, char, next, taken>>
    BY <1>5 DEF PushStore, Devices, locals
  <2>2. PICK e : e = Slot(code, char, pushes + 1)
    OBVIOUS
  <2>3. pushes + 1 \in Nat
    BY <1>1
  <2>4. e \in Entries /\ e.no = pushes + 1 /\ kbuf' = [kbuf EXCEPT ![khead] = e]
    BY <1>1, <2>1, <2>2, <2>3, SlotTyped
  <2>5. Numbered' /\ Pushing'
    BY <2>1, <2>4, PushKeepsOrder
  <2>6. kbuf' \in [Places -> Entries] /\ pushes' \in Nat
    BY <1>1, <2>1, <2>4
  <2> QED BY <1>1, <2>1, <2>5, <2>6 DEF RingInv, KbTypes
<1>6. CASE PushAdvance
  <2>1. /\ khead' = next
        /\ UNCHANGED <<typed, fetched, shift, caps, kbuf, ktail, code, char, next, pushes, taken>>
    BY <1>6 DEF PushAdvance, Devices, locals, history
  <2>2. Numbered' /\ Pushing'
    BY <1>6, AdvanceKeepsOrder
  <2> QED BY <1>1, <2>1, <2>2 DEF RingInv, KbTypes
<1>7. CASE Take
  <2>1. /\ taken' = Append(taken, kbuf[ktail]) /\ ktail' = Succ(ktail)
        /\ UNCHANGED <<typed, fetched, shift, caps, kbuf, khead, code, char, next, pushes>>
    BY <1>7 DEF Take, TailAfter, Devices, locals
  <2>2. Numbered' /\ Pushing'
    BY <1>7, TakeKeepsOrder
  <2>3. ktail' \in Places /\ taken' \in Seq(Entries)
    BY <1>1, <2>1, SuccKnown
  <2> QED BY <1>1, <2>1, <2>2, <2>3 DEF RingInv, KbTypes
<1> QED BY <1>3, <1>4, <1>5, <1>6, <1>7, InterruptKeeps, PollKeeps DEF KbNext, Poll

LEMMA RingAlways == KbSpec => []RingInv
<1>1. KbInit /\ [][KbNext]_kbVars => []RingInv
  BY RingInit, RingStep, PTL
<1> QED BY <1>1, PTL DEF KbSpec

LEMMA RingMeansOnce ==
    ASSUME RingInv
    PROVE  PushedComesOnce
<1>1. /\ khead \in Places /\ ktail \in Places /\ kbuf \in [Places -> Entries]
      /\ taken \in Seq(Entries) /\ Len(taken) \in Nat /\ Offset(khead) \in Nat
  <2>1. /\ khead \in Places /\ ktail \in Places /\ kbuf \in [Places -> Entries]
        /\ taken \in Seq(Entries)
    BY DEF RingInv, KbTypes
  <2>2. Offset(khead) \in Nat
    BY <2>1, OffsetKnown, SizeKnown
  <2> QED BY <2>1, <2>2
<1>2. Waiting \in Seq(Entries) /\ Len(Waiting) = Offset(khead)
  BY <1>1, WaitingKnown
<1>3. \A i \in 1 .. Len(Waiting) :
        \E s \in Places : Queued(s) /\ Offset(s) = i - 1 /\ Waiting[i] = kbuf[s]
  BY <1>1, <1>2, WaitingKnown
<1> DEFINE out == taken \o Waiting
<1>4. /\ Len(out) = Len(taken) + Len(Waiting)
      /\ \A k \in 1 .. Len(taken) : out[k] = taken[k]
      /\ \A i \in 1 .. Len(Waiting) : out[Len(taken) + i] = Waiting[i]
  BY <1>1, <1>2
<1>5. \A k \in 1 .. Len(out) :
        k \in 1 .. Len(taken) \/ (k - Len(taken) \in 1 .. Len(Waiting)
                                  /\ out[k] = Waiting[k - Len(taken)])
  <2> SUFFICES ASSUME NEW k \in 1 .. Len(out), k \notin 1 .. Len(taken)
               PROVE  k - Len(taken) \in 1 .. Len(Waiting) /\ out[k] = Waiting[k - Len(taken)]
    OBVIOUS
  <2>1. PICK i : i = k - Len(taken)
    OBVIOUS
  <2>2. i \in 1 .. Len(Waiting) /\ k = Len(taken) + i
    BY <1>1, <1>2, <1>4, <2>1
  <2> QED BY <1>4, <2>1, <2>2
<1>6. ASSUME NEW k \in 1 .. Len(out) PROVE out[k].no > 0
  <2>1. CASE k \in 1 .. Len(taken)
    BY <1>4, <2>1 DEF RingInv, Numbered
  <2>2. CASE k \notin 1 .. Len(taken)
    <3>1. k - Len(taken) \in 1 .. Len(Waiting) /\ out[k] = Waiting[k - Len(taken)]
      BY <1>5, <2>2
    <3>2. PICK s \in Places : Queued(s) /\ Waiting[k - Len(taken)] = kbuf[s]
      BY <1>3, <3>1
    <3> QED BY <3>1, <3>2 DEF RingInv, Numbered
  <2> QED BY <2>1, <2>2
<1>7. ASSUME NEW k \in 1 .. Len(out) - 1 PROVE out[k].no < out[k + 1].no
  <2>1. k \in 1 .. Len(out) /\ k + 1 \in 1 .. Len(out) /\ k \in Nat
    BY <1>1, <1>2, <1>4
  <2>2. CASE k + 1 \in 1 .. Len(taken)
    <3>1. k \in 1 .. Len(taken)
      BY <2>1, <2>2
    <3> QED BY <1>4, <2>1, <2>2, <3>1 DEF RingInv, Numbered
  <2>3. CASE k + 1 \notin 1 .. Len(taken)
    <3>1. /\ k + 1 - Len(taken) \in 1 .. Len(Waiting)
          /\ out[k + 1] = Waiting[k + 1 - Len(taken)]
      BY <1>5, <2>1, <2>3
    <3>2. PICK t \in Places : /\ Queued(t) /\ Offset(t) = k - Len(taken)
                              /\ Waiting[k + 1 - Len(taken)] = kbuf[t]
      BY <1>1, <1>3, <2>1, <3>1
    <3>3. CASE k \in 1 .. Len(taken)
      BY <1>4, <3>1, <3>2, <3>3 DEF RingInv, Numbered
    <3>4. CASE k \notin 1 .. Len(taken)
      <4>1. k - Len(taken) \in 1 .. Len(Waiting) /\ out[k] = Waiting[k - Len(taken)]
        BY <1>5, <2>1, <3>4
      <4>2. PICK s \in Places : /\ Queued(s) /\ Offset(s) = k - Len(taken) - 1
                                /\ Waiting[k - Len(taken)] = kbuf[s]
        BY <1>3, <4>1
      <4>3. Offset(s) < Offset(t)
        BY <1>1, <2>1, <3>2, <4>2
      <4> QED BY <3>1, <3>2, <4>1, <4>2, <4>3 DEF RingInv, Numbered
    <3> QED BY <3>3, <3>4
  <2> QED BY <2>2, <2>3
<1> QED BY <1>1, <1>6, <1>7 DEF PushedComesOnce, Places

\* Wherever the interrupt comes inside a poll, with a ring of any size and for
\* any number of keys: no slot is read that was not written and nothing that
\* was pushed comes out twice or before what was pushed earlier (keyboard.c:
\* kpush run twice at once, keyboard_try_getc).  Characters may be lost, which
\* the order survives.
THEOREM PushedAlwaysComesOnce == KbSpec => []PushedComesOnce
BY RingAlways, RingMeansOnce, PTL

-----------------------------------------------------------------------------
(***************************************************************************)
(* As long as no interrupt came inside a poll: what was typed comes out,   *)
(* in order.  Out is what callers got and will get from the ring.          *)
(***************************************************************************)
Out == taken \o Waiting

\* Where each slot's entry stands in Out.
OutFacts ==
    /\ Out \in Seq(Entries) /\ Len(Out) = Len(taken) + Offset(khead)
    /\ \A k \in 1 .. Len(taken) : k \in 1 .. Len(Out) /\ Out[k] = taken[k]
    /\ \A k \in 1 .. Len(Out) : k \notin 1 .. Len(taken) =>
         \E s \in Places : Queued(s) /\ Offset(s) = k - Len(taken) - 1 /\ Out[k] = kbuf[s]

LEMMA OutKnown == KbTypes => OutFacts
<1> SUFFICES ASSUME KbTypes PROVE OutFacts
  OBVIOUS
<1>1. /\ khead \in Places /\ ktail \in Places /\ kbuf \in [Places -> Entries]
      /\ taken \in Seq(Entries)
  BY DEF KbTypes
<1>2. Len(taken) \in Nat /\ Offset(khead) \in Nat
  BY <1>1, OffsetKnown, SizeKnown
<1>3. /\ Waiting \in Seq(Entries) /\ Len(Waiting) = Offset(khead)
      /\ \A i \in 1 .. Len(Waiting) :
           \E s \in Places : Queued(s) /\ Offset(s) = i - 1 /\ Waiting[i] = kbuf[s]
  BY <1>1, WaitingKnown
<1>4. /\ Out \in Seq(Entries) /\ Len(Out) = Len(taken) + Len(Waiting)
      /\ \A k \in 1 .. Len(taken) : Out[k] = taken[k]
      /\ \A i \in 1 .. Len(Waiting) : Out[Len(taken) + i] = Waiting[i]
  BY <1>1, <1>3 DEF Out
<1>5. ASSUME NEW k \in 1 .. Len(Out), k \notin 1 .. Len(taken)
      PROVE  \E s \in Places : Queued(s) /\ Offset(s) = k - Len(taken) - 1 /\ Out[k] = kbuf[s]
  <2>1. PICK i : i = k - Len(taken)
    OBVIOUS
  <2>2. i \in 1 .. Len(Waiting) /\ k = Len(taken) + i
    BY <1>2, <1>3, <1>4, <1>5, <2>1
  <2>3. PICK s \in Places : Queued(s) /\ Offset(s) = i - 1 /\ Waiting[i] = kbuf[s]
    BY <1>3, <2>2
  <2> QED BY <1>4, <2>1, <2>2, <2>3
<1>6. \A k \in 1 .. Len(taken) : k \in 1 .. Len(Out)
  BY <1>2, <1>3, <1>4
<1> QED BY <1>3, <1>4, <1>5, <1>6 DEF OutFacts

\* Another slot is named or the slot khead names is written: nothing queued.
LEMMA OutStays ==
    ASSUME KbTypes, KbTypes', UNCHANGED <<khead, ktail, taken>>,
           \A s \in Places : s # khead => kbuf'[s] = kbuf[s]
    PROVE  Out' = Out
<1>1. OutFacts /\ OutFacts'
  BY OutKnown, PTL
<1>2. /\ khead \in Places /\ ktail \in Places /\ Len(taken) \in Nat /\ Offset(khead) \in Nat
  <2>1. khead \in Places /\ ktail \in Places /\ taken \in Seq(Entries)
    BY DEF KbTypes
  <2>2. Offset(khead) \in Nat
    BY <2>1, OffsetKnown, SizeKnown
  <2> QED BY <2>1, <2>2
<1>3. /\ \A s \in Places : Offset(s)' = Offset(s) /\ (Queued(s)' <=> Queued(s))
      /\ Offset(khead)' = Offset(khead)
  BY DEF Offset, Queued
<1>4. /\ Out \in Seq(Entries) /\ Out' \in Seq(Entries) /\ Len(Out') = Len(Out)
  BY <1>1, <1>3 DEF OutFacts
<1>5. ASSUME NEW k \in 1 .. Len(Out') PROVE Out'[k] = Out[k]
  <2>1. CASE k \in 1 .. Len(taken)
    BY <1>1, <2>1 DEF OutFacts
  <2>2. CASE k \notin 1 .. Len(taken)
    <3>1. PICK s \in Places : Queued(s) /\ Offset(s) = k - Len(taken) - 1 /\ Out[k] = kbuf[s]
      BY <1>1, <1>4, <2>2 DEF OutFacts
    <3>2. PICK t \in Places : Queued(t)' /\ Offset(t)' = k - Len(taken) - 1 /\ Out'[k] = kbuf'[t]
      BY <1>1, <2>2 DEF OutFacts
    <3>3. s = t
      BY <1>2, <1>3, <3>1, <3>2, OffsetKnown
    <3>4. s # khead
      BY <1>2, <3>1 DEF Queued
    <3> QED BY <3>1, <3>2, <3>3, <3>4
  <2> QED BY <2>1, <2>2
<1> QED BY <1>4, <1>5, SeqEqual

\* khead goes on by one place: what is written there is queued last.
LEMMA OutGrows ==
    ASSUME KbTypes, KbTypes', khead' = Succ(khead), Succ(khead) # ktail, UNCHANGED <<ktail, taken>>,
           \A s \in Places : s # khead => kbuf'[s] = kbuf[s]
    PROVE  Out' = Append(Out, kbuf'[khead])
<1>1. OutFacts /\ OutFacts'
  BY OutKnown, PTL
<1>2. /\ khead \in Places /\ ktail \in Places /\ kbuf' \in [Places -> Entries]
      /\ taken \in Seq(Entries)
  BY DEF KbTypes
<1>3. /\ Len(taken) \in Nat /\ Offset(khead) \in Nat
      /\ Offset(Succ(khead)) = Offset(khead) + 1
      /\ \A s, t \in Places : Offset(s) = Offset(t) => s = t
      /\ \A s \in Places : Offset(s) \in Nat
  <2>1. \A s \in Places : Offset(s) \in Nat
    BY <1>2, OffsetKnown, SizeKnown
  <2>2. /\ Offset(Succ(khead)) = Offset(khead) + 1
        /\ \A s, t \in Places : Offset(s) = Offset(t) => s = t
    BY <1>2, OffsetKnown
  <2> QED BY <1>2, <2>1, <2>2
<1>4. /\ \A s \in Places : Offset(s)' = Offset(s)
      /\ Offset(khead)' = Offset(khead) + 1
  BY <1>3 DEF Offset
<1>5. \A s \in Places : Queued(s)' => Queued(s) \/ s = khead
  BY <1>2, <1>3, <1>4 DEF Queued
<1>6. /\ Out \in Seq(Entries) /\ Out' \in Seq(Entries) /\ Len(Out') = Len(Out) + 1
      /\ Len(Out) = Len(taken) + Offset(khead) /\ kbuf'[khead] \in Entries
  BY <1>1, <1>2, <1>3, <1>4 DEF OutFacts
<1>7. ASSUME NEW k \in 1 .. Len(Out') PROVE Out'[k] = Append(Out, kbuf'[khead])[k]
  <2>1. CASE k \in 1 .. Len(taken)
    <3>1. Out'[k] = taken[k] /\ Out[k] = taken[k] /\ k \in 1 .. Len(Out)
      BY <1>1, <2>1 DEF OutFacts
    <3> QED BY <1>6, <3>1
  <2>2. CASE k \notin 1 .. Len(taken)
    <3>1. PICK t \in Places : Queued(t)' /\ Offset(t)' = k - Len(taken) - 1 /\ Out'[k] = kbuf'[t]
      BY <1>1, <2>2 DEF OutFacts
    <3>2. CASE k = Len(Out) + 1
      <4>1. Offset(t) = Offset(khead)
        BY <1>3, <1>4, <1>6, <3>1, <3>2
      <4>2. t = khead
        BY <1>2, <1>3, <4>1
      <4> QED BY <1>6, <3>1, <3>2, <4>2
    <3>3. CASE k # Len(Out) + 1
      <4>1. k \in 1 .. Len(Out)
        BY <1>3, <1>6, <3>3
      <4>2. PICK s \in Places : Queued(s) /\ Offset(s) = k - Len(taken) - 1 /\ Out[k] = kbuf[s]
        BY <1>1, <2>2, <4>1 DEF OutFacts
      <4>3. s = t
        BY <1>2, <1>3, <1>4, <3>1, <4>2
      <4>4. s # khead
        BY <1>3, <1>2, <4>2 DEF Queued
      <4> QED BY <1>6, <3>1, <4>1, <4>2, <4>3, <4>4
    <3> QED BY <3>2, <3>3
  <2> QED BY <2>1, <2>2
<1>8. Append(Out, kbuf'[khead]) \in Seq(Entries) /\ Len(Append(Out, kbuf'[khead])) = Len(Out) + 1
  BY <1>6
<1> QED BY <1>6, <1>7, <1>8, SeqEqual

\* What is taken was the first one queued.
LEMMA OutTaken ==
    ASSUME KbTypes, KbTypes', khead # ktail, khead' = khead, ktail' = Succ(ktail), kbuf' = kbuf,
           taken' = Append(taken, kbuf[ktail])
    PROVE  Out' = Out
<1>1. OutFacts /\ OutFacts'
  BY OutKnown, PTL
<1>2. /\ khead \in Places /\ ktail \in Places /\ kbuf \in [Places -> Entries]
      /\ taken \in Seq(Entries)
  BY DEF KbTypes
<1>3. /\ Len(taken) \in Nat /\ Offset(khead) \in Nat /\ Offset(khead) # 0
      /\ \A s, t \in Places : Offset(s) = Offset(t) => s = t
      /\ \A s \in Places : Offset(s) \in Nat /\ Offset(s) <= Size - 1
      /\ \A s \in Places : Offset(s) = 0 <=> s = ktail
      /\ Size \in Nat
  BY <1>2, OffsetKnown, SizeKnown DEF Places
<1>4. \A s \in Places : IF s = ktail THEN Offset(s)' = Size - 1 ELSE Offset(s)' = Offset(s) - 1
  BY <1>2, TailMoves
<1>5. Offset(khead)' = Offset(khead) - 1
  BY <1>2, <1>4
<1>6. ASSUME NEW s \in Places, Queued(s)'
      PROVE  s # ktail /\ Offset(s)' = Offset(s) - 1
  <2>1. Offset(s)' < Offset(khead) - 1
    BY <1>5, <1>6 DEF Queued
  <2> QED BY <1>2, <1>3, <1>4, <2>1
<1>7. /\ Len(taken') = Len(taken) + 1 /\ taken'[Len(taken) + 1] = kbuf[ktail]
      /\ \A k \in 1 .. Len(taken) : taken'[k] = taken[k]
  BY <1>2
<1>8. /\ Out \in Seq(Entries) /\ Out' \in Seq(Entries) /\ Len(Out') = Len(Out)
      /\ Len(Out) = Len(taken) + Offset(khead)
  BY <1>1, <1>3, <1>5, <1>7 DEF OutFacts
<1>9. ASSUME NEW k \in 1 .. Len(Out) PROVE Out'[k] = Out[k]
  <2>1. CASE k \in 1 .. Len(taken)
    <3>1. k \in 1 .. Len(taken')
      BY <1>3, <1>7, <2>1
    <3> QED BY <1>1, <1>7, <2>1, <3>1 DEF OutFacts
  <2>2. CASE k \notin 1 .. Len(taken)
    <3>1. PICK s \in Places : Queued(s) /\ Offset(s) = k - Len(taken) - 1 /\ Out[k] = kbuf[s]
      BY <1>1, <2>2 DEF OutFacts
    <3>2. CASE k = Len(taken) + 1
      <4>1. s = ktail
        BY <1>3, <3>1, <3>2
      <4>2. k \in 1 .. Len(taken')
        BY <1>3, <1>7, <3>2
      <4> QED BY <1>1, <1>7, <3>1, <3>2, <4>1, <4>2 DEF OutFacts
    <3>3. CASE k # Len(taken) + 1
      <4>1. k \notin 1 .. Len(taken') /\ k \in 1 .. Len(Out')
        BY <1>3, <1>7, <1>8, <2>2, <3>3
      <4>2. PICK t \in Places : /\ Queued(t)' /\ Offset(t)' = k - Len(taken') - 1
                                /\ Out'[k] = kbuf'[t]
        BY <1>1, <4>1 DEF OutFacts
      <4>3. Offset(t) = Offset(s)
        BY <1>3, <1>6, <1>7, <3>1, <4>2
      <4> QED BY <1>3, <3>1, <4>2, <4>3
    <3> QED BY <3>2, <3>3
  <2> QED BY <2>1, <2>2
<1> QED BY <1>8, <1>9, SeqEqual

-----------------------------------------------------------------------------
(***************************************************************************)
(* What shift and caps lock mean after one more scancode                   *)
(***************************************************************************)
LEMMA ShiftNext ==
    ASSUME NEW i \in Nat, i > 0
    PROVE  ShiftDown(i + 1) <=> (typed[i] = "shift" \/ (ShiftDown(i) /\ typed[i] # "unshift"))
<1>1. \A j : j \in 1 .. (i + 1) - 1 <=> j \in 1 .. i - 1 \/ j = i
  OBVIOUS
<1>2. \A j \in 1 .. i - 1 : \A k : k \in j + 1 .. (i + 1) - 1 <=> k \in j + 1 .. i - 1 \/ k = i
  OBVIOUS
<1>3. \A k : k \notin i + 1 .. (i + 1) - 1
  OBVIOUS
<1>4. ASSUME ShiftDown(i + 1)
      PROVE  typed[i] = "shift" \/ (ShiftDown(i) /\ typed[i] # "unshift")
  <2>1. PICK j \in 1 .. (i + 1) - 1 :
          typed[j] = "shift" /\ \A k \in j + 1 .. (i + 1) - 1 : typed[k] # "unshift"
    BY <1>4 DEF ShiftDown
  <2>2. CASE j = i
    BY <2>1, <2>2
  <2>3. CASE j \in 1 .. i - 1
    <3>1. typed[i] # "unshift" /\ \A k \in j + 1 .. i - 1 : typed[k] # "unshift"
      BY <1>2, <2>1, <2>3
    <3>2. ShiftDown(i)
      BY <2>1, <2>3, <3>1 DEF ShiftDown
    <3> QED BY <3>1, <3>2
  <2> QED BY <1>1, <2>2, <2>3
<1>5. ASSUME typed[i] = "shift" PROVE ShiftDown(i + 1)
  <2>1. i \in 1 .. (i + 1) - 1
    BY <1>1
  <2> QED BY <1>3, <1>5, <2>1 DEF ShiftDown
<1>6. ASSUME ShiftDown(i), typed[i] # "unshift" PROVE ShiftDown(i + 1)
  <2>1. PICK j \in 1 .. i - 1 :
          typed[j] = "shift" /\ \A k \in j + 1 .. i - 1 : typed[k] # "unshift"
    BY <1>6 DEF ShiftDown
  <2>2. \A k \in j + 1 .. (i + 1) - 1 : typed[k] # "unshift"
    BY <1>2, <1>6, <2>1
  <2>3. j \in 1 .. (i + 1) - 1
    BY <1>1
  <2> QED BY <2>1, <2>2, <2>3 DEF ShiftDown
<1> QED BY <1>4, <1>5, <1>6

LEMMA CapsNext ==
    ASSUME NEW i \in Nat, i > 0
    PROVE  CapsOn(i + 1) <=> (CapsOn(i) # (typed[i] = "caps"))
<1> DEFINE Before(n) == {j \in 1 .. n - 1 : typed[j] = "caps"}
<1>1. IsFiniteSet(Before(i)) /\ Cardinality(Before(i)) \in Nat
  <2>1. IsFiniteSet(1 .. i - 1)
    BY FS_Interval
  <2>2. Before(i) \in SUBSET (1 .. i - 1)
    OBVIOUS
  <2>3. IsFiniteSet(Before(i))
    BY <2>1, <2>2, FS_Subset
  <2> QED BY <2>3, FS_CardinalityType
<1>2. \A j : j \in 1 .. (i + 1) - 1 <=> j \in 1 .. i - 1 \/ j = i
  OBVIOUS
<1>3. i \notin Before(i)
  OBVIOUS
<1>4. Before(i + 1) = IF typed[i] = "caps" THEN Before(i) \cup {i} ELSE Before(i)
  BY <1>2
<1>5. Cardinality(Before(i) \cup {i}) = Cardinality(Before(i)) + 1
  BY <1>1, <1>3, FS_AddElement
<1>6. PICK n : n = Cardinality(Before(i))
  OBVIOUS
<1>7. /\ CapsOn(i) <=> n % 2 = 1
      /\ CapsOn(i + 1) <=> (IF typed[i] = "caps" THEN n + 1 ELSE n) % 2 = 1
  <2>1. Cardinality(Before(i + 1)) = IF typed[i] = "caps" THEN n + 1 ELSE n
    BY <1>4, <1>5, <1>6
  <2> QED BY <1>6, <2>1 DEF CapsOn
<1>8. n \in Nat /\ ((n + 1) % 2 = 1 <=> ~(n % 2 = 1))
  <2>1. n \in Nat
    BY <1>1, <1>6
  <2>2. \A m \in Nat : (m + 1) % 2 = 1 <=> ~(m % 2 = 1)
    OBVIOUS
  <2> QED BY <2>1, <2>2
<1>9. CapsOn(i + 1) <=> IF typed[i] = "caps" THEN ~CapsOn(i) ELSE CapsOn(i)
  <2>1. CASE typed[i] = "caps"
    BY <1>7, <1>8, <2>1
  <2>2. CASE typed[i] # "caps"
    BY <1>7, <2>2
  <2> QED BY <2>1, <2>2
<1>10. CapsOn(i) \in BOOLEAN
  BY Zenon DEF CapsOn
<1> HIDE DEF Before
<1> QED BY <1>9, <1>10

\* One more scancode changes nothing about the ones before it.
LEMMA MeaningStays ==
    ASSUME NEW c, typed \in Seq(Codes), typed' = typed \/ (typed' = Append(typed, c) /\ c \in Codes)
    PROVE  /\ \A i \in 1 .. Len(typed) + 1 :
                (ShiftDown(i)' <=> ShiftDown(i)) /\ (CapsOn(i)' <=> CapsOn(i))
           /\ \A i \in 1 .. Len(typed) : typed'[i] = typed[i] /\ Meant(i)' = Meant(i)
<1>1. Len(typed) \in Nat /\ \A i \in 1 .. Len(typed) : typed'[i] = typed[i]
  OBVIOUS
<1>2. ASSUME NEW i \in 1 .. Len(typed) + 1
      PROVE  (ShiftDown(i)' <=> ShiftDown(i)) /\ (CapsOn(i)' <=> CapsOn(i))
  <2>1. \A j \in 1 .. i - 1 : typed'[j] = typed[j]
    BY <1>1
  <2>2. \A j \in 1 .. i - 1 : \A k \in j + 1 .. i - 1 : typed'[k] = typed[k]
    BY <1>1
  <2>3. ShiftDown(i)' <=> ShiftDown(i)
    BY <2>1, <2>2 DEF ShiftDown
  <2>4. {j \in 1 .. i - 1 : typed'[j] = "caps"} = {j \in 1 .. i - 1 : typed[j] = "caps"}
    BY <2>1
  <2>5. CapsOn(i)' <=> CapsOn(i)
    BY <2>4 DEF CapsOn
  <2> QED BY <2>3, <2>5
<1>3. ASSUME NEW i \in 1 .. Len(typed) PROVE Meant(i)' = Meant(i)
  <2>1. i \in 1 .. Len(typed) + 1
    BY <1>1
  <2>2. /\ (ShiftDown(i)' <=> ShiftDown(i)) /\ (CapsOn(i)' <=> CapsOn(i))
        /\ typed'[i] = typed[i]
    BY <1>1, <1>2, <2>1
  <2>3. ShiftDown(i) \in BOOLEAN /\ CapsOn(i) \in BOOLEAN
    <3>1. ShiftDown(i) \in BOOLEAN
      BY DEF ShiftDown
    <3>2. CapsOn(i) \in BOOLEAN
      BY Zenon DEF CapsOn
    <3> QED BY <3>1, <3>2
  <2>4. ShiftDown(i)' \in BOOLEAN /\ CapsOn(i)' \in BOOLEAN
    <3>1. ShiftDown(i)' \in BOOLEAN
      BY DEF ShiftDown
    <3>2. CapsOn(i)' \in BOOLEAN
      BY Zenon DEF CapsOn
    <3> QED BY <3>1, <3>2
  <2>5. ShiftDown(i)' = ShiftDown(i) /\ CapsOn(i)' = CapsOn(i)
    BY <2>2, <2>3, <2>4
  <2> QED BY <2>2, <2>5 DEF Meant, Character
<1> QED BY <1>1, <1>2, <1>3

-----------------------------------------------------------------------------
\* What callers get is what was typed before the scancode number n.
InOrder(n) ==
    /\ {Out[k].of : k \in 1 .. Len(Out)} = {i \in 1 .. n - 1 : typed[i] \in Keys /\ i \notin dropped}
    /\ \A k \in 1 .. Len(Out), i \in Nat : i = Out[k].of => Out[k].char = Meant(i)
    /\ \A k \in 1 .. Len(Out) - 1 : Out[k].of < Out[k + 1].of

\* Where an undisturbed poll is when the scancode number n is the first that is
\* not dealt with: once read, its locals hold what that one means.
Undisturbed(n) ==
    /\ n > 0 /\ n <= Len(typed) + 1
    /\ \/ pc \in {"idle", "done", "data"} /\ fetched = n - 1
       \/ pc \in {"handle", "caps", "push", "store", "advance"} /\ fetched = n /\ code = n
    /\ pc = "data" => fetched < Len(typed)
    /\ pc = "caps" => typed[n] = "caps" /\ next = IF caps THEN 0 ELSE 1
    /\ pc \in {"push", "store", "advance"} => typed[n] \in Keys /\ char = Meant(n)
    /\ pc \in {"store", "advance"} => next = Succ(khead) /\ Succ(khead) # ktail
    /\ pc = "advance" => kbuf[khead].of = n /\ kbuf[khead].char = char
    /\ shift = ShiftDown(n) /\ caps = CapsOn(n)
    /\ dropped \subseteq 1 .. n - 1

OrderInv == ~mixed => \E n \in Nat : Undisturbed(n) /\ InOrder(n)

LEMMA OutTyped == KbTypes => Out \in Seq(Entries) /\ Len(Out) \in Nat
BY OutKnown DEF OutFacts

\* Nothing comes in or out, though one more scancode may be typed.
LEMMA SameOrder ==
    ASSUME KbTypes, NEW n \in Nat, n <= Len(typed) + 1, InOrder(n), Out' = Out, dropped' = dropped,
           NEW c, typed' = typed \/ (typed' = Append(typed, c) /\ c \in Codes)
    PROVE  InOrder(n)'
<1>1. typed \in Seq(Codes) /\ Len(typed) \in Nat
  <2>1. typed \in Seq(Codes)
    BY DEF KbTypes
  <2> QED BY <2>1
<1>2. \A i \in 1 .. Len(typed) : typed'[i] = typed[i] /\ Meant(i)' = Meant(i)
  BY <1>1, MeaningStays
<1>3. \A i \in 1 .. n - 1 : typed'[i] = typed[i] /\ Meant(i)' = Meant(i)
  BY <1>1, <1>2
<1>4. {i \in 1 .. n - 1 : typed'[i] \in Keys /\ i \notin dropped'}
      = {i \in 1 .. n - 1 : typed[i] \in Keys /\ i \notin dropped}
  BY <1>3
<1>5. \A k \in 1 .. Len(Out) : Out[k].of \in 1 .. n - 1
  BY DEF InOrder
<1>6. ASSUME NEW k \in 1 .. Len(Out'), NEW i \in Nat, i = Out'[k].of
      PROVE  Out'[k].char = Meant(i)'
  <2>1. k \in 1 .. Len(Out) /\ i = Out[k].of /\ Out'[k].char = Out[k].char
    BY <1>6
  <2>2. i \in 1 .. n - 1 /\ Out[k].char = Meant(i)
    BY <1>5, <2>1 DEF InOrder
  <2> QED BY <1>3, <2>1, <2>2
<1> QED BY <1>4, <1>6 DEF InOrder

\* The scancode number n is dealt with: it was a modifier, or the ring was full.
LEMMA NothingOut ==
    ASSUME KbTypes, NEW n \in Nat, NEW m \in Nat, m = n + 1, n > 0, n <= Len(typed), InOrder(n),
           Out' = Out, typed' = typed, dropped \subseteq 1 .. n - 1,
           (dropped' = dropped /\ typed[n] \notin Keys) \/ dropped' = dropped \cup {n}
    PROVE  InOrder(m)'
<1>1. \A i : i \in 1 .. m - 1 <=> i \in 1 .. n - 1 \/ i = n
  OBVIOUS
<1>2. {i \in 1 .. m - 1 : typed'[i] \in Keys /\ i \notin dropped'}
      = {i \in 1 .. n - 1 : typed[i] \in Keys /\ i \notin dropped}
  <2>1. ASSUME NEW i PROVE (i \in 1 .. m - 1 /\ typed'[i] \in Keys /\ i \notin dropped')
                           <=> (i \in 1 .. n - 1 /\ typed[i] \in Keys /\ i \notin dropped)
    <3>1. n \notin 1 .. n - 1
      OBVIOUS
    <3>2. CASE i = n
      BY <3>1, <3>2
    <3>3. CASE i # n
      BY <1>1, <3>3
    <3> QED BY <3>2, <3>3
  <2> QED BY <2>1
<1>3. \A i \in Nat : Meant(i)' = Meant(i)
  BY DEF Meant, ShiftDown, CapsOn
<1> QED BY <1>2, <1>3 DEF InOrder

\* The scancode number n is dealt with: its character is queued last.
LEMMA OneOut ==
    ASSUME KbTypes, NEW n \in Nat, NEW m \in Nat, m = n + 1, n > 0, n <= Len(typed), InOrder(n),
           NEW e \in Entries, Out' = Append(Out, e), e.of = n, e.char = Meant(n), typed[n] \in Keys,
           typed' = typed, dropped \subseteq 1 .. n - 1, dropped' = dropped
    PROVE  InOrder(m)'
<1>1. /\ Out \in Seq(Entries) /\ Len(Out) \in Nat /\ Len(Out') = Len(Out) + 1
      /\ \A k \in 1 .. Len(Out) : Out'[k] = Out[k]
      /\ Out'[Len(Out) + 1] = e
  BY OutTyped
<1>2. \A i : i \in 1 .. m - 1 <=> i \in 1 .. n - 1 \/ i = n
  OBVIOUS
<1>3. \A k : k \in 1 .. Len(Out') <=> k \in 1 .. Len(Out) \/ k = Len(Out) + 1
  BY <1>1
<1>4. \A k \in 1 .. Len(Out) : Out[k].of \in 1 .. n - 1
  BY DEF InOrder
<1>5. {Out'[k].of : k \in 1 .. Len(Out')} = {Out[k].of : k \in 1 .. Len(Out)} \cup {n}
  BY <1>1, <1>3
<1>6. {i \in 1 .. m - 1 : typed'[i] \in Keys /\ i \notin dropped'}
      = {i \in 1 .. n - 1 : typed[i] \in Keys /\ i \notin dropped} \cup {n}
  <2>1. n \notin dropped
    OBVIOUS
  <2> QED BY <1>2, <2>1
<1>7. ASSUME NEW k \in 1 .. Len(Out'), NEW i \in Nat, i = Out'[k].of
      PROVE  Out'[k].char = Meant(i)'
  <2>1. Meant(i)' = Meant(i)
    BY DEF Meant, ShiftDown, CapsOn
  <2> QED BY <1>1, <1>3, <1>7, <2>1 DEF InOrder
<1>8. ASSUME NEW k \in 1 .. Len(Out') - 1 PROVE Out'[k].of < Out'[k + 1].of
  <2>1. CASE k = Len(Out)
    <3>1. k \in 1 .. Len(Out)
      BY <1>1, <1>8, <2>1
    <3>2. Out[k].of \in 1 .. n - 1 /\ Out'[k] = Out[k] /\ Out'[k + 1] = e
      BY <1>1, <1>4, <2>1, <3>1
    <3> QED BY <3>2
  <2>2. CASE k # Len(Out)
    <3>1. k \in 1 .. Len(Out) - 1 /\ k \in 1 .. Len(Out) /\ k + 1 \in 1 .. Len(Out)
      BY <1>1, <1>8, <2>2
    <3> QED BY <1>1, <3>1 DEF InOrder
  <2> QED BY <2>1, <2>2
<1> QED BY <1>5, <1>6, <1>7, <1>8 DEF InOrder

-----------------------------------------------------------------------------
\* The scancode that is read next, and what it does to the modifiers.
LEMMA NextScancode ==
    ASSUME KbTypes, NEW n \in Nat, NEW m \in Nat, m = n + 1, n > 0, typed' = typed,
           shift = ShiftDown(n), caps = CapsOn(n)
    PROVE  /\ \A sh \in BOOLEAN :
                sh = (typed[n] = "shift" \/ (shift /\ typed[n] # "unshift")) => sh = ShiftDown(m)'
           /\ \A cl \in BOOLEAN : cl = (caps # (typed[n] = "caps")) => cl = CapsOn(m)'
           /\ Meant(n) = Character(typed[n], shift, caps) /\ Meant(n)' = Meant(n)
<1>1. ShiftDown(m) <=> (typed[n] = "shift" \/ (shift /\ typed[n] # "unshift"))
  BY ShiftNext
<1>2. CapsOn(m) <=> (caps # (typed[n] = "caps"))
  BY CapsNext
<1>3. ShiftDown(m)' = ShiftDown(m) /\ CapsOn(m)' = CapsOn(m)
  BY DEF ShiftDown, CapsOn
<1>4. ShiftDown(m) \in BOOLEAN
  BY DEF ShiftDown
<1>5. CapsOn(m) \in BOOLEAN
  BY Zenon DEF CapsOn
<1>6. Meant(n)' = Meant(n)
  BY DEF Meant, ShiftDown, CapsOn
<1>7. Meant(n) = Character(typed[n], shift, caps)
  BY DEF Meant
<1> QED BY <1>1, <1>2, <1>3, <1>4, <1>5, <1>6, <1>7

LEMMA OrderInit == KbInit => OrderInv
<1> SUFFICES ASSUME KbInit PROVE OrderInv
  OBVIOUS
<1>1. /\ typed = <<>> /\ fetched = 0 /\ shift = FALSE /\ caps = FALSE /\ dropped = {}
      /\ khead = 0 /\ ktail = 0 /\ pc = "idle" /\ taken = <<>>
  BY DEF KbInit
<1>2. PICK n \in Nat : n = 1
  OBVIOUS
<1>3. ShiftDown(n) = FALSE
  <2>1. ~ShiftDown(n)
    BY <1>2 DEF ShiftDown
  <2>2. ShiftDown(n) \in BOOLEAN
    BY DEF ShiftDown
  <2> QED BY <2>1, <2>2
<1>4. CapsOn(n) = FALSE
  <2>1. {j \in 1 .. n - 1 : typed[j] = "caps"} = {}
    BY <1>2
  <2>2. Cardinality({j \in 1 .. n - 1 : typed[j] = "caps"}) = 0
    BY <2>1, FS_EmptySet
  <2>3. ~CapsOn(n)
    BY <2>2 DEF CapsOn
  <2>4. CapsOn(n) \in BOOLEAN
    BY Zenon DEF CapsOn
  <2> QED BY <2>3, <2>4
<1>5. Undisturbed(n)
  <2>1. n > 0 /\ n <= Len(typed) + 1 /\ fetched = n - 1 /\ dropped \subseteq 1 .. n - 1
    BY <1>1, <1>2
  <2> QED BY <1>1, <1>3, <1>4, <2>1 DEF Undisturbed
<1>6. Len(Out) = 0
  <2>1. KbTypes
    BY RingInit DEF RingInv
  <2>2. Len(Out) = Len(taken) + Offset(khead)
    BY <2>1, OutKnown DEF OutFacts
  <2>3. Len(taken) = 0 /\ Offset(khead) = 0
    BY <1>1, SizeKnown DEF Offset
  <2> QED BY <2>2, <2>3
<1>7. InOrder(n)
  BY <1>1, <1>2, <1>6 DEF InOrder
<1> QED BY <1>5, <1>7 DEF OrderInv

\* A device, a caller that finds nothing, or the end of the poll's loop.
LEMMA OutsideKeepsOrder ==
    ASSUME KbTypes, KbTypes', NEW n \in Nat, Undisturbed(n), InOrder(n),
           \/ \E c \in Codes : Press(c)
           \/ Hold \/ PollStatus \/ Return \/ UNCHANGED kbVars
    PROVE  Undisturbed(n)' /\ InOrder(n)'
<1>1. PICK c : typed' = typed \/ (typed' = Append(typed, c) /\ c \in Codes)
  BY DEF Press, Hold, PollStatus, Return, kbVars, Devices
<1>2. UNCHANGED <<fetched, shift, caps, kbuf, khead, ktail, code, char, next, dropped, taken>>
  BY DEF Press, Hold, PollStatus, Return, kbVars, ring, locals, history
<1>3. \/ pc' = pc
      \/ pc = "idle" /\ pc' \in {"data", "done"} /\ (pc' = "data" => fetched < Len(typed))
         /\ typed' = typed
      \/ pc = "done" /\ pc' = "idle"
  BY DEF Press, Hold, PollStatus, AfterStatus, Return, kbVars, Devices
<1>4. typed \in Seq(Codes) /\ fetched \in 0 .. Len(typed)
  BY DEF KbTypes
<1>5. Len(typed) \in Nat /\ Len(typed') \in Nat /\ Len(typed') >= Len(typed)
  BY <1>1, <1>4
<1>6. Out' = Out
  BY <1>2, OutStays
<1>7. InOrder(n)'
  BY <1>1, <1>2, <1>6, SameOrder DEF Undisturbed
<1>8. ShiftDown(n)' = ShiftDown(n) /\ CapsOn(n)' = CapsOn(n)
  <2>1. n \in 1 .. Len(typed) + 1
    BY <1>5 DEF Undisturbed
  <2>2. (ShiftDown(n)' <=> ShiftDown(n)) /\ (CapsOn(n)' <=> CapsOn(n))
    BY <1>1, <1>4, <2>1, MeaningStays
  <2>3. ShiftDown(n) \in BOOLEAN /\ ShiftDown(n)' \in BOOLEAN
    BY DEF ShiftDown
  <2>4. CapsOn(n) \in BOOLEAN
    BY Zenon DEF CapsOn
  <2>5. CapsOn(n)' \in BOOLEAN
    BY Zenon DEF CapsOn
  <2> QED BY <2>2, <2>3, <2>4, <2>5
<1>9. fetched = n => typed'[n] = typed[n] /\ Meant(n)' = Meant(n)
  <2> SUFFICES ASSUME fetched = n PROVE typed'[n] = typed[n] /\ Meant(n)' = Meant(n)
    OBVIOUS
  <2>1. n \in 1 .. Len(typed)
    BY <1>4, <1>5 DEF Undisturbed
  <2> QED BY <1>1, <1>4, <2>1, MeaningStays
<1>10. Undisturbed(n)'
  <2>1. n > 0 /\ n <= Len(typed') + 1 /\ shift' = ShiftDown(n)' /\ caps' = CapsOn(n)'
        /\ dropped' \subseteq 1 .. n - 1
    BY <1>2, <1>5, <1>8 DEF Undisturbed
  <2>2. CASE pc' = pc
    BY <1>2, <1>4, <1>5, <1>9, <2>1, <2>2 DEF Undisturbed
  <2>3. CASE pc' # pc
    BY <1>2, <1>3, <2>1, <2>3 DEF Undisturbed
  <2> QED BY <2>2, <2>3
<1> QED BY <1>7, <1>10

\* The interrupt comes between two polls and finds its byte.
LEMMA InterruptKeepsOrder ==
    ASSUME KbTypes, KbTypes', NEW n \in Nat, Undisturbed(n), InOrder(n), KeyboardInterrupt, ~mixed',
           NEW m \in Nat, m = n + 1
    PROVE  Undisturbed(m)' /\ InOrder(m)'
<1>1. /\ typed \in Seq(Codes) /\ fetched \in 0 .. Len(typed) /\ shift \in BOOLEAN /\ caps \in BOOLEAN
      /\ kbuf \in [Places -> Entries] /\ khead \in Places /\ ktail \in Places /\ pushes \in Nat
  BY DEF KbTypes
<1>2. /\ pc \in {"idle", "done"} /\ fetched # Len(typed) /\ fetched' = Fetched
      /\ HandleScancode(Fetched) /\ UNCHANGED <<typed, ktail, pc, code, char, next, taken>>
  BY DEF KeyboardInterrupt, locals
<1>3. Len(typed) \in Nat
  BY <1>1
<1>4. fetched = n - 1 /\ Fetched = n /\ n <= Len(typed) /\ n > 0
  BY <1>1, <1>2, <1>3 DEF Undisturbed, Fetched
<1>5. PICK sc : sc = typed[n]
  OBVIOUS
<1>6. /\ shift' = (sc = "shift" \/ (shift /\ sc # "unshift")) /\ caps' = (caps # (sc = "caps"))
      /\ IF sc \in Keys THEN Pushed(n, Character(sc, shift, caps))
         ELSE UNCHANGED <<kbuf, khead, pushes, dropped>>
  BY <1>2, <1>4, <1>5 DEF HandleScancode
<1>7. shift = ShiftDown(n) /\ caps = CapsOn(n) /\ dropped \subseteq 1 .. n - 1
  BY DEF Undisturbed
<1>8. shift' = ShiftDown(m)' /\ caps' = CapsOn(m)' /\ Meant(n) = Character(sc, shift, caps)
  <2>1. shift' \in BOOLEAN /\ caps' \in BOOLEAN
    BY <1>6
  <2> QED BY <1>2, <1>4, <1>5, <1>6, <1>7, <2>1, NextScancode
<1>9. dropped' \subseteq 1 .. m - 1 /\ InOrder(m)'
  <2>1. CASE sc \notin Keys
    <3>1. UNCHANGED <<kbuf, khead, dropped>>
      BY <1>6, <2>1
    <3>2. Out' = Out
      BY <1>2, <3>1, OutStays
    <3>3. InOrder(m)'
      BY <1>2, <1>4, <1>5, <1>7, <2>1, <3>1, <3>2, NothingOut
    <3> QED BY <1>7, <3>1, <3>3
  <2>2. CASE sc \in Keys /\ Full(Succ(khead), ktail)
    <3>1. dropped' = dropped \cup {n} /\ UNCHANGED <<kbuf, khead>>
      BY <1>6, <2>2 DEF Pushed
    <3>2. Out' = Out
      BY <1>2, <3>1, OutStays
    <3>3. InOrder(m)'
      BY <1>2, <1>4, <1>7, <3>1, <3>2, NothingOut
    <3> QED BY <1>4, <1>7, <3>1, <3>3
  <2>3. CASE sc \in Keys /\ ~Full(Succ(khead), ktail)
    <3>1. PICK e : e = Slot(n, Character(sc, shift, caps), pushes + 1)
      OBVIOUS
    <3>2. /\ kbuf' = [kbuf EXCEPT ![khead] = e] /\ khead' = Succ(khead) /\ dropped' = dropped
          /\ Succ(khead) # ktail
      BY <1>6, <2>3, <3>1 DEF Pushed, Full
    <3>3. e \in Entries /\ e.of = n /\ e.char = Meant(n)
      <4>1. Character(sc, shift, caps) \in Chars /\ pushes + 1 \in Nat
        BY <1>1, <2>3, CharacterTyped
      <4>2. e \in Entries
        BY <3>1, <4>1, SlotTyped
      <4> QED BY <1>8, <3>1, <4>2 DEF Slot
    <3>4. kbuf'[khead] = e /\ \A s \in Places : s # khead => kbuf'[s] = kbuf[s]
      BY <1>1, <3>2
    <3>5. Out' = Append(Out, e)
      BY <1>2, <3>2, <3>4, OutGrows
    <3>6. InOrder(m)'
      BY <1>2, <1>4, <1>5, <1>7, <2>3, <3>2, <3>3, <3>5, OneOut
    <3> QED BY <1>7, <3>2, <3>6
  <2> QED BY <2>1, <2>2, <2>3
<1>10. Undisturbed(m)'
  BY <1>2, <1>3, <1>4, <1>8, <1>9 DEF Undisturbed
<1> QED BY <1>9, <1>10

-----------------------------------------------------------------------------
\* A scancode is read, or one more statement of its handling is done.
LEMMA HandlingKeepsOrder ==
    ASSUME KbTypes, KbTypes', NEW n \in Nat, Undisturbed(n), InOrder(n),
           PollData \/ PollKey \/ PushStore \/ (PollModifier /\ typed[n] = "caps")
           \/ (PushRoom /\ ~Full(Succ(khead), ktail))
    PROVE  Undisturbed(n)' /\ InOrder(n)'
<1>1. /\ typed \in Seq(Codes) /\ fetched \in 0 .. Len(typed) /\ khead \in Places
      /\ kbuf \in [Places -> Entries] /\ shift \in BOOLEAN
  BY DEF KbTypes
<1>2. Len(typed) \in Nat
  BY <1>1
<1>3. /\ typed' = typed /\ dropped' = dropped /\ caps' = caps
      /\ UNCHANGED <<khead, ktail, taken>>
  BY DEF PollData, PollKey, PushStore, PollModifier, PushRoom, Devices, ring, locals, history
<1>4. shift' = shift
  <2>1. CASE PollModifier /\ typed[n] = "caps"
    <3>1. code = n /\ shift' = (typed[code] = "shift" \/ (shift /\ typed[code] # "unshift"))
      BY <2>1 DEF PollModifier, Undisturbed
    <3> QED BY <1>1, <2>1, <3>1
  <2> QED BY <2>1 DEF PollData, PollKey, PushStore, PushRoom, ring
<1>5. \A s \in Places : s # khead => kbuf'[s] = kbuf[s]
  BY <1>1 DEF PollData, PollKey, PushStore, PollModifier, PushRoom, Devices, ring, locals, history
<1>6. Out' = Out
  BY <1>3, <1>5, OutStays
<1>7. InOrder(n)'
  BY <1>3, <1>6, SameOrder DEF Undisturbed
<1>8. /\ n > 0 /\ n <= Len(typed) + 1 /\ shift = ShiftDown(n) /\ caps = CapsOn(n)
      /\ dropped \subseteq 1 .. n - 1
  BY DEF Undisturbed
<1>9. ShiftDown(n)' = ShiftDown(n) /\ CapsOn(n)' = CapsOn(n) /\ Meant(n)' = Meant(n)
  BY <1>3 DEF Meant, ShiftDown, CapsOn
<1>10. CASE PollData
  <2>1. /\ pc = "data" /\ pc' = "handle" /\ code' = Fetched /\ fetched' = Fetched
    BY <1>10 DEF PollData
  <2>2. Fetched = n
    BY <1>1, <1>2, <2>1 DEF Undisturbed, Fetched
  <2> QED BY <1>3, <1>4, <1>7, <1>8, <1>9, <2>1, <2>2 DEF Undisturbed
<1>11. CASE PollKey
  <2>1. /\ pc = "handle" /\ pc' = "push" /\ code = n /\ fetched = n /\ typed[n] \in Keys
        /\ char' = Character(typed[n], shift, caps) /\ code' = code /\ fetched' = fetched
    BY <1>11 DEF PollKey, Undisturbed
  <2>2. char' = Meant(n)
    BY <1>8, <2>1 DEF Meant
  <2> QED BY <1>3, <1>4, <1>7, <1>8, <1>9, <2>1, <2>2 DEF Undisturbed
<1>12. CASE PushStore
  <2>1. /\ pc = "store" /\ pc' = "advance" /\ UNCHANGED <<fetched, code, char, next>>
        /\ kbuf' = [kbuf EXCEPT ![khead] = Slot(code, char, pushes + 1)]
    BY <1>12 DEF PushStore, locals
  <2>2. /\ code = n /\ fetched = n /\ typed[n] \in Keys /\ char = Meant(n)
        /\ next = Succ(khead) /\ Succ(khead) # ktail
    BY <2>1 DEF Undisturbed
  <2>3. kbuf'[khead] = Slot(code, char, pushes + 1)
    BY <1>1, <2>1
  <2>4. kbuf'[khead].of = n /\ kbuf'[khead].char = char
    BY <2>2, <2>3 DEF Slot
  <2>5. Succ(khead)' = Succ(khead)
    BY <1>3 DEF Succ
  <2> QED BY <1>3, <1>4, <1>7, <1>8, <1>9, <2>1, <2>2, <2>4, <2>5 DEF Undisturbed
<1>13. CASE PollModifier /\ typed[n] = "caps"
  <2>1. /\ pc = "handle" /\ code = n /\ fetched = n /\ next' = IF caps THEN 0 ELSE 1
        /\ UNCHANGED <<fetched, code, char>>
    BY <1>13 DEF PollModifier, Undisturbed
  <2>2. pc' = "caps"
    BY <1>13, <2>1 DEF PollModifier
  <2> QED BY <1>3, <1>4, <1>7, <1>8, <1>9, <1>13, <2>1, <2>2 DEF Undisturbed
<1>14. CASE PushRoom /\ ~Full(Succ(khead), ktail)
  <2>1. /\ pc = "push" /\ pc' = "store" /\ next' = Succ(khead) /\ Succ(khead) # ktail
        /\ UNCHANGED <<fetched, code, char>>
    BY <1>14 DEF PushRoom, Full
  <2>2. code = n /\ fetched = n /\ typed[n] \in Keys /\ char = Meant(n)
    BY <2>1 DEF Undisturbed
  <2>3. Succ(khead)' = Succ(khead)
    BY <1>3 DEF Succ
  <2> QED BY <1>3, <1>4, <1>7, <1>8, <1>9, <2>1, <2>2, <2>3 DEF Undisturbed
<1> QED BY <1>10, <1>11, <1>12, <1>13, <1>14

\* The scancode in hand is dealt with.
LEMMA HandledKeepsOrder ==
    ASSUME KbTypes, KbTypes', NEW n \in Nat, Undisturbed(n), InOrder(n), NEW m \in Nat, m = n + 1,
           (PollModifier /\ typed[n] # "caps") \/ PollCaps \/ PushAdvance
           \/ (PushRoom /\ Full(Succ(khead), ktail))
    PROVE  Undisturbed(m)' /\ InOrder(m)'
<1>1. /\ typed \in Seq(Codes) /\ fetched \in 0 .. Len(typed) /\ khead \in Places
      /\ kbuf \in [Places -> Entries] /\ shift \in BOOLEAN /\ caps \in BOOLEAN
  BY DEF KbTypes
<1>2. Len(typed) \in Nat
  BY <1>1
<1>3. pc \in {"handle", "caps", "push", "advance"} /\ pc' = "idle"
  <2>1. PollModifier /\ typed[n] # "caps" => pc = "handle" /\ pc' = "idle"
    BY DEF PollModifier, Undisturbed
  <2> QED BY <2>1 DEF PollCaps, PushAdvance, PushRoom
<1>4. /\ n > 0 /\ n <= Len(typed) /\ code = n /\ fetched = n
      /\ shift = ShiftDown(n) /\ caps = CapsOn(n) /\ dropped \subseteq 1 .. n - 1
  BY <1>1, <1>2, <1>3 DEF Undisturbed
<1>5. typed' = typed /\ fetched' = fetched /\ UNCHANGED <<ktail, taken>>
  BY DEF PushAdvance, PollModifier, PollCaps, PushRoom, Devices, ring, history
<1>6. \A sh \in BOOLEAN :
        sh = (typed[n] = "shift" \/ (shift /\ typed[n] # "unshift")) => sh = ShiftDown(m)'
  BY <1>4, <1>5, NextScancode
<1>7. \A cl \in BOOLEAN : cl = (caps # (typed[n] = "caps")) => cl = CapsOn(m)'
  BY <1>4, <1>5, NextScancode
<1>8. \A s \in Keys : s \notin {"shift", "unshift", "caps", "release"}
  BY KeyboardAssumption
<1>9. CASE PollModifier /\ typed[n] # "caps"
  <2>1. /\ typed[n] \notin Keys
        /\ shift' = (typed[n] = "shift" \/ (shift /\ typed[n] # "unshift"))
        /\ UNCHANGED <<caps, kbuf, khead, dropped>>
    BY <1>4, <1>9 DEF PollModifier, history
  <2>2. shift' = ShiftDown(m)'
    <3>1. shift' \in BOOLEAN
      BY <2>1
    <3> QED BY <1>6, <2>1, <3>1
  <2>3. caps' = CapsOn(m)'
    <3>1. caps' = (caps # (typed[n] = "caps"))
      BY <1>1, <1>9, <2>1
    <3> QED BY <1>1, <1>7, <2>1, <3>1
  <2>4. Out' = Out
    BY <1>5, <2>1, OutStays
  <2>5. InOrder(m)'
    BY <1>4, <1>5, <2>1, <2>4, NothingOut
  <2> QED BY <1>2, <1>3, <1>4, <1>5, <2>1, <2>2, <2>3, <2>5 DEF Undisturbed
<1>10. CASE PollCaps
  <2>1. /\ typed[n] = "caps" /\ next = IF caps THEN 0 ELSE 1
        /\ caps' = (next = 1) /\ UNCHANGED <<shift, kbuf, khead, dropped>>
    BY <1>10 DEF PollCaps, Undisturbed, history
  <2>2. shift' = ShiftDown(m)'
    <3>1. shift' = (typed[n] = "shift" \/ (shift /\ typed[n] # "unshift"))
      BY <1>1, <2>1
    <3> QED BY <1>1, <1>6, <2>1, <3>1
  <2>3. caps' = CapsOn(m)'
    <3>1. caps' = (caps # (typed[n] = "caps")) /\ caps' \in BOOLEAN
      BY <1>1, <2>1
    <3> QED BY <1>7, <3>1
  <2>4. typed[n] \notin Keys
    BY <1>8, <2>1
  <2>5. Out' = Out
    BY <1>5, <2>1, OutStays
  <2>6. InOrder(m)'
    BY <1>4, <1>5, <2>1, <2>4, <2>5, NothingOut
  <2> QED BY <1>2, <1>3, <1>4, <1>5, <2>1, <2>2, <2>3, <2>6 DEF Undisturbed
<1>11. CASE PushAdvance \/ (PushRoom /\ Full(Succ(khead), ktail))
  <2>1. typed[n] \in Keys /\ UNCHANGED <<shift, caps, kbuf>>
    BY <1>11 DEF PushAdvance, PushRoom, Undisturbed, ring
  <2>2. typed[n] # "shift" /\ typed[n] # "unshift" /\ typed[n] # "caps"
    BY <1>8, <2>1
  <2>3. shift' = ShiftDown(m)'
    <3>1. shift' = (typed[n] = "shift" \/ (shift /\ typed[n] # "unshift"))
      BY <1>1, <2>1, <2>2
    <3> QED BY <1>1, <1>6, <2>1, <3>1
  <2>4. caps' = CapsOn(m)'
    <3>1. caps' = (caps # (typed[n] = "caps"))
      BY <1>1, <2>1, <2>2
    <3> QED BY <1>1, <1>7, <2>1, <3>1
  <2>5. dropped' \subseteq 1 .. m - 1 /\ InOrder(m)'
    <3>1. CASE PushAdvance
      <4>1. /\ pc = "advance" /\ khead' = next /\ dropped' = dropped
        BY <3>1 DEF PushAdvance, history
      <4>2. /\ khead' = Succ(khead) /\ Succ(khead) # ktail
            /\ kbuf[khead].of = n /\ kbuf[khead].char = Meant(n)
        BY <4>1 DEF Undisturbed
      <4>3. PICK e : e = kbuf[khead]
        OBVIOUS
      <4>4. e \in Entries /\ e.of = n /\ e.char = Meant(n)
        BY <1>1, <4>2, <4>3
      <4>5. Out' = Append(Out, kbuf'[khead])
        BY <1>5, <2>1, <4>2, OutGrows
      <4>6. Out' = Append(Out, e)
        BY <2>1, <4>3, <4>5
      <4>7. InOrder(m)'
        BY <1>4, <1>5, <2>1, <4>1, <4>4, <4>6, OneOut
      <4> QED BY <1>4, <4>1, <4>7
    <3>2. CASE PushRoom /\ Full(Succ(khead), ktail)
      <4>1. dropped' = dropped \cup {n} /\ khead' = khead
        BY <1>4, <3>2 DEF PushRoom, ring
      <4>2. Out' = Out
        BY <1>5, <2>1, <4>1, OutStays
      <4>3. InOrder(m)'
        BY <1>4, <1>5, <4>1, <4>2, NothingOut
      <4> QED BY <1>4, <4>1, <4>3
    <3> QED BY <1>11, <3>1, <3>2
  <2> QED BY <1>2, <1>3, <1>4, <1>5, <2>3, <2>4, <2>5 DEF Undisturbed
<1> QED BY <1>9, <1>10, <1>11

\* A caller takes the first character.
LEMMA TakeKeepsMeaning ==
    ASSUME KbTypes, KbTypes', NEW n \in Nat, Undisturbed(n), InOrder(n), Take
    PROVE  Undisturbed(n)' /\ InOrder(n)'
<1>1. /\ pc = "done" /\ pc' = "idle" /\ khead # ktail
      /\ taken' = Append(taken, kbuf[ktail]) /\ ktail' = Succ(ktail)
      /\ UNCHANGED <<typed, fetched, shift, caps, kbuf, khead, dropped>>
  BY DEF Take, TailAfter, Devices
<1>2. Out' = Out
  BY <1>1, OutTaken
<1>3. InOrder(n)'
  BY <1>1, <1>2, SameOrder DEF Undisturbed
<1>4. ShiftDown(n)' = ShiftDown(n) /\ CapsOn(n)' = CapsOn(n)
  BY <1>1 DEF ShiftDown, CapsOn
<1> QED BY <1>1, <1>3, <1>4 DEF Undisturbed

LEMMA OrderStep == RingInv /\ RingInv' /\ OrderInv /\ [KbNext]_kbVars => OrderInv'
<1> SUFFICES ASSUME RingInv, RingInv', OrderInv, [KbNext]_kbVars, ~mixed' PROVE OrderInv'
  BY DEF OrderInv
<1>1. KbTypes /\ KbTypes'
  BY DEF RingInv
<1>2. ~mixed
  BY DEF KbNext, Poll, Press, Hold, KeyboardInterrupt, PollStatus, PollData, PollModifier, PollCaps,
         PollKey, PushRoom, PushStore, PushAdvance, Take, Return, kbVars, history
<1>3. PICK n \in Nat : Undisturbed(n) /\ InOrder(n)
  BY <1>2 DEF OrderInv
<1>4. PICK m \in Nat : m = n + 1
  OBVIOUS
<1>5. (Undisturbed(n)' /\ InOrder(n)') \/ (Undisturbed(m)' /\ InOrder(m)') => OrderInv'
  BY DEF OrderInv
<1>6. CASE \/ \E c \in Codes : Press(c)
           \/ Hold \/ PollStatus \/ Return \/ UNCHANGED kbVars
  BY <1>1, <1>3, <1>5, <1>6, OutsideKeepsOrder
<1>7. CASE KeyboardInterrupt
  BY <1>1, <1>3, <1>4, <1>5, <1>7, InterruptKeepsOrder
<1>8. CASE Take
  BY <1>1, <1>3, <1>5, <1>8, TakeKeepsMeaning
<1>9. CASE PollData \/ PollKey \/ PushStore \/ (PollModifier /\ typed[n] = "caps")
           \/ (PushRoom /\ ~Full(Succ(khead), ktail))
  BY <1>1, <1>3, <1>5, <1>9, HandlingKeepsOrder
<1>10. CASE (PollModifier /\ typed[n] # "caps") \/ PollCaps \/ PushAdvance
            \/ (PushRoom /\ Full(Succ(khead), ktail))
  BY <1>1, <1>3, <1>4, <1>5, <1>10, HandledKeepsOrder
<1> QED BY <1>6, <1>7, <1>8, <1>9, <1>10 DEF KbNext, Poll

LEMMA OrderMeansKeys ==
    ASSUME RingInv, OrderInv
    PROVE  KeysInOrder
<1> SUFFICES ASSUME ~mixed PROVE KeysInOrder
  BY DEF KeysInOrder
<1>1. PICK n \in Nat : Undisturbed(n) /\ InOrder(n)
  BY DEF OrderInv
<1>2. Settled = n - 1
  <2>1. fetched \in Nat
    <3>1. typed \in Seq(Codes) /\ fetched \in 0 .. Len(typed)
      BY DEF RingInv, KbTypes
    <3> QED BY <3>1
  <2> QED BY <1>1, <2>1 DEF Undisturbed, Settled
<1>3. /\ {Out[k].of : k \in 1 .. Len(Out)}
           = {i \in 1 .. Settled : typed[i] \in Keys /\ i \notin dropped}
      /\ \A k \in 1 .. Len(Out) - 1 : Out[k].of < Out[k + 1].of
  BY <1>1, <1>2 DEF InOrder
<1>4. ASSUME NEW k \in 1 .. Len(Out) PROVE Out[k].char = Meant(Out[k].of)
  <2>1. Out[k].of \in 1 .. n - 1
    BY <1>1 DEF InOrder
  <2>2. Out[k].of \in Nat
    BY <2>1
  <2> QED BY <1>1, <2>2 DEF InOrder
<1> QED BY <1>3, <1>4 DEF KeysInOrder, Out

\* For any keys, any number of scancodes and a ring of any size: as long as no
\* interrupt came inside a poll and none after its byte had been polled away,
\* callers get every key that was typed, once, in order and in the case that
\* shift and caps lock give it, unless the ring was full (keyboard.c:
\* handle_scancode, kpush, keyboard_try_getc; idt.c: IRQ1).
THEOREM KeysAlwaysInOrder == KbSpec => []KeysInOrder
<1>1. KbInit => OrderInv
  BY OrderInit
<1>2. KbInit /\ [][KbNext]_kbVars => [](RingInv /\ OrderInv)
  <2>1. RingInv /\ OrderInv /\ [KbNext]_kbVars => RingInv' /\ OrderInv'
    BY RingStep, OrderStep
  <2> QED BY <1>1, <2>1, RingInit, PTL
<1>3. RingInv /\ OrderInv => KeysInOrder
  BY OrderMeansKeys
<1> QED BY <1>2, <1>3, PTL DEF KbSpec

=============================================================================
