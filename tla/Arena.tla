-------------------------------- MODULE Arena --------------------------------
(***************************************************************************)
(* What an allocator of memory promises, without headers, lists or         *)
(* splitting: each holder gets a region of its own, at least as long as it *)
(* asked for, and a region stays as it is until its holder gives it back.  *)
(***************************************************************************)
EXTENDS Integers

CONSTANT Length          \* the length of the arena

VARIABLE regions         \* the regions held: start |-> length

Starts == DOMAIN regions

\* [p, p + n) lies in the arena and meets no region of the set S.
Fits(p, n, S) ==
    /\ p >= 0 /\ n >= 0 /\ p + n <= Length
    /\ \A q \in S : q # p /\ (p + n <= q \/ q + regions[q] <= p)

With(p, n, S) == [q \in S \cup {p} |-> IF q = p THEN n ELSE regions[q]]

Init == regions = [p \in {} |-> 0]

Take(p, n) == Fits(p, n, Starts) /\ regions' = With(p, n, Starts)

Give(p) == regions' = [q \in Starts \ {p} |-> regions[q]]

\* A region is given back as another one is taken that does not overlap it.
Exchange(old, p, n) == Fits(p, n, Starts) /\ regions' = With(p, n, Starts \ {old})

\* The region taken is the one that is there after the step.
Next ==
    \/ \E p \in DOMAIN regions' : Take(p, regions'[p])
    \/ \E p \in Starts : Give(p)
    \/ \E old \in Starts : \E p \in DOMAIN regions' : Exchange(old, p, regions'[p])

Spec == Init /\ [][Next]_regions
=============================================================================
