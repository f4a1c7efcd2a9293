-------------------------------- MODULE Heap --------------------------------
(***************************************************************************)
(* The kernel heap (kernel/heap.c): one run of pages cut into blocks, each *)
(* behind a header, linked in the order of their addresses; first fit,     *)
(* with the rest split off, and merging when a block is freed.  Callers    *)
(* are the shell's thread and code that runs with interrupts masked, so a  *)
(* call is one action.                                                     *)
(*                                                                         *)
(* Addresses and sizes count from heap_base in a unit that divides both    *)
(* the 16 bytes of kmalloc's rounding and the 24 of a header.              *)
(***************************************************************************)
EXTENDS Integers, FiniteSets

CONSTANTS
    HeapSize,       \* HEAP_SIZE
    Header,         \* sizeof(struct block)
    Align,          \* what sizes are rounded up to
    Least,          \* the smallest rest that is split off
    Word,           \* size_t counts modulo Word
    Sizes           \* the sizes other callers than the file system ask for

ASSUME HeapAssumption ==
    /\ HeapSize \in Nat /\ Header \in Nat \ {0} /\ Align \in Nat \ {0} /\ Least \in Nat
    /\ HeapSize >= Header
    /\ Word \in Nat /\ Word > 2 * (HeapSize + Header + Least) /\ Word % Align = 0
    /\ Sizes \subseteq 0 .. Word - 1

NULL == -1

VARIABLES
    blocks,         \* the headers in the list: [header |-> [size, free, next]]
    live            \* history: the pointers callers hold, with the size each
                    \* asked for and what it put there

heapVars == <<blocks, live>>

Headers == DOMAIN blocks

\* A buffer nobody has written; what is in it is of no interest.
Junk == [id |-> 0, len |-> 0]

-----------------------------------------------------------------------------
(***************************************************************************)
(* The list of blocks, as functions of the list bs.                        *)
(***************************************************************************)
NewBlock(size, next) == [size |-> size, free |-> TRUE, next |-> next]

\* (size + 15) & ~15, the sum modulo Word.
Rounded(n) == (((n + Align - 1) % Word) \div Align) * Align

\* Mutant of Fit: blocks in use are not passed over.
FitInUse(bs, n) == {b \in DOMAIN bs : bs[b].size >= Rounded(n)}

Fit(bs, n) == {b \in DOMAIN bs : bs[b].free /\ bs[b].size >= Rounded(n)}

\* kmalloc(n) gives nothing; it takes the block b, the first that fits.
Fails(bs, n) == n = 0 \/ Fit(bs, n) = {}
Takes(bs, n, b) == n # 0 /\ b \in Fit(bs, n) /\ \A c \in Fit(bs, n) : b <= c

\* Mutant of Split: the rest is counted without its own header.
SplitWithoutHeader(bs, b, size) ==
    LET rest == b + Header + size IN
    [x \in DOMAIN bs \cup {rest} |->
        IF x = b THEN [size |-> size, free |-> FALSE, next |-> rest]
        ELSE IF x = rest THEN NewBlock(bs[b].size - size, bs[b].next)
        ELSE bs[x]]

\* The block b cut down to size, and the free rest behind it.
Split(bs, b, size) ==
    LET rest == b + Header + size IN
    [x \in DOMAIN bs \cup {rest} |->
        IF x = b THEN [size |-> size, free |-> FALSE, next |-> rest]
        ELSE IF x = rest THEN NewBlock(bs[b].size - size - Header, bs[b].next)
        ELSE bs[x]]

Taken(bs, b, n) ==
    IF bs[b].size >= Rounded(n) + Header + Least
    THEN Split(bs, b, Rounded(n))
    ELSE [bs EXCEPT ![b].free = FALSE]

\* Mutant of Merged: the header of the block that goes is not counted.
MergedWithoutHeader(bs, b) ==
    LET n == bs[b].next IN
    [x \in DOMAIN bs \ {n} |->
        IF x = b THEN [size |-> bs[b].size + bs[n].size, free |-> bs[b].free, next |-> bs[n].next]
        ELSE bs[x]]

\* The block b swallows the one behind it.
Merged(bs, b) ==
    LET n == bs[b].next IN
    [x \in DOMAIN bs \ {n} |->
        IF x = b THEN [size |-> bs[b].size + Header + bs[n].size, free |-> bs[b].free, next |-> bs[n].next]
        ELSE bs[x]]

MergedNext(bs, b) == IF bs[b].next # NULL /\ bs[bs[b].next].free THEN Merged(bs, b) ELSE bs

MergedPrev(bs, b) ==
    IF \E c \in DOMAIN bs : bs[c].next = b /\ bs[c].free
    THEN Merged(bs, CHOOSE c \in DOMAIN bs : bs[c].next = b /\ bs[c].free)
    ELSE bs

\* kfree(p) of a pointer in use: first the next block, then the one before.
Freed(bs, p) ==
    LET b == p - Header IN MergedPrev(MergedNext([bs EXCEPT ![b].free = TRUE], b), b)

\* The holders, when p is handed out and when it is given back.
Held(lv, p, n, what) ==
    [q \in DOMAIN lv \cup {p} |-> IF q = p THEN [asked |-> n, holds |-> what] ELSE lv[q]]
Dropped(lv, p) == [q \in DOMAIN lv \ {p} |-> lv[q]]

-----------------------------------------------------------------------------
\* heap_init: one free block, or no list at all when the pages are missing.
HeapInit ==
    /\ \/ blocks = [b \in {0} |-> NewBlock(HeapSize - Header, NULL)]
       \/ blocks = [b \in {} |-> NewBlock(0, NULL)]
    /\ live = [p \in {} |-> Junk]

\* kmalloc(n) by a caller that puts "what" into its buffer.
Kmalloc(n, what) ==
    \/ Fails(blocks, n) /\ UNCHANGED heapVars
    \/ \E b \in Headers :
         /\ Takes(blocks, n, b)
         /\ blocks' = Taken(blocks, b, n)
         /\ live' = Held(live, b + Header, n, what)

\* kcalloc(count, n): the product is a size_t.
Kcalloc(count, n) == Kmalloc((count * n) % Word, Junk)

\* kfree of a pointer the caller holds, or of the null pointer.
Kfree(p) ==
    IF p = NULL THEN UNCHANGED heapVars
    ELSE blocks' = Freed(blocks, p) /\ live' = Dropped(live, p)

\* krealloc(p, n): in place when the block is long enough; otherwise a new
\* block, a copy, and the old one freed; the old one stays if that fails.
Krealloc(p, n) ==
    LET b == p - Header IN
    CASE p = NULL                        -> Kmalloc(n, Junk)
      [] p # NULL /\ n = 0               -> Kfree(p)
      [] p # NULL /\ n # 0 /\ blocks[b].size >= n ->
            blocks' = blocks /\ live' = [live EXCEPT ![p] = [asked |-> n, holds |-> @.holds]]
      [] OTHER ->
            \/ Fails(blocks, n) /\ UNCHANGED heapVars
            \/ \E c \in Headers :
                 /\ Takes(blocks, n, c)
                 /\ blocks' = Freed(Taken(blocks, c, n), p)
                 /\ live' = Dropped(Held(live, c + Header, n, live[p].holds), p)

-----------------------------------------------------------------------------
\* Headers and links are numbers in the arena, pointers stand behind headers.
HeapTypeOK ==
    /\ Headers \subseteq 0 .. HeapSize - Header
    /\ \A b \in Headers :
         /\ DOMAIN blocks[b] = {"size", "free", "next"}
         /\ blocks[b].size \in 0 .. HeapSize /\ blocks[b].free \in BOOLEAN
         /\ blocks[b].next \in Headers \cup {NULL}
    /\ \A p \in DOMAIN live : p - Header \in Headers

\* The blocks tile the heap: each ends where the next one in the list begins and
\* the last one ends with the heap, so no byte is lost or in two blocks.
BlocksTile ==
    /\ Headers # {} => 0 \in Headers
    /\ \A b \in Headers :
         LET end == b + Header + blocks[b].size IN
         /\ blocks[b].next = IF end = HeapSize THEN NULL ELSE end
         /\ end <= HeapSize
         /\ \A c \in Headers : c > b => c >= end

\* Two free blocks are never neighbours.
NoFreeNeighbours ==
    \A b \in Headers : blocks[b].free /\ blocks[b].next # NULL => ~blocks[blocks[b].next].free

\* The blocks in use are exactly those callers hold, each as long as its caller
\* asked for, unless the size wrapped around in kmalloc's rounding.
InUseIsHeld ==
    /\ {b + Header : b \in {c \in Headers : ~blocks[c].free}} = DOMAIN live
    /\ \A p \in DOMAIN live :
         live[p].asked <= Word - Align => blocks[p - Header].size >= live[p].asked

\* Whatever is taken, split, given back and merged in whatever order, no block
\* is handed out twice, freed under its holder or forgotten, and freeing
\* everything gives the whole heap back (heap.c: the address arithmetic of
\* kmalloc and kfree).
HeapSound == BlocksTile /\ NoFreeNeighbours /\ InUseIsHeld

\* The heap is an arena whose regions are the payloads of the blocks in use.
HeapArena == INSTANCE Arena WITH
    Length <- HeapSize, regions <- [p \in DOMAIN live |-> blocks[p - Header].size]
PayloadsAreDisjoint == HeapArena!Spec
=============================================================================
