--------------------------- MODULE PageAllocator ---------------------------
(***************************************************************************)
(* The physical page allocator (kernel/pmm.c): a bitmap of the pages       *)
(* between MEM_START and MEM_END, two counters kept beside it, first fit.  *)
(* It runs before the scheduler starts or between cli and sti, so a call   *)
(* is one action.  An address is the index of its page; an address outside *)
(* the range, the null pointer included, is NULL.                          *)
(***************************************************************************)
EXTENDS Integers, FiniteSets

CONSTANTS
    TotalPages,     \* (MEM_END - MEM_START) / PAGE_SIZE
    BitmapPage,     \* addr_to_page(BITMAP_ADDR), an unsigned difference: when the
                    \* bitmap lies below MEM_START it wraps beyond every page
    RunLengths      \* the n of the callers of pmm_alloc_pages (stacks, the heap)

ASSUME PageAllocatorAssumption ==
    /\ TotalPages \in Nat /\ BitmapPage \in Nat
    /\ RunLengths \subseteq Nat \ {0}

Pages == 0 .. TotalPages - 1
NULL  == -1

VARIABLES
    used,           \* the bitmap: the pages whose bit is set
    free_pages,
    used_pages,
    dirty,          \* the pages that hold something other than zeroes
    granted         \* history: the pages callers were given and did not free

pmmVars == <<used, free_pages, used_pages, dirty, granted>>

Run(s, n) == s .. s + n - 1

\* Mutant of BitmapBits: no test that the page lies in the range.
BitmapBitsUnchecked == {BitmapPage}

BitmapBits == {BitmapPage} \cap Pages

\* pmm_init: every bit clear, then the bit of the bitmap's own page if it has one.
PmmInit ==
    /\ used = BitmapBits
    /\ used_pages = IF BitmapPage \in Pages THEN 1 ELSE 0
    /\ free_pages = TotalPages - used_pages
    /\ dirty = Pages
    /\ granted = {}

\* s is the lowest start of n pages in a row with clear bits.
FirstFit(n, s) ==
    /\ s \in Pages /\ s + n <= TotalPages
    /\ Run(s, n) \cap used = {}
    /\ \A t \in 0 .. s - 1 : Run(t, n) \cap used # {}

NoFit(n) == \A s \in Pages : s + n <= TotalPages => Run(s, n) \cap used # {}

\* Mutants of Grant: no bit is set; the last bit is not; the pages are not zeroed.
GrantNoBits(s, n) ==
    /\ free_pages' = free_pages - n /\ used_pages' = used_pages + n
    /\ dirty' = dirty \ Run(s, n) /\ granted' = granted \cup Run(s, n)
    /\ UNCHANGED used
GrantLastBitMissing(s, n) ==
    /\ used' = used \cup Run(s, IF n > 1 THEN n - 1 ELSE n)
    /\ free_pages' = free_pages - n /\ used_pages' = used_pages + n
    /\ dirty' = dirty \ Run(s, n) /\ granted' = granted \cup Run(s, n)
GrantNotZeroed(s, n) ==
    /\ used' = used \cup Run(s, n) /\ granted' = granted \cup Run(s, n)
    /\ free_pages' = free_pages - n /\ used_pages' = used_pages + n
    /\ UNCHANGED dirty

\* The bits are set, the counters moved, and the pages filled with zeroes.
Grant(s, n) ==
    /\ used' = used \cup Run(s, n)
    /\ free_pages' = free_pages - n
    /\ used_pages' = used_pages + n
    /\ dirty' = dirty \ Run(s, n)
    /\ granted' = granted \cup Run(s, n)

\* pmm_alloc_page: p is what the caller gets.
AllocPage(p) ==
    \/ p \in Pages /\ FirstFit(1, p) /\ Grant(p, 1)
    \/ p = NULL /\ NoFit(1) /\ UNCHANGED pmmVars

\* pmm_alloc_pages(n)
AllocPages(n, s) ==
    \/ s \in Pages /\ FirstFit(n, s) /\ Grant(s, n)
    \/ s = NULL /\ NoFit(n) /\ UNCHANGED pmmVars

\* Mutant of FreePage: the counters move although the bit was clear already, or
\* the address outside.
FreePageUntested(p) ==
    /\ used' = used \ {p} /\ granted' = granted \ {p}
    /\ free_pages' = free_pages + 1 /\ used_pages' = used_pages - 1
    /\ UNCHANGED dirty

\* pmm_free_page: an address outside the range or a clear bit changes nothing.
FreePage(p) ==
    IF p \in Pages /\ p \in used
    THEN /\ used' = used \ {p}
         /\ free_pages' = free_pages + 1
         /\ used_pages' = used_pages - 1
         /\ granted' = granted \ {p}
         /\ UNCHANGED dirty
    ELSE UNCHANGED pmmVars

\* pmm_free_pages: pmm_free_page for each page of the run.
FreePages(s, n) ==
    LET cleared == Run(s, n) \cap used IN
    /\ used' = used \ cleared
    /\ free_pages' = free_pages + Cardinality(cleared)
    /\ used_pages' = used_pages - Cardinality(cleared)
    /\ granted' = granted \ cleared
    /\ UNCHANGED dirty

\* Whoever holds a page writes to it.
Write(p) ==
    /\ p \in granted
    /\ dirty' = dirty \cup {p}
    /\ UNCHANGED <<used, free_pages, used_pages, granted>>

\* What callers do: they free what they hold, or the null of a failed call
\* (main.c frees its test page without looking).
PmmNext ==
    \/ \E p \in Pages \cup {NULL} : AllocPage(p)
    \/ \E n \in RunLengths : \E s \in Pages \cup {NULL} : AllocPages(n, s)
    \/ \E p \in granted \cup {NULL} : FreePage(p)
    \/ \E n \in RunLengths : \E s \in Pages : Run(s, n) \subseteq granted /\ FreePages(s, n)
    \/ \E p \in granted : Write(p)

PmmSpec == PmmInit /\ [][PmmNext]_pmmVars

-----------------------------------------------------------------------------
(***************************************************************************)
(* The loop of pmm_alloc_pages as it is written: try n pages at i, and on  *)
(* a set bit at i + j go on behind it.                                     *)
(***************************************************************************)
FirstSet(i, n) == CHOOSE j \in 0 .. n - 1 : i + j \in used /\ \A k \in 0 .. j - 1 : i + k \notin used

\* Mutant of ScanStep: the whole run is jumped over.
ScanStepTooFar(i, n) == i + n

ScanStep(i, n) == i + FirstSet(i, n) + 1

Scan(n) ==
    LET from[i \in Nat] ==
          IF i + n > TotalPages THEN NULL
          ELSE IF Run(i, n) \cap used = {} THEN i
          ELSE from[ScanStep(i, n)]
    IN  from[0]

-----------------------------------------------------------------------------
\* The bitmap and the history name pages, the counters are numbers (pmm.c).
PmmTypeOK ==
    /\ used \subseteq Pages /\ dirty \subseteq Pages /\ granted \subseteq Pages
    /\ free_pages \in Nat /\ used_pages \in Nat

\* The counters that pmm_dump, free and the heap report agree with the bitmap
\* (pmm.c: free_pages and used_pages are kept by hand in four functions).
CountersExact ==
    /\ used_pages = Cardinality(used)
    /\ free_pages + used_pages = TotalPages

\* A bit is set for a page somebody holds, and for nothing else but the
\* bitmap's own page: no page is granted twice and none is lost.
GrantsMatchBitmap == used = granted \cup ({BitmapPage} \cap Pages)

\* The loop with its jumps finds what a search of every start would find.
ScanIsFirstFit ==
    \A n \in 1 .. TotalPages + 1 :
        IF NoFit(n) THEN Scan(n) = NULL ELSE FirstFit(n, Scan(n))

\* Whatever is granted is granted to one holder, as zeroes: callers use a fresh
\* page as an empty page table and a fresh run as a stack (vmm.c, process.c).
GrantsAreFreshAndZero ==
    [][\A p \in granted' \ granted : p \notin used /\ p \notin dirty']_pmmVars
=============================================================================
