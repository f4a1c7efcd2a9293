---------------------------- MODULE MemoryProofs ----------------------------
(***************************************************************************)
(* Proofs about the page allocator and about vmm.c as its client, for any  *)
(* number of pages, any boot tables and any addresses.                     *)
(***************************************************************************)
EXTENDS AddressSpace, FiniteSetTheorems, TLAPS

LEMMA PagesFinite ==
    /\ IsFiniteSet(Pages) /\ Cardinality(Pages) = TotalPages
    /\ \A S : S \subseteq Pages => IsFiniteSet(S) /\ Cardinality(S) \in Nat
<1>1. 0 \in Int /\ TotalPages - 1 \in Int /\ TotalPages \in Nat
  BY PageAllocatorAssumption
<1>2. IsFiniteSet(Pages) /\ Cardinality(Pages) = TotalPages
  BY <1>1, FS_Interval DEF Pages
<1> QED BY <1>2, FS_Subset, FS_CardinalityType

\* A run of n clear pages below TotalPages adds n to the number of set bits.
LEMMA RunCounts ==
    ASSUME NEW S \in SUBSET Pages, NEW s \in Pages, NEW n \in Nat, s + n <= TotalPages,
           Run(s, n) \cap S = {}
    PROVE  /\ Run(s, n) \subseteq Pages
           /\ Cardinality(S \cup Run(s, n)) = Cardinality(S) + n
<1>1. s \in Int /\ s + n - 1 \in Int /\ TotalPages \in Nat /\ s >= 0
  BY PageAllocatorAssumption DEF Pages
<1>2. Run(s, n) \subseteq Pages
  BY <1>1 DEF Run, Pages
<1>3. Cardinality(Run(s, n)) = n
  <2> DEFINE b == s + n - 1
  <2>1. Cardinality(s .. b) = IF s > b THEN 0 ELSE b - s + 1
    BY <1>1, FS_Interval
  <2> QED BY <1>1, <2>1 DEF Run
<1>4. IsFiniteSet(S) /\ IsFiniteSet(Run(s, n)) /\ Cardinality(S) \in Nat
  BY <1>2, PagesFinite
<1>5. Cardinality(S \cup Run(s, n)) = Cardinality(S) + Cardinality(Run(s, n)) - Cardinality(S \cap Run(s, n))
  BY <1>4, FS_Union
<1>6. Cardinality(S \cap Run(s, n)) = 0
  <2>1. S \cap Run(s, n) = {}
    OBVIOUS
  <2> QED BY <2>1, FS_EmptySet
<1> QED BY <1>2, <1>3, <1>4, <1>5, <1>6

\* Clearing the bits of a set C that are set.
LEMMA ClearCounts ==
    ASSUME NEW S \in SUBSET Pages, NEW C \in SUBSET S
    PROVE  Cardinality(S \ C) = Cardinality(S) - Cardinality(C) /\ Cardinality(C) <= Cardinality(S)
<1>1. IsFiniteSet(S) /\ IsFiniteSet(C) /\ Cardinality(S) \in Nat /\ Cardinality(C) \in Nat
      /\ Cardinality(S \ C) \in Nat
  BY PagesFinite
<1>2. Cardinality(S \ C) = Cardinality(S) - Cardinality(S \cap C)
  BY <1>1, FS_Difference
<1>3. S \cap C = C
  OBVIOUS
<1> QED BY <1>1, <1>2, <1>3, FS_Subset

-----------------------------------------------------------------------------
PmmInv == PmmTypeOK /\ CountersExact /\ GrantsMatchBitmap /\ BitmapPage \notin granted

LEMMA PmmInitInv == PmmInit => PmmInv
<1> SUFFICES ASSUME PmmInit PROVE PmmInv
  OBVIOUS
<1>1. used \subseteq Pages /\ granted \subseteq Pages /\ dirty \subseteq Pages
      /\ GrantsMatchBitmap /\ BitmapPage \notin granted
  BY DEF PmmInit, BitmapBits, GrantsMatchBitmap
<1>2. CASE BitmapPage \in Pages
  <2>1. used = {BitmapPage} /\ used_pages = 1 /\ free_pages = TotalPages - 1
    BY <1>2 DEF PmmInit, BitmapBits
  <2>2. TotalPages >= 1 /\ TotalPages \in Nat
    BY <1>2, PageAllocatorAssumption DEF Pages
  <2>3. Cardinality({BitmapPage}) = 1
    BY FS_Singleton
  <2> QED BY <1>1, <2>1, <2>2, <2>3 DEF PmmInv, PmmTypeOK, CountersExact
<1>3. CASE BitmapPage \notin Pages
  <2>1. used = {} /\ used_pages = 0 /\ free_pages = TotalPages /\ TotalPages \in Nat
    BY <1>3, PageAllocatorAssumption DEF PmmInit, BitmapBits
  <2>2. Cardinality({}) = 0
    BY FS_EmptySet
  <2> QED BY <1>1, <2>1, <2>2 DEF PmmInv, PmmTypeOK, CountersExact
<1> QED BY <1>2, <1>3

LEMMA GrantInv ==
    ASSUME PmmInv, NEW n \in Nat \ {0}, NEW s \in Pages, FirstFit(n, s), Grant(s, n)
    PROVE  PmmInv'
<1>1. used \in SUBSET Pages /\ s + n <= TotalPages /\ Run(s, n) \cap used = {}
  BY DEF PmmInv, PmmTypeOK, FirstFit
<1>2. Run(s, n) \subseteq Pages /\ Cardinality(used') = Cardinality(used) + n
  BY <1>1, RunCounts DEF Grant
<1>3. Cardinality(used') <= TotalPages
  <2>1. used' \in SUBSET Pages
    BY <1>1, <1>2 DEF Grant
  <2> QED BY <2>1, PagesFinite, FS_Subset
<1>4. CountersExact' /\ free_pages' \in Nat /\ used_pages' \in Nat
  BY <1>2, <1>3, PageAllocatorAssumption DEF PmmInv, PmmTypeOK, CountersExact, Grant
<1>5. GrantsMatchBitmap' /\ BitmapPage \notin granted'
  BY <1>1, <1>2 DEF PmmInv, GrantsMatchBitmap, Grant
<1> QED BY <1>2, <1>4, <1>5 DEF PmmInv, PmmTypeOK, Grant

LEMMA FreeInv ==
    ASSUME PmmInv, NEW C \in SUBSET granted,
           used' = used \ C, granted' = granted \ C, dirty' = dirty,
           free_pages' = free_pages + Cardinality(C), used_pages' = used_pages - Cardinality(C)
    PROVE  PmmInv'
<1>1. used \in SUBSET Pages /\ C \in SUBSET used
  BY DEF PmmInv, PmmTypeOK, GrantsMatchBitmap
<1>2. Cardinality(used') = Cardinality(used) - Cardinality(C) /\ Cardinality(C) <= Cardinality(used)
  BY <1>1, ClearCounts
<1>3. Cardinality(C) \in Nat /\ Cardinality(used) \in Nat
  BY <1>1, PagesFinite
<1>4. CountersExact' /\ free_pages' \in Nat /\ used_pages' \in Nat
  BY <1>2, <1>3 DEF PmmInv, PmmTypeOK, CountersExact
<1>5. GrantsMatchBitmap' /\ BitmapPage \notin granted'
  BY DEF PmmInv, GrantsMatchBitmap
<1> QED BY <1>1, <1>4, <1>5 DEF PmmInv, PmmTypeOK

\* Every step of the allocator's callers keeps the invariant and grants pages
\* that are free and zeroed.
LEMMA PmmStep ==
    ASSUME PmmInv, [PmmNext]_pmmVars
    PROVE  /\ PmmInv'
           /\ \A p \in granted' \ granted : p \notin used /\ p \notin dirty'
<1> USE PageAllocatorAssumption
<1>1. ASSUME NEW n \in Nat \ {0}, NEW s \in Pages, FirstFit(n, s), Grant(s, n)
      PROVE  /\ PmmInv'
             /\ \A p \in granted' \ granted : p \notin used /\ p \notin dirty'
  BY <1>1, GrantInv DEF FirstFit, Grant
<1>2. CASE UNCHANGED pmmVars
  BY <1>2 DEF pmmVars, PmmInv, PmmTypeOK, CountersExact, GrantsMatchBitmap
<1>3. ASSUME NEW p \in Pages \cup {NULL}, AllocPage(p)
      PROVE  /\ PmmInv'
             /\ \A q \in granted' \ granted : q \notin used /\ q \notin dirty'
  BY <1>1, <1>2, <1>3 DEF AllocPage
<1>4. ASSUME NEW n \in RunLengths, NEW s \in Pages \cup {NULL}, AllocPages(n, s)
      PROVE  /\ PmmInv'
             /\ \A q \in granted' \ granted : q \notin used /\ q \notin dirty'
  BY <1>1, <1>2, <1>4 DEF AllocPages
<1>5. ASSUME NEW p \in granted \cup {NULL}, FreePage(p)
      PROVE  PmmInv' /\ granted' \subseteq granted
  <2>1. CASE p \in Pages /\ p \in used
    <3>1. p \in granted
      <4>1. NULL \notin Pages
        BY DEF NULL, Pages
      <4> QED BY <1>5, <2>1, <4>1
    <3>2. Cardinality({p}) = 1
      BY FS_Singleton
    <3>3. /\ used' = used \ {p} /\ granted' = granted \ {p} /\ dirty' = dirty
          /\ free_pages' = free_pages + Cardinality({p})
          /\ used_pages' = used_pages - Cardinality({p})
      BY <1>5, <2>1, <3>2 DEF FreePage
    <3> QED BY <3>1, <3>3, FreeInv
  <2>2. CASE ~(p \in Pages /\ p \in used)
    <3>1. UNCHANGED pmmVars
      BY <1>5, <2>2 DEF FreePage
    <3> QED BY <1>2, <3>1 DEF pmmVars
  <2> QED BY <2>1, <2>2
<1>6. ASSUME NEW n \in RunLengths, NEW s \in Pages, Run(s, n) \subseteq granted, FreePages(s, n)
      PROVE  PmmInv' /\ granted' \subseteq granted
  <2> DEFINE C == Run(s, n) \cap used
  <2>1. C \in SUBSET granted
    BY <1>6
  <2> QED BY <1>6, <2>1, FreeInv DEF FreePages
<1>7. ASSUME NEW p \in granted, Write(p)
      PROVE  PmmInv' /\ granted' \subseteq granted
  BY <1>7 DEF Write, PmmInv, PmmTypeOK, CountersExact, GrantsMatchBitmap
<1> QED BY <1>2, <1>3, <1>4, <1>5, <1>6, <1>7 DEF PmmNext, pmmVars

-----------------------------------------------------------------------------
(***************************************************************************)
(* vmm.c and vmm_test as callers of the allocator.                         *)
(***************************************************************************)

TestSteps == {"start", "mapping", "write", "unmap", "free"}

\* The page vmm_test holds is granted to it and is no table; tables stay granted.
CallersInv ==
    /\ tables \subseteq granted
    /\ test \in [pc : TestSteps, va : TestAddresses \cup {<<>>}, phys : Pages \cup {NULL}]
    /\ test.pc # "start" => test.phys \in granted \ tables

AsInv == PmmInv /\ CallersInv

LEMMA AsInitInv == AsInit => AsInv
BY PmmInitInv DEF AsInit, AsInv, CallersInv, PmmInit, TestSteps

LEMMA AsStepInv == AsInv /\ [AsNext]_asVars => AsInv' /\ [PmmNext]_pmmVars
<1> SUFFICES ASSUME AsInv, [AsNext]_asVars PROVE AsInv' /\ [PmmNext]_pmmVars
  OBVIOUS
<1>0. /\ granted \subseteq used /\ NULL \notin Pages /\ granted \subseteq Pages
  BY DEF AsInv, PmmInv, PmmTypeOK, GrantsMatchBitmap, NULL, Pages
<1>a. ASSUME NEW p \in Pages \cup {NULL}, AllocPage(p)
      PROVE  /\ PmmNext /\ granted \subseteq granted'
             /\ p # NULL => p \in granted' /\ p \notin granted
  <2>1. PmmNext
    BY <1>a DEF PmmNext
  <2>2. CASE FirstFit(1, p) /\ Grant(p, 1) /\ p \in Pages
    <3>1. Run(p, 1) = {p}
      BY <2>2 DEF Run, Pages
    <3>2. p \notin used /\ granted' = granted \cup {p}
      BY <2>2, <3>1 DEF FirstFit, Grant
    <3> QED BY <1>0, <2>1, <3>2
  <2>3. CASE p = NULL /\ UNCHANGED pmmVars
    BY <2>1, <2>3 DEF pmmVars
  <2> QED BY <1>a, <2>2, <2>3 DEF AllocPage
<1>1. CASE MapTable
  <2>1. test' = test
    BY <1>1 DEF MapTable
  <2>2. CASE UNCHANGED <<tables, pmmVars>>
    BY <2>1, <2>2, PmmStep DEF AsInv, CallersInv, pmmVars
  <2>3. ASSUME NEW p \in Pages \cup {NULL}, AllocPage(p),
               \/ p = NULL /\ tables' = tables
               \/ p # NULL /\ tables' = tables \cup {p}
        PROVE  AsInv' /\ [PmmNext]_pmmVars
    BY <1>a, <2>1, <2>3, PmmStep DEF AsInv, CallersInv
  <2> QED BY <1>1, <2>2, <2>3 DEF MapTable
<1>2. CASE MapLeaf \/ TestMapped \/ TestUnmap
  <2>1. UNCHANGED <<tables, pmmVars>>
    BY <1>2 DEF MapLeaf, TestMapped, TestUnmap
  <2> DEFINE T(pc) == [pc |-> pc, va |-> test.va, phys |-> test.phys]
  <2>2. test' = test \/ test' = T("start")
        \/ (test.pc # "start" /\ (test' = T("write") \/ test' = T("free")))
    <3>1. test \in [pc : TestSteps, va : TestAddresses \cup {<<>>}, phys : Pages \cup {NULL}]
      BY DEF AsInv, CallersInv
    <3>2. CASE MapLeaf
      BY <3>2 DEF MapLeaf
    <3>3. CASE TestMapped
      <4>1. CASE map.result = "mapped"
        BY <3>1, <3>3, <4>1 DEF TestMapped
      <4>2. CASE map.result # "mapped"
        BY <3>1, <3>3, <4>2 DEF TestMapped
      <4> QED BY <4>1, <4>2
    <3>4. CASE TestUnmap
      BY <3>1, <3>4 DEF TestUnmap
    <3> QED BY <1>2, <3>2, <3>3, <3>4
  <2>3. CallersInv'
    BY <2>1, <2>2 DEF AsInv, CallersInv, pmmVars, TestSteps
  <2> QED BY <2>1, <2>3, PmmStep DEF AsInv
<1>3. CASE TestAlloc
  <2>1. PICK p \in Pages \cup {NULL}, va \in TestAddresses :
          /\ AllocPage(p) /\ tables' = tables
          /\ \/ p = NULL /\ test' = test /\ test.pc = "start"
             \/ p # NULL /\ test' = [pc |-> "mapping", va |-> va, phys |-> p]
    BY <1>3 DEF TestAlloc
  <2>2. PmmInv' /\ PmmNext /\ granted \subseteq granted' /\ (p # NULL => p \in granted' /\ p \notin granted)
    BY <1>a, <2>1, PmmStep DEF AsInv
  <2>3. CallersInv'
    BY <2>1, <2>2 DEF AsInv, CallersInv, TestSteps
  <2> QED BY <2>2, <2>3 DEF AsInv
<1>4. CASE TestWrite
  <2>1. Write(test.phys) /\ tables' = tables /\ test' = [test EXCEPT !.pc = "unmap"] /\ test.pc = "write"
    BY <1>4 DEF TestWrite
  <2>2. test.phys \in granted /\ granted' = granted /\ test'.phys = test.phys
        /\ test' = [pc |-> "unmap", va |-> test.va, phys |-> test.phys]
    BY <2>1 DEF Write, AsInv, CallersInv
  <2>3. PmmNext
    BY <2>1, <2>2 DEF PmmNext
  <2>4. CallersInv'
    BY <2>1, <2>2 DEF AsInv, CallersInv, TestSteps
  <2> QED BY <2>3, <2>4, PmmStep DEF AsInv
<1>5. CASE TestFree
  <2>1. FreePage(test.phys) /\ tables' = tables /\ test.pc = "free"
        /\ test' = [pc |-> "start", va |-> <<>>, phys |-> NULL]
    BY <1>5 DEF TestFree
  <2>2. test.phys \in granted \ tables
    BY <2>1 DEF AsInv, CallersInv
  <2>3. PmmNext
    BY <2>1, <2>2 DEF PmmNext
  <2>4. tables \subseteq granted'
    BY <2>1, <2>2 DEF FreePage, pmmVars, AsInv, CallersInv
  <2>5. CallersInv'
    BY <2>1, <2>4 DEF CallersInv, TestSteps
  <2> QED BY <2>3, <2>5, PmmStep DEF AsInv
<1>6. CASE OtherCaller
  <2>1. test' = test /\ tables' = tables /\ test.pc = "start"
    BY <1>6 DEF OtherCaller
  <2>2. ASSUME NEW n \in RunLengths, NEW s \in Pages \cup {NULL}, AllocPages(n, s)
        PROVE  PmmNext /\ granted \subseteq granted'
    BY <2>2 DEF PmmNext, AllocPages, Grant, pmmVars
  <2>3. ASSUME NEW n \in RunLengths, NEW s \in Pages, Run(s, n) \subseteq Held,
               FreePages(s, n)
        PROVE  PmmNext /\ tables \subseteq granted'
    <3>1. Run(s, n) \subseteq granted \ tables
      BY <2>3 DEF Held
    <3>2. granted' = granted \ (Run(s, n) \cap used)
      BY <2>3 DEF FreePages
    <3> QED BY <2>3, <3>1, <3>2 DEF PmmNext, AsInv, CallersInv
  <2>4. ASSUME NEW p \in Held \cup {NULL}, FreePage(p)
        PROVE  PmmNext /\ tables \subseteq granted'
    <3>1. PmmNext
      BY <2>4 DEF Held, PmmNext
    <3>2. p \notin tables
      BY <1>0, <2>4 DEF Held, AsInv, CallersInv, PmmInv, PmmTypeOK
    <3>3. granted' = granted \/ granted' = granted \ {p}
      BY <2>4 DEF FreePage, pmmVars
    <3> QED BY <3>1, <3>2, <3>3 DEF AsInv, CallersInv
  <2>5. ASSUME NEW p \in Held, Write(p)
        PROVE  PmmNext /\ granted' = granted
    BY <2>5 DEF Held, PmmNext, Write
  <2>6. PmmNext /\ tables \subseteq granted'
    BY <1>6, <2>2, <2>3, <2>4, <2>5 DEF OtherCaller, AsInv, CallersInv
  <2>7. CallersInv'
    BY <2>1, <2>6 DEF AsInv, CallersInv
  <2> QED BY <2>6, <2>7, PmmStep DEF AsInv
<1>7. CASE UNCHANGED asVars
  <2>1. UNCHANGED pmmVars /\ test' = test /\ tables' = tables
    BY <1>7 DEF asVars
  <2> QED BY <2>1, PmmStep DEF pmmVars, AsInv, CallersInv
<1> QED BY <1>1, <1>2, <1>3, <1>4, <1>5, <1>6, <1>7 DEF AsNext

\* vmm.c and vmm_test use the allocator the way it expects to be used: they free
\* only pages they hold.
THEOREM CallersKeepTheContract == AsSpec => PmmSpec
<1>1. AsInit => PmmInit
  BY DEF AsInit
<1> QED BY <1>1, AsInitInv, AsStepInv, PTL DEF AsSpec, PmmSpec

\* The counters kept by hand agree with the bitmap, whatever the callers do.
THEOREM CountersAlwaysExact == AsSpec => []CountersExact
<1>1. AsInv => CountersExact
  BY DEF AsInv, PmmInv
<1> QED BY <1>1, AsInitInv, AsStepInv, PTL DEF AsSpec

\* No page is lost and none is granted twice.
THEOREM BitmapAlwaysMatches == AsSpec => []GrantsMatchBitmap
<1>1. AsInv => GrantsMatchBitmap
  BY DEF AsInv, PmmInv
<1> QED BY <1>1, AsInitInv, AsStepInv, PTL DEF AsSpec

\* Every page granted was free and comes zeroed: it can serve as an empty table.
THEOREM GrantsAlwaysFreshAndZero == AsSpec => GrantsAreFreshAndZero
<1>1. AsInv /\ [AsNext]_asVars =>
        [\A p \in granted' \ granted : p \notin used /\ p \notin dirty']_pmmVars
  BY AsStepInv, PmmStep DEF AsInv
<1> QED BY <1>1, AsInitInv, AsStepInv, PTL DEF AsSpec, GrantsAreFreshAndZero

\* A page that became a table is never free again.
THEOREM TablesNeverFreed == AsSpec => [](tables \subseteq used)
<1>1. AsInv => tables \subseteq used
  BY DEF AsInv, PmmInv, CallersInv, GrantsMatchBitmap
<1> QED BY <1>1, AsInitInv, AsStepInv, PTL DEF AsSpec

-----------------------------------------------------------------------------
(***************************************************************************)
(* The tables.  They form levels; an entry of a table leads one level down *)
(* and to a table that is kept, and the only 4 KB page that is ever mapped *)
(* is the one vmm_test holds.                                              *)
(***************************************************************************)
Kept == BootTables \cup tables

\* A level for every table: 4 for the PML4, 1 for those whose entries are leaves.
Levels(level) ==
    /\ level \in [Frames -> 1 .. 4] /\ level[PML4] = 4
    /\ \A f \in Kept, s \in Slots :
         /\ entries[f][s].kind = "table" =>
              entries[f][s].to \in Kept /\ level[entries[f][s].to] = level[f] - 1
         /\ entries[f][s].kind = "page" => level[f] = 1
    /\ map.level # 0 => map.table \in Kept /\ level[map.table] = map.level

\* No new table is entered twice.
EnteredOnce ==
    \A f, g \in Kept, s, t \in Slots :
        /\ entries[f][s].kind = "table" /\ entries[g][t].kind = "table"
        /\ entries[f][s].to = entries[g][t].to /\ entries[f][s].to \in tables
        => f = g /\ s = t

\* vmm_map_page works for vmm_test, and stands where the address leads.
OnItsWay ==
    LET e4 == entries[PML4][map.va[1]]
        e3 == entries[e4.to][map.va[2]]
        e2 == entries[e3.to][map.va[3]]
    IN  /\ map \in [level : 0 .. 4, table : Frames, va : Addresses \cup {<<>>}, pa : Pages \cup {NULL},
                    result : {"none", "failed", "mapped"}]
        /\ test.pc # "start" => test.va \in Addresses
        /\ test.pc = "mapping" => map.va = test.va /\ map.pa = test.phys
        /\ map.level # 0 => test.pc = "mapping" /\ map.result = "none"
        /\ map.level = 4 => map.table = PML4
        /\ map.level = 3 => e4.kind = "table" /\ map.table = e4.to
        /\ map.level = 2 => e4.kind = "table" /\ e3.kind = "table" /\ map.table = e3.to
        /\ map.level = 1 => /\ e4.kind = "table" /\ e3.kind = "table" /\ e2.kind = "table"
                            /\ map.table = e2.to

\* vmm_test has its mapping, from MapLeaf to TestUnmap.
Mapped == test.pc \in {"write", "unmap"} \/ (test.pc = "mapping" /\ map.level = 0 /\ map.result = "mapped")

\* Its leaf is there then, and no other ever.
OneLeaf ==
    /\ Mapped => /\ LeafTable(entries, test.va) \in Kept
                 /\ entries[LeafTable(entries, test.va)][test.va[4]] = Leaf(test.phys)
    /\ \A f \in Kept, s \in Slots : entries[f][s].kind = "page" =>
         Mapped /\ f = LeafTable(entries, test.va) /\ s = test.va[4]

VmmInv ==
    /\ entries \in [Frames -> [Slots -> Entries]]
    /\ \A f \in Frames, s \in Slots : entries[f][s].kind = "none" => entries[f][s] = NoEntry
    /\ EnteredOnce /\ OnItsWay /\ OneLeaf
    /\ \E level \in [Frames -> 1 .. 4] : Levels(level)


LEMMA VmmInit == AsInit => VmmInv
<1> SUFFICES ASSUME AsInit PROVE VmmInv
  OBVIOUS
<1> USE BootAssumption
<1>1. /\ entries = [f \in Frames |-> IF f \in BootTables THEN BootEntries[f] ELSE [s \in Slots |-> NoEntry]]
      /\ map = Idle /\ test = [pc |-> "start", va |-> <<>>, phys |-> NULL] /\ tables = {}
  BY DEF AsInit
<1>2. /\ NoEntry \in Entries /\ BootTables \subseteq Frames /\ Kept = BootTables
      /\ \A f \in BootTables : entries[f] = BootEntries[f]
      /\ \A f \in Frames \ BootTables, s \in Slots : entries[f][s] = NoEntry
  BY <1>1 DEF NoEntry, Entries, Unmapped, Frames, Kept
<1>3. entries \in [Frames -> [Slots -> Entries]]
  BY <1>1, <1>2
<1>4. PICK depth \in [BootTables -> 2 .. 4] :
         /\ depth[PML4] = 4
         /\ \A f \in BootTables, s \in Slots :
              \/ BootEntries[f][s] = NoEntry \/ BootEntries[f][s].kind = "huge"
              \/ /\ BootEntries[f][s].kind = "table" /\ BootEntries[f][s].to \in BootTables
                 /\ depth[BootEntries[f][s].to] = depth[f] - 1
  BY BootAssumption
<1> DEFINE level == [f \in Frames |-> IF f \in BootTables THEN depth[f] ELSE 1]
<1>5. Levels(level)
  <2>1. level \in [Frames -> 1 .. 4] /\ \A f \in BootTables : level[f] = depth[f]
    BY <1>2
  <2>2. \A f \in Kept, s \in Slots :
          /\ entries[f][s].kind = "table" =>
               entries[f][s].to \in Kept /\ level[entries[f][s].to] = level[f] - 1
          /\ entries[f][s].kind # "page"
    BY <1>2, <1>4, <2>1 DEF NoEntry
  <2>3. map.level = 0
    BY <1>1 DEF Idle
  <2> HIDE DEF level
  <2> QED BY <1>4, <2>1, <2>2, <2>3 DEF Levels
<1>6. \A f \in Frames, s \in Slots : entries[f][s].kind = "none" => entries[f][s] = NoEntry
  BY <1>2, <1>4
<1>7. EnteredOnce
  BY <1>1, <1>5 DEF EnteredOnce
<1>8. OnItsWay
  <2>1. Idle \in [level : 0 .. 4, table : Frames, va : Addresses \cup {<<>>}, pa : Pages \cup {NULL},
                  result : {"none", "failed", "mapped"}]
    BY <1>2 DEF Idle
  <2>2. map.level = 0 /\ test.pc = "start"
    BY <1>1 DEF Idle
  <2> QED BY <1>1, <2>1, <2>2 DEF OnItsWay
<1>9. OneLeaf
  <2>1. \A f \in Kept, s \in Slots : entries[f][s].kind # "page"
    BY <1>2, <1>4 DEF NoEntry
  <2> QED BY <1>1, <2>1 DEF OneLeaf, Mapped
<1> QED BY <1>3, <1>5, <1>6, <1>7, <1>8, <1>9 DEF VmmInv, Levels

\* The four entries that es has for va.
Walk(es, va, e4, e3, e2, e1) ==
    /\ e4 = es[PML4][va[1]] /\ e3 = es[e4.to][va[2]]
    /\ e2 = es[e3.to][va[3]] /\ e1 = es[e2.to][va[4]]

LEMMA WalkExists ==
    ASSUME NEW es, NEW va
    PROVE  \E e4, e3, e2, e1 : Walk(es, va, e4, e3, e2, e1)
BY Zenon DEF Walk

LEMMA WalkLeads ==
    ASSUME NEW es, NEW va, NEW e4, NEW e3, NEW e2, NEW e1, Walk(es, va, e4, e3, e2, e1)
    PROVE  /\ Translate(es, va) =
                IF e4.kind # "table" THEN Unmapped
                ELSE IF e3.kind = "none" THEN Unmapped ELSE IF e3.kind # "table" THEN e3.to
                ELSE IF e2.kind = "none" THEN Unmapped ELSE IF e2.kind # "table" THEN e2.to
                ELSE IF e1.kind = "none" THEN Unmapped ELSE e1.to
           /\ LeafTable(es, va) =
                IF e4.kind = "table" /\ e3.kind = "table" /\ e2.kind = "table" THEN e2.to ELSE Unmapped
BY Zenon DEF Walk, Translate, LeafTable

\* The tables an address goes through are kept and lie at its levels.
LEMMA WayDown ==
    ASSUME NEW level, Levels(level), NEW va \in Addresses,
           NEW e4, NEW e3, NEW e2, NEW e1, Walk(entries, va, e4, e3, e2, e1)
    PROVE  /\ va[1] \in Slots /\ va[2] \in Slots /\ va[3] \in Slots /\ va[4] \in Slots
           /\ PML4 \in Kept /\ level[PML4] = 4
           /\ e4.kind = "table" => e4.to \in Kept /\ level[e4.to] = 3
           /\ e4.kind = "table" /\ e3.kind = "table" => e3.to \in Kept /\ level[e3.to] = 2
           /\ e4.kind = "table" /\ e3.kind = "table" /\ e2.kind = "table" =>
                e2.to \in Kept /\ level[e2.to] = 1
<1>1. va[1] \in Slots /\ va[2] \in Slots /\ va[3] \in Slots /\ va[4] \in Slots
  BY DEF Addresses
<1>2. PML4 \in Kept /\ level[PML4] = 4
  BY BootAssumption DEF Levels, Kept
<1>3. \A f \in Kept, s \in Slots : entries[f][s].kind = "table" =>
         entries[f][s].to \in Kept /\ level[entries[f][s].to] = level[f] - 1
  BY DEF Levels
<1>4. e4.kind = "table" => e4.to \in Kept /\ level[e4.to] = 3
  <2>1. e4 = entries[PML4][va[1]]
    BY Zenon DEF Walk
  <2> QED BY <1>1, <1>2, <1>3, <2>1
<1>5. e4.kind = "table" /\ e3.kind = "table" => e3.to \in Kept /\ level[e3.to] = 2
  <2> SUFFICES ASSUME e4.kind = "table", e3.kind = "table" PROVE e3.to \in Kept /\ level[e3.to] = 2
    OBVIOUS
  <2>1. e3 = entries[e4.to][va[2]]
    BY Zenon DEF Walk
  <2>2. e4.to \in Kept /\ level[e4.to] = 3
    BY <1>4
  <2> QED BY <1>1, <1>3, <2>1, <2>2
<1>6. e4.kind = "table" /\ e3.kind = "table" /\ e2.kind = "table" => e2.to \in Kept /\ level[e2.to] = 1
  <2> SUFFICES ASSUME e4.kind = "table", e3.kind = "table", e2.kind = "table"
               PROVE  e2.to \in Kept /\ level[e2.to] = 1
    OBVIOUS
  <2>1. e2 = entries[e3.to][va[3]]
    BY Zenon DEF Walk
  <2>2. e3.to \in Kept /\ level[e3.to] = 2
    BY <1>5
  <2> QED BY <1>1, <1>3, <2>1, <2>2
<1> QED BY <1>1, <1>2, <1>4, <1>5, <1>6

\* One entry of a table of leaves is written: only addresses with that very leaf
\* can lead elsewhere, and no way down changes.
LEMMA LeafWritten ==
    ASSUME NEW level, Levels(level), NEW t \in Kept, level[t] = 1, NEW i \in Slots,
           NEW es, \A f \in Kept, s \in Slots : f # t \/ s # i => es[f][s] = entries[f][s],
           NEW va \in Addresses
    PROVE  /\ LeafTable(es, va) = LeafTable(entries, va)
           /\ Translate(es, va) # Translate(entries, va) =>
                LeafTable(es, va) = t /\ va[4] = i
<1>1. PICK e4, e3, e2, e1 : Walk(entries, va, e4, e3, e2, e1)
  BY WalkExists
<1>2. PICK d4, d3, d2, d1 : Walk(es, va, d4, d3, d2, d1)
  BY WalkExists
<1>3. /\ va[1] \in Slots /\ va[2] \in Slots /\ va[3] \in Slots /\ va[4] \in Slots
      /\ PML4 \in Kept /\ level[PML4] = 4
      /\ e4.kind = "table" => e4.to \in Kept /\ level[e4.to] = 3
      /\ e4.kind = "table" /\ e3.kind = "table" => e3.to \in Kept /\ level[e3.to] = 2
      /\ e4.kind = "table" /\ e3.kind = "table" /\ e2.kind = "table" => e2.to \in Kept
  BY <1>1, WayDown
<1>a. e4 = entries[PML4][va[1]] /\ d4 = es[PML4][va[1]]
  BY <1>1, <1>2, Zenon DEF Walk
<1>b. e3 = entries[e4.to][va[2]] /\ d3 = es[d4.to][va[2]]
  BY <1>1, <1>2, Zenon DEF Walk
<1>c. e2 = entries[e3.to][va[3]] /\ d2 = es[d3.to][va[3]]
  BY <1>1, <1>2, Zenon DEF Walk
<1>d. e1 = entries[e2.to][va[4]] /\ d1 = es[d2.to][va[4]]
  BY <1>1, <1>2, Zenon DEF Walk
<1>4. d4 = e4
  BY <1>3, <1>a
<1>5. e4.kind = "table" => d3 = e3
  BY <1>3, <1>4, <1>b
<1>6. e4.kind = "table" /\ e3.kind = "table" => d2 = e2
  BY <1>3, <1>5, <1>c
<1>7. e4.kind = "table" /\ e3.kind = "table" /\ e2.kind = "table" =>
        d1 = e1 \/ (e2.to = t /\ va[4] = i)
  BY <1>3, <1>6, <1>d
<1>8. /\ LeafTable(es, va) = LeafTable(entries, va)
      /\ e4.kind = "table" /\ e3.kind = "table" /\ e2.kind = "table" => LeafTable(es, va) = e2.to
  BY <1>1, <1>2, <1>4, <1>5, <1>6, WalkLeads
<1> QED BY <1>1, <1>2, <1>4, <1>5, <1>6, <1>7, <1>8, WalkLeads

\* An empty table is entered where nothing was: no address leads elsewhere.
LEMMA TableEntered ==
    ASSUME NEW level, Levels(level), NEW t \in Kept, level[t] > 1, NEW i \in Slots,
           entries[t][i].kind = "none", NEW p, NEW es, es[t][i] = Table(p),
           \A s \in Slots : es[p][s] = NoEntry,
           \A f \in Kept, s \in Slots : f # t \/ s # i => es[f][s] = entries[f][s],
           NEW va \in Addresses
    PROVE  Translate(es, va) = Translate(entries, va)
<1>1. PICK e4, e3, e2, e1 : Walk(entries, va, e4, e3, e2, e1)
  BY WalkExists
<1>2. PICK d4, d3, d2, d1 : Walk(es, va, d4, d3, d2, d1)
  BY WalkExists
<1>3. /\ va[1] \in Slots /\ va[2] \in Slots /\ va[3] \in Slots /\ va[4] \in Slots
      /\ PML4 \in Kept
      /\ e4.kind = "table" => e4.to \in Kept
      /\ e4.kind = "table" /\ e3.kind = "table" => e3.to \in Kept
      /\ e4.kind = "table" /\ e3.kind = "table" /\ e2.kind = "table" =>
           e2.to \in Kept /\ level[e2.to] = 1
  BY <1>1, WayDown
<1>4. Table(p).kind = "table" /\ Table(p).to = p /\ NoEntry.kind = "none"
  BY DEF Table, NoEntry
<1>a. e4 = entries[PML4][va[1]] /\ d4 = es[PML4][va[1]]
  BY <1>1, <1>2, Zenon DEF Walk
<1>b. e3 = entries[e4.to][va[2]] /\ d3 = es[d4.to][va[2]]
  BY <1>1, <1>2, Zenon DEF Walk
<1>c. e2 = entries[e3.to][va[3]] /\ d2 = es[d3.to][va[3]]
  BY <1>1, <1>2, Zenon DEF Walk
<1>d. e1 = entries[e2.to][va[4]] /\ d1 = es[d2.to][va[4]]
  BY <1>1, <1>2, Zenon DEF Walk
<1>5. d4 = e4 \/ (e4.kind = "none" /\ d4.kind = "table" /\ d3.kind = "none")
  BY <1>3, <1>4, <1>a, <1>b
<1>6. e4.kind = "table" /\ d4 = e4 =>
        d3 = e3 \/ (e3.kind = "none" /\ d3.kind = "table" /\ d2.kind = "none")
  <2> SUFFICES ASSUME e4.kind = "table", d4 = e4, d3 # e3
               PROVE  e3.kind = "none" /\ d3.kind = "table" /\ d2.kind = "none"
    OBVIOUS
  <2>1. PICK f : f = e4.to
    OBVIOUS
  <2>2. f \in Kept /\ e3 = entries[f][va[2]] /\ d3 = es[f][va[2]]
    BY <1>3, <1>b, <2>1
  <2>3. f = t /\ va[2] = i
    BY <1>3, <2>2
  <2>4. e3.kind = "none" /\ d3 = Table(p)
    BY <2>2, <2>3
  <2>5. d2 = NoEntry
    BY <1>3, <1>4, <1>c, <2>4
  <2> QED BY <1>4, <2>4, <2>5
<1>7. e4.kind = "table" /\ e3.kind = "table" /\ d3 = e3 =>
        d2 = e2 \/ (e2.kind = "none" /\ d2.kind = "table" /\ d1.kind = "none")
  BY <1>3, <1>4, <1>c, <1>d
<1>8. e4.kind = "table" /\ e3.kind = "table" /\ e2.kind = "table" /\ d2 = e2 => d1 = e1
  BY <1>3, <1>d
<1>9. "none" # "table"
  OBVIOUS
<1>10. Translate(entries, va) =
         IF e4.kind # "table" THEN Unmapped
         ELSE IF e3.kind = "none" THEN Unmapped ELSE IF e3.kind # "table" THEN e3.to
         ELSE IF e2.kind = "none" THEN Unmapped ELSE IF e2.kind # "table" THEN e2.to
         ELSE IF e1.kind = "none" THEN Unmapped ELSE e1.to
  BY <1>1, WalkLeads
<1>11. Translate(es, va) =
         IF d4.kind # "table" THEN Unmapped
         ELSE IF d3.kind = "none" THEN Unmapped ELSE IF d3.kind # "table" THEN d3.to
         ELSE IF d2.kind = "none" THEN Unmapped ELSE IF d2.kind # "table" THEN d2.to
         ELSE IF d1.kind = "none" THEN Unmapped ELSE d1.to
  BY <1>2, WalkLeads
<1>12. CASE d4 # e4
  BY <1>5, <1>9, <1>10, <1>11, <1>12
<1>13. CASE d4 = e4 /\ d3 # e3
  BY <1>6, <1>9, <1>10, <1>11, <1>13
<1>14. CASE d4 = e4 /\ d3 = e3 /\ d2 # e2
  BY <1>7, <1>9, <1>10, <1>11, <1>14
<1>15. CASE d4 = e4 /\ d3 = e3 /\ d2 = e2
  BY <1>8, <1>10, <1>11, <1>15
<1> QED BY <1>12, <1>13, <1>14, <1>15

\* Where vmm_map_page stands, said of the entries of its address.
LEMMA WayStands ==
    ASSUME NEW e4, NEW e3, NEW e2, NEW e1, Walk(entries, map.va, e4, e3, e2, e1), OnItsWay
    PROVE  /\ map.level = 4 => map.table = PML4
           /\ map.level = 3 => e4.kind = "table" /\ map.table = e4.to
           /\ map.level = 2 => e4.kind = "table" /\ e3.kind = "table" /\ map.table = e3.to
           /\ map.level = 1 => /\ e4.kind = "table" /\ e3.kind = "table" /\ e2.kind = "table"
                               /\ map.table = e2.to
BY Zenon DEF Walk, OnItsWay

\* What is known of the call and of vmm_test without looking at the tables.
MapTyped ==
    /\ map \in [level : 0 .. 4, table : Frames, va : Addresses \cup {<<>>}, pa : Pages \cup {NULL},
                result : {"none", "failed", "mapped"}]
    /\ test.pc # "start" => test.va \in Addresses
    /\ test.pc = "mapping" => map.va = test.va /\ map.pa = test.phys
    /\ map.level # 0 => test.pc = "mapping" /\ map.result = "none"

LEMMA WayTyped == OnItsWay => MapTyped
BY Zenon DEF OnItsWay, MapTyped

LEMMA WayStandsAgain ==
    ASSUME NEW e4, NEW e3, NEW e2, NEW e1, Walk(entries', map'.va, e4, e3, e2, e1), MapTyped',
           map'.level = 4 => map'.table = PML4,
           map'.level = 3 => e4.kind = "table" /\ map'.table = e4.to,
           map'.level = 2 => e4.kind = "table" /\ e3.kind = "table" /\ map'.table = e3.to,
           map'.level = 1 => /\ e4.kind = "table" /\ e3.kind = "table" /\ e2.kind = "table"
                             /\ map'.table = e2.to
    PROVE  OnItsWay'
BY Zenon DEF Walk, OnItsWay, MapTyped

\* A call that is over stands nowhere.
LEMMA WayOver ==
    ASSUME MapTyped', map'.level = 0
    PROVE  OnItsWay'
<1>1. PICK e4, e3, e2, e1 : Walk(entries', map'.va, e4, e3, e2, e1)
  BY WalkExists
<1> QED BY <1>1, WayStandsAgain

LEMMA KeptFrames == AsInv => Kept \subseteq Frames /\ Kept \subseteq Int /\ Unmapped \notin Kept
BY BootAssumption DEF AsInv, CallersInv, PmmInv, PmmTypeOK, Kept, Frames, Pages, Unmapped

\* One entry of a table of leaves becomes a leaf or empty.
LEMMA LeafSet ==
    ASSUME AsInv, VmmInv, NEW level \in [Frames -> 1 .. 4], Levels(level),
           NEW t \in Kept, level[t] = 1,
           NEW i \in Slots, NEW e \in Entries, e.kind = "page" \/ e = NoEntry,
           entries' = [entries EXCEPT ![t][i] = e], tables' = tables, map'.level = 0
    PROVE  /\ entries' \in [Frames -> [Slots -> Entries]]
           /\ \A f \in Frames, s \in Slots : entries'[f][s].kind = "none" => entries'[f][s] = NoEntry
           /\ entries'[t][i] = e
           /\ \A f \in Frames, s \in Slots : f # t \/ s # i => entries'[f][s] = entries[f][s]
           /\ EnteredOnce' /\ Levels(level)' /\ Kept' = Kept
<1>1. Kept' = Kept /\ t \in Frames /\ Kept \subseteq Frames
  BY KeptFrames DEF Kept
<1>2. /\ entries \in [Frames -> [Slots -> Entries]]
      /\ \A f \in Frames, s \in Slots : entries[f][s].kind = "none" => entries[f][s] = NoEntry
  BY DEF VmmInv
<1>3. entries' \in [Frames -> [Slots -> Entries]] /\ entries'[t][i] = e
  BY <1>1, <1>2
<1>4. \A f \in Frames, s \in Slots : f # t \/ s # i => entries'[f][s] = entries[f][s]
  BY <1>1, <1>2
<1>5. e.kind # "table" /\ (e.kind = "none" => e = NoEntry)
  BY DEF NoEntry
<1>6. \A f \in Frames, s \in Slots : entries'[f][s].kind = "none" => entries'[f][s] = NoEntry
  BY <1>2, <1>3, <1>4, <1>5
<1>7. \A f \in Kept, s \in Slots : entries'[f][s].kind = "table" => entries'[f][s] = entries[f][s]
  BY <1>1, <1>3, <1>4, <1>5
<1>8. EnteredOnce'
  <2>1. EnteredOnce
    BY DEF VmmInv
  <2> SUFFICES ASSUME NEW f \in Kept, NEW g \in Kept, NEW r \in Slots, NEW s \in Slots,
                      entries'[f][r].kind = "table", entries'[g][s].kind = "table",
                      entries'[f][r].to = entries'[g][s].to, entries'[f][r].to \in tables
               PROVE  f = g /\ r = s
    BY <1>1 DEF EnteredOnce
  <2>2. entries'[f][r] = entries[f][r] /\ entries'[g][s] = entries[g][s]
    BY <1>7
  <2>3. /\ entries[f][r].kind = "table" /\ entries[g][s].kind = "table"
        /\ entries[f][r].to = entries[g][s].to /\ entries[f][r].to \in tables
    BY <2>2
  <2> QED BY <2>1, <2>3 DEF EnteredOnce
<1>9. Levels(level)'
  <2>1. /\ level \in [Frames -> 1 .. 4] /\ level[PML4] = 4
        /\ \A f \in Kept, s \in Slots : entries[f][s].kind = "table" =>
             entries[f][s].to \in Kept /\ level[entries[f][s].to] = level[f] - 1
        /\ \A f \in Kept, s \in Slots : entries[f][s].kind = "page" => level[f] = 1
    BY DEF Levels
  <2>2. \A f \in Kept, s \in Slots : entries'[f][s].kind = "table" =>
             entries'[f][s].to \in Kept /\ level[entries'[f][s].to] = level[f] - 1
    BY <1>7, <2>1
  <2>3. \A f \in Kept, s \in Slots : entries'[f][s].kind = "page" => level[f] = 1
    BY <1>1, <1>4, <2>1
  <2> QED BY <1>1, <2>1, <2>2, <2>3 DEF Levels
<1> QED BY <1>1, <1>3, <1>4, <1>6, <1>8, <1>9

\* Nothing of the tables changes, and the call under way is over or moves on.
LEMMA TablesStay ==
    ASSUME VmmInv, entries' = entries, tables' = tables, MapTyped',
           map'.level = map.level \/ map'.level = 0, map'.table = map.table, map'.va = map.va,
           Mapped' = Mapped, Mapped => test'.va = test.va /\ test'.phys = test.phys
    PROVE  VmmInv'
<1>1. Kept' = Kept
  BY DEF Kept
<1>2. PICK level \in [Frames -> 1 .. 4] : Levels(level)
  BY DEF VmmInv
<1>3. Levels(level)'
  BY <1>1, <1>2 DEF Levels
<1>4. EnteredOnce'
  BY <1>1 DEF VmmInv, EnteredOnce
<1>5. OneLeaf'
  <2>1. Mapped => LeafTable(entries', test'.va) = LeafTable(entries, test.va)
    OBVIOUS
  <2> QED BY <1>1, <2>1 DEF VmmInv, OneLeaf
<1>6. OnItsWay'
  <2>1. CASE map'.level = 0
    BY <2>1, WayOver
  <2>2. CASE map'.level = map.level
    <3>1. PICK e4, e3, e2, e1 : Walk(entries, map.va, e4, e3, e2, e1)
      BY WalkExists
    <3>2. Walk(entries', map'.va, e4, e3, e2, e1)
      BY <3>1
    <3>3. OnItsWay
      BY DEF VmmInv
    <3> QED BY <2>2, <3>1, <3>2, <3>3, WayStands, WayStandsAgain
  <2> QED BY <2>1, <2>2
<1> QED BY <1>3, <1>4, <1>5, <1>6 DEF VmmInv

\* MapTable, entering a fresh page as an empty table.
LEMMA TableAdded ==
    ASSUME AsInv, VmmInv, map.level > 1, Entry.kind = "none", NEW p \in Pages, p \notin Kept,
           p \notin dirty', entries' = NewTable(entries, map.table, Index, p),
           tables' = tables \cup {p}, Down(p), test' = test
    PROVE  /\ VmmInv'
           /\ \A va \in Addresses : Translate(entries', va) = Translate(entries, va)
<1>0. OnItsWay /\ MapTyped /\ EnteredOnce /\ OneLeaf
  BY WayTyped DEF VmmInv
<1>1. PICK level \in [Frames -> 1 .. 4] : Levels(level)
  BY DEF VmmInv
<1> DEFINE t == map.table
           i == Index
<1>2. map.level \in {2, 3, 4} /\ test.pc = "mapping" /\ map.va = test.va /\ map.va \in Addresses
  BY <1>0 DEF MapTyped
<1>3. t \in Kept /\ level[t] = map.level /\ t # p /\ level[t] > 1
  BY <1>1, <1>2 DEF Levels
<1>4. i \in Slots /\ entries[t][i].kind = "none"
  BY <1>2 DEF Index, Entry, Addresses
<1>5. Kept \subseteq Frames /\ p \in Frames /\ Kept' = Kept \cup {p} /\ p \in Int
  BY KeptFrames DEF Frames, Kept, Pages
<1>6. map'.level = map.level - 1 /\ map'.table = p /\ map'.va = map.va /\ MapTyped'
  <2>1. map \in [level : 0 .. 4, table : Frames, va : Addresses \cup {<<>>}, pa : Pages \cup {NULL},
                result : {"none", "failed", "mapped"}]
    BY <1>0 DEF MapTyped
  <2>2. map' = [[map EXCEPT !.level = map.level - 1] EXCEPT !.table = p]
    BY <2>1 DEF Down
  <2>3. map'.level = map.level - 1 /\ map'.table = p /\ map'.va = map.va /\ map'.pa = map.pa
        /\ map'.result = map.result
    BY <2>1, <2>2
  <2>4. map' \in [level : 0 .. 4, table : Frames, va : Addresses \cup {<<>>}, pa : Pages \cup {NULL},
                  result : {"none", "failed", "mapped"}]
    <3>1. map.level - 1 \in 0 .. 4
      BY <1>2
    <3> QED BY <1>5, <2>1, <2>2, <3>1
  <2> QED BY <1>0, <1>2, <2>3, <2>4 DEF MapTyped
<1>7. /\ entries \in [Frames -> [Slots -> Entries]]
      /\ \A f \in Frames, s \in Slots : entries[f][s].kind = "none" => entries[f][s] = NoEntry
  BY DEF VmmInv
<1>8. Table(p) \in Entries /\ NoEntry \in Entries /\ Table(p).kind = "table" /\ Table(p).to = p
      /\ NoEntry.kind = "none"
  BY <1>5 DEF Table, NoEntry, Entries, Unmapped
<1>9. entries' = [entries EXCEPT ![t][i] = Table(p), ![p] = [s \in Slots |-> NoEntry]]
  BY DEF NewTable
<1> HIDE DEF t, i
<1>10. /\ entries' \in [Frames -> [Slots -> Entries]] /\ entries'[t][i] = Table(p)
       /\ \A s \in Slots : entries'[p][s] = NoEntry
       /\ \A f \in Frames, s \in Slots : f # p /\ (f # t \/ s # i) => entries'[f][s] = entries[f][s]
  BY <1>3, <1>4, <1>5, <1>7, <1>8, <1>9
<1>11. \A f \in Frames, s \in Slots : entries'[f][s].kind = "none" => entries'[f][s] = NoEntry
  BY <1>7, <1>8, <1>10
<1>12. \A f \in Kept', s \in Slots : entries'[f][s].kind \in {"table", "page"} =>
         \/ f \in Kept /\ entries'[f][s] = entries[f][s]
         \/ f = t /\ s = i /\ entries'[f][s] = Table(p)
  BY <1>5, <1>8, <1>10
<1>13. \E depth \in [Frames -> 1 .. 4] : Levels(depth)'
  <2>1. PICK depth \in [Frames -> 1 .. 4] : /\ depth[PML4] = 4 /\ depth[p] = map.level - 1
                                           /\ \A f \in Kept : depth[f] = level[f]
    <3> DEFINE d == [level EXCEPT ![p] = map.level - 1]
    <3>1. d \in [Frames -> 1 .. 4] /\ d[p] = map.level - 1 /\ \A f \in Kept : d[f] = level[f]
      BY <1>2, <1>5
    <3>2. d[PML4] = 4
      BY <1>1, <3>1, BootAssumption DEF Levels, Kept
    <3> QED BY <3>1, <3>2
  <2>2. /\ \A f \in Kept, s \in Slots : entries[f][s].kind = "table" =>
             entries[f][s].to \in Kept /\ level[entries[f][s].to] = level[f] - 1
        /\ \A f \in Kept, s \in Slots : entries[f][s].kind = "page" => level[f] = 1
    BY <1>1 DEF Levels
  <2>3. \A f \in Kept', s \in Slots : entries'[f][s].kind = "table" =>
             entries'[f][s].to \in Kept' /\ depth[entries'[f][s].to] = depth[f] - 1
    <3> SUFFICES ASSUME NEW f \in Kept', NEW s \in Slots, entries'[f][s].kind = "table"
                 PROVE  entries'[f][s].to \in Kept' /\ depth[entries'[f][s].to] = depth[f] - 1
      OBVIOUS
    <3>1. CASE f \in Kept /\ entries'[f][s] = entries[f][s]
      <4>1. entries[f][s].to \in Kept /\ level[entries[f][s].to] = level[f] - 1
        BY <2>2, <3>1
      <4> QED BY <1>5, <2>1, <3>1, <4>1
    <3>2. CASE f = t /\ s = i /\ entries'[f][s] = Table(p)
      BY <1>3, <1>5, <1>8, <2>1, <3>2
    <3> QED BY <1>12, <3>1, <3>2
  <2>4. \A f \in Kept', s \in Slots : entries'[f][s].kind = "page" => depth[f] = 1
    BY <1>8, <1>12, <2>1, <2>2
  <2>5. map'.table \in Kept' /\ depth[map'.table] = map'.level
    BY <1>5, <1>6, <2>1
  <2>6. Levels(depth)'
    BY <2>1, <2>3, <2>4, <2>5 DEF Levels
  <2> QED BY <2>6
<1>14. EnteredOnce'
  <2>1. \A f \in Kept, s \in Slots : entries[f][s].kind = "table" => entries[f][s].to \in Kept
    BY <1>1 DEF Levels
  <2> SUFFICES ASSUME NEW f \in Kept', NEW g \in Kept', NEW r \in Slots, NEW s \in Slots,
                      entries'[f][r].kind = "table", entries'[g][s].kind = "table",
                      entries'[f][r].to = entries'[g][s].to, entries'[f][r].to \in tables'
               PROVE  f = g /\ r = s
    BY DEF EnteredOnce
  <2>2. CASE entries'[f][r].to = p
    <3>1. f = t /\ r = i
      BY <1>12, <2>1, <2>2
    <3>2. g = t /\ s = i
      <4>1. entries'[g][s].to = p
        BY <2>2
      <4> QED BY <1>12, <2>1, <4>1
    <3> QED BY <3>1, <3>2
  <2>3. CASE entries'[f][r].to # p
    <3>1. f \in Kept /\ entries'[f][r] = entries[f][r]
      BY <1>8, <1>12, <2>3
    <3>2. g \in Kept /\ entries'[g][s] = entries[g][s]
      BY <1>8, <1>12, <2>3
    <3>3. /\ entries[f][r].kind = "table" /\ entries[g][s].kind = "table"
          /\ entries[f][r].to = entries[g][s].to /\ entries[f][r].to \in tables
      BY <2>3, <3>1, <3>2
    <3> QED BY <1>0, <3>1, <3>2, <3>3 DEF EnteredOnce
  <2> QED BY <2>2, <2>3
<1>15. ~Mapped /\ ~Mapped' /\ OneLeaf'
  <2>1. ~Mapped
    BY <1>2 DEF Mapped
  <2>2. ~Mapped'
    BY <1>2, <1>6 DEF Mapped
  <2>3. \A f \in Kept', s \in Slots : entries'[f][s].kind # "page"
    BY <1>0, <1>8, <1>12, <2>1 DEF OneLeaf
  <2> QED BY <2>1, <2>2, <2>3 DEF OneLeaf
<1>16. OnItsWay'
  <2>1. PICK e4, e3, e2, e1 : Walk(entries, map.va, e4, e3, e2, e1)
    BY WalkExists
  <2>2. PICK d4, d3, d2, d1 : Walk(entries', map.va, d4, d3, d2, d1)
    BY WalkExists
  <2>3. /\ map.level = 4 => t = PML4
        /\ map.level = 3 => e4.kind = "table" /\ t = e4.to
        /\ map.level = 2 => e4.kind = "table" /\ e3.kind = "table" /\ t = e3.to
    BY <1>0, <2>1, WayStands DEF t
  <2>4. /\ map.va[1] \in Slots /\ map.va[2] \in Slots /\ map.va[3] \in Slots
        /\ PML4 \in Kept /\ level[PML4] = 4
        /\ e4.kind = "table" => e4.to \in Kept /\ level[e4.to] = 3
        /\ e4.kind = "table" /\ e3.kind = "table" => e3.to \in Kept /\ level[e3.to] = 2
    BY <1>1, <1>2, <2>1, WayDown
  <2>a. e4 = entries[PML4][map.va[1]] /\ d4 = entries'[PML4][map.va[1]]
    BY <2>1, <2>2, Zenon DEF Walk
  <2>b. e3 = entries[e4.to][map.va[2]] /\ d3 = entries'[d4.to][map.va[2]]
    BY <2>1, <2>2, Zenon DEF Walk
  <2>c. e2 = entries[e3.to][map.va[3]] /\ d2 = entries'[d3.to][map.va[3]]
    BY <2>1, <2>2, Zenon DEF Walk
  <2>5. i = map.va[5 - map.level]
    BY DEF i, Index
  <2>6. map.level = 4 => d4 = Table(p)
    BY <1>10, <2>3, <2>5, <2>a
  <2>7. map.level # 4 => d4 = e4
    BY <1>3, <1>5, <1>10, <2>4, <2>a
  <2>8. map.level = 3 => d3 = Table(p)
    BY <1>10, <2>3, <2>5, <2>7, <2>b
  <2>9. map.level = 2 => d3 = e3
    <3> SUFFICES ASSUME map.level = 2 PROVE d3 = e3
      OBVIOUS
    <3>1. d3 = entries'[e4.to][map.va[2]] /\ e4.to \in Kept /\ level[e4.to] = 3
      BY <2>3, <2>4, <2>7, <2>b
    <3>2. PICK f : f = e4.to
      OBVIOUS
    <3>3. level[f] = 3 /\ level[t] = 2 /\ f \in Frames
      BY <1>3, <1>5, <3>1, <3>2
    <3>4. f # t
      BY <3>3
    <3>5. f # p
      BY <3>1, <3>2
    <3> QED BY <1>10, <2>4, <2>b, <3>1, <3>2, <3>3, <3>4, <3>5
  <2>10. map.level = 2 => d2 = Table(p)
    BY <1>10, <2>3, <2>5, <2>9, <2>c
  <2>11. Walk(entries', map'.va, d4, d3, d2, d1)
    BY <1>6, <2>2
  <2>12. /\ map'.level = 3 => d4.kind = "table" /\ map'.table = d4.to
         /\ map'.level = 2 => d4.kind = "table" /\ d3.kind = "table" /\ map'.table = d3.to
         /\ map'.level = 1 => /\ d4.kind = "table" /\ d3.kind = "table" /\ d2.kind = "table"
                              /\ map'.table = d2.to
         /\ map'.level # 4
    BY <1>2, <1>6, <1>8, <2>3, <2>6, <2>7, <2>8, <2>9, <2>10
  <2> QED BY <1>6, <2>11, <2>12, WayStandsAgain
<1>17. \A va \in Addresses : Translate(entries', va) = Translate(entries, va)
  <2> DEFINE es == entries'
  <2>1. /\ es[t][i] = Table(p) /\ \A s \in Slots : es[p][s] = NoEntry
        /\ \A f \in Kept, s \in Slots : f # t \/ s # i => es[f][s] = entries[f][s]
    BY <1>3, <1>5, <1>10
  <2> HIDE DEF es
  <2>2. \A va \in Addresses : Translate(es, va) = Translate(entries, va)
    BY <1>1, <1>3, <1>4, <2>1, TableEntered
  <2> QED BY <2>2 DEF es
<1> QED BY <1>10, <1>11, <1>13, <1>14, <1>15, <1>16, <1>17 DEF VmmInv, Levels

\* What OnlyTheLeafChanges says of one step.
OnlyTestLeaf ==
    \A va \in Addresses : Translate(entries, va) # Translate(entries', va) =>
        test.va # <<>> /\ SameLeaf(entries', va, test.va)

\* A step that leaves the tables alone changes no translation.
LEMMA SameTables == entries' = entries => OnlyTestLeaf
BY DEF OnlyTestLeaf

\* The call is over.
LEMMA ReturnEnds ==
    ASSUME NEW result \in {"failed", "mapped"}, Return(result),
           map \in [level : 0 .. 4, table : Frames, va : Addresses \cup {<<>>}, pa : Pages \cup {NULL},
                   result : {"none", "failed", "mapped"}]
    PROVE  /\ map'.level = 0 /\ map'.result = result /\ map'.va = map.va /\ map'.pa = map.pa
           /\ map'.table = map.table
           /\ map' \in [level : 0 .. 4, table : Frames, va : Addresses \cup {<<>>}, pa : Pages \cup {NULL},
                        result : {"none", "failed", "mapped"}]
<1> DEFINE m == [map EXCEPT !.level = 0]
<1>1. map' = [m EXCEPT !.result = result]
  BY DEF Return
<1>2. m.level = 0 /\ m.table = map.table /\ m.va = map.va /\ m.pa = map.pa
  OBVIOUS
<1>3. m \in [level : 0 .. 4, table : Frames, va : Addresses \cup {<<>>}, pa : Pages \cup {NULL},
             result : {"none", "failed", "mapped"}]
  OBVIOUS
<1> HIDE DEF m
<1> QED BY <1>1, <1>2, <1>3

LEMMA MapTableStep == ASSUME AsInv, VmmInv, AsInv', [PmmNext]_pmmVars, MapTable PROVE VmmInv' /\ OnlyTestLeaf
<1>0. MapTyped /\ test' = test /\ map.level > 1 /\ test.pc = "mapping" /\ map.level \in 2 .. 4
  BY WayTyped DEF VmmInv, MapTable, MapTyped
<1>m. map \in [level : 0 .. 4, table : Frames, va : Addresses \cup {<<>>}, pa : Pages \cup {NULL},
               result : {"none", "failed", "mapped"}]
  BY <1>0 DEF MapTyped
<1>1. ASSUME Return("failed"), UNCHANGED <<entries, tables>>
      PROVE  VmmInv' /\ OnlyTestLeaf
  <2>1. /\ map'.level = 0 /\ map'.result = "failed" /\ map'.va = map.va /\ map'.pa = map.pa
        /\ map'.table = map.table
        /\ map' \in [level : 0 .. 4, table : Frames, va : Addresses \cup {<<>>}, pa : Pages \cup {NULL},
                     result : {"none", "failed", "mapped"}]
    BY <1>m, <1>1, ReturnEnds
  <2>2. MapTyped'
    BY <1>0, <2>1 DEF MapTyped
  <2>3. Mapped' = FALSE /\ Mapped = FALSE
    BY <1>0, <2>1 DEF Mapped
  <2> QED BY <1>1, <2>1, <2>2, <2>3, TablesStay, SameTables
<1>2. CASE Entry.kind \in {"table", "page"} /\ Down(Entry.to) /\ UNCHANGED <<entries, tables>>
  <2>1. PICK level \in [Frames -> 1 .. 4] : Levels(level)
    BY DEF VmmInv
  <2>2. map.table \in Kept /\ level[map.table] = map.level /\ Index \in Slots
    BY <1>0, <2>1 DEF Levels, Index, MapTyped, Addresses
  <2>3. Entry.kind = "table" /\ Entry.to \in Kept /\ level[Entry.to] = map.level - 1
    BY <1>0, <1>2, <2>1, <2>2 DEF Levels, Entry
  <2>4. /\ map'.level = map.level - 1 /\ map'.table = Entry.to /\ map'.va = map.va /\ map'.pa = map.pa
        /\ map'.result = map.result
    BY <1>m, <1>2 DEF Down
  <2>5. MapTyped'
    <3>1. Entry.to \in Frames /\ map.level - 1 \in 0 .. 4
      BY <1>0, <2>3, KeptFrames
    <3>2. map' \in [level : 0 .. 4, table : Frames, va : Addresses \cup {<<>>}, pa : Pages \cup {NULL},
                    result : {"none", "failed", "mapped"}]
      BY <1>m, <1>2, <3>1 DEF Down
    <3> QED BY <1>0, <2>4, <3>2 DEF MapTyped
  <2>6. ~Mapped /\ ~Mapped'
    BY <1>0, <2>4 DEF Mapped
  <2>7. Levels(level)'
    <3>1. Kept' = Kept
      BY <1>2 DEF Kept
    <3> QED BY <1>2, <2>1, <2>3, <2>4, <3>1 DEF Levels
  <2>8. OnItsWay'
    <3>1. PICK e4, e3, e2, e1 : Walk(entries, map.va, e4, e3, e2, e1)
      BY WalkExists
    <3>2. /\ map.level = 4 => map.table = PML4
          /\ map.level = 3 => e4.kind = "table" /\ map.table = e4.to
          /\ map.level = 2 => e4.kind = "table" /\ e3.kind = "table" /\ map.table = e3.to
      BY <3>1, WayStands DEF VmmInv
    <3>a. e4 = entries[PML4][map.va[1]]
      BY <3>1, Zenon DEF Walk
    <3>b. e3 = entries[e4.to][map.va[2]]
      BY <3>1, Zenon DEF Walk
    <3>c. e2 = entries[e3.to][map.va[3]]
      BY <3>1, Zenon DEF Walk
    <3>3. Entry = entries[map.table][map.va[5 - map.level]]
      BY DEF Entry, Index
    <3>4. map.level = 4 => Entry = e4
      BY <3>2, <3>3, <3>a
    <3>5. map.level = 3 => Entry = e3
      BY <3>2, <3>3, <3>b
    <3>6. map.level = 2 => Entry = e2
      BY <3>2, <3>3, <3>c
    <3>7. Walk(entries', map'.va, e4, e3, e2, e1)
      BY <1>2, <2>4, <3>1
    <3>8. /\ map'.level # 4
          /\ map'.level = 3 => e4.kind = "table" /\ map'.table = e4.to
          /\ map'.level = 2 => e4.kind = "table" /\ e3.kind = "table" /\ map'.table = e3.to
          /\ map'.level = 1 => /\ e4.kind = "table" /\ e3.kind = "table" /\ e2.kind = "table"
                               /\ map'.table = e2.to
      BY <1>0, <2>3, <2>4, <3>2, <3>4, <3>5, <3>6
    <3> QED BY <2>5, <3>7, <3>8, WayStandsAgain
  <2>9. EnteredOnce' /\ OneLeaf'
    <3>1. Kept' = Kept
      BY <1>2 DEF Kept
    <3> QED BY <1>2, <2>6, <3>1 DEF VmmInv, EnteredOnce, OneLeaf
  <2> QED BY <1>2, <2>7, <2>8, <2>9, SameTables DEF VmmInv, Levels
<1>3. ASSUME NEW p \in Pages, Entry.kind = "none", AllocPage(p),
             entries' = NewTable(entries, map.table, Index, p), tables' = tables \cup {p}, Down(p)
      PROVE  VmmInv' /\ OnlyTestLeaf
  <2>1. p \in granted' /\ p \notin granted
    <3>1. FirstFit(1, p) /\ Grant(p, 1) /\ Run(p, 1) = {p}
      BY <1>3 DEF AllocPage, Run, Pages, NULL
    <3> QED BY <3>1 DEF FirstFit, Grant, AsInv, PmmInv, GrantsMatchBitmap
  <2>2. p \notin Kept /\ p \notin dirty'
    <3>1. p \notin dirty'
      BY <2>1, PmmStep DEF AsInv
    <3>2. p \notin tables
      BY <2>1 DEF AsInv, CallersInv
    <3> QED BY <3>1, <3>2, BootAssumption DEF Kept
  <2> QED BY <1>0, <1>3, <2>2, TableAdded DEF OnlyTestLeaf
<1>4. ASSUME NEW p \in Pages \cup {NULL}, Entry.kind = "none", AllocPage(p),
             IF p = NULL
             THEN Return("failed") /\ UNCHANGED <<entries, tables>>
             ELSE /\ entries' = NewTable(entries, map.table, Index, p)
                  /\ tables' = tables \cup {p}
                  /\ Down(p)
      PROVE  VmmInv' /\ OnlyTestLeaf
  BY <1>1, <1>3, <1>4
<1>5. \/ Return("failed") /\ UNCHANGED <<entries, tables>>
      \/ Entry.kind \in {"table", "page"} /\ Down(Entry.to) /\ UNCHANGED <<entries, tables>>
      \/ \E p \in Pages \cup {NULL} :
           /\ Entry.kind = "none" /\ AllocPage(p)
           /\ IF p = NULL
              THEN Return("failed") /\ UNCHANGED <<entries, tables>>
              ELSE /\ entries' = NewTable(entries, map.table, Index, p)
                   /\ tables' = tables \cup {p}
                   /\ Down(p)
  BY DEF MapTable
<1> QED BY <1>1, <1>2, <1>4, <1>5

LEMMA MapLeafStep == ASSUME AsInv, VmmInv, AsInv', MapLeaf PROVE VmmInv' /\ OnlyTestLeaf
<1>0. MapTyped /\ test' = test /\ map.level = 1 /\ test.pc = "mapping" /\ tables' = tables
  BY WayTyped DEF VmmInv, MapLeaf, MapTyped
<1>m. map \in [level : 0 .. 4, table : Frames, va : Addresses \cup {<<>>}, pa : Pages \cup {NULL},
               result : {"none", "failed", "mapped"}]
  BY <1>0 DEF MapTyped
<1>v. map.va = test.va /\ test.va \in Addresses /\ map.pa = test.phys /\ ~Mapped
  BY <1>0 DEF MapTyped, Mapped
<1>1. CASE Return("failed") /\ UNCHANGED entries
  <2>1. /\ map'.level = 0 /\ map'.result = "failed" /\ map'.va = map.va /\ map'.pa = map.pa
        /\ map'.table = map.table
        /\ map' \in [level : 0 .. 4, table : Frames, va : Addresses \cup {<<>>}, pa : Pages \cup {NULL},
                     result : {"none", "failed", "mapped"}]
    BY <1>m, <1>1, ReturnEnds
  <2>2. MapTyped'
    BY <1>0, <2>1 DEF MapTyped
  <2>3. Mapped' = FALSE /\ Mapped = FALSE
    BY <1>0, <2>1 DEF Mapped
  <2> QED BY <1>0, <1>1, <2>1, <2>2, <2>3, TablesStay, SameTables
<1>2. CASE /\ Entry.kind = "none" /\ Return("mapped")
           /\ entries' = [entries EXCEPT ![map.table][Index] = Leaf(map.pa)]
  <2> DEFINE t == map.table
             i == test.va[4]
             e == Leaf(map.pa)
  <2>1. /\ map'.level = 0 /\ map'.result = "mapped" /\ map'.va = map.va /\ map'.pa = map.pa
        /\ map' \in [level : 0 .. 4, table : Frames, va : Addresses \cup {<<>>}, pa : Pages \cup {NULL},
                     result : {"none", "failed", "mapped"}]
    BY <1>m, <1>2, ReturnEnds
  <2>2. MapTyped' /\ Mapped'
    BY <1>0, <2>1 DEF MapTyped, Mapped
  <2>3. PICK level \in [Frames -> 1 .. 4] : Levels(level)
    BY DEF VmmInv
  <2>4. t \in Kept /\ level[t] = 1 /\ Index = i /\ i \in Slots
    BY <1>0, <1>v, <2>3 DEF Levels, Index, Addresses
  <2>5. e \in Entries /\ e.kind = "page"
    BY <1>m DEF Leaf, Entries, Pages, NULL
  <2>6. entries' = [entries EXCEPT ![t][i] = e]
    BY <1>2, <2>4
  <2>7. LeafTable(entries, test.va) = t
    <3>1. PICK e4, e3, e2, e1 : Walk(entries, map.va, e4, e3, e2, e1)
      BY WalkExists
    <3>2. e4.kind = "table" /\ e3.kind = "table" /\ e2.kind = "table" /\ t = e2.to
      BY <1>0, <3>1, WayStands DEF VmmInv
    <3> QED BY <1>v, <3>1, <3>2, WalkLeads
  <2> HIDE DEF t, i, e
  <2>8. /\ entries' \in [Frames -> [Slots -> Entries]]
        /\ \A f \in Frames, s \in Slots : entries'[f][s].kind = "none" => entries'[f][s] = NoEntry
        /\ entries'[t][i] = e
        /\ \A f \in Frames, s \in Slots : f # t \/ s # i => entries'[f][s] = entries[f][s]
        /\ EnteredOnce' /\ Levels(level)' /\ Kept' = Kept
    BY <1>0, <2>1, <2>3, <2>4, <2>5, <2>6, LeafSet
  <2>9. \A va \in Addresses : /\ LeafTable(entries', va) = LeafTable(entries, va)
                              /\ Translate(entries', va) # Translate(entries, va) =>
                                   LeafTable(entries', va) = t /\ va[4] = i
    <3> DEFINE es == entries'
    <3>1. \A f \in Kept, s \in Slots : f # t \/ s # i => es[f][s] = entries[f][s]
      BY <2>8, KeptFrames
    <3> HIDE DEF es
    <3>2. \A va \in Addresses : /\ LeafTable(es, va) = LeafTable(entries, va)
                                /\ Translate(es, va) # Translate(entries, va) =>
                                     LeafTable(es, va) = t /\ va[4] = i
      BY <2>3, <2>4, <3>1, LeafWritten
    <3> QED BY <3>2 DEF es
  <2>10. LeafTable(entries', test.va) = t
    BY <1>v, <2>7, <2>9
  <2>11. OneLeaf'
    <3>1. e = Leaf(test.phys)
      BY <1>v DEF e
    <3>2. \A f \in Kept, s \in Slots : entries[f][s].kind # "page"
      BY <1>v DEF VmmInv, OneLeaf
    <3>3. \A f \in Kept', s \in Slots : entries'[f][s].kind = "page" => f = t /\ s = i
      BY <2>8, <3>2, KeptFrames
    <3> QED BY <1>0, <2>2, <2>4, <2>8, <2>10, <3>1, <3>3 DEF OneLeaf, i
  <2>12. OnItsWay'
    BY <2>1, <2>2, WayOver
  <2>13. OnlyTestLeaf
    <3>1. t # Unmapped
      BY <2>4, KeptFrames
    <3>2. test.va # <<>>
      <4>1. DOMAIN test.va = 1 .. 4
        BY <1>v DEF Addresses
      <4>2. 1 \in 1 .. 4 /\ 1 \notin DOMAIN <<>>
        OBVIOUS
      <4> QED BY <4>1, <4>2
    <3> QED BY <2>9, <2>10, <3>1, <3>2 DEF OnlyTestLeaf, SameLeaf, i
  <2> QED BY <2>8, <2>11, <2>12, <2>13 DEF VmmInv, Levels
<1> QED BY <1>1, <1>2 DEF MapLeaf

LEMMA TestUnmapStep == ASSUME AsInv, VmmInv, AsInv', TestUnmap PROVE VmmInv' /\ OnlyTestLeaf
<1> DEFINE t == LeafTable(entries, test.va)
           i == test.va[4]
<1>1. /\ test.pc = "unmap" /\ map' = map /\ tables' = tables
      /\ entries' = [entries EXCEPT ![t][i] = NoEntry]
      /\ test'.pc = "free" /\ test'.va = test.va
  BY DEF TestUnmap, Cleared, AsInv, CallersInv
<1>2. MapTyped /\ test.va \in Addresses /\ map.level = 0 /\ i \in Slots
  BY <1>1, WayTyped DEF VmmInv, MapTyped, Addresses
<1>3. Mapped /\ t \in Kept /\ entries[t][i] = Leaf(test.phys)
  BY <1>1 DEF Mapped, VmmInv, OneLeaf
<1>4. PICK level \in [Frames -> 1 .. 4] : Levels(level)
  BY DEF VmmInv
<1>5. level[t] = 1
  BY <1>2, <1>3, <1>4 DEF Levels, Leaf
<1>6. MapTyped' /\ ~Mapped'
  BY <1>1, <1>2 DEF MapTyped, Mapped
<1>t. t = LeafTable(entries, test.va)
  OBVIOUS
<1>i. i = test.va[4]
  OBVIOUS
<1> HIDE DEF t, i
<1>7. /\ entries' \in [Frames -> [Slots -> Entries]]
      /\ \A f \in Frames, s \in Slots : entries'[f][s].kind = "none" => entries'[f][s] = NoEntry
      /\ entries'[t][i] = NoEntry
      /\ \A f \in Frames, s \in Slots : f # t \/ s # i => entries'[f][s] = entries[f][s]
      /\ EnteredOnce' /\ Levels(level)' /\ Kept' = Kept
  <2>1. NoEntry \in Entries
    BY DEF NoEntry, Entries, Unmapped
  <2> QED BY <1>1, <1>2, <1>3, <1>4, <1>5, <2>1, LeafSet
<1>8. \A va \in Addresses : /\ LeafTable(entries', va) = LeafTable(entries, va)
                            /\ Translate(entries', va) # Translate(entries, va) =>
                                 LeafTable(entries', va) = t /\ va[4] = i
  <2> DEFINE es == entries'
  <2>1. \A f \in Kept, s \in Slots : f # t \/ s # i => es[f][s] = entries[f][s]
    BY <1>7, KeptFrames
  <2> HIDE DEF es
  <2>2. \A va \in Addresses : /\ LeafTable(es, va) = LeafTable(entries, va)
                              /\ Translate(es, va) # Translate(entries, va) =>
                                   LeafTable(es, va) = t /\ va[4] = i
    BY <1>2, <1>3, <1>4, <1>5, <2>1, LeafWritten
  <2> QED BY <2>2 DEF es
<1>9. OneLeaf'
  <2>1. \A f \in Kept, s \in Slots : entries[f][s].kind = "page" => f = t /\ s = i
    BY <1>t, <1>i DEF VmmInv, OneLeaf
  <2>2. \A f \in Kept', s \in Slots : entries'[f][s].kind # "page"
    BY <1>7, <2>1, KeptFrames DEF NoEntry
  <2> QED BY <1>6, <2>2 DEF OneLeaf
<1>10. OnItsWay'
  BY <1>1, <1>2, <1>6, WayOver
<1>11. OnlyTestLeaf
  <2>1. t # Unmapped /\ test.va # <<>> /\ LeafTable(entries', test.va) = t
    BY <1>2, <1>3, <1>8, <1>t, KeptFrames DEF Addresses
  <2> QED BY <1>8, <1>i, <2>1 DEF OnlyTestLeaf, SameLeaf
<1> QED BY <1>7, <1>9, <1>10, <1>11 DEF VmmInv, Levels

\* The other steps leave the tables alone.
LEMMA OtherSteps ==
    ASSUME AsInv, VmmInv, AsInv',
           TestAlloc \/ TestMapped \/ TestWrite \/ TestFree \/ OtherCaller \/ UNCHANGED asVars
    PROVE  VmmInv' /\ OnlyTestLeaf
<1>1. entries' = entries /\ tables' = tables /\ OnlyTestLeaf
  BY SameTables DEF TestAlloc, TestMapped, TestWrite, TestFree, OtherCaller, asVars
<1>2. MapTyped /\ test \in [pc : TestSteps, va : TestAddresses \cup {<<>>}, phys : Pages \cup {NULL}]
  BY WayTyped DEF VmmInv, AsInv, CallersInv
<1>3. CASE OtherCaller \/ UNCHANGED asVars
  <2>1. map' = map /\ test' = test
    BY <1>3 DEF OtherCaller, asVars
  <2>2. MapTyped' /\ Mapped' = Mapped
    BY <1>2, <2>1 DEF MapTyped, Mapped
  <2> QED BY <1>1, <2>1, <2>2, TablesStay
<1>4. CASE TestMapped \/ TestWrite \/ TestFree
  <2>1. /\ map' = map /\ map.level = 0 /\ test.pc # "start"
        /\ test'.pc # "start" => test'.va = test.va /\ test'.phys = test.phys
        /\ test'.pc # "mapping"
        /\ (test'.pc \in {"write", "unmap"}) <=>
             (test.pc = "write" \/ (test.pc = "mapping" /\ map.result = "mapped"))
        /\ test.pc # "unmap"
    BY <1>2, <1>4 DEF TestMapped, TestWrite, TestFree, MapTyped
  <2>2. MapTyped'
    BY <1>2, <2>1 DEF MapTyped
  <2>3. Mapped' = Mapped /\ (Mapped => test'.pc # "start")
    BY <2>1 DEF Mapped
  <2> QED BY <1>1, <2>1, <2>2, <2>3, TablesStay
<1>5. CASE TestAlloc
  <2>1. PICK p \in Pages \cup {NULL}, va \in TestAddresses :
          /\ test.pc = "start"
          /\ IF p = NULL
             THEN UNCHANGED <<test, map>>
             ELSE /\ test' = [pc |-> "mapping", va |-> va, phys |-> p]
                  /\ map' = [level |-> 4, table |-> PML4, va |-> va, pa |-> p, result |-> "none"]
    BY <1>5 DEF TestAlloc
  <2>2. CASE UNCHANGED <<test, map>>
    <3>1. MapTyped' /\ Mapped' = Mapped
      BY <1>2, <2>2 DEF MapTyped, Mapped
    <3> QED BY <1>1, <2>2, <3>1, TablesStay
  <2>3. CASE /\ test' = [pc |-> "mapping", va |-> va, phys |-> p]
             /\ map' = [level |-> 4, table |-> PML4, va |-> va, pa |-> p, result |-> "none"]
    <3>1. PML4 \in Frames /\ PML4 \in Kept /\ va \in Addresses /\ Kept' = Kept
      BY <1>1, BootAssumption DEF Frames, Kept
    <3>2. /\ map'.level = 4 /\ map'.table = PML4 /\ map'.va = va /\ map'.pa = p /\ map'.result = "none"
          /\ test'.pc = "mapping" /\ test'.va = va /\ test'.phys = p
      BY <2>3
    <3>3. map' \in [level : 0 .. 4, table : Frames, va : Addresses \cup {<<>>}, pa : Pages \cup {NULL},
                    result : {"none", "failed", "mapped"}]
      BY <2>3, <3>1
    <3>4. MapTyped' /\ ~Mapped' /\ ~Mapped
      BY <2>1, <3>1, <3>2, <3>3 DEF MapTyped, Mapped
    <3>5. OnItsWay'
      <4>1. PICK e4, e3, e2, e1 : Walk(entries', map'.va, e4, e3, e2, e1)
        BY WalkExists
      <4> QED BY <3>2, <3>4, <4>1, WayStandsAgain
    <3>6. PICK level \in [Frames -> 1 .. 4] : Levels(level)
      BY DEF VmmInv
    <3>7. Levels(level)'
      BY <1>1, <3>1, <3>2, <3>6 DEF Levels
    <3>8. EnteredOnce' /\ OneLeaf'
      BY <1>1, <3>1, <3>4 DEF VmmInv, EnteredOnce, OneLeaf
    <3> QED BY <1>1, <3>5, <3>7, <3>8 DEF VmmInv, Levels
  <2> QED BY <2>1, <2>2, <2>3
<1> QED BY <1>1, <1>3, <1>4, <1>5

VInv == AsInv /\ VmmInv

LEMMA VStep == VInv /\ [AsNext]_asVars => VInv' /\ OnlyTestLeaf
<1> SUFFICES ASSUME VInv, [AsNext]_asVars PROVE VInv' /\ OnlyTestLeaf
  OBVIOUS
<1>1. AsInv /\ VmmInv /\ AsInv' /\ [PmmNext]_pmmVars
  BY AsStepInv DEF VInv
<1> QED BY <1>1, MapTableStep, MapLeafStep, TestUnmapStep, OtherSteps DEF AsNext, VInv

-----------------------------------------------------------------------------
\* Every variable of allocator and page tables keeps its type, and each entry has
\* one of the forms that vmm.c writes.
THEOREM AsTypeCorrect == AsSpec => []AsTypeOK
<1>1. AsInit => VInv
  BY AsInitInv, VmmInit DEF VInv
<1>2. VInv => AsTypeOK
  <2> SUFFICES ASSUME VInv PROVE AsTypeOK
    OBVIOUS
  <2>1. PmmTypeOK /\ tables \subseteq Pages
    BY DEF VInv, AsInv, PmmInv, CallersInv, PmmTypeOK
  <2>2. map.level \in 0 .. 4 /\ map.table \in Frames
    BY WayTyped DEF VInv, VmmInv, MapTyped
  <2> QED BY <2>1, <2>2 DEF VInv, VmmInv, AsTypeOK, Entries
<1> QED BY <1>1, <1>2, VStep, PTL DEF AsSpec

\* The tables stay allocated for good, every table entry leads to one of them or
\* to a boot table, and no new table is entered twice.
THEOREM TablesAlwaysKept == AsSpec => []TablesAreKept
<1>1. AsInit => VInv
  BY AsInitInv, VmmInit DEF VInv
<1>2. VInv => TablesAreKept
  <2> SUFFICES ASSUME VInv PROVE TablesAreKept
    OBVIOUS
  <2>1. tables \subseteq used
    BY DEF VInv, AsInv, PmmInv, CallersInv, GrantsMatchBitmap
  <2>2. \A f \in Kept, s \in Slots : entries[f][s].kind = "table" => entries[f][s].to \in Kept
    BY DEF VInv, VmmInv, Levels
  <2>3. EnteredOnce
    BY DEF VInv, VmmInv
  <2> QED BY <2>1, <2>2, <2>3, Zenon DEF TablesAreKept, Kept, EnteredOnce
<1> QED BY <1>1, <1>2, VStep, PTL DEF AsSpec

\* vmm_test reaches its own page through its mapping, and no entry leads to a
\* page that was given back.
THEOREM TestMappingAlwaysPrivate == AsSpec => []TestMappingIsPrivate
<1>1. AsInit => VInv
  BY AsInitInv, VmmInit DEF VInv
<1>2. VInv => TestMappingIsPrivate
  <2> SUFFICES ASSUME VInv PROVE TestMappingIsPrivate
    OBVIOUS
  <2>1. OneLeaf /\ Unmapped \notin Kept
    BY KeptFrames DEF VInv, VmmInv
  <2>2. ASSUME test.pc \in {"write", "unmap"}
        PROVE  Translate(entries, test.va) = test.phys /\ test.phys \in granted \ tables
    <3>1. PICK e4, e3, e2, e1 : Walk(entries, test.va, e4, e3, e2, e1)
      BY WalkExists
    <3>2. LeafTable(entries, test.va) # Unmapped
      BY <2>1, <2>2 DEF OneLeaf, Mapped
    <3>3. /\ e4.kind = "table" /\ e3.kind = "table" /\ e2.kind = "table"
          /\ LeafTable(entries, test.va) = e2.to
      BY <3>1, <3>2, WalkLeads
    <3>4. e1 = entries[e2.to][test.va[4]]
      BY <3>1, Zenon DEF Walk
    <3>5. e1 = Leaf(test.phys)
      BY <2>1, <2>2, <3>3, <3>4 DEF OneLeaf, Mapped
    <3>6. e1.kind = "page" /\ e1.to = test.phys
      BY <3>5 DEF Leaf
    <3>7. Translate(entries, test.va) = test.phys
      BY <3>1, <3>3, <3>6, WalkLeads
    <3> QED BY <2>2, <3>7 DEF VInv, AsInv, CallersInv
  <2>3. ASSUME NEW f \in Kept, NEW s \in Slots, entries[f][s].kind = "page"
        PROVE  entries[f][s].to \in used
    <3>1. Mapped /\ entries[f][s] = Leaf(test.phys)
      BY <2>1, <2>3 DEF OneLeaf
    <3>2. test.pc # "start"
      BY <3>1 DEF Mapped
    <3> QED BY <3>1, <3>2 DEF Leaf, VInv, AsInv, CallersInv, PmmInv, GrantsMatchBitmap
  <2> QED BY <2>2, <2>3 DEF TestMappingIsPrivate, Kept
<1> QED BY <1>1, <1>2, VStep, PTL DEF AsSpec

\* Only mapping and unmapping a leaf changes where the addresses of that leaf
\* lead: tables allocated on the way and calls that fail disturb nothing.
THEOREM OnlyTheLeafEverChanges == AsSpec => OnlyTheLeafChanges
<1>1. AsInit => VInv
  BY AsInitInv, VmmInit DEF VInv
<1>2. VInv /\ [AsNext]_asVars =>
        [\A va \in Addresses : Translate(entries, va) # Translate(entries', va) =>
             /\ test.va # <<>>
             /\ SameLeaf(entries', va, test.va)]_asVars
  BY VStep DEF OnlyTestLeaf
<1> QED BY <1>1, <1>2, VStep, PTL DEF AsSpec, OnlyTheLeafChanges

-----------------------------------------------------------------------------
(***************************************************************************)
(* The loop of pmm_alloc_pages.  What it finds is the lowest fit at or     *)
(* behind i, by induction on the pages left behind i.                      *)
(***************************************************************************)
LEMMA LeastElement ==
    ASSUME NEW S \in SUBSET Nat, S # {}
    PROVE  \E m \in S : \A n \in S : m <= n
<1>1. IsWellFoundedOn(OpToRel(<, Nat), Nat)
  BY NatLessThanWellFounded
<1>2. PICK m \in S : \A n \in S : <<n, m>> \notin OpToRel(<, Nat)
  BY <1>1, WFMin
<1>3. \A n \in S : ~ (n < m)
  BY <1>2 DEF OpToRel
<1> QED BY <1>3

\* The starts of n clear pages at or behind i, and the lowest of them.
Fits(i, n) == {s \in Pages : s >= i /\ s + n <= TotalPages /\ Run(s, n) \cap used = {}}
Lowest(i, n) == IF Fits(i, n) = {} THEN NULL ELSE CHOOSE s \in Fits(i, n) : \A t \in Fits(i, n) : s <= t

LEMMA LowestIs ==
    ASSUME NEW i \in Nat, NEW n \in Nat \ {0}, Fits(i, n) # {}
    PROVE  Lowest(i, n) \in Fits(i, n) /\ \A t \in Fits(i, n) : Lowest(i, n) <= t
<1>1. Fits(i, n) \in SUBSET Nat
  BY PageAllocatorAssumption DEF Fits, Pages
<1>2. \E s \in Fits(i, n) : \A t \in Fits(i, n) : s <= t
  BY <1>1, LeastElement
<1> QED BY <1>2 DEF Lowest

\* The bit the loop stops at, and what it jumps over: no start up to it fits.
LEMMA JumpSkipsNoFit ==
    ASSUME NEW i \in Nat, NEW n \in Nat \ {0}, Run(i, n) \cap used # {}
    PROVE  ScanStep(i, n) \in Nat /\ ScanStep(i, n) > i /\ Fits(ScanStep(i, n), n) = Fits(i, n)
<1> DEFINE S == {j \in 0 .. n - 1 : i + j \in used}
<1>1. S \in SUBSET Nat /\ S # {}
  <2>1. PICK x \in Run(i, n) : x \in used
    OBVIOUS
  <2>2. x - i \in 0 .. n - 1 /\ i + (x - i) = x
    BY <2>1 DEF Run
  <2> QED BY <2>1, <2>2
<1>2. PICK j \in S : \A k \in S : j <= k
  BY <1>1, LeastElement
<1>3. \A k \in 0 .. j - 1 : i + k \notin used
  BY <1>2
<1>4. FirstSet(i, n) \in 0 .. n - 1 /\ i + FirstSet(i, n) \in used
  BY <1>2, <1>3 DEF FirstSet
<1> DEFINE f == FirstSet(i, n)
<1>5. ScanStep(i, n) = i + f + 1
  BY DEF ScanStep
<1> HIDE DEF f
<1>6. f \in 0 .. n - 1 /\ i + f \in used
  BY <1>4 DEF f
<1>7. \A s \in Pages : s >= i /\ Run(s, n) \cap used = {} => s >= i + f + 1
  <2> SUFFICES ASSUME NEW s \in Pages, s >= i, Run(s, n) \cap used = {}, s < i + f + 1
               PROVE  FALSE
    BY <1>6, PageAllocatorAssumption DEF Pages
  <2>1. i + f \in Run(s, n)
    BY <1>6, PageAllocatorAssumption DEF Run, Pages
  <2> QED BY <1>6, <2>1
<1>8. Fits(i + f + 1, n) = Fits(i, n)
  BY <1>6, <1>7, PageAllocatorAssumption DEF Fits, Pages
<1> QED BY <1>5, <1>6, <1>8

\* The lowest fit answers the loop's equation.
LEMMA LowestScans ==
    ASSUME NEW i \in Nat, NEW n \in Nat \ {0}
    PROVE  Lowest(i, n) = IF i + n > TotalPages THEN NULL
                          ELSE IF Run(i, n) \cap used = {} THEN i
                          ELSE Lowest(ScanStep(i, n), n)
<1> USE PageAllocatorAssumption
<1>1. CASE i + n > TotalPages
  <2>1. Fits(i, n) = {}
    BY <1>1 DEF Fits, Pages
  <2> QED BY <1>1, <2>1 DEF Lowest
<1>2. CASE ~(i + n > TotalPages) /\ Run(i, n) \cap used = {}
  <2>1. i \in Fits(i, n) /\ \A t \in Fits(i, n) : i <= t
    BY <1>2 DEF Fits, Pages
  <2>2. Lowest(i, n) \in Fits(i, n) /\ Lowest(i, n) <= i
    BY <2>1, LowestIs
  <2>3. Lowest(i, n) \in Int /\ i <= Lowest(i, n)
    BY <2>1, <2>2 DEF Fits, Pages
  <2> QED BY <1>2, <2>2, <2>3
<1>3. CASE ~(i + n > TotalPages) /\ Run(i, n) \cap used # {}
  <2> DEFINE j == ScanStep(i, n)
  <2>1. Fits(j, n) = Fits(i, n)
    BY <1>3, JumpSkipsNoFit
  <2> HIDE DEF j
  <2>2. Lowest(j, n) = Lowest(i, n)
    BY <2>1 DEF Lowest
  <2> QED BY <1>3, <2>2 DEF j
<1> QED BY <1>1, <1>2, <1>3

LEMMA ScanFindsLowest ==
    ASSUME NEW n \in Nat \ {0}
    PROVE  Scan(n) = Lowest(0, n)
<1> DEFINE Equation(f) ==
             f = [i \in Nat |-> IF i + n > TotalPages THEN NULL
                                ELSE IF Run(i, n) \cap used = {} THEN i
                                ELSE f[ScanStep(i, n)]]
           from == CHOOSE f : Equation(f)
           w == [i \in Nat |-> Lowest(i, n)]
<1>1. Scan(n) = from[0]
  BY Zenon DEF Scan
<1>2. Equation(w)
  <2>1. \A i \in Nat : w[i] = IF i + n > TotalPages THEN NULL
                              ELSE IF Run(i, n) \cap used = {} THEN i
                              ELSE w[ScanStep(i, n)]
    BY LowestScans, JumpSkipsNoFit
  <2> HIDE DEF w
  <2>2. w = [i \in Nat |-> w[i]]
    BY DEF w
  <2> QED BY <2>1, <2>2
<1>3. Equation(from)
  <2> HIDE DEF Equation, w
  <2> QED BY <1>2, Zenon
<1> HIDE DEF from
<1>4. \A i \in Nat : from[i] = IF i + n > TotalPages THEN NULL
                               ELSE IF Run(i, n) \cap used = {} THEN i
                               ELSE from[ScanStep(i, n)]
  BY <1>3
<1> HIDE DEF Equation, w
<1> DEFINE S == {k \in Nat : \E i \in Nat : i + k = TotalPages /\ from[i] # Lowest(i, n)}
<1>5. S = {}
  <2> SUFFICES ASSUME S # {} PROVE FALSE
    OBVIOUS
  <2>1. S \in SUBSET Nat
    OBVIOUS
  <2>2. PICK k \in S : \A m \in S : k <= m
    BY <2>1, LeastElement
  <2>3. PICK i \in Nat : i + k = TotalPages /\ from[i] # Lowest(i, n)
    OBVIOUS
  <2>4. ~(i + n > TotalPages) /\ Run(i, n) \cap used # {}
    BY <1>4, <2>3, LowestScans
  <2> DEFINE j == ScanStep(i, n)
  <2>5. j \in Nat /\ j > i
    BY <2>4, JumpSkipsNoFit
  <2>6. from[i] = from[j] /\ Lowest(i, n) = Lowest(j, n)
    BY <1>4, <2>4, LowestScans
  <2> HIDE DEF j
  <2>7. CASE j > TotalPages
    <3>1. j + n > TotalPages
      BY <2>5, <2>7, PageAllocatorAssumption
    <3> QED BY <1>4, <2>3, <2>5, <2>6, <3>1, LowestScans
  <2>8. CASE ~(j > TotalPages)
    <3>1. TotalPages - j \in Nat /\ j + (TotalPages - j) = TotalPages /\ TotalPages - j < k
      BY <2>3, <2>5, <2>8, PageAllocatorAssumption
    <3>2. TotalPages - j \in S
      BY <2>3, <2>5, <2>6, <3>1
    <3> QED BY <2>1, <2>2, <3>1, <3>2
  <2> QED BY <2>7, <2>8
<1>6. from[0] = Lowest(0, n)
  <2>1. TotalPages \in Nat /\ 0 + TotalPages = TotalPages
    BY PageAllocatorAssumption
  <2> QED BY <1>5, <2>1
<1> QED BY <1>1, <1>6

\* The loop of pmm_alloc_pages, with its jumps behind the first set bit, finds
\* what a search of every start would find.
THEOREM ScanAlwaysFirstFit == AsSpec => []ScanIsFirstFit
<1>1. ScanIsFirstFit
  <2> USE PageAllocatorAssumption
  <2> SUFFICES ASSUME NEW n \in 1 .. TotalPages + 1
               PROVE  IF NoFit(n) THEN Scan(n) = NULL ELSE FirstFit(n, Scan(n))
    BY DEF ScanIsFirstFit
  <2>1. n \in Nat \ {0} /\ Scan(n) = Lowest(0, n)
    BY ScanFindsLowest
  <2>2. CASE NoFit(n)
    <3>1. Fits(0, n) = {}
      BY <2>2 DEF NoFit, Fits
    <3> QED BY <2>1, <2>2, <3>1 DEF Lowest
  <2>3. CASE ~NoFit(n)
    <3> DEFINE s == Lowest(0, n)
    <3>1. Fits(0, n) # {}
      BY <2>3 DEF NoFit, Fits, Pages
    <3>2. s \in Fits(0, n) /\ \A t \in Fits(0, n) : s <= t
      BY <2>1, <3>1, LowestIs
    <3> HIDE DEF s
    <3>3. s \in Pages /\ s + n <= TotalPages /\ Run(s, n) \cap used = {}
      BY <3>2 DEF Fits
    <3>4. \A t \in 0 .. s - 1 : Run(t, n) \cap used # {}
      <4> SUFFICES ASSUME NEW t \in 0 .. s - 1, Run(t, n) \cap used = {} PROVE FALSE
        OBVIOUS
      <4>1. t \in Fits(0, n) /\ t < s
        BY <2>1, <3>3 DEF Fits, Pages
      <4> QED BY <2>1, <3>2, <3>3, <4>1 DEF Pages
    <3>5. Scan(n) = s
      BY <2>1 DEF s
    <3> QED BY <2>3, <3>3, <3>4, <3>5 DEF FirstFit
  <2> QED BY <2>2, <2>3
<1> QED BY <1>1, PTL

=============================================================================
