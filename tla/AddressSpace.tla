---------------------------- MODULE AddressSpace ----------------------------
(***************************************************************************)
(* The kernel's page tables (kernel/vmm.c) over the page allocator, with   *)
(* its one user, vmm_test, and the tables the boot loader leaves.          *)
(*                                                                         *)
(* vmm_map_page allocates up to three tables before it writes the leaf;    *)
(* each level is a step here, because each may be the one that fails.      *)
(***************************************************************************)
EXTENDS PageAllocator

CONSTANTS
    Slots,          \* the indices of a table that are looked at (of 512)
    BootTables,     \* the tables at 0x1000 .. 0x3000, numbered below every page
    BootEntries,    \* what they hold at boot: [BootTables -> [Slots -> entry]]
    TestAddresses   \* the addresses vmm_test may use: <<pml4, pdpt, pd, pt>>

Addresses == Slots \X Slots \X Slots \X Slots
Frames    == BootTables \cup Pages

\* An entry: not present, a table, a huge page, a 4 KB page.  A frame that was
\* not zeroed when it became a table reads as present entries nobody wrote.
Unmapped   == -100
PML4       == -2
NoEntry    == [kind |-> "none", to |-> Unmapped]
Stale      == [kind |-> "page", to |-> Unmapped + 1]
Table(t)   == [kind |-> "table", to |-> t]
Leaf(pa)   == [kind |-> "page", to |-> pa]
Huge(base) == [kind |-> "huge", to |-> base]

Entries == [kind : {"none", "table", "page", "huge"}, to : Int]

\* What the boot loader leaves (stage2_32.asm): tables down to those of the 2 MB
\* pages, in levels, with no 4 KB page mapped.
ASSUME BootAssumption ==
    /\ BootTables \subseteq Int \ (Pages \cup {Unmapped, NULL}) /\ PML4 \in BootTables
    /\ BootEntries \in [BootTables -> [Slots -> Entries]]
    /\ TestAddresses \subseteq Addresses
    /\ \E level \in [BootTables -> 2 .. 4] :
         /\ level[PML4] = 4
         /\ \A f \in BootTables, s \in Slots :
              \/ BootEntries[f][s] = NoEntry \/ BootEntries[f][s].kind = "huge"
              \/ /\ BootEntries[f][s].kind = "table" /\ BootEntries[f][s].to \in BootTables
                 /\ level[BootEntries[f][s].to] = level[f] - 1

VARIABLES
    entries,        \* the tables: [Frames -> [Slots -> entry]]
    map,            \* the vmm_map_page call under way: va, pa, level, table
    test,           \* where vmm_test is, with its page and address
    tables,         \* history: the pages that became tables
    leaked          \* history: the pages vmm_test did not give back

asVars == <<entries, map, test, tables, leaked, pmmVars>>

Idle == [level |-> 0, table |-> PML4, va |-> <<>>, pa |-> NULL, result |-> "none"]

AsInit ==
    /\ PmmInit
    /\ entries = [f \in Frames |-> IF f \in BootTables THEN BootEntries[f] ELSE [s \in Slots |-> NoEntry]]
    /\ map = Idle
    /\ test = [pc |-> "start", va |-> <<>>, phys |-> NULL]
    /\ tables = {} /\ leaked = {}

-----------------------------------------------------------------------------
\* vmm_get_phys, for any tables: where va leads, or Unmapped.  A frame that is
\* no table of its own (a huge page's) is never descended into.
Translate(es, va) ==
    LET e4 == es[PML4][va[1]] IN
    IF e4.kind # "table" THEN Unmapped ELSE
    LET e3 == es[e4.to][va[2]] IN
    IF e3.kind = "none" THEN Unmapped ELSE IF e3.kind # "table" THEN e3.to ELSE
    LET e2 == es[e3.to][va[3]] IN
    IF e2.kind = "none" THEN Unmapped ELSE IF e2.kind # "table" THEN e2.to ELSE
    LET e1 == es[e2.to][va[4]] IN
    IF e1.kind = "none" THEN Unmapped ELSE e1.to

\* The tables that va goes through, and whether it goes all the way down.
LeafTable(es, va) ==
    LET e4 == es[PML4][va[1]]
        e3 == es[e4.to][va[2]]
        e2 == es[e3.to][va[3]]
    IN  IF e4.kind = "table" /\ e3.kind = "table" /\ e2.kind = "table" THEN e2.to ELSE Unmapped

\* Two addresses that use the same leaf entry: the higher half is mapped by the
\* same tables as the lower one (PML4[0] and PML4[511], PDPT[0] and PDPT[510]).
SameLeaf(es, va, vb) == LeafTable(es, va) # Unmapped /\ LeafTable(es, va) = LeafTable(es, vb) /\ va[4] = vb[4]

-----------------------------------------------------------------------------
(***************************************************************************)
(* vmm_map_page.  level 4, 3, 2: the table there is looked up, or a page   *)
(* is allocated for it; level 1: the leaf is written.                      *)
(***************************************************************************)
Return(result) == map' = [map EXCEPT !.level = 0, !.result = result]

Index == map.va[5 - map.level]
Entry == entries[map.table][Index]
Down(t) == map' = [map EXCEPT !.level = @ - 1, !.table = t]

NewTable(es, t, i, p) ==
    [es EXCEPT ![t][i] = Table(p),
               ![p] = [s \in Slots |-> IF p \in dirty' THEN Stale ELSE NoEntry]]

MapTable ==
    /\ map.level > 1
    /\ \/ /\ Entry.kind = "huge"                 \* no split: the call fails
          /\ Return("failed")
          /\ UNCHANGED <<entries, tables, pmmVars>>
       \/ /\ Entry.kind \in {"table", "page"}    \* present
          /\ Down(Entry.to)
          /\ UNCHANGED <<entries, tables, pmmVars>>
       \/ /\ Entry.kind = "none"
          /\ \E p \in Pages \cup {NULL} :
                /\ AllocPage(p)
                /\ IF p = NULL
                   THEN Return("failed") /\ UNCHANGED <<entries, tables>>
                   ELSE /\ entries' = NewTable(entries, map.table, Index, p)
                        /\ tables' = tables \cup {p}
                        /\ Down(p)
    /\ UNCHANGED <<test, leaked>>

MapLeaf ==
    /\ map.level = 1
    /\ IF Entry.kind # "none"
       THEN Return("failed") /\ UNCHANGED entries
       ELSE /\ entries' = [entries EXCEPT ![map.table][Index] = Leaf(map.pa)]
            /\ Return("mapped")
    /\ UNCHANGED <<test, tables, leaked, pmmVars>>

\* Mutant of Cleared: the entry stays.
NotCleared(es, va) == es

\* vmm_unmap_page, for an address that has a leaf table.
Cleared(es, va) == [es EXCEPT ![LeafTable(es, va)][va[4]] = NoEntry]

-----------------------------------------------------------------------------
(***************************************************************************)
(* vmm_test, called again and again with the addresses of interest; other  *)
(* callers take and return pages between its calls.                        *)
(***************************************************************************)
TestAlloc ==
    /\ test.pc = "start" /\ map.level = 0
    /\ \E p \in Pages \cup {NULL}, va \in TestAddresses :
         /\ AllocPage(p)
         /\ IF p = NULL
            THEN UNCHANGED <<test, map>>
            ELSE /\ test' = [pc |-> "mapping", va |-> va, phys |-> p]
                 /\ map' = [level |-> 4, table |-> PML4, va |-> va, pa |-> p, result |-> "none"]
    /\ UNCHANGED <<entries, tables, leaked>>

\* When the call fails vmm_test returns without giving its page back.
TestMapped ==
    /\ test.pc = "mapping" /\ map.level = 0
    /\ IF map.result = "mapped"
       THEN test' = [test EXCEPT !.pc = "write"] /\ UNCHANGED leaked
       ELSE test' = [test EXCEPT !.pc = "start"] /\ leaked' = leaked \cup {test.phys}
    /\ UNCHANGED <<entries, map, tables, pmmVars>>

TestWrite ==
    /\ test.pc = "write" /\ Write(test.phys)
    /\ test' = [test EXCEPT !.pc = "unmap"]
    /\ UNCHANGED <<entries, map, tables, leaked>>

TestUnmap ==
    /\ test.pc = "unmap"
    /\ entries' = Cleared(entries, test.va)
    /\ test' = [test EXCEPT !.pc = "free"]
    /\ UNCHANGED <<map, tables, leaked, pmmVars>>

TestFree ==
    /\ test.pc = "free" /\ FreePage(test.phys)
    /\ test' = [pc |-> "start", va |-> <<>>, phys |-> NULL]
    /\ UNCHANGED <<entries, map, tables, leaked>>

\* The pages of the other callers.
Held == granted \ (tables \cup leaked)

\* Another caller, between two calls of vmm_test.
OtherCaller ==
    /\ test.pc = "start"
    /\ \/ \E n \in RunLengths : \E s \in Pages \cup {NULL} : AllocPages(n, s)
       \/ \E n \in RunLengths : \E s \in Pages : Run(s, n) \subseteq Held /\ FreePages(s, n)
       \/ \E p \in Held \cup {NULL} : FreePage(p)
       \/ \E p \in Held : Write(p)
    /\ UNCHANGED <<entries, map, test, tables, leaked>>

AsNext == MapTable \/ MapLeaf \/ TestAlloc \/ TestMapped \/ TestWrite \/ TestUnmap \/ TestFree \/ OtherCaller

AsSpec == AsInit /\ [][AsNext]_asVars

-----------------------------------------------------------------------------
\* Every entry names something, and the call under way stands at a table.
AsTypeOK ==
    /\ PmmTypeOK
    /\ DOMAIN entries = Frames /\ tables \subseteq Pages
    /\ \A f \in Frames, s \in Slots :
         entries[f][s] = NoEntry \/ entries[f][s].kind \in {"table", "page", "huge"}
    /\ map.level \in 0 .. 4 /\ map.table \in Frames

\* The pages used as tables stay allocated for good and belong to nobody else:
\* every table entry leads to one of them or to a boot table, and no new table
\* is entered twice, so that they form trees below the boot tables (vmm.c: tables
\* are never freed, and the allocator must not hand them out again).
TablesAreKept ==
    /\ tables \subseteq used
    /\ \A f \in BootTables \cup tables, s \in Slots :
         entries[f][s].kind = "table" => entries[f][s].to \in BootTables \cup tables
    /\ \A f, g \in BootTables \cup tables, s, t \in Slots :
         /\ entries[f][s].kind = "table" /\ entries[g][t].kind = "table"
         /\ entries[f][s].to = entries[g][t].to /\ entries[f][s].to \in tables
         => f = g /\ s = t

\* A step changes where an address leads only by mapping or unmapping that very
\* leaf: allocating tables for one address, and a failed call, disturb no other
\* (vmm.c: vmm_map_page; it relies on fresh tables being zero).
OnlyTheLeafChanges ==
    [][\A va \in Addresses :
         Translate(entries, va) # Translate(entries', va) =>
             /\ test.va # <<>>
             /\ SameLeaf(entries', va, test.va)]_asVars

\* While vmm_test holds its mapping, the address leads to its own page, which
\* nobody else was given; afterwards no entry leads to a page that was freed.
TestMappingIsPrivate ==
    /\ test.pc \in {"write", "unmap"} =>
         Translate(entries, test.va) = test.phys /\ test.phys \in granted \ tables
    /\ \A f \in BootTables \cup tables, s \in Slots :
         entries[f][s].kind = "page" => entries[f][s].to \in used
=============================================================================
