--------------------------- MODULE MCAddressSpace ---------------------------
(***************************************************************************)
(* A boot with two entries in every table: one 2 MB page, one hole, and    *)
(* the two halves of the address space on the same tables.                 *)
(***************************************************************************)
EXTENDS AddressSpace, TLC

TwoSlots == {0, 1}
PDPT == -3
PD   == -4
ThreeTables == {PML4, PDPT, PD}

BiosEntries == [f \in ThreeTables |->
    CASE f = PML4 -> [s \in TwoSlots |-> Table(PDPT)]
      [] f = PDPT -> (0 :> Table(PD) @@ 1 :> NoEntry)
      [] f = PD   -> (0 :> Huge(-5) @@ 1 :> NoEntry)]

\* A hole in the boot PD, an address under a missing PDPT entry, its twin in the
\* other half, and one inside the huge page.
Tried == {<<0, 0, 1, 0>>, <<0, 0, 1, 1>>, <<0, 1, 0, 0>>, <<1, 1, 0, 0>>, <<0, 0, 0, 1>>}
=============================================================================
