--------------------------- MODULE MCPilotImport ---------------------------
(***************************************************************************)
(* Two files at a time, of two files of items and two openings of          *)
(* different places, and two calls under two keys.                         *)
(***************************************************************************)
EXTENDS PilotImport, TLC

CONSTANTS f1, f2, o1, o2, bolt, nut, screw, here, there, main

MCTypeOf == [i \in Batches |-> IF i \in {f1, f2} THEN "items" ELSE "opening_inventory_balances"]
MCRowsOf == f1 :> (bolt :> 1) @@ f2 :> (nut :> 1 @@ screw :> 1) @@ o1 :> (here :> 2) @@ o2 :> (there :> 0)
MCKeyItem == [k \in BalanceKeys |-> bolt]
MCKeyWarehouse == [k \in BalanceKeys |-> main]
MCOpeningStock == [k \in BalanceKeys |-> 0]

\* Calls are interchangeable, and so are idempotency keys.
MCSymmetry == Permutations(Attempts) \cup Permutations(ImportKeys)

TwoFiles == Cardinality({i \in Batches : batch[i] # NoBatch}) <= 2
=============================================================================
