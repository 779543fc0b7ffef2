---------------------------- MODULE StockBalance ----------------------------
(***************************************************************************)
(* The two tables every stock command writes: InventoryBalance, one row    *)
(* for each (sku, warehouse, location) key, and InventoryMovement, the     *)
(* append-only ledger.  Receiving, outbound, inventory operations and      *)
(* returns extend this module and write both in one transaction.           *)
(*                                                                         *)
(* The ledger is kept as the sums of its quantity columns per key, which   *)
(* is what the rebuild of a balance reads.  A row the database does not    *)
(* hold yet is a row of zeros: the upsert of a missing row and the         *)
(* increment of a zero row write the same values.                          *)
(***************************************************************************)
EXTENDS Quantities

CONSTANTS
  BalanceKeys,    \* the (sku, warehouse, location) keys
  KeyItem,        \* the item (SKU) a key holds
  KeyWarehouse,   \* the warehouse of a key
  OpeningStock,   \* quantity brought in by the opening balance import
  None            \* null

ASSUME StockAssumption ==
  /\ IsFiniteSet(BalanceKeys)
  /\ OpeningStock \in [BalanceKeys -> Nat]

VARIABLES
  balance,    \* the row of each key
  movement    \* the column sums of the movements posted on each key

stockVars == <<balance, movement>>

BalanceRow == [onHand : Int, reserved : Int, available : Int, version : Nat]
MovementSums == [quantityIn : Nat, quantityOut : Nat, adjustmentQty : Int]

StockTypeOK ==
  /\ balance \in [BalanceKeys -> BalanceRow]
  /\ movement \in [BalanceKeys -> MovementSums]

(***************************************************************************)
(* The opening balance import runs before business starts: it posts one    *)
(* opening_balance movement for each key and the same quantity on hand.    *)
(***************************************************************************)
StockInit ==
  /\ balance = [b \in BalanceKeys |->
       [onHand |-> OpeningStock[b], reserved |-> 0,
        available |-> OpeningStock[b], version |-> 1]]
  /\ movement = [b \in BalanceKeys |->
       [quantityIn |-> OpeningStock[b], quantityOut |-> 0, adjustmentQty |-> 0]]

\* What the rebuild of a balance from its posted movements yields.
CalculateMovementBalance(b) ==
  movement[b].quantityIn - movement[b].quantityOut + movement[b].adjustmentQty

(***************************************************************************)
(* The row the reservation, shipment and adjustment policies insist on     *)
(* before they touch a balance.                                            *)
(***************************************************************************)
Reconciles(b) == balance[b].available = balance[b].onHand - balance[b].reserved

(***************************************************************************)
(* Available stock is what is on hand and not reserved, and nothing is     *)
(* ever promised twice: reservations never exceed the stock on hand.       *)
(***************************************************************************)
StockNeverOversold ==
  \A b \in BalanceKeys :
    /\ Reconciles(b)
    /\ 0 <= balance[b].reserved
    /\ balance[b].reserved <= balance[b].onHand

(***************************************************************************)
(* The ledger explains every unit on hand: rebuilding a balance from its   *)
(* movements gives the quantity the balance row shows.                     *)
(***************************************************************************)
OnHandMatchesMovements ==
  \A b \in BalanceKeys : balance[b].onHand = CalculateMovementBalance(b)
=============================================================================
