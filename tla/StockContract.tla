---------------------------- MODULE StockContract ----------------------------
(***************************************************************************)
(* What the stock of a tenant promises to everyone who writes it: units    *)
(* come, go and move between places as long as every place holds what is   *)
(* promised of it; units are promised and released; and promised units are *)
(* shipped to those they were promised to, and may come back promised.  A  *)
(* commit does one of these, to any number of places at once.              *)
(***************************************************************************)
EXTENDS Integers

CONSTANTS Keys, Opening

VARIABLES onHand, promised

contractVars == <<onHand, promised>>

ContractInit ==
  /\ onHand = Opening
  /\ promised = [b \in Keys |-> 0]

\* Every key holds what is promised of it.
Kept == \A b \in Keys : 0 <= promised'[b] /\ promised'[b] <= onHand'[b]

\* What is free of each key changes; the promises stand.
Restock == UNCHANGED promised

Promise ==
  /\ \A b \in Keys : promised'[b] >= promised[b]
  /\ UNCHANGED onHand

Release ==
  /\ \A b \in Keys : promised'[b] <= promised[b]
  /\ UNCHANGED onHand

\* Promised units leave, or come back promised: what is free stays the same.
FreeStays == \A b \in Keys : onHand'[b] - promised'[b] = onHand[b] - promised[b]

ShipPromised == FreeStays /\ \A b \in Keys : onHand'[b] <= onHand[b]
ReturnPromised == FreeStays /\ \A b \in Keys : onHand'[b] >= onHand[b]

ContractNext ==
  /\ Restock \/ Promise \/ Release \/ ShipPromised \/ ReturnPromised
  /\ Kept

ContractSpec == ContractInit /\ [][ContractNext]_contractVars
=============================================================================
