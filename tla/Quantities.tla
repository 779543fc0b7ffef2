----------------------------- MODULE Quantities -----------------------------
(***************************************************************************)
(* Sums of quantities.  Rows of the database carry decimal quantities that *)
(* the server adds up as whole units (BigInt tens of thousandths); the      *)
(* modules of this project add up natural numbers of units.                *)
(*                                                                         *)
(* A family of quantities is a function q from a finite set of rows to     *)
(* Nat.  Its total is the number of units it holds: q[x] of them, numbered *)
(* from 1, for every row x.  Counting units instead of recursing over the  *)
(* rows keeps the definition free of recursion, so that the facts about it *)
(* in QuantityLemmas follow from those about cardinalities.                *)
(***************************************************************************)
EXTENDS Integers, FiniteSets

\* The units of the family q: unit k of row x is <<x, k>>.
Units(q) == UNION {{x} \X (1..q[x]) : x \in DOMAIN q}

\* The sum of the family q.
Total(q) == Cardinality(Units(q))
=============================================================================
