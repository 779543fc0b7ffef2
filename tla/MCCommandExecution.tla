------------------------- MODULE MCCommandExecution -------------------------
(***************************************************************************)
(* Two deliveries of one request race each other, a second caller writes   *)
(* the same version, and a third follows up on whichever of them wins      *)
(* under the key of the first with another payload.                        *)
(***************************************************************************)
EXTENDS CommandExecution, TLC

CONSTANTS q1, q2, q3, k1, k2, a1, b1, a2, a3

MCKeyOf == q1 :> k1 @@ q2 :> k2 @@ q3 :> k1
MCHashOf == q1 :> "h1" @@ q2 :> "h2" @@ q3 :> "h3"
MCExpected == q1 :> 0 @@ q2 :> 0 @@ q3 :> 1
MCRequestOf == a1 :> q1 @@ b1 :> q1 @@ a2 :> q2 @@ a3 :> q3
=============================================================================
