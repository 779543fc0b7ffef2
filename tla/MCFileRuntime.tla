--------------------------- MODULE MCFileRuntime ---------------------------
(***************************************************************************)
(* Three writes through two repositories of one file, and one crash.       *)
(***************************************************************************)
EXTENDS FileRuntime, TLC

CONSTANTS w1, w2, w3, r1, r2

MCRepositoryOf == w1 :> r1 @@ w2 :> r2 @@ w3 :> r1
=============================================================================
