---------------------------- MODULE MCTaskQueue ----------------------------
(***************************************************************************)
(* Two workers, one job whose kind is unknown and two with a handler, one  *)
(* of them with max_attempts 0, which the code reads as 3.                 *)
(***************************************************************************)
EXTENDS TaskQueue, TLC

CONSTANTS twice, thrice, unknown

MCMaxAttempts == (twice :> 2) @@ (thrice :> 0) @@ (unknown :> 2)
=============================================================================
