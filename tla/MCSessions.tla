----------------------------- MODULE MCSessions -----------------------------
(***************************************************************************)
(* Two computers whose browsers have the same user agent, and a phone.     *)
(***************************************************************************)
EXTENDS Sessions, TLC

CONSTANTS home, office, phone, desktop, mobile

MCUserAgent == (home :> desktop) @@ (office :> desktop) @@ (phone :> mobile)

\* The two computers are interchangeable.
Symmetry == Permutations({home, office})
=============================================================================
