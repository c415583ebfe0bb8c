--------------------------- MODULE MCFileLibrary ---------------------------
(***************************************************************************)
(* Small instances of FileLibrary: two directories, a name and the name a  *)
(* restore gives it, two contents of different size.                       *)
(***************************************************************************)
EXTENDS FileLibrary, TLC

CONSTANTS c1, c2, plain, recovered

MCRecovered == (plain :> <<recovered>>) @@ (recovered :> <<>>)
MCSize == (c1 :> 1) @@ (c2 :> 2)

IdSymmetry == Permutations(Id)
=============================================================================
