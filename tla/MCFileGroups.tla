---------------------------- MODULE MCFileGroups ----------------------------
(* An instance of FileGroups for TLC. *)
EXTENDS FileGroups, TLC

MCSymmetry == Permutations(Req) \cup Permutations(Group)
              \cup Permutations(File)
=============================================================================
