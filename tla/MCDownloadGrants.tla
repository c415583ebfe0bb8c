-------------------------- MODULE MCDownloadGrants --------------------------
(* An instance of DownloadGrants for TLC. *)
EXTENDS DownloadGrants, TLC

MCMinutes == {1, 2}
MCSymmetry == Permutations(Req) \cup Permutations(Path)
=============================================================================
