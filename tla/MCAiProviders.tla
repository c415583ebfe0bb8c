--------------------------- MODULE MCAiProviders ---------------------------
(* An instance of AiProviders for TLC. *)
EXTENDS AiProviders, TLC

MCSymmetry == Permutations(Req) \cup Permutations(Provider)
=============================================================================
