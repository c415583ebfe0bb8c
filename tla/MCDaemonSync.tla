---------------------------- MODULE MCDaemonSync ----------------------------
(***************************************************************************)
(* Small instances of DaemonSync: contents of different sizes, and budgets *)
(* that name how often the user, the web client, the network and the       *)
(* process interfere.                                                      *)
(***************************************************************************)
EXTENDS DaemonSync, TLC

CONSTANTS c1, c2, Edits, WebChanges, Faults, Crashes

MCSize == (c1 :> 1) @@ (c2 :> 2)

MCBudget ==
  ("edit" :> Edits) @@ ("web" :> WebChanges) @@ ("fault" :> Faults) @@ ("crash" :> Crashes)

FileSymmetry == Permutations(File)
=============================================================================
