---------------------------- MODULE MCAgentLoop -----------------------------
(***************************************************************************)
(* Two conversations over two files.  The model answers with a batch that  *)
(* reads, fails to parse and deletes, or with two purges, of which the     *)
(* second is left unanswered when the first is suspended.                  *)
(***************************************************************************)
EXTENDS AgentLoop, TLC

CONSTANTS r1, r2, p1, p2

Do(tool, path) == [tool |-> tool, path |-> path]

MCBatch == {<<Do("read", p1), Do("malformed", p1), Do("delete", p1)>>,
            <<Do("purge", p1), Do("purge", p2)>>}

MCEndpoint == {"v1", "sync"}

RunSymmetry == Permutations(Run)

=============================================================================
