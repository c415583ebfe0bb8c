--------------------------- MODULE FileLifecycle ---------------------------
(***************************************************************************)
(* What the library promises about one row of files, whatever its path and *)
(* content: it is created once, goes to the trash and back, and once gone  *)
(* it never returns.  A sweep (a step that removes several rows, or one    *)
(* row nobody named) takes only rows of the trash that are not locked.     *)
(***************************************************************************)
EXTENDS Naturals, FiniteSets

CONSTANTS Id, Retention

VARIABLES
  phase,   \* "unborn", "active", "trash" or "gone"
  age,     \* days since the row was last moved to the trash, up to Retention
  locked   \* protected from sweeps

vars == <<phase, age, locked>>

In(ph) == {r \in Id : phase[r] = ph}

Init ==
  /\ phase = [r \in Id |-> "unborn"]
  /\ age = [r \in Id |-> 0]
  /\ locked = [r \in Id |-> FALSE]

\* Rows S change phase; a row's age starts from 0, and a row that is gone
\* keeps no lock.
Move(S, ph) ==
  /\ phase' = [r \in Id |-> IF r \in S THEN ph ELSE phase[r]]
  /\ age' = [r \in Id |-> IF r \in S THEN 0 ELSE age[r]]
  /\ locked' = [r \in Id |-> IF r \in S /\ ph = "gone" THEN FALSE ELSE locked[r]]

Create == \E S \in SUBSET In("unborn") : Move(S, "active")
Delete == \E r \in In("active") \cup In("trash") : Move({r}, "trash")
Restore == \E S \in SUBSET In("trash") : Move(S, "active")
RemoveOne == \E r \in In("active") \cup In("trash") : Move({r}, "gone")
Sweep == \E S \in SUBSET {r \in In("trash") : ~locked[r]} : Move(S, "gone")

SetLock ==
  /\ \E r \in In("trash") : locked' = [locked EXCEPT ![r] = ~@]
  /\ UNCHANGED <<phase, age>>

DayPasses ==
  /\ age' = [r \in Id |-> IF r \in In("trash") /\ age[r] < Retention
                          THEN age[r] + 1 ELSE age[r]]
  /\ UNCHANGED <<phase, locked>>

Next == Create \/ Delete \/ Restore \/ RemoveOne \/ Sweep \/ SetLock \/ DayPasses

Spec == Init /\ [][Next]_vars
=============================================================================
