----------------------------- MODULE TaskQueue -----------------------------
(***************************************************************************)
(* The jobs table (task_queue.py) and the worker processes that consume it *)
(* (worker.py).  A worker claims a due job, runs its handler and then      *)
(* records the outcome, in three transactions.  It may be told to stop     *)
(* (SIGTERM) or die at any point; compose starts it again, but nothing     *)
(* ever takes a job back from a worker that died.                          *)
(*                                                                         *)
(* Which due job a claim returns is left open (the code takes the smallest *)
(* run_after).  locked_at, locked_by, result and error are never read.     *)
(***************************************************************************)
EXTENDS Naturals, FiniteSets

CONSTANTS
  Job,          \* jobs that are ever enqueued
  Worker,       \* worker processes
  Known,        \* jobs whose kind has an entry in HANDLERS
  MaxAttempts,  \* the column max_attempts of each job
  BackoffBase,  \* BACKOFF_BASE_SECONDS
  Delay,        \* times from enqueue to the run_after it is given, 0 for none
  MaxCrashes,   \* bound: worker deaths
  MaxStops,     \* bound: SIGTERMs
  NoJob         \* what an idle worker holds

ASSUME QueueConstantsOK ==
  /\ Known \subseteq Job
  /\ MaxAttempts \in [Job -> Nat]
  /\ Delay \subseteq Nat
  /\ BackoffBase \in Nat /\ MaxCrashes \in Nat /\ MaxStops \in Nat
  /\ NoJob \notin Job

VARIABLES
  status,    \* status[j]: "absent" before enqueue, then the column status
  attempts,  \* attempts[j]
  wait,      \* wait[j]: time from now to run_after, 0 when the job is due
  ran,       \* ran[j]: how many times the handler of j was started
  pc,        \* pc[w]: where worker w is in its loop
  job,       \* job[w]: the job w claimed
  running,   \* running[w]: the flag _running, cleared by SIGTERM
  lost,      \* the jobs whose worker died with them
  crashes, stops  \* how often a worker died, was told to stop

vars == <<status, attempts, wait, ran, pc, job, running, lost, crashes, stops>>
table == <<status, attempts, wait>>
process == <<pc, job, running>>
history == <<lost, crashes, stops>>

Status == {"absent", "pending", "running", "done", "failed"}
PC == {"idle", "claimed", "handling", "succeeded", "raised", "exited"}

\* job.max_attempts or 3
Limit(j) == IF MaxAttempts[j] = 0 THEN 3 ELSE MaxAttempts[j]

\* The state variables have their types, and no job counts more attempts than it
\* is allowed (task_queue.py:73-76).
TypeOK ==
  /\ status \in [Job -> Status]
  /\ attempts \in [Job -> Nat] /\ wait \in [Job -> Nat] /\ ran \in [Job -> Nat]
  /\ \A j \in Job : attempts[j] <= Limit(j)
  /\ pc \in [Worker -> PC]
  /\ job \in [Worker -> Job \cup {NoJob}]
  /\ running \in [Worker -> BOOLEAN]
  /\ lost \subseteq Job
  /\ crashes \in 0..MaxCrashes /\ stops \in 0..MaxStops

Init ==
  /\ status = [j \in Job |-> "absent"]
  /\ attempts = [j \in Job |-> 0]
  /\ wait = [j \in Job |-> 0]
  /\ ran = [j \in Job |-> 0]
  /\ pc = [w \in Worker |-> "idle"]
  /\ job = [w \in Worker |-> NoJob]
  /\ running = [w \in Worker |-> TRUE]
  /\ lost = {} /\ crashes = 0 /\ stops = 0

-----------------------------------------------------------------------------
(* The table: class TaskQueue *)

Enqueue(j, delay) ==
  /\ status[j] = "absent"
  /\ status' = [status EXCEPT ![j] = "pending"]
  /\ wait' = [wait EXCEPT ![j] = delay]
  /\ UNCHANGED <<attempts, ran, process, history>>

Claimable(j) == status[j] = "pending" /\ wait[j] = 0

\* claim() by the loop of worker w: one transaction, SKIP LOCKED on PostgreSQL.
Claim(w, j) ==
  /\ pc[w] = "idle" /\ running[w]
  /\ Claimable(j)
  /\ status' = [status EXCEPT ![j] = "running"]
  /\ pc' = [pc EXCEPT ![w] = "claimed"]
  /\ job' = [job EXCEPT ![w] = j]
  /\ UNCHANGED <<attempts, wait, ran, running, history>>

\* The worker is back at the top of its loop with nothing in hand.
Release(w) ==
  /\ pc' = [pc EXCEPT ![w] = "idle"]
  /\ job' = [job EXCEPT ![w] = NoJob]
  /\ UNCHANGED <<running, ran, history>>

\* complete()
Complete(w) ==
  /\ pc[w] = "succeeded"
  /\ status' = [status EXCEPT ![job[w]] = "done"]
  /\ Release(w)
  /\ UNCHANGED <<attempts, wait>>

\* MUTANTS of Fail: one attempt too many; the status of a retried job not reset.
FailOneMore(w, permanent) ==
  LET j == job[w]
      n == attempts[j] + 1
  IN /\ attempts' = [attempts EXCEPT ![j] = n]
     /\ IF permanent \/ n > Limit(j)
        THEN status' = [status EXCEPT ![j] = "failed"] /\ UNCHANGED wait
        ELSE /\ status' = [status EXCEPT ![j] = "pending"]
             /\ wait' = [wait EXCEPT ![j] = BackoffBase * 2^n]
     /\ Release(w)

FailKeepsRunning(w, permanent) ==
  LET j == job[w]
      n == attempts[j] + 1
  IN /\ attempts' = [attempts EXCEPT ![j] = n]
     /\ IF permanent \/ n >= Limit(j)
        THEN status' = [status EXCEPT ![j] = "failed"] /\ UNCHANGED wait
        ELSE wait' = [wait EXCEPT ![j] = BackoffBase * 2^n] /\ UNCHANGED status
     /\ Release(w)

\* fail(): back to pending after a delay, or failed for good.
Fail(w, permanent) ==
  LET j == job[w]
      n == attempts[j] + 1
  IN /\ attempts' = [attempts EXCEPT ![j] = n]
     /\ IF permanent \/ n >= Limit(j)
        THEN status' = [status EXCEPT ![j] = "failed"] /\ UNCHANGED wait
        ELSE /\ status' = [status EXCEPT ![j] = "pending"]
             /\ wait' = [wait EXCEPT ![j] = BackoffBase * 2^n]
     /\ Release(w)

-----------------------------------------------------------------------------
(* The loop of a worker: run() *)

\* HANDLERS has no entry for the kind: failed at once.
RejectUnknown(w) == pc[w] = "claimed" /\ job[w] \notin Known /\ Fail(w, TRUE)

StartHandler(w) ==
  /\ pc[w] = "claimed" /\ job[w] \in Known
  /\ pc' = [pc EXCEPT ![w] = "handling"]
  /\ ran' = [ran EXCEPT ![job[w]] = @ + 1]
  /\ UNCHANGED <<table, job, running, history>>

\* The handler returns, or raises; complete() is in the same try block, so it may
\* also raise after the handler has done its work.
HandlerEnds(w) ==
  /\ pc[w] = "handling"
  /\ \E outcome \in {"succeeded", "raised"} : pc' = [pc EXCEPT ![w] = outcome]
  /\ UNCHANGED <<table, ran, job, running, history>>

CompleteRaises(w) ==
  /\ pc[w] = "succeeded"
  /\ pc' = [pc EXCEPT ![w] = "raised"]
  /\ UNCHANGED <<table, ran, job, running, history>>

Retry(w) == pc[w] = "raised" /\ Fail(w, FALSE)

\* MUTANT of Exit: the loop is left as soon as the flag is cleared.
ExitAtOnce(w) ==
  /\ ~running[w] /\ pc[w] # "exited"
  /\ pc' = [pc EXCEPT ![w] = "exited"]
  /\ job' = [job EXCEPT ![w] = NoJob]
  /\ UNCHANGED <<table, ran, running, history>>

\* while _running: the flag is looked at between two jobs only.
Exit(w) ==
  /\ ~running[w] /\ pc[w] = "idle"
  /\ pc' = [pc EXCEPT ![w] = "exited"]
  /\ UNCHANGED <<table, ran, job, running, history>>

\* SIGTERM or SIGINT.
Stop(w) ==
  /\ running[w] /\ stops < MaxStops
  /\ running' = [running EXCEPT ![w] = FALSE]
  /\ stops' = stops + 1
  /\ UNCHANGED <<table, ran, pc, job, lost, crashes>>

\* The process dies, or claim() or fail() raises, which nothing in run() catches.
Crash(w) ==
  /\ pc[w] # "exited" /\ crashes < MaxCrashes
  /\ pc' = [pc EXCEPT ![w] = "exited"]
  /\ job' = [job EXCEPT ![w] = NoJob]
  /\ lost' = lost \cup ({job[w]} \ {NoJob})
  /\ crashes' = crashes + 1
  /\ UNCHANGED <<table, ran, running, stops>>

\* restart: unless-stopped
Restart(w) ==
  /\ pc[w] = "exited"
  /\ pc' = [pc EXCEPT ![w] = "idle"]
  /\ running' = [running EXCEPT ![w] = TRUE]
  /\ UNCHANGED <<table, ran, job, history>>

\* Time passes until the next run_after, or to a point before it.
Tick ==
  /\ \E j \in Job : wait[j] > 0
  /\ wait' = [j \in Job |-> IF wait[j] > 0 THEN wait[j] - 1 ELSE 0]
  /\ UNCHANGED <<status, attempts, ran, process, history>>

\* claim() finds nothing due: the worker sleeps and asks again.
Poll(w) ==
  /\ pc[w] = "idle" /\ running[w]
  /\ \A j \in Job : ~Claimable(j)
  /\ UNCHANGED vars

Work(w) ==
  \/ \E j \in Job : Claim(w, j)
  \/ RejectUnknown(w) \/ StartHandler(w) \/ HandlerEnds(w)
  \/ Complete(w) \/ Retry(w) \/ Exit(w) \/ Restart(w)

Next ==
  \/ \E j \in Job, delay \in Delay : Enqueue(j, delay)
  \/ \E w \in Worker : Work(w) \/ CompleteRaises(w) \/ Stop(w) \/ Crash(w) \/ Poll(w)
  \/ Tick

\* A worker that is up keeps polling, a handler returns, compose restarts a worker
\* that has gone, and time passes.
Fairness == WF_vars(Tick) /\ \A w \in Worker : WF_vars(Work(w))

Spec == Init /\ [][Next]_vars /\ Fairness

-----------------------------------------------------------------------------
(* Properties *)

\* However many workers poll and die, no handler is started more often than
\* max_attempts allows, although the count is kept only when an attempt fails.
RunsBounded == \A j \in Job : ran[j] <= (IF j \in Known THEN Limit(j) ELSE 0)

\* A running job is in the hands of exactly one worker, except after a crash: a
\* SIGTERM in the middle of a job never strands it.
HeldOrLost ==
  \A j \in Job :
    LET holders == {w \in Worker : job[w] = j}
    IN IF status[j] = "running" THEN Cardinality(holders) = (IF j \in lost THEN 0 ELSE 1)
       ELSE holders = {}

\* Every job is done or failed in the end, unless its worker died with it.
JobsEnd ==
  \A j \in Job : status[j] = "pending" ~> status[j] \in {"done", "failed"} \/ j \in lost
=============================================================================
