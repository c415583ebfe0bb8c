-------------------------- MODULE TaskQueueProofs --------------------------
(***************************************************************************)
(* What holds of TaskQueue for any jobs, workers, attempt limits, crashes  *)
(* and signals: a running job has one holder, and no handler is started    *)
(* more often than its limit.  The invariant says nothing of wait: whether *)
(* a job is due decides when it runs, not who holds it.  Its type rests on *)
(* powers of two being numbers of subsets.                                 *)
(***************************************************************************)
EXTENDS TaskQueue, FiniteSetTheorems, TLAPS

-----------------------------------------------------------------------------
(* The inductive invariant *)

\* The variables the argument is about have their types.
Types ==
  /\ status \in [Job -> Status]
  /\ attempts \in [Job -> Nat] /\ ran \in [Job -> Nat]
  /\ pc \in [Worker -> PC]
  /\ job \in [Worker -> Job \cup {NoJob}]

\* Where a worker is in its loop says whether it holds a job.
Holding == {"claimed", "handling", "succeeded", "raised"}
Started == {"handling", "succeeded", "raised"}

\* A worker holds a job in the middle of its loop only, the job is running and
\* not lost, and no other worker holds it.
HeldRight ==
  /\ \A w \in Worker : pc[w] \in Holding <=> job[w] # NoJob
  /\ \A w \in Worker : job[w] # NoJob => status[job[w]] = "running" /\ job[w] \notin lost
  /\ \A v, w \in Worker : job[v] = job[w] /\ job[v] # NoJob => v = w

\* Lost jobs run for ever, and any other running job is held.
RunningRight ==
  /\ \A j \in lost : j \in Job /\ status[j] = "running"
  /\ \A j \in Job : status[j] = "running" /\ j \notin lost => \E w \in Worker : job[w] = j

\* A start is counted as an attempt by the time the job is pending again, and a
\* job that may still be started has an attempt left.
CountsRight ==
  /\ \A j \in Job \ Known : ran[j] = 0
  /\ \A j \in Known : ran[j] <= Limit(j)
  /\ \A j \in Job : status[j] \in {"absent", "pending"} =>
       ran[j] <= attempts[j] /\ attempts[j] < Limit(j)
  /\ \A w \in Worker : job[w] # NoJob =>
       /\ attempts[job[w]] < Limit(job[w])
       /\ ran[job[w]] <= attempts[job[w]] + (IF pc[w] \in Started THEN 1 ELSE 0)

QueueInv == Types /\ HeldRight /\ RunningRight /\ CountsRight

-----------------------------------------------------------------------------
(* The queue and its limits *)

\* max_attempts 0 is read as 3, so that every job has an attempt.
LEMMA LimitType == \A j \in Job : Limit(j) \in Nat \ {0}
BY QueueConstantsOK DEF Limit

\* Nothing is enqueued and every worker is idle.
LEMMA InitInv == Init => QueueInv
BY LimitType, QueueConstantsOK DEF Init, QueueInv, Types, HeldRight, RunningRight,
  CountsRight, Status, PC, Holding, Started

\* A job that has an outcome leaves its worker's hands: the end of complete() and
\* of fail(), for whatever status and number of attempts they store.
LEMMA ReleaseInv ==
  ASSUME QueueInv, NEW w \in Worker, pc[w] \in Holding,
         NEW s \in {"done", "failed", "pending"}, NEW n \in Nat,
         status' = [status EXCEPT ![job[w]] = s],
         attempts' = [attempts EXCEPT ![job[w]] = n],
         s = "pending" => ran[job[w]] <= n /\ n < Limit(job[w]),
         Release(w)
  PROVE  QueueInv'
<1> DEFINE j == job[w]
<1>1. /\ j \in Job /\ j # NoJob /\ j \notin lost
      /\ \A v \in Worker \ {w} : job[v] # j
  BY QueueConstantsOK DEF QueueInv, Types, HeldRight
<1>2. /\ pc' = [pc EXCEPT ![w] = "idle"] /\ job' = [job EXCEPT ![w] = NoJob]
      /\ ran' = ran /\ lost' = lost
  BY DEF Release, history
<1>3. Types'
  BY <1>1, <1>2 DEF QueueInv, Types, Status, PC
<1>4. HeldRight'
  BY <1>1, <1>2 DEF QueueInv, Types, HeldRight, Holding
<1>5. RunningRight'
  BY <1>1, <1>2 DEF QueueInv, Types, RunningRight
<1>6. CountsRight'
  BY <1>1, <1>2 DEF QueueInv, Types, CountsRight, Started, Limit
<1> QED BY <1>3, <1>4, <1>5, <1>6 DEF QueueInv

\* fail(): a job goes back to pending only below its limit.
LEMMA FailInv ==
  ASSUME QueueInv, NEW w \in Worker, pc[w] \in Holding, NEW permanent \in BOOLEAN,
         Fail(w, permanent)
  PROVE  QueueInv'
<1> DEFINE j == job[w]
           n == attempts[j] + 1
<1>1. j \in Job /\ n \in Nat /\ ran[j] \in Nat /\ ran[j] <= n
  BY QueueConstantsOK DEF QueueInv, Types, HeldRight, CountsRight
<1>2. attempts' = [attempts EXCEPT ![j] = n] /\ Release(w)
  BY DEF Fail
<1>3. CASE permanent \/ n >= Limit(j)
  <2>1. status' = [status EXCEPT ![j] = "failed"]
    BY <1>3 DEF Fail
  <2> QED BY <1>1, <1>2, <2>1, ReleaseInv
<1>4. CASE ~(permanent \/ n >= Limit(j))
  <2>1. status' = [status EXCEPT ![j] = "pending"]
    BY <1>4 DEF Fail
  <2>2. n < Limit(j)
    BY <1>1, <1>4, LimitType
  <2> QED BY <1>1, <1>2, <2>1, <2>2, ReleaseInv
<1> QED BY <1>3, <1>4

-----------------------------------------------------------------------------
(* Every step preserves the invariant *)

\* A worker takes a pending job that nobody holds.
LEMMA ClaimInv ==
  ASSUME QueueInv, NEW w \in Worker, NEW j \in Job, Claim(w, j)
  PROVE  QueueInv'
<1>1. /\ pc[w] = "idle" /\ job[w] = NoJob /\ status[j] = "pending" /\ j # NoJob
      /\ j \notin lost /\ \A v \in Worker : job[v] # j
  BY QueueConstantsOK DEF Claim, Claimable, QueueInv, Types, HeldRight, RunningRight, Holding
<1>2. /\ status' = [status EXCEPT ![j] = "running"] /\ pc' = [pc EXCEPT ![w] = "claimed"]
      /\ job' = [job EXCEPT ![w] = j] /\ attempts' = attempts /\ ran' = ran /\ lost' = lost
  BY DEF Claim, history
<1>3. Types'
  BY <1>2 DEF QueueInv, Types, Status, PC
<1>4. HeldRight'
  BY <1>1, <1>2 DEF QueueInv, Types, HeldRight, Holding
<1>5. RunningRight'
  <2>1. \A i \in lost' : i \in Job /\ status'[i] = "running"
    BY <1>1, <1>2 DEF QueueInv, Types, RunningRight
  <2>2. ASSUME NEW i \in Job, status'[i] = "running", i \notin lost'
        PROVE  \E v \in Worker : job'[v] = i
    <3>1. CASE i = j
      BY <1>2, <3>1 DEF QueueInv, Types
    <3>2. CASE i # j
      <4>1. PICK v \in Worker : job[v] = i
        BY <1>2, <2>2, <3>2 DEF QueueInv, Types, RunningRight
      <4>2. v # w
        BY <1>1, <4>1, QueueConstantsOK
      <4> QED BY <1>2, <4>1, <4>2 DEF QueueInv, Types
    <3> QED BY <3>1, <3>2
  <2> QED BY <2>1, <2>2 DEF RunningRight
<1>6. CountsRight'
  <2>1. ran[j] <= attempts[j] /\ attempts[j] < Limit(j)
    BY <1>1 DEF QueueInv, CountsRight
  <2> QED BY <1>1, <1>2, <2>1 DEF QueueInv, Types, CountsRight, Started, Limit
<1> QED BY <1>3, <1>4, <1>5, <1>6 DEF QueueInv

\* A start uses up the attempt the job has left.
LEMMA StartHandlerInv ==
  ASSUME QueueInv, NEW w \in Worker, StartHandler(w)
  PROVE  QueueInv'
<1> DEFINE j == job[w]
<1>1. /\ pc[w] = "claimed" /\ j \in Known /\ j \in Job /\ j # NoJob
      /\ status[j] = "running" /\ \A v \in Worker \ {w} : job[v] # j
      /\ attempts[j] \in Nat /\ ran[j] \in Nat
      /\ ran[j] <= attempts[j] /\ attempts[j] < Limit(j)
  BY QueueConstantsOK DEF StartHandler, QueueInv, Types, HeldRight, CountsRight, Holding, Started
<1>2. /\ pc' = [pc EXCEPT ![w] = "handling"] /\ ran' = [ran EXCEPT ![j] = @ + 1]
      /\ status' = status /\ attempts' = attempts /\ job' = job /\ lost' = lost
  BY DEF StartHandler, table, history
<1>3. Types' /\ HeldRight' /\ RunningRight'
  BY <1>1, <1>2 DEF QueueInv, Types, HeldRight, RunningRight, PC, Holding
<1>4. \A i \in Job : i # j => ran'[i] = ran[i]
  BY <1>2 DEF QueueInv, Types
<1>5. ran'[j] = ran[j] + 1
  BY <1>1, <1>2 DEF QueueInv, Types
<1>6. CountsRight'
  <2>1. \A i \in Job \ Known : ran'[i] = 0
    BY <1>1, <1>4 DEF QueueInv, CountsRight
  <2>2. \A i \in Known : ran'[i] <= Limit(i)
    BY <1>1, <1>4, <1>5, LimitType, QueueConstantsOK DEF QueueInv, CountsRight
  <2>3. \A i \in Job : status'[i] \in {"absent", "pending"} =>
          ran'[i] <= attempts'[i] /\ attempts'[i] < Limit(i)
    BY <1>1, <1>2, <1>4 DEF QueueInv, CountsRight
  <2>4. ASSUME NEW v \in Worker, job'[v] # NoJob
        PROVE  /\ attempts'[job'[v]] < Limit(job'[v])
               /\ ran'[job'[v]] <= attempts'[job'[v]] + (IF pc'[v] \in Started THEN 1 ELSE 0)
    <3>1. CASE v = w
      BY <1>1, <1>2, <1>5, <3>1 DEF QueueInv, Types, Started
    <3>2. CASE v # w
      <4>1. job[v] \in Job /\ job[v] # j /\ pc'[v] = pc[v]
        BY <1>1, <1>2, <2>4, <3>2 DEF QueueInv, Types
      <4> QED BY <1>2, <1>4, <2>4, <4>1 DEF QueueInv, CountsRight
    <3> QED BY <3>1, <3>2
  <2> QED BY <2>1, <2>2, <2>3, <2>4 DEF CountsRight, Limit
<1> QED BY <1>3, <1>6 DEF QueueInv

\* A worker moves on in its loop with the job it has.
LEMMA MoveOnInv ==
  ASSUME QueueInv, NEW w \in Worker, pc[w] \in Started, NEW next \in Started,
         pc' = [pc EXCEPT ![w] = next],
         UNCHANGED <<status, attempts, ran, job, lost>>
  PROVE  QueueInv'
<1>1. Types' /\ HeldRight' /\ RunningRight'
  BY DEF QueueInv, Types, HeldRight, RunningRight, PC, Holding, Started
<1>2. CountsRight'
  BY DEF QueueInv, Types, CountsRight, Started, Limit
<1> QED BY <1>1, <1>2 DEF QueueInv

\* A worker that holds nothing goes where it holds nothing.
LEMMA EmptyHandedInv ==
  ASSUME QueueInv, NEW w \in Worker, pc[w] \notin Holding, NEW next \in {"idle", "exited"},
         pc' = [pc EXCEPT ![w] = next],
         UNCHANGED <<status, attempts, ran, job, lost>>
  PROVE  QueueInv'
<1>1. Types' /\ HeldRight' /\ RunningRight'
  BY DEF QueueInv, Types, HeldRight, RunningRight, PC, Holding
<1>2. CountsRight'
  BY DEF QueueInv, Types, CountsRight, HeldRight, Started, Holding, Limit
<1> QED BY <1>1, <1>2 DEF QueueInv

\* A worker dies: what it held is lost, and stays running.
LEMMA CrashInv ==
  ASSUME QueueInv, NEW w \in Worker, Crash(w)
  PROVE  QueueInv'
<1>1. /\ pc' = [pc EXCEPT ![w] = "exited"] /\ job' = [job EXCEPT ![w] = NoJob]
      /\ lost' = lost \cup ({job[w]} \ {NoJob})
      /\ status' = status /\ attempts' = attempts /\ ran' = ran
  BY DEF Crash, table
<1>2. Types'
  BY <1>1 DEF QueueInv, Types, PC
<1>3. HeldRight'
  BY <1>1 DEF QueueInv, Types, HeldRight, Holding
<1>4. RunningRight'
  <2>1. \A i \in lost' : i \in Job /\ status'[i] = "running"
    BY <1>1 DEF QueueInv, Types, HeldRight, RunningRight
  <2>2. ASSUME NEW i \in Job, status'[i] = "running", i \notin lost'
        PROVE  \E v \in Worker : job'[v] = i
    <3>1. PICK v \in Worker : job[v] = i
      BY <1>1, <2>2 DEF QueueInv, RunningRight
    <3>2. v # w
      BY <1>1, <2>2, <3>1, QueueConstantsOK
    <3> QED BY <1>1, <3>1, <3>2 DEF QueueInv, Types
  <2> QED BY <2>1, <2>2 DEF RunningRight
<1>5. CountsRight'
  BY <1>1 DEF QueueInv, Types, CountsRight, Started, Limit
<1> QED BY <1>2, <1>3, <1>4, <1>5 DEF QueueInv

\* The steps that leave what the invariant speaks of alone.
LEMMA UntouchedInv ==
  ASSUME QueueInv, UNCHANGED <<status, attempts, ran, pc, job, lost>>
  PROVE  QueueInv'
BY DEF QueueInv, Types, HeldRight, RunningRight, CountsRight, Limit

\* A new job has no attempts and no starts.
LEMMA EnqueueInv ==
  ASSUME QueueInv, NEW j \in Job, NEW delay \in Delay, Enqueue(j, delay)
  PROVE  QueueInv'
<1>1. /\ status[j] = "absent" /\ status' = [status EXCEPT ![j] = "pending"]
      /\ UNCHANGED <<attempts, ran, pc, job, lost>>
  BY DEF Enqueue, process, history
<1>2. Types' /\ RunningRight'
  BY <1>1 DEF QueueInv, Types, RunningRight, Status
<1>3. HeldRight'
  BY <1>1 DEF QueueInv, Types, HeldRight, Holding
<1>4. CountsRight'
  BY <1>1 DEF QueueInv, Types, CountsRight, Limit
<1> QED BY <1>2, <1>3, <1>4 DEF QueueInv

\* The loop of a worker.
LEMMA WorkInv ==
  ASSUME QueueInv, NEW w \in Worker, Work(w)
  PROVE  QueueInv'
<1>1. ASSUME NEW j \in Job, Claim(w, j) PROVE QueueInv'
  BY <1>1, ClaimInv
<1>2. CASE RejectUnknown(w)
  BY <1>2, FailInv DEF RejectUnknown, Holding
<1>3. CASE StartHandler(w)
  BY <1>3, StartHandlerInv
<1>4. CASE HandlerEnds(w)
  <2>1. PICK outcome \in {"succeeded", "raised"} : pc' = [pc EXCEPT ![w] = outcome]
    BY <1>4 DEF HandlerEnds
  <2>2. pc[w] \in Started /\ outcome \in Started
    BY <1>4 DEF HandlerEnds, Started
  <2> QED BY <1>4, <2>1, <2>2, MoveOnInv DEF HandlerEnds, table, history
<1>5. CASE Complete(w)
  <2>1. attempts[job[w]] \in Nat /\ attempts' = [attempts EXCEPT ![job[w]] = attempts[job[w]]]
    BY <1>5, QueueConstantsOK DEF Complete, QueueInv, Types, HeldRight, Holding
  <2> QED BY <1>5, <2>1, ReleaseInv DEF Complete, Holding
<1>6. CASE Retry(w)
  BY <1>6, FailInv DEF Retry, Holding
<1>7. CASE Exit(w)
  BY <1>7, EmptyHandedInv DEF Exit, Holding, table, history
<1>8. CASE Restart(w)
  BY <1>8, EmptyHandedInv DEF Restart, Holding, table, history
<1> QED BY <1>1, <1>2, <1>3, <1>4, <1>5, <1>6, <1>7, <1>8 DEF Work

\* The invariant is inductive.
LEMMA NextInv == QueueInv /\ [Next]_vars => QueueInv'
<1> SUFFICES ASSUME QueueInv, [Next]_vars PROVE QueueInv'
  OBVIOUS
<1>1. ASSUME NEW j \in Job, NEW delay \in Delay, Enqueue(j, delay) PROVE QueueInv'
  BY <1>1, EnqueueInv
<1>2. ASSUME NEW w \in Worker, Work(w) PROVE QueueInv'
  BY <1>2, WorkInv
<1>3. ASSUME NEW w \in Worker, CompleteRaises(w) PROVE QueueInv'
  BY <1>3, MoveOnInv DEF CompleteRaises, Started, table, history
<1>4. ASSUME NEW w \in Worker, Stop(w) PROVE QueueInv'
  BY <1>4, UntouchedInv DEF Stop, table
<1>5. ASSUME NEW w \in Worker, Crash(w) PROVE QueueInv'
  BY <1>5, CrashInv
<1>6. CASE Tick
  BY <1>6, UntouchedInv DEF Tick, process, history
<1>7. CASE UNCHANGED vars
  BY <1>7, UntouchedInv DEF vars
<1> QED BY <1>1, <1>2, <1>3, <1>4, <1>5, <1>6, <1>7 DEF Next, Poll

-----------------------------------------------------------------------------
(* What follows from it *)

\* The number of workers that hold a job.
LEMMA HoldersOfJob ==
  ASSUME QueueInv, NEW j \in Job
  PROVE  LET holders == {w \in Worker : job[w] = j}
         IN IF status[j] = "running"
            THEN Cardinality(holders) = (IF j \in lost THEN 0 ELSE 1)
            ELSE holders = {}
<1> DEFINE holders == {w \in Worker : job[w] = j}
<1>1. status[j] # "running" \/ j \in lost => holders = {}
  BY QueueConstantsOK DEF QueueInv, HeldRight
<1>2. CASE status[j] = "running" /\ j \notin lost
  <2>1. PICK w \in Worker : job[w] = j
    BY <1>2 DEF QueueInv, RunningRight
  <2>2. holders = {w}
    BY <2>1, QueueConstantsOK DEF QueueInv, HeldRight
  <2> QED BY <1>2, <2>2, FS_Singleton
<1> QED BY <1>1, <1>2, FS_EmptySet

\* A running job is in the hands of one worker, or its worker died with it,
\* whatever the number of workers that claim, stop, die and restart.
THEOREM OneHolder == Spec => []HeldOrLost
<1>1. QueueInv => HeldOrLost
  BY HoldersOfJob DEF HeldOrLost
<1> QED BY InitInv, NextInv, <1>1, PTL DEF Spec

\* No handler is started more often than max_attempts allows, and none for a job
\* of an unknown kind.
THEOREM StartsBounded == Spec => []RunsBounded
<1>1. QueueInv => RunsBounded
  BY DEF QueueInv, CountsRight, RunsBounded
<1> QED BY InitInv, NextInv, <1>1, PTL DEF Spec

-----------------------------------------------------------------------------
(* The types that the invariant leaves out *)

\* The prover knows powers only as numbers of subsets.
LEMMA PowerOfTwo == \A n \in Nat : 2^n \in Nat
<1> SUFFICES ASSUME NEW n \in Nat PROVE 2^n \in Nat
  OBVIOUS
<1>1. IsFiniteSet(1..n) /\ Cardinality(1..n) = n
  BY FS_Interval
<1>2. IsFiniteSet(SUBSET (1..n)) /\ Cardinality(SUBSET (1..n)) = 2^n
  BY <1>1, FS_SUBSET
<1> QED BY <1>2, FS_CardinalityType

\* The delay before a job is tried, the bound on its attempts, and those of deaths
\* and signals.
DelaysTyped ==
  /\ \A j \in Job : attempts[j] <= Limit(j)
  /\ wait \in [Job -> Nat]
  /\ running \in [Worker -> BOOLEAN]
  /\ crashes \in 0..MaxCrashes /\ stops \in 0..MaxStops

LEMMA FailDelay ==
  ASSUME QueueInv, DelaysTyped, NEW w \in Worker, pc[w] \in Holding,
         NEW permanent \in BOOLEAN, Fail(w, permanent)
  PROVE  DelaysTyped'
<1> DEFINE j == job[w]
           n == attempts[j] + 1
<1>1. j \in Job /\ n \in Nat
  BY QueueConstantsOK DEF QueueInv, Types, HeldRight
<1>2. \A i \in Job : attempts'[i] <= Limit(i)
  <2>1. attempts[j] \in Nat /\ attempts[j] < Limit(j) /\ Limit(j) \in Nat
    BY <1>1, LimitType DEF QueueInv, Types, HeldRight, CountsRight
  <2>2. attempts' = [attempts EXCEPT ![j] = n] /\ n <= Limit(j)
    BY <2>1 DEF Fail
  <2> HIDE DEF n
  <2> QED BY <2>2 DEF QueueInv, Types, DelaysTyped
<1>3. BackoffBase * 2^n \in Nat
  <2>1. 2^n \in Nat
    BY <1>1, PowerOfTwo
  <2> HIDE DEF n
  <2> QED BY <2>1, QueueConstantsOK
<1>4. wait' = wait \/ wait' = [wait EXCEPT ![j] = BackoffBase * 2^n]
  BY DEF Fail
<1>5. UNCHANGED <<running, crashes, stops>>
  BY DEF Fail, Release, history
<1>6. wait' \in [Job -> Nat]
  <2> HIDE DEF n
  <2> QED BY <1>3, <1>4 DEF DelaysTyped
<1> QED BY <1>2, <1>5, <1>6 DEF DelaysTyped, Limit

LEMMA DelaysStep ==
  ASSUME QueueInv, DelaysTyped, [Next]_vars
  PROVE  DelaysTyped'
<1>1. ASSUME NEW j \in Job, NEW delay \in Delay, Enqueue(j, delay) PROVE DelaysTyped'
  BY <1>1, QueueConstantsOK DEF Enqueue, DelaysTyped, process, history, Limit
<1>2. ASSUME NEW w \in Worker, Work(w) PROVE DelaysTyped'
  <2>1. CASE RejectUnknown(w)
    BY <2>1, FailDelay DEF RejectUnknown, Holding
  <2>2. CASE Retry(w)
    BY <2>2, FailDelay DEF Retry, Holding
  <2>3. ASSUME NEW j \in Job, Claim(w, j) PROVE DelaysTyped'
    BY <2>3 DEF Claim, DelaysTyped, history, Limit
  <2>4. CASE StartHandler(w) \/ HandlerEnds(w) \/ Exit(w)
    BY <2>4 DEF StartHandler, HandlerEnds, Exit, DelaysTyped, table, history, Limit
  <2>5. CASE Complete(w)
    BY <2>5 DEF Complete, Release, DelaysTyped, history, Limit
  <2>6. CASE Restart(w)
    BY <2>6 DEF Restart, DelaysTyped, table, history, Limit
  <2> QED BY <1>2, <2>1, <2>2, <2>3, <2>4, <2>5, <2>6 DEF Work
<1>3. ASSUME NEW w \in Worker, CompleteRaises(w) PROVE DelaysTyped'
  BY <1>3 DEF CompleteRaises, DelaysTyped, table, history, Limit
<1>4. ASSUME NEW w \in Worker, Stop(w) \/ Crash(w) PROVE DelaysTyped'
  <2>1. wait' = wait /\ attempts' = attempts /\ running' \in [Worker -> BOOLEAN]
    BY <1>4 DEF Stop, Crash, DelaysTyped, table
  <2>2. crashes' \in 0..MaxCrashes /\ stops' \in 0..MaxStops
    BY <1>4, QueueConstantsOK DEF Stop, Crash, DelaysTyped
  <2> QED BY <2>1, <2>2 DEF DelaysTyped, Limit
<1>5. CASE Tick
  BY <1>5 DEF Tick, DelaysTyped, process, history, Limit
<1>6. CASE UNCHANGED vars
  BY <1>6 DEF vars, DelaysTyped, Limit
<1> QED BY <1>1, <1>2, <1>3, <1>4, <1>5, <1>6 DEF Next, Poll

\* All variables have their types: in particular the delay before a retry, which
\* doubles with every attempt, stays a number of seconds, and the attempts of a
\* job stay within its limit.
THEOREM TypeCorrect == Spec => []TypeOK
<1>1. Init => DelaysTyped
  BY QueueConstantsOK, LimitType DEF Init, DelaysTyped
<1>2. QueueInv /\ DelaysTyped /\ [Next]_vars => DelaysTyped'
  BY DelaysStep
<1>3. QueueInv /\ DelaysTyped => TypeOK
  BY DEF QueueInv, Types, RunningRight, DelaysTyped, TypeOK
<1> QED BY InitInv, NextInv, <1>1, <1>2, <1>3, PTL DEF Spec
=============================================================================
