-------------------------- MODULE AgentLoopProofs ---------------------------
(***************************************************************************)
(* Type correctness of AgentLoop; that a purge needs the user's approval   *)
(* of that very call; that the context of a run nobody resumed answers     *)
(* every call; that what tools changed stays on record; and what becomes   *)
(* of the tokens that stand for masked values.                             *)
(***************************************************************************)
EXTENDS AgentLoop, SequenceTheorems, TLAPS

(***************************************************************************)
(* What the steps rely on: the confirmed calls were approved, a run that   *)
(* is not at work has an empty log and no calls, and every call still to   *)
(* be handled is one without a tool message; the model is asked only when  *)
(* a round is left and the batch before is done with.                      *)
(***************************************************************************)
Approved == \A r \in Run : confirmed[r] \subseteq granted

AtRest == \A r \in Run : stage[r] \in {"idle", "suspended"} =>
  calls[r] = <<>> /\ log[r] = {} /\ confirmed[r] = {} /\ open[r] = 0

BatchOpen == \A r \in Run : /\ open[r] >= Len(calls[r])
                            /\ held[r] # Nothing => held[r].open >= 1

Asking == \A r \in Run :
  stage[r] = "model" => calls[r] = <<>> /\ rounds[r] >= 1

IInv == TypeOK /\ Approved /\ AtRest /\ Asking /\ BatchOpen /\ CallsAnswered

LEMMA BatchType ==
  ASSUME NEW b \in Batch
  PROVE  b \in Seq(Call) /\ Len(b) \in Nat
BY AgentConstantsOK, LenProperties

LEMMA HeldType ==
  ASSUME NEW h \in Suspended \cup {Nothing}, h # Nothing
  PROVE  /\ h.calls \in Seq(Call) /\ Len(h.calls) = 1 /\ Head(h.calls) \in Call
         /\ h.open \in Nat
<1>1. h \in Suspended
  OBVIOUS
<1>2. PICK c \in Call : h.calls = <<c>>
  BY <1>1 DEF Suspended
<1>3. h.open \in Nat
  BY <1>1 DEF Suspended
<1>4. QED
  BY <1>2, <1>3

LEMMA HandlingType ==
  ASSUME TypeOK, BatchOpen, NEW r \in Run, Handling(r)
  PROVE  /\ Current(r) \in Call
         /\ Tail(calls[r]) \in Seq(Call)
         /\ Len(Tail(calls[r])) = Len(calls[r]) - 1
         /\ Len(calls[r]) \in Nat /\ Len(calls[r]) >= 1
         /\ open[r] - 1 \in Nat
<1>1. calls[r] \in Seq(Call) /\ calls[r] # <<>> /\ open[r] \in Nat
  BY DEF TypeOK, Handling
<1>2. Len(calls[r]) \in Nat /\ Len(calls[r]) >= 1
  BY <1>1, EmptySeq, LenProperties
<1>3. open[r] >= Len(calls[r])
  BY DEF BatchOpen
<1>4. QED
  BY <1>1, <1>2, <1>3, HeadTailProperties DEF Current

-----------------------------------------------------------------------------
(* The steps of the invariant, one lemma per group of actions *)

LEMMA StartsInv ==
  ASSUME TypeOK, BatchOpen, NEW r \in Run, NEW rest \in Seq(Call), NEW n \in Nat,
         NEW ok \in SUBSET Call, Starts(r, rest, n, ok)
  PROVE  /\ rounds' \in [Run -> 0..MaxRounds]
         /\ calls' \in [Run -> Seq(Call)]
         /\ open' \in [Run -> Nat]
         /\ confirmed' \in [Run -> SUBSET Call]
         /\ log' \in [Run -> SUBSET Change]
         /\ found' \in [Run -> SUBSET Secret] /\ fresh' \in [Run -> SUBSET Secret]
BY AgentConstantsOK DEF Starts, TypeOK

LEMMA OverInv ==
  ASSUME IInv, NEW r \in Run, NEW st \in {"idle", "suspended"}, Over(r, st),
         held' \in [Run -> Suspended \cup {Nothing}],
         \A q \in Run : held'[q] # Nothing => held'[q].open >= 1,
         recorded' \subseteq Change, told' \subseteq Secret,
         shown' \subseteq Secret, stored' \subseteq Secret
  PROVE  IInv'
<1>0. TypeOK /\ Approved /\ AtRest /\ Asking /\ BatchOpen /\ CallsAnswered
  BY DEF IInv
<1>1. TypeOK'
  <2>1. stage' \in [Run -> {"idle", "model", "calls", "suspended"}]
    BY <1>0 DEF TypeOK, Over
  <2>2. api' \in [Run -> Endpoint \cup {"v1"}]
    BY <1>0 DEF TypeOK, Over
  <2>3. rounds' \in [Run -> 0..MaxRounds]
    BY <1>0, AgentConstantsOK DEF TypeOK, Over
  <2>4. calls' \in [Run -> Seq(Call)]
    BY <1>0, EmptySeq DEF TypeOK, Over
  <2>5. open' \in [Run -> Nat]
    BY <1>0 DEF TypeOK, Over
  <2>6. confirmed' \in [Run -> SUBSET Call] /\ log' \in [Run -> SUBSET Change]
    BY <1>0 DEF TypeOK, Over
  <2>7. found' \in [Run -> SUBSET Secret] /\ fresh' \in [Run -> SUBSET Secret]
    BY <1>0 DEF TypeOK, Over
  <2>8. file' \in [Path -> {"active", "trash", "gone"}] /\ granted' \subseteq Call
    BY <1>0 DEF TypeOK, Over
  <2>9. QED
    BY <2>1, <2>2, <2>3, <2>4, <2>5, <2>6, <2>7, <2>8 DEF TypeOK
<1>2. Approved'
  BY <1>0 DEF Approved, Over, TypeOK
<1>3. AtRest'
  BY <1>0 DEF AtRest, Over, TypeOK
<1>4. BatchOpen'
  <2> SUFFICES ASSUME NEW q \in Run
               PROVE  open'[q] >= Len(calls'[q])
    BY DEF BatchOpen
  <2>1. CASE q = r
    <3>1. open'[q] = 0 /\ calls'[q] = <<>>
      BY <1>0, <2>1 DEF Over, TypeOK
    <3>2. QED
      BY <3>1
  <2>2. CASE q # r
    <3>1. open'[q] = open[q] /\ calls'[q] = calls[q]
      BY <1>0, <2>2 DEF Over, TypeOK
    <3>2. QED
      BY <1>0, <3>1 DEF BatchOpen
  <2>3. QED
    BY <2>1, <2>2
<1>5. CallsAnswered'
  <2> SUFFICES ASSUME NEW q \in Run, confirmed'[q] = {}
               PROVE  open'[q] = Len(calls'[q])
    BY DEF CallsAnswered
  <2>1. CASE q = r
    <3>1. open'[q] = 0 /\ calls'[q] = <<>>
      BY <1>0, <2>1 DEF Over, TypeOK
    <3>2. QED
      BY <3>1
  <2>2. CASE q # r
    <3>1. open'[q] = open[q] /\ calls'[q] = calls[q] /\ confirmed'[q] = confirmed[q]
      BY <1>0, <2>2 DEF Over, TypeOK
    <3>2. QED
      BY <1>0, <3>1 DEF CallsAnswered
  <2>3. QED
    BY <2>1, <2>2
<1>6. Asking'
  BY <1>0 DEF Asking, Over, TypeOK
<1>7. QED
  BY <1>1, <1>2, <1>3, <1>4, <1>5, <1>6 DEF IInv

LEMMA HandledInv ==
  ASSUME IInv, NEW r \in Run, Handling(r), Handled(r),
         file' \in [Path -> {"active", "trash", "gone"}],
         log' \in [Run -> SUBSET Change], \A q \in Run \ {r} : log'[q] = log[q],
         found' \in [Run -> SUBSET Secret],
         UNCHANGED <<recorded, granted, fresh, told, shown, stored>>
  PROVE  IInv'
<1>0. TypeOK /\ Approved /\ AtRest /\ Asking /\ BatchOpen /\ CallsAnswered
  BY DEF IInv
<1>a. /\ Tail(calls[r]) \in Seq(Call)
      /\ Len(Tail(calls[r])) = Len(calls[r]) - 1
      /\ Len(calls[r]) \in Nat /\ Len(calls[r]) >= 1
      /\ open[r] \in Nat /\ open[r] - 1 \in Nat
  BY <1>0, HandlingType DEF TypeOK
<1>b. \A q \in Run \ {r} : /\ stage'[q] = stage[q] /\ calls'[q] = calls[q]
                           /\ open'[q] = open[q]
  BY <1>0 DEF TypeOK, Handled
<1>c. /\ stage'[r] \in {"model", "calls"} /\ calls'[r] = Tail(calls[r])
      /\ open'[r] = open[r] - 1
  BY <1>0 DEF TypeOK, Handled
<1>1. TypeOK'
  <2>1. stage' \in [Run -> {"idle", "model", "calls", "suspended"}]
    BY <1>0 DEF TypeOK, Handled
  <2>2. calls' \in [Run -> Seq(Call)]
    BY <1>0, <1>a DEF TypeOK, Handled
  <2>3. open' \in [Run -> Nat]
    BY <1>0, <1>a DEF TypeOK, Handled
  <2>4. /\ api' \in [Run -> Endpoint \cup {"v1"}] /\ rounds' \in [Run -> 0..MaxRounds]
        /\ confirmed' \in [Run -> SUBSET Call]
        /\ held' \in [Run -> Suspended \cup {Nothing}]
    BY <1>0 DEF TypeOK, Handled
  <2>5. /\ recorded' \subseteq Change /\ granted' \subseteq Call
        /\ fresh' \in [Run -> SUBSET Secret]
        /\ told' \subseteq Secret /\ shown' \subseteq Secret /\ stored' \subseteq Secret
    BY <1>0 DEF TypeOK
  <2>6. QED
    BY <2>1, <2>2, <2>3, <2>4, <2>5 DEF TypeOK
<1>2. Approved'
  BY <1>0 DEF Approved, Handled
<1>3. AtRest'
  <2> SUFFICES ASSUME NEW q \in Run, stage'[q] \in {"idle", "suspended"}
               PROVE  calls'[q] = <<>> /\ log'[q] = {} /\ confirmed'[q] = {} /\ open'[q] = 0
    BY DEF AtRest
  <2>1. q # r
    BY <1>c
  <2>2. QED
    BY <1>0, <1>b, <2>1 DEF AtRest, Handled
<1>4. BatchOpen'
  <2>1. ASSUME NEW q \in Run
        PROVE  open'[q] >= Len(calls'[q])
    <3>1. CASE q = r
      <4>1. open[q] >= Len(calls[q])
        BY <1>0 DEF BatchOpen
      <4>2. Len(calls'[q]) = Len(calls[q]) - 1 /\ open'[q] = open[q] - 1
        BY <1>a, <1>c, <3>1
      <4>3. QED
        BY <1>a, <3>1, <4>1, <4>2
    <3>2. CASE q # r
      <4>1. calls'[q] = calls[q] /\ open'[q] = open[q]
        BY <1>b, <3>2
      <4>2. QED
        BY <1>0, <4>1 DEF BatchOpen
    <3>3. QED
      BY <3>1, <3>2
  <2>2. QED
    BY <1>0, <2>1 DEF BatchOpen, Handled
<1>5. CallsAnswered'
  BY <1>0, <1>a, <1>b, <1>c DEF CallsAnswered, Handled
<1>6. Asking'
  <2>1. stage'[r] = "model" => Tail(calls[r]) = <<>> /\ rounds[r] > 0
    BY <1>0 DEF Handled, TypeOK
  <2>2. rounds' = rounds /\ rounds[r] \in Nat
    BY <1>0, AgentConstantsOK DEF Handled, TypeOK
  <2>a. stage'[r] = "model" => calls'[r] = <<>> /\ rounds'[r] >= 1
    BY <1>c, <2>1, <2>2
  <2>3. ASSUME NEW q \in Run, stage'[q] = "model"
        PROVE  calls'[q] = <<>> /\ rounds'[q] >= 1
    <3>1. CASE q = r
      BY <2>a, <2>3, <3>1
    <3>2. CASE q # r
      BY <1>0, <1>b, <2>2, <2>3, <3>2 DEF Asking
    <3>3. QED
      BY <3>1, <3>2
  <2>4. QED
    BY <2>3 DEF Asking
<1>7. QED
  BY <1>1, <1>2, <1>3, <1>4, <1>5, <1>6 DEF IInv

LEMMA BeginInv ==
  ASSUME IInv, NEW r \in Run, NEW a \in Endpoint, Begin(r, a)
  PROVE  IInv'
<1>0. TypeOK /\ Approved /\ AtRest /\ Asking /\ BatchOpen /\ CallsAnswered
  BY DEF IInv
<1>a. <<>> \in Seq(Call) /\ Len(<<>>) = 0
  BY EmptySeq
<1>b. /\ rounds' \in [Run -> 0..MaxRounds] /\ calls' \in [Run -> Seq(Call)]
      /\ open' \in [Run -> Nat] /\ confirmed' \in [Run -> SUBSET Call]
      /\ log' \in [Run -> SUBSET Change]
      /\ found' \in [Run -> SUBSET Secret] /\ fresh' \in [Run -> SUBSET Secret]
  <2>1. Starts(r, <<>>, 0, {})
    BY DEF Begin
  <2>2. {} \in SUBSET Call /\ 0 \in Nat
    OBVIOUS
  <2>3. QED
    BY <1>0, <1>a, <2>1, <2>2, StartsInv
<1>c. /\ calls'[r] = <<>> /\ open'[r] = 0 /\ confirmed'[r] = {} /\ stage'[r] = "model"
      /\ \A q \in Run \ {r} : /\ stage'[q] = stage[q] /\ calls'[q] = calls[q]
                              /\ open'[q] = open[q] /\ confirmed'[q] = confirmed[q]
                              /\ log'[q] = log[q]
  BY <1>0 DEF Begin, Starts, TypeOK
<1>1. TypeOK'
  BY <1>0, <1>b DEF TypeOK, Begin
<1>2. Approved'
  BY <1>0, <1>c DEF Approved, Begin
<1>3. AtRest'
  BY <1>0, <1>c DEF AtRest
<1>4. BatchOpen'
  BY <1>0, <1>a, <1>c DEF BatchOpen, Begin
<1>5. CallsAnswered'
  BY <1>0, <1>a, <1>c DEF CallsAnswered
<1>6. Asking'
  <2>1. rounds' = [rounds EXCEPT ![r] = MaxRounds]
    BY DEF Begin, Starts
  <2>2. QED
    BY <1>0, <1>c, <2>1, AgentConstantsOK DEF Asking, TypeOK
<1>7. QED
  BY <1>1, <1>2, <1>3, <1>4, <1>5, <1>6 DEF IInv

LEMMA ApproveInv ==
  ASSUME IInv, NEW r \in Run, Approve(r)
  PROVE  IInv'
<1>0. TypeOK /\ Approved /\ AtRest /\ Asking /\ BatchOpen /\ CallsAnswered
  BY DEF IInv
<1> DEFINE c == Head(held[r].calls)
<1>a. /\ held[r].calls \in Seq(Call) /\ Len(held[r].calls) = 1 /\ c \in Call
      /\ held[r].open \in Nat /\ held[r].open >= 1
  BY <1>0, HeldType DEF Approve, TypeOK, BatchOpen
<1>b. /\ rounds' \in [Run -> 0..MaxRounds] /\ calls' \in [Run -> Seq(Call)]
      /\ open' \in [Run -> Nat] /\ confirmed' \in [Run -> SUBSET Call]
      /\ log' \in [Run -> SUBSET Change]
      /\ found' \in [Run -> SUBSET Secret] /\ fresh' \in [Run -> SUBSET Secret]
  <2>1. Starts(r, held[r].calls, held[r].open, {c})
    BY DEF Approve, Fingerprint
  <2>2. {c} \in SUBSET Call
    BY <1>a
  <2>3. QED
    BY <1>0, <1>a, <2>1, <2>2, StartsInv
<1>c. /\ calls'[r] = held[r].calls /\ open'[r] = held[r].open /\ confirmed'[r] = {c}
      /\ stage'[r] = "calls" /\ granted' = granted \cup {c}
      /\ held' = [held EXCEPT ![r] = Nothing]
      /\ \A q \in Run \ {r} : /\ stage'[q] = stage[q] /\ calls'[q] = calls[q]
                              /\ open'[q] = open[q] /\ confirmed'[q] = confirmed[q]
                              /\ log'[q] = log[q]
  BY <1>0 DEF Approve, Starts, TypeOK, Fingerprint
<1>1. TypeOK'
  <2>1. /\ stage' \in [Run -> {"idle", "model", "calls", "suspended"}]
        /\ held' \in [Run -> Suspended \cup {Nothing}]
    BY <1>0 DEF TypeOK, Approve
  <2>2. granted' \subseteq Call
    BY <1>0, <1>a, <1>c DEF TypeOK
  <2>3. QED
    BY <1>0, <1>b, <2>1, <2>2 DEF TypeOK, Approve
<1>2. Approved'
  BY <1>0, <1>c DEF Approved
<1>3. AtRest'
  BY <1>0, <1>c DEF AtRest
<1>4. BatchOpen'
  <2>1. \A q \in Run : held'[q] # Nothing => held'[q] = held[q]
    BY <1>0, <1>c DEF TypeOK
  <2>2. ASSUME NEW q \in Run
        PROVE  open'[q] >= Len(calls'[q])
    <3>1. CASE q = r
      <4>1. open'[q] = held[r].open /\ Len(calls'[q]) = 1
        BY <1>a, <1>c, <3>1
      <4>2. QED
        BY <1>a, <4>1
    <3>2. CASE q # r
      <4>1. calls'[q] = calls[q] /\ open'[q] = open[q]
        BY <1>c, <3>2
      <4>2. QED
        BY <1>0, <4>1 DEF BatchOpen
    <3>3. QED
      BY <3>1, <3>2
  <2>3. ASSUME NEW q \in Run, held'[q] # Nothing
        PROVE  held'[q].open >= 1
    BY <1>0, <2>1, <2>3 DEF BatchOpen
  <2>4. QED
    BY <2>2, <2>3 DEF BatchOpen
<1>5. CallsAnswered'
  BY <1>0, <1>c DEF CallsAnswered
<1>6. Asking'
  <2>1. \A q \in Run \ {r} : rounds'[q] = rounds[q]
    BY <1>0 DEF Approve, Starts, TypeOK
  <2>2. QED
    BY <1>0, <1>c, <2>1 DEF Asking
<1>7. QED
  BY <1>1, <1>2, <1>3, <1>4, <1>5, <1>6 DEF IInv

LEMMA AnswerInv ==
  ASSUME IInv, NEW r \in Run, NEW b \in Batch, NEW S \in SUBSET Secret, Answer(r, b, S)
  PROVE  IInv'
<1>0. TypeOK /\ Approved /\ AtRest /\ Asking /\ BatchOpen /\ CallsAnswered
  BY DEF IInv
<1>a. b \in Seq(Call) /\ Len(b) \in Nat
  BY BatchType
<1>b. calls[r] \in Seq(Call) /\ Len(calls[r]) \in Nat /\ open[r] \in Nat
      /\ rounds[r] \in 0..MaxRounds /\ MaxRounds \in Nat
  BY <1>0, AgentConstantsOK, LenProperties DEF TypeOK
<1>c. /\ calls[r] = <<>> /\ rounds[r] >= 1
      /\ calls'[r] = b /\ open'[r] = open[r] + Len(b) /\ stage'[r] = "calls"
      /\ \A q \in Run \ {r} : /\ stage'[q] = stage[q] /\ calls'[q] = calls[q]
                              /\ open'[q] = open[q]
  BY <1>0 DEF Answer, TypeOK, Asking
<1>1. TypeOK'
  <2>1. stage' \in [Run -> {"idle", "model", "calls", "suspended"}]
    BY <1>0 DEF TypeOK, Answer
  <2>2. rounds' \in [Run -> 0..MaxRounds]
    BY <1>0, <1>b, <1>c DEF TypeOK, Answer
  <2>3. calls' \in [Run -> Seq(Call)] /\ open' \in [Run -> Nat]
    BY <1>0, <1>a, <1>b DEF TypeOK, Answer
  <2>4. fresh' \in [Run -> SUBSET Secret] /\ shown' \subseteq Secret
    BY <1>0 DEF TypeOK, Answer, Streamed, Masked
  <2>5. QED
    BY <1>0, <2>1, <2>2, <2>3, <2>4 DEF TypeOK, Answer, records
<1>2. Approved'
  BY <1>0 DEF Approved, Answer, records
<1>3. AtRest'
  BY <1>0, <1>c DEF AtRest, Answer, records
<1>4. BatchOpen'
  BY <1>0, <1>a, <1>b, <1>c DEF BatchOpen, Answer
<1>5. CallsAnswered'
  BY <1>0, <1>a, <1>b, <1>c, EmptySeq DEF CallsAnswered, Answer
<1>6. Asking'
  <2>1. \A q \in Run \ {r} : rounds'[q] = rounds[q]
    BY <1>0 DEF Answer, TypeOK
  <2>2. QED
    BY <1>0, <1>c, <2>1 DEF Asking
<1>7. QED
  BY <1>1, <1>2, <1>3, <1>4, <1>5, <1>6 DEF IInv

LEMMA HandleCallInv ==
  ASSUME IInv, NEW r \in Run, HandleCall(r)
  PROVE  IInv'
<1>0. TypeOK /\ Approved /\ AtRest /\ Asking /\ BatchOpen /\ CallsAnswered
  BY DEF IInv
<1>1. CASE SkipMalformed(r)
  <2>1. Handling(r) /\ Handled(r) /\ UNCHANGED <<file, records, masks>>
    BY <1>1 DEF SkipMalformed
  <2>2. QED
    BY <1>0, <2>1, HandledInv DEF TypeOK, records, masks
<1>2. ASSUME NEW S \in SUBSET Secret, Read(r, S)
      PROVE  IInv'
  <2>1. /\ Handling(r) /\ Handled(r)
        /\ UNCHANGED <<file, log, recorded, granted, fresh, told, shown, stored>>
    BY <1>2 DEF Read, records
  <2>2. found' \in [Run -> SUBSET Secret]
    BY <1>0, <1>2 DEF Read, TypeOK
  <2>3. QED
    BY <1>0, <2>1, <2>2, HandledInv DEF TypeOK
<1>3. CASE Write(r)
  <2>1. /\ Handling(r) /\ Handled(r)
        /\ UNCHANGED <<recorded, granted, found, fresh, told, shown, stored>>
    BY <1>3 DEF Write, masks
  <2>2. Current(r) \in Call
    BY <1>0, <2>1, HandlingType
  <2>3. Current(r) \in Change
    BY <1>3, <2>2 DEF Write, Call, Change
  <2>4. file' \in [Path -> {"active", "trash", "gone"}]
    <3>1. To[Current(r).tool] \in {"active", "trash", "gone"}
      BY <1>3 DEF Write, To
    <3>2. \/ file' = file
          \/ file' = [file EXCEPT ![Current(r).path] = To[Current(r).tool]]
      BY <1>3 DEF Write
    <3>3. QED
      BY <1>0, <3>1, <3>2 DEF TypeOK
  <2>5. log' \in [Run -> SUBSET Change] /\ \A q \in Run \ {r} : log'[q] = log[q]
    <3>1. \/ log' = log
          \/ log' = [log EXCEPT ![r] = @ \cup {Current(r)}]
      BY <1>3 DEF Write
    <3>2. log \in [Run -> SUBSET Change]
      BY <1>0 DEF TypeOK
    <3>3. log[r] \cup {Current(r)} \in SUBSET Change
      BY <2>3, <3>2
    <3>4. QED
      BY <3>1, <3>2, <3>3
  <2>6. found' \in [Run -> SUBSET Secret]
    BY <1>0, <2>1 DEF TypeOK
  <2>7. QED
    BY <2>1, <2>4, <2>5, <2>6, HandledInv
<1>4. CASE Suspend(r)
  <2> DEFINE next == IF api[r] = "v1" THEN "suspended" ELSE "idle"
  <2>1. Handling(r) /\ Over(r, next) /\ next \in {"idle", "suspended"}
    BY <1>4 DEF Suspend
  <2>2. StateFor(r) \in Suspended \cup {Nothing}
    BY <1>0, <2>1, HandlingType DEF StateFor, Suspended, TypeOK
  <2>3. StateFor(r) # Nothing => StateFor(r).open >= 1
    <3>1. open[r] \in Nat /\ open[r] - 1 \in Nat
      BY <1>0, <2>1, HandlingType DEF TypeOK
    <3>2. QED
      BY <3>1 DEF StateFor
  <2>4. held' \in [Run -> Suspended \cup {Nothing}]
    BY <1>0, <1>4, <2>2 DEF Suspend, TypeOK
  <2>5. \A q \in Run : held'[q] # Nothing => held'[q].open >= 1
    BY <1>0, <1>4, <2>3 DEF Suspend, TypeOK, BatchOpen
  <2>6. /\ recorded' \subseteq Change /\ told' \subseteq Secret
        /\ shown' \subseteq Secret /\ stored' \subseteq Secret
    BY <1>0, <1>4 DEF Suspend, Saved, TypeOK
  <2>7. QED
    BY <2>1, <2>4, <2>5, <2>6, OverInv
<1>5. CASE RoundsSpent(r)
  <2>1. Over(r, "idle") /\ UNCHANGED held
    BY <1>5 DEF RoundsSpent
  <2>2. /\ recorded' \subseteq Change /\ told' \subseteq Secret
        /\ shown' \subseteq Secret /\ stored' \subseteq Secret
    BY <1>0, <1>5 DEF RoundsSpent, Saved, TypeOK
  <2>3. QED
    BY <1>0, <2>1, <2>2, OverInv DEF TypeOK, BatchOpen
<1>6. QED
  BY <1>1, <1>2, <1>3, <1>4, <1>5 DEF HandleCall

LEMMA ModelAnswersInv ==
  ASSUME IInv, NEW r \in Run, ModelAnswers(r)
  PROVE  IInv'
<1>0. TypeOK /\ BatchOpen
  BY DEF IInv
<1>1. ASSUME NEW S \in SUBSET Secret, NEW W \in SUBSET Secret, Reply(r, S, W)
      PROVE  IInv'
  <2>1. Over(r, "idle") /\ UNCHANGED held
    BY <1>1 DEF Reply
  <2>2. /\ recorded' \subseteq Change /\ told' \subseteq Secret
        /\ shown' \subseteq Secret /\ stored' \subseteq Secret
    BY <1>0, <1>1 DEF Reply, Saved, Finished, Flushed, Streamed, TypeOK
  <2>3. QED
    BY <1>0, <2>1, <2>2, OverInv DEF TypeOK, BatchOpen
<1>2. CASE Fail(r)
  <2>1. Over(r, "idle") /\ UNCHANGED <<held, recorded, told, shown, stored>>
    BY <1>2 DEF Fail
  <2>2. QED
    BY <1>0, <2>1, OverInv DEF TypeOK, BatchOpen
<1>3. QED
  BY <1>1, <1>2, AnswerInv DEF ModelAnswers

LEMMA ClientInv ==
  ASSUME IInv, NEW r \in Run, Client(r)
  PROVE  IInv'
<1>0. TypeOK /\ Approved /\ AtRest /\ Asking /\ BatchOpen /\ CallsAnswered
  BY DEF IInv
<1>1. CASE Abort(r)
  <2>1. Over(r, "idle") /\ UNCHANGED <<held, recorded, told, shown, stored>>
    BY <1>1 DEF Abort
  <2>2. QED
    BY <1>0, <2>1, OverInv DEF TypeOK, BatchOpen
<1>2. CASE Dismiss(r)
  <2>1. /\ UNCHANGED <<file, api, rounds, calls, open, confirmed, records, masks>>
        /\ stage[r] = "suspended" /\ stage' = [stage EXCEPT ![r] = "idle"]
        /\ held' = [held EXCEPT ![r] = Nothing]
    BY <1>2 DEF Dismiss
  <2>2. \A q \in Run : /\ stage'[q] # stage[q] => q = r
                       /\ held'[q] = held[q] \/ held'[q] = Nothing
    BY <1>0, <2>1 DEF TypeOK
  <2>3. stage' \in [Run -> {"idle", "model", "calls", "suspended"}]
        /\ held' \in [Run -> Suspended \cup {Nothing}]
    BY <1>0, <2>1 DEF TypeOK
  <2>4. TypeOK'
    BY <1>0, <2>1, <2>3 DEF TypeOK, records, masks
  <2>5. Approved' /\ CallsAnswered'
    BY <1>0, <2>1 DEF Approved, CallsAnswered, records
  <2>6. AtRest' /\ Asking'
    BY <1>0, <2>1, <2>2 DEF AtRest, Asking, records, TypeOK
  <2>7. BatchOpen'
    BY <1>0, <2>1, <2>2 DEF BatchOpen
  <2>8. QED
    BY <2>4, <2>5, <2>6, <2>7 DEF IInv
<1>3. QED
  BY <1>1, <1>2, BeginInv, ApproveInv DEF Client

\* Steps of the history and of other devices, which no run sees.
LEMMA OutsideInv ==
  ASSUME IInv, UNCHANGED control, UNCHANGED <<log, granted, found, fresh>>,
         file' \in [Path -> {"active", "trash", "gone"}],
         recorded' \subseteq Change, told' \subseteq Secret,
         shown' \subseteq Secret, stored' \subseteq Secret
  PROVE  IInv'
BY DEF IInv, TypeOK, Approved, AtRest, Asking, BatchOpen, CallsAnswered, control

LEMMA StepInv ==
  ASSUME IInv, [Next]_vars
  PROVE  IInv'
<1>0. TypeOK
  BY DEF IInv
<1>1. CASE ViewHistory
  BY <1>0, <1>1, OutsideInv DEF ViewHistory, Flushed, TypeOK, records
<1>2. CASE ClearHistory
  BY <1>0, <1>2, OutsideInv DEF ClearHistory, TypeOK
<1>3. ASSUME NEW p \in Path, Upload(p)
      PROVE  IInv'
  BY <1>0, <1>3, OutsideInv DEF Upload, TypeOK, records, masks
<1>4. ASSUME NEW S \in SUBSET Secret, ViewTransfers(S)
      PROVE  IInv'
  BY <1>0, <1>4, OutsideInv DEF ViewTransfers, Flushed, TypeOK, records
<1>5. CASE UNCHANGED vars
  BY <1>0, <1>5, OutsideInv DEF vars, control, TypeOK
<1>6. QED
  BY <1>1, <1>2, <1>3, <1>4, <1>5, ModelAnswersInv, HandleCallInv, ClientInv DEF Next, Work

LEMMA InitInv == Init => IInv
<1> SUFFICES ASSUME Init PROVE IInv
  OBVIOUS
<1>a. <<>> \in Seq(Call) /\ Len(<<>>) = 0
  BY EmptySeq
<1>1. TypeOK
  BY <1>a, AgentConstantsOK DEF Init, TypeOK
<1>2. Approved /\ AtRest /\ Asking
  BY DEF Init, Approved, AtRest, Asking
<1>3. BatchOpen /\ CallsAnswered
  BY <1>a DEF Init, BatchOpen, CallsAnswered
<1>4. QED
  BY <1>1, <1>2, <1>3 DEF IInv

LEMMA AlwaysInv == Spec => []IInv
<1>1. QED
  BY InitInv, StepInv, PTL DEF Spec

-----------------------------------------------------------------------------
(* The theorems *)

\* Rounds left stay within MaxRounds, and the context of a run never loses a
\* call (loop.py:89, 182).
THEOREM TypeCorrect == Spec => []TypeOK
<1>1. IInv => TypeOK
  BY DEF IInv
<1>2. QED
  BY <1>1, AlwaysInv, PTL

\* The model never sees a call of its own without an answer, in a run nobody
\* resumed (loop.py:182-246).
THEOREM ContextsComplete == Spec => []CallsAnswered
<1>1. IInv => CallsAnswered
  BY DEF IInv
<1>2. QED
  BY <1>1, AlwaysInv, PTL

LEMMA PurgeStep ==
  ASSUME IInv, Next, NEW p \in Path, file[p] # "gone", file'[p] = "gone"
  PROVE  [tool |-> "purge", path |-> p] \in granted
<1>0. TypeOK /\ Approved /\ BatchOpen
  BY DEF IInv
<1>1. PICK r \in Run : Write(r)
  <2>1. file' # file
    OBVIOUS
  <2>2. \A q \in Path : ~Upload(q)
    BY <1>0 DEF Upload, TypeOK
  <2>3. ~ViewHistory /\ ~ClearHistory /\ \A S \in SUBSET Secret : ~ViewTransfers(S)
    BY <2>1 DEF ViewHistory, ClearHistory, ViewTransfers
  <2>4. \A r \in Run : ~ModelAnswers(r) /\ ~Client(r)
    BY <2>1 DEF ModelAnswers, Client, Answer, Reply, Fail, Over, Begin, Abort, Approve, Dismiss
  <2>5. QED
    BY <2>1, <2>2, <2>3, <2>4 DEF Next, Work, HandleCall, SkipMalformed, Read, Suspend, RoundsSpent, Over
<1>2. Current(r) \in Call
  BY <1>0, <1>1, HandlingType DEF Write
<1>3. Current(r).tool = "purge" /\ Current(r).path = p
  BY <1>0, <1>1, <1>2 DEF Write, To, Call, TypeOK
<1>4. Current(r) = [tool |-> "purge", path |-> p]
  BY <1>2, <1>3 DEF Call
<1>5. Current(r) \in confirmed[r]
  BY <1>1, <1>3 DEF Write, NeedsConfirmation, Destructive, Fingerprint
<1>6. QED
  BY <1>0, <1>4, <1>5 DEF Approved

\* Whatever the model answers and however runs, approvals and uploads
\* interleave, only an approved purge takes a file away for good (loop.py:201).
THEOREM PurgesWereGranted == Spec => PurgeOnlyGranted
<1>1. IInv /\ [Next]_vars => [\A p \in Path : file[p] # "gone" /\ file'[p] = "gone"
         => [tool |-> "purge", path |-> p] \in granted]_vars
  BY PurgeStep
<1>2. QED
  BY <1>1, AlwaysInv, PTL DEF Spec, PurgeOnlyGranted

\* The log of one run goes into the history; the others keep theirs.
LEMMA SavedKeeps ==
  ASSUME NEW r \in Run, Saved(r), \A q \in Run \ {r} : log'[q] = log[q]
  PROVE  OnRecord \subseteq OnRecord'
<1> SUFFICES ASSUME NEW c \in OnRecord
             PROVE  c \in OnRecord'
  OBVIOUS
<1>1. CASE c \in recorded
  BY <1>1 DEF Saved, OnRecord
<1>2. ASSUME NEW q \in Run, c \in log[q]
      PROVE  c \in OnRecord'
  <2>1. CASE q = r
    BY <1>2, <2>1 DEF Saved, OnRecord
  <2>2. CASE q # r
    BY <1>2, <2>2 DEF OnRecord
  <2>3. QED
    BY <2>1, <2>2
<1>3. QED
  BY <1>1, <1>2 DEF OnRecord

\* A step that takes nothing from any log or from the history.
LEMMA LogsGrow ==
  ASSUME recorded \subseteq recorded', \A q \in Run : log[q] \subseteq log'[q]
  PROVE  OnRecord \subseteq OnRecord'
BY DEF OnRecord

LEMMA ReportStep ==
  ASSUME IInv, Next
  PROVE  \/ OnRecord \subseteq OnRecord'
         \/ ClearHistory
         \/ \E r \in Run : Fail(r) \/ Abort(r)
<1>0. TypeOK /\ AtRest
  BY DEF IInv
<1>1. ASSUME NEW r \in Run, ModelAnswers(r)
      PROVE  OnRecord \subseteq OnRecord' \/ Fail(r)
  <2>1. ASSUME NEW b \in Batch, NEW S \in SUBSET Secret, Answer(r, b, S)
        PROVE  OnRecord \subseteq OnRecord'
    BY <2>1, LogsGrow DEF Answer, records
  <2>2. ASSUME NEW S \in SUBSET Secret, NEW W \in SUBSET Secret, Reply(r, S, W)
        PROVE  OnRecord \subseteq OnRecord'
    <3>1. Saved(r) /\ \A q \in Run \ {r} : log'[q] = log[q]
      BY <1>0, <2>2 DEF Reply, Over, TypeOK
    <3>2. QED
      BY <3>1, SavedKeeps
  <2>3. QED
    BY <1>1, <2>1, <2>2 DEF ModelAnswers
<1>2. ASSUME NEW r \in Run, HandleCall(r)
      PROVE  OnRecord \subseteq OnRecord'
  <2>1. ASSUME SkipMalformed(r) \/ \E S \in SUBSET Secret : Read(r, S)
        PROVE  OnRecord \subseteq OnRecord'
    BY <2>1, LogsGrow DEF SkipMalformed, Read, records
  <2>2. CASE Write(r)
    <3>1. recorded' = recorded /\ \A q \in Run : log[q] \subseteq log'[q]
      BY <1>0, <2>2 DEF Write, TypeOK
    <3>2. QED
      BY <3>1, LogsGrow
  <2>3. CASE Suspend(r)
    <3>1. Saved(r) /\ \A q \in Run \ {r} : log'[q] = log[q]
      BY <1>0, <2>3 DEF Suspend, Over, TypeOK
    <3>2. QED
      BY <3>1, SavedKeeps
  <2>4. CASE RoundsSpent(r)
    <3>1. Saved(r) /\ \A q \in Run \ {r} : log'[q] = log[q]
      BY <1>0, <2>4 DEF RoundsSpent, Over, TypeOK
    <3>2. QED
      BY <3>1, SavedKeeps
  <2>5. QED
    BY <1>2, <2>1, <2>2, <2>3, <2>4 DEF HandleCall
<1>3. ASSUME NEW r \in Run, Client(r)
      PROVE  OnRecord \subseteq OnRecord' \/ Abort(r)
  <2>1. ASSUME NEW a \in Endpoint, Begin(r, a)
        PROVE  OnRecord \subseteq OnRecord'
    <3>1. recorded' = recorded /\ \A q \in Run : log[q] \subseteq log'[q]
      BY <1>0, <2>1 DEF Begin, Starts, TypeOK, AtRest
    <3>2. QED
      BY <3>1, LogsGrow
  <2>2. CASE Approve(r)
    <3>1. recorded' = recorded /\ \A q \in Run : log[q] \subseteq log'[q]
      BY <1>0, <2>2 DEF Approve, Starts, TypeOK, AtRest
    <3>2. QED
      BY <3>1, LogsGrow
  <2>3. CASE Dismiss(r)
    BY <2>3, LogsGrow DEF Dismiss, records
  <2>4. QED
    BY <1>3, <2>1, <2>2, <2>3 DEF Client
<1>4. CASE ViewHistory
  BY <1>4, LogsGrow DEF ViewHistory, records
<1>5. ASSUME NEW p \in Path, Upload(p)
      PROVE  OnRecord \subseteq OnRecord'
  BY <1>5, LogsGrow DEF Upload, records
<1>6. ASSUME NEW S \in SUBSET Secret, ViewTransfers(S)
      PROVE  OnRecord \subseteq OnRecord'
  BY <1>6, LogsGrow DEF ViewTransfers, records
<1>7. QED
  BY <1>1, <1>2, <1>3, <1>4, <1>5, <1>6 DEF Next, Work

\* What the agent's tools changed is in the log of a run or in the history
\* until the user clears it: a run that ends takes it away only when the
\* request to the model fails or the client goes away (brain.py:70,
\* v1/chat.py:57).
THEOREM ReportsKept == Spec => ReportLostOnlyByFailure
<1>1. IInv /\ [Next]_vars =>
        [\/ OnRecord \subseteq OnRecord'
         \/ ClearHistory
         \/ \E r \in Run : Fail(r) \/ Abort(r)]_vars
  BY ReportStep
<1>2. QED
  BY <1>1, AlwaysInv, PTL DEF Spec, ReportLostOnlyByFailure

-----------------------------------------------------------------------------
(* Tokens shown in vain *)

\* A run that is not at work has found nothing and masked nothing.
MasksAtRest == \A r \in Run :
  stage[r] \in {"idle", "suspended"} => found[r] = {} /\ fresh[r] = {}

LEMMA MasksStep ==
  ASSUME TypeOK, MasksAtRest, [Next]_vars
  PROVE  MasksAtRest'
<1>1. ASSUME NEW r \in Run, NEW st \in {"idle", "suspended"}, Over(r, st)
      PROVE  MasksAtRest'
  BY <1>1 DEF Over, TypeOK, MasksAtRest
<1>2. ASSUME NEW r \in Run, stage'[r] \in {"model", "calls"},
             \A q \in Run \ {r} : /\ stage'[q] = stage[q]
                                  /\ found'[q] = found[q] /\ fresh'[q] = fresh[q]
      PROVE  MasksAtRest'
  BY <1>2 DEF MasksAtRest
<1>3. ASSUME NEW r \in Run, ModelAnswers(r)
      PROVE  MasksAtRest'
  <2>1. ASSUME NEW b \in Batch, NEW S \in SUBSET Secret, Answer(r, b, S)
        PROVE  MasksAtRest'
    BY <1>2, <2>1 DEF Answer, Masked, TypeOK
  <2>2. ASSUME NEW S \in SUBSET Secret, NEW W \in SUBSET Secret, Reply(r, S, W)
        PROVE  MasksAtRest'
    BY <1>1, <2>2 DEF Reply
  <2>3. QED
    BY <1>1, <1>3, <2>1, <2>2 DEF ModelAnswers, Fail
<1>4. ASSUME NEW r \in Run, HandleCall(r)
      PROVE  MasksAtRest'
  <2>1. ASSUME Handled(r)
        PROVE  stage'[r] \in {"model", "calls"} /\ \A q \in Run \ {r} : stage'[q] = stage[q]
    BY <2>1 DEF Handled, TypeOK
  <2>2. CASE SkipMalformed(r)
    BY <1>2, <2>1, <2>2 DEF SkipMalformed, masks
  <2>3. ASSUME NEW S \in SUBSET Secret, Read(r, S)
        PROVE  MasksAtRest'
    BY <1>2, <2>1, <2>3 DEF Read, TypeOK
  <2>4. CASE Write(r)
    BY <1>2, <2>1, <2>4 DEF Write, masks
  <2>5. CASE Suspend(r) \/ RoundsSpent(r)
    BY <1>1, <2>5 DEF Suspend, RoundsSpent
  <2>6. QED
    BY <1>4, <2>2, <2>3, <2>4, <2>5 DEF HandleCall
<1>5. ASSUME NEW r \in Run, Client(r)
      PROVE  MasksAtRest'
  <2>1. ASSUME NEW a \in Endpoint, Begin(r, a)
        PROVE  MasksAtRest'
    BY <1>2, <2>1 DEF Begin, Starts, TypeOK
  <2>2. CASE Approve(r)
    BY <1>2, <2>2 DEF Approve, Starts, TypeOK
  <2>3. CASE Dismiss(r)
    BY <2>3 DEF Dismiss, masks, TypeOK, MasksAtRest
  <2>4. CASE Abort(r)
    BY <1>1, <2>4 DEF Abort
  <2>5. QED
    BY <1>5, <2>1, <2>2, <2>3, <2>4 DEF Client
<1>6. CASE \/ ViewHistory \/ ClearHistory \/ UNCHANGED vars
           \/ \E p \in Path : Upload(p)
           \/ \E S \in SUBSET Secret : ViewTransfers(S)
  BY <1>6 DEF ViewHistory, ClearHistory, vars, Upload, ViewTransfers, control, masks, MasksAtRest
<1>7. QED
  BY <1>3, <1>4, <1>5, <1>6 DEF Next, Work

\* A step loses no token if what can be revealed stays so, and a token it shows
\* can be revealed.
LEMMA NoTokenLost ==
  ASSUME stored \subseteq stored', \A q \in Run : fresh[q] \subseteq fresh'[q],
         shown' \subseteq shown \cup Revealable'
  PROVE  shown' \ Revealable' \subseteq shown \ Revealable
BY DEF Revealable

\* A run that ends loses only the tokens it masked itself and those of its tool log.
LEMMA LostByEnding ==
  ASSUME TypeOK, NEW r \in Run, NEW st \in {"idle", "suspended"}, Over(r, st),
         stage[r] \in {"model", "calls"}, stored \subseteq stored',
         NEW s \in shown' \ Revealable', s \notin shown \ Revealable,
         s \in shown \cup found[r] \cup stored'
  PROVE  /\ s \in found[r] \cup fresh[r]
         /\ stage'[r] \in {"idle", "suspended"} /\ stage[r] \in {"model", "calls"}
<1>1. stage'[r] = st /\ \A q \in Run \ {r} : fresh'[q] = fresh[q]
  BY DEF Over, TypeOK
<1>2. s \notin stored' /\ \A q \in Run \ {r} : s \notin fresh[q]
  BY <1>1 DEF Revealable
<1>3. CASE s \in Revealable
  BY <1>1, <1>2, <1>3 DEF Revealable
<1>4. CASE s \notin shown
  BY <1>1, <1>2, <1>4
<1>5. QED
  BY <1>3, <1>4

LEMMA TokenStep ==
  ASSUME TypeOK, MasksAtRest, Next,
         NEW s \in shown' \ Revealable', s \notin shown \ Revealable
  PROVE  \E r \in Run :
           \/ \E S, W \in SUBSET Secret : s \in S \ W /\ Reply(r, S, W)
           \/ /\ s \in found[r] \cup fresh[r]
              /\ stage[r] \in {"model", "calls"}
              /\ stage'[r] \in {"idle", "suspended"}
<1> DEFINE Goal ==
      \E r \in Run :
        \/ \E S, W \in SUBSET Secret : s \in S \ W /\ Reply(r, S, W)
        \/ /\ s \in found[r] \cup fresh[r]
           /\ stage[r] \in {"model", "calls"}
           /\ stage'[r] \in {"idle", "suspended"}
<1>1. ASSUME stored \subseteq stored', \A q \in Run : fresh[q] \subseteq fresh'[q],
             shown' \subseteq shown \cup Revealable'
      PROVE  Goal
  BY <1>1, NoTokenLost
<1>2. ASSUME NEW r \in Run, ModelAnswers(r)
      PROVE  Goal
  <2>1. ASSUME NEW b \in Batch, NEW S \in SUBSET Secret, Answer(r, b, S)
        PROVE  Goal
    <3>1. fresh' = [fresh EXCEPT ![r] = @ \cup S] /\ stored' = stored
          /\ shown' \subseteq shown \cup S
      BY <2>1 DEF Answer, Masked, Streamed
    <3>2. fresh'[r] = fresh[r] \cup S /\ \A q \in Run : fresh[q] \subseteq fresh'[q]
      BY <3>1 DEF TypeOK
    <3>3. S \subseteq Revealable'
      BY <3>2 DEF Revealable
    <3>4. QED
      BY <1>1, <3>1, <3>2, <3>3
  <2>2. ASSUME NEW S \in SUBSET Secret, NEW W \in SUBSET Secret, Reply(r, S, W)
        PROVE  Goal
    <3>1. /\ Over(r, "idle") /\ stage[r] = "model"
          /\ stored' = stored \cup (fresh[r] \cup W)
          /\ shown' \subseteq shown \cup W \cup S \cup found[r]
      BY <2>2 DEF Reply, Finished, Flushed, Streamed
    <3>2. CASE s \in S \ W
      BY <2>2, <3>2
    <3>3. CASE s \notin S \ W
      <4>1. s \in shown \cup found[r] \cup stored'
        BY <3>1, <3>3
      <4>2. QED
        BY <3>1, <4>1, LostByEnding
    <3>4. QED
      BY <3>2, <3>3
  <2>3. CASE Fail(r)
    BY <2>3, LostByEnding DEF Fail
  <2>4. QED
    BY <1>2, <2>1, <2>2, <2>3 DEF ModelAnswers
<1>3. ASSUME NEW r \in Run, HandleCall(r)
      PROVE  Goal
  <2>1. CASE SkipMalformed(r) \/ Write(r) \/ \E S \in SUBSET Secret : Read(r, S)
    BY <1>1, <2>1 DEF SkipMalformed, Write, Read, masks
  <2>2. CASE Suspend(r)
    <3>1. PICK st \in {"idle", "suspended"} : Over(r, st)
      BY <2>2 DEF Suspend
    <3>2. stage[r] = "calls" /\ shown' = shown \cup found[r] /\ stored' = stored
      BY <2>2 DEF Suspend, Handling
    <3>3. QED
      BY <3>1, <3>2, LostByEnding
  <2>3. CASE RoundsSpent(r)
    BY <2>3, LostByEnding DEF RoundsSpent
  <2>4. QED
    BY <1>3, <2>1, <2>2, <2>3 DEF HandleCall
<1>4. ASSUME NEW r \in Run, Client(r)
      PROVE  Goal
  <2>1. ASSUME NEW a \in Endpoint, Begin(r, a)
        PROVE  Goal
    <3>1. UNCHANGED <<shown, stored>> /\ \A q \in Run : fresh[q] \subseteq fresh'[q]
      BY <2>1 DEF Begin, Starts, TypeOK, MasksAtRest
    <3>2. QED
      BY <1>1, <3>1
  <2>2. CASE Approve(r)
    <3>1. UNCHANGED <<shown, stored>> /\ \A q \in Run : fresh[q] \subseteq fresh'[q]
      BY <2>2 DEF Approve, Starts, TypeOK, MasksAtRest
    <3>2. QED
      BY <1>1, <3>1
  <2>3. CASE Dismiss(r)
    BY <1>1, <2>3 DEF Dismiss, masks
  <2>4. CASE Abort(r)
    BY <2>4, LostByEnding DEF Abort
  <2>5. QED
    BY <1>4, <2>1, <2>2, <2>3, <2>4 DEF Client
<1>5. ASSUME NEW S \in SUBSET Secret, shown' = shown \cup S, Flushed(S), fresh' = fresh
      PROVE  Goal
  <2>1. S \subseteq Revealable'
    BY <1>5 DEF Flushed, Revealable
  <2>2. QED
    BY <1>1, <1>5, <2>1 DEF Flushed
<1>6. CASE ViewHistory \/ \E S \in SUBSET Secret : ViewTransfers(S)
  BY <1>5, <1>6 DEF ViewHistory, ViewTransfers, TypeOK
<1>7. CASE ClearHistory \/ \E p \in Path : Upload(p)
  BY <1>1, <1>7 DEF ClearHistory, Upload, masks
<1>8. QED
  BY <1>2, <1>3, <1>4, <1>6, <1>7 DEF Next, Work

\* However streams, replies, suspensions and views of the history interleave, a
\* token is shown in vain only by the end of a run: one that found or masked the
\* value, or whose reply has it and did not stream it whole (loop.py:130-137,
\* 169-176, 201-221, masking.py:24-31).
THEOREM TokensLostAtTheEnd == Spec => TokensLostOnlyAtTheEnd
<1>1. Init => MasksAtRest
  BY DEF Init, MasksAtRest
<1>2. IInv => TypeOK
  BY DEF IInv
<1>3. TypeOK /\ MasksAtRest /\ [Next]_vars =>
        [\A s \in Secret : s \in shown' \ Revealable' /\ s \notin shown \ Revealable
           => \E r \in Run :
                \/ \E S, W \in SUBSET Secret : s \in S \ W /\ Reply(r, S, W)
                \/ /\ s \in found[r] \cup fresh[r]
                   /\ stage[r] \in {"model", "calls"}
                   /\ stage'[r] \in {"idle", "suspended"}]_vars
  BY TokenStep
<1>4. QED
  BY <1>1, <1>2, <1>3, AlwaysInv, MasksStep, PTL DEF Spec, TokensLostOnlyAtTheEnd
=============================================================================
