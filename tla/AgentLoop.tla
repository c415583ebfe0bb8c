----------------------------- MODULE AgentLoop ------------------------------
(***************************************************************************)
(* The agent's loop (agent_platform/runtime/loop.py) and the endpoints     *)
(* that drive it (api/v1/chat.py, agent/brain.py, api/chat.py), for one    *)
(* user with several conversations open at once over the same files, chat  *)
(* history and table of masked values.                                     *)
(*                                                                         *)
(* A run asks the model, executes the batch of tool calls it answers with  *)
(* and asks again, MaxRounds times at most.  A destructive call nobody has *)
(* confirmed suspends the run: what is left of the batch is dropped, and   *)
(* the client is to send the suspended state back with the user's          *)
(* approval.  A tool is a synchronous call of the event loop's thread, so  *)
(* one call is one step; between calls anything may run.  The model        *)
(* service is external: it answers whatever it likes, or fails.            *)
(*                                                                         *)
(* Of a value the masker recognises (Secret) the model keeps whether a     *)
(* token for it was sent to the browser and whether the token is in        *)
(* mask_mappings, where /api/chat/unmask looks it up.  The stream releases *)
(* all but its last 48 characters at every delta: a value is masked there  *)
(* if one release has the whole of it, and goes out in pieces without a    *)
(* token if it does not, as most do when deltas are short.  Which ones are *)
(* whole is left open.                                                     *)
(***************************************************************************)
EXTENDS Integers, Sequences, FiniteSets

CONSTANTS
  Run,         \* conversations open at a time (browser tabs, old and new pages)
  Endpoint,    \* the endpoints in use, of v1, stream and sync (the old two)
  Path,        \* paths of the user's files
  Secret,      \* values the masker recognises
  Batch,       \* the batches of tool calls the model may answer with
  MaxRounds,   \* RunContext.max_rounds
  MaxOpen,     \* bound: calls in a context without a tool message
  StateSent    \* the done event of a suspended run brings its state to the
               \* client: FALSE for api/v1/chat.py as it stands, TRUE for a
               \* caller of run_agent that keeps it, as the tests do

Tool == {"read", "malformed", "delete", "purge", "restore"}
Call == [tool : Tool, path : Path]

ASSUME AgentConstantsOK ==
  /\ MaxRounds \in Nat \ {0} /\ MaxOpen \in Nat
  /\ StateSent \in BOOLEAN
  /\ \A b \in Batch : b \in Seq(Call) /\ b # <<>>

VARIABLES
  file,       \* file[p]: where the file at p is: active, trash or gone
  stage,      \* stage[r]: idle, model (being asked), calls, or suspended
  api,        \* api[r]: the endpoint that drives the run
  rounds,     \* rounds[r]: requests to the model left
  calls,      \* calls[r]: the calls of the batch still to be handled
  open,       \* open[r]: calls in the context that no tool message answers
  confirmed,  \* confirmed[r]: RunContext.confirmed
  held,       \* held[r]: the suspended call and context the client holds
  log,        \* log[r]: what tools of this run have changed
  recorded,   \* what the tool results of the chat history report
  granted,    \* history variable: the calls the user has ever approved
  found,      \* found[r]: secrets in the tool results of the run
  fresh,      \* fresh[r]: MaskSession.mappings of the run
  told,       \* secrets in the replies of the chat history
  shown,      \* secrets a token was sent for
  stored      \* mask_mappings

vars == <<file, stage, api, rounds, calls, open, confirmed, held, log,
          recorded, granted, found, fresh, told, shown, stored>>
control == <<stage, api, rounds, calls, open, confirmed, held>>
records == <<log, recorded, granted>>
masks == <<found, fresh, told, shown, stored>>

\* The calls that change a file.
Change == [tool : {"delete", "purge", "restore"}, path : Path]
Suspended == [calls : {<<c>> : c \in Call}, open : Nat]
Nothing == [calls |-> <<>>, open |-> 0]

\* The state variables have their types.
TypeOK ==
  /\ file \in [Path -> {"active", "trash", "gone"}]
  /\ stage \in [Run -> {"idle", "model", "calls", "suspended"}]
  /\ api \in [Run -> Endpoint \cup {"v1"}]
  /\ rounds \in [Run -> 0..MaxRounds]
  /\ calls \in [Run -> Seq(Call)]
  /\ open \in [Run -> Nat]
  /\ confirmed \in [Run -> SUBSET Call]
  /\ held \in [Run -> Suspended \cup {Nothing}]
  /\ log \in [Run -> SUBSET Change]
  /\ recorded \subseteq Change /\ granted \subseteq Call
  /\ found \in [Run -> SUBSET Secret] /\ fresh \in [Run -> SUBSET Secret]
  /\ told \subseteq Secret /\ shown \subseteq Secret /\ stored \subseteq Secret

Init ==
  /\ file = [p \in Path |-> "active"]
  /\ stage = [r \in Run |-> "idle"]
  /\ api = [r \in Run |-> "v1"]
  /\ rounds = [r \in Run |-> 0]
  /\ calls = [r \in Run |-> <<>>]
  /\ open = [r \in Run |-> 0]
  /\ confirmed = [r \in Run |-> {}]
  /\ held = [r \in Run |-> Nothing]
  /\ log = [r \in Run |-> {}]
  /\ recorded = {} /\ granted = {}
  /\ found = [r \in Run |-> {}] /\ fresh = [r \in Run |-> {}]
  /\ told = {} /\ shown = {} /\ stored = {}

-----------------------------------------------------------------------------
(* A run begins and ends *)

\* The variables of one run, as run_agent sets them up.
Starts(r, rest, unanswered, approved) ==
  /\ rounds' = [rounds EXCEPT ![r] = MaxRounds]
  /\ calls' = [calls EXCEPT ![r] = rest]
  /\ open' = [open EXCEPT ![r] = unanswered]
  /\ confirmed' = [confirmed EXCEPT ![r] = approved]
  /\ log' = [log EXCEPT ![r] = {}]
  /\ found' = [found EXCEPT ![r] = {}]
  /\ fresh' = [fresh EXCEPT ![r] = {}]

\* The generator of the run returns or is closed.
Over(r, next) ==
  /\ stage' = [stage EXCEPT ![r] = next]
  /\ api' = [api EXCEPT ![r] = "v1"]
  /\ rounds' = [rounds EXCEPT ![r] = 0]
  /\ calls' = [calls EXCEPT ![r] = <<>>]
  /\ open' = [open EXCEPT ![r] = 0]
  /\ confirmed' = [confirmed EXCEPT ![r] = {}]
  /\ log' = [log EXCEPT ![r] = {}]
  /\ found' = [found EXCEPT ![r] = {}]
  /\ fresh' = [fresh EXCEPT ![r] = {}]
  /\ UNCHANGED <<file, granted>>

\* MUTANT of Saved: a pending done is not saved.
SavedWhenSettled(r) == recorded' = IF calls[r] = <<>> THEN recorded \cup log[r] ELSE recorded

\* save_turn on a done event: the tool results go into the history.
Saved(r) == recorded' = recorded \cup log[r]

\* POST /v1/chat/messages, and /chat/stream and /chat of the old page.
Begin(r, a) ==
  /\ stage[r] = "idle"
  /\ stage' = [stage EXCEPT ![r] = "model"]
  /\ api' = [api EXCEPT ![r] = a]
  /\ Starts(r, <<>>, 0, {})
  /\ UNCHANGED <<file, held, recorded, granted, told, shown, stored>>

\* A stream sends text on as it comes; the synchronous endpoint keeps only
\* what the done event has.
Streamed(r, S) == IF api[r] = "sync" THEN {} ELSE S

\* mask_text: every secret in a text becomes a token, and the session of the
\* run keeps what the token stands for.
Masked(r, S) == fresh' = [fresh EXCEPT ![r] = @ \cup S]

\* The model answers with a batch of calls, after text of which the stream
\* releases the secrets W whole.
Answer(r, b, W) ==
  /\ stage[r] = "model" /\ open[r] + Len(b) <= MaxOpen
  /\ stage' = [stage EXCEPT ![r] = "calls"]
  /\ rounds' = [rounds EXCEPT ![r] = @ - 1]
  /\ calls' = [calls EXCEPT ![r] = b]
  /\ open' = [open EXCEPT ![r] = @ + Len(b)]
  /\ Masked(r, W)
  /\ shown' = shown \cup Streamed(r, W)
  /\ UNCHANGED <<file, api, confirmed, held, records, found, told, stored>>

\* flush: the mappings collected so far go into the table.
Flushed(S) == stored' = stored \cup S

\* MUTANT of Finished: what was held back is masked after the flush.
FinishedEarly(r, W) == Flushed(fresh[r])

\* MaskingStream.finish masks what was held back and flushes the mappings:
\* those of the secrets W that the stream released whole.
Finished(r, W) == Flushed(fresh[r] \cup W)

\* The model answers with text only, with the secrets S; W are those that the
\* stream releases whole meanwhile, of this text or held back from an earlier
\* one.  The done event has the reply (mask_full) and the tool log masked
\* anew, after the flush.
Reply(r, S, W) ==
  /\ stage[r] = "model"
  /\ Finished(r, W)
  /\ shown' = shown \cup Streamed(r, W) \cup S \cup found[r]
  /\ told' = told \cup S
  /\ Saved(r)
  /\ Over(r, "idle")
  /\ UNCHANGED held

\* The request or its stream fails: an error event, and nothing is saved.
Fail(r) ==
  /\ stage[r] = "model"
  /\ Over(r, "idle")
  /\ UNCHANGED <<held, recorded, told, shown, stored>>

\* After the last round: a fixed reply.
RoundsSpent(r) ==
  /\ stage[r] = "calls" /\ calls[r] = <<>> /\ rounds[r] = 0
  /\ shown' = shown \cup found[r]
  /\ Saved(r)
  /\ Over(r, "idle")
  /\ UNCHANGED <<held, told, stored>>

\* The client goes away and the stream is closed where it stands.  The
\* synchronous endpoint does not notice.
Abort(r) ==
  /\ stage[r] \in {"model", "calls"} /\ api[r] # "sync"
  /\ Over(r, "idle")
  /\ UNCHANGED <<held, recorded, told, shown, stored>>

-----------------------------------------------------------------------------
(* _exec_tool_calls *)

\* The call at the head of the batch has its tool message; a batch that is
\* done with is followed by the next round, if there is one left.
Handled(r) ==
  /\ calls' = [calls EXCEPT ![r] = Tail(@)]
  /\ open' = [open EXCEPT ![r] = @ - 1]
  /\ stage' = [stage EXCEPT ![r] =
       IF Tail(calls[r]) = <<>> /\ rounds[r] > 0 THEN "model" ELSE "calls"]
  /\ UNCHANGED <<api, rounds, confirmed, held>>

Current(r) == Head(calls[r])
Handling(r) == stage[r] = "calls" /\ calls[r] # <<>>

\* effective_permission: delete_file with purge is destructive.
Destructive(c) == c.tool = "purge"

\* MUTANT of Fingerprint: the arguments are left out.
FingerprintOfTool(c) == c.tool

\* The fingerprint of a call is its tool and its arguments.
Fingerprint(c) == c

NeedsConfirmation(r) ==
  Destructive(Current(r)) /\ Fingerprint(Current(r)) \notin confirmed[r]

\* MUTANT of SkipMalformed: no tool message.
SkipMalformedSilently(r) ==
  /\ Handling(r) /\ Current(r).tool = "malformed"
  /\ calls' = [calls EXCEPT ![r] = Tail(@)]
  /\ stage' = [stage EXCEPT ![r] =
       IF Tail(calls[r]) = <<>> /\ rounds[r] > 0 THEN "model" ELSE "calls"]
  /\ UNCHANGED <<api, rounds, open, confirmed, held, file, records, masks>>

\* Arguments that do not parse: an error goes back to the model.
SkipMalformed(r) ==
  /\ Handling(r) /\ Current(r).tool = "malformed"
  /\ Handled(r)
  /\ UNCHANGED <<file, records, masks>>

\* A tool that reads; its result has the secrets S.
Read(r, S) ==
  /\ Handling(r) /\ Current(r).tool = "read"
  /\ found' = [found EXCEPT ![r] = @ \cup S]
  /\ Handled(r)
  /\ UNCHANGED <<file, records, fresh, told, shown, stored>>

\* Where a tool finds the file it works on, and where it leaves it.
From == [delete |-> "active", purge |-> "active", restore |-> "trash"]
To == [delete |-> "trash", purge |-> "gone", restore |-> "active"]

\* delete_file and restore_file; on a file that is not there, an error.
Write(r) ==
  /\ Handling(r) /\ Current(r).tool \in {"delete", "purge", "restore"}
  /\ ~NeedsConfirmation(r)
  /\ LET t == Current(r).tool
         p == Current(r).path
     IN IF file[p] = From[t]
        THEN /\ file' = [file EXCEPT ![p] = To[t]]
             /\ log' = [log EXCEPT ![r] = @ \cup {Current(r)}]
        ELSE UNCHANGED <<file, log>>
  /\ Handled(r)
  /\ UNCHANGED <<recorded, granted, masks>>

\* What the client has of a suspended run.  The page of the old endpoints
\* gets no state at all.
StateFor(r) ==
  IF StateSent /\ api[r] = "v1"
  THEN [calls |-> <<Current(r)>>, open |-> open[r]]
  ELSE Nothing

\* A destructive call nobody confirmed: confirm_request and a pending done.
Suspend(r) ==
  /\ Handling(r) /\ NeedsConfirmation(r)
  /\ held' = [held EXCEPT ![r] = StateFor(r)]
  /\ shown' = shown \cup found[r]
  /\ Saved(r)
  /\ Over(r, IF api[r] = "v1" THEN "suspended" ELSE "idle")
  /\ UNCHANGED <<told, stored>>

-----------------------------------------------------------------------------
(* The user and the client *)

\* POST /v1/chat/confirm with the state: the call goes first, then the rounds.
Approve(r) ==
  /\ stage[r] = "suspended" /\ held[r] # Nothing
  /\ LET c == Head(held[r].calls)
     IN /\ granted' = granted \cup {c}
        /\ Starts(r, held[r].calls, held[r].open, {Fingerprint(c)})
  /\ stage' = [stage EXCEPT ![r] = "calls"]
  /\ held' = [held EXCEPT ![r] = Nothing]
  /\ UNCHANGED <<file, api, recorded, told, shown, stored>>

\* The user says no or closes the page, or the confirmation is refused: 422
\* without a state, LLM_UNAVAILABLE without a model.
Dismiss(r) ==
  /\ stage[r] = "suspended"
  /\ stage' = [stage EXCEPT ![r] = "idle"]
  /\ held' = [held EXCEPT ![r] = Nothing]
  /\ UNCHANGED <<file, api, rounds, calls, open, confirmed, records, masks>>

\* GET /chat/history masks the replies anew and stores their mappings.
ViewHistory ==
  /\ shown' = shown \cup told
  /\ Flushed(told)
  /\ UNCHANGED <<file, control, records, found, fresh, told>>

\* GET /transfer/messages masks the secrets of the transfer timeline, and
\* stores their mappings.
ViewTransfers(S) ==
  /\ shown' = shown \cup S
  /\ Flushed(S)
  /\ UNCHANGED <<file, control, records, found, fresh, told>>

\* DELETE /chat/history.
ClearHistory ==
  /\ recorded' = {} /\ told' = {}
  /\ UNCHANGED <<file, control, log, granted, found, fresh, shown, stored>>

\* Another device or page uploads a file to a path without one.
Upload(p) ==
  /\ file[p] # "active"
  /\ file' = [file EXCEPT ![p] = "active"]
  /\ UNCHANGED <<control, records, masks>>

-----------------------------------------------------------------------------
ModelAnswers(r) ==
  \/ \E b \in Batch, W \in SUBSET Secret : Answer(r, b, W)
  \/ \E S, W \in SUBSET Secret : Reply(r, S, W)
  \/ Fail(r)

HandleCall(r) ==
  \/ SkipMalformed(r)
  \/ \E S \in SUBSET Secret : Read(r, S)
  \/ Write(r)
  \/ Suspend(r)
  \/ RoundsSpent(r)

Client(r) ==
  \/ \E a \in Endpoint : Begin(r, a)
  \/ Abort(r)
  \/ Approve(r)
  \/ Dismiss(r)

Work(r) == ModelAnswers(r) \/ HandleCall(r)

Next ==
  \/ \E r \in Run : Work(r) \/ Client(r)
  \/ ViewHistory
  \/ \E S \in SUBSET Secret : ViewTransfers(S)
  \/ ClearHistory
  \/ \E p \in Path : Upload(p)

Spec == Init /\ [][Next]_vars

\* POST /chat/unmask finds what a token for the secret s stands for.
Unmasks(s) == s \in stored

-----------------------------------------------------------------------------
(* Properties *)

\* A file goes for good only by a purge the user has approved, of that file
\* (loop.py:201).
PurgeOnlyGranted ==
  [][\A p \in Path : file[p] # "gone" /\ file'[p] = "gone"
       => [tool |-> "purge", path |-> p] \in granted]_vars

\* The context a run shows the model has a tool message for every call the
\* model made before, unless the run was resumed: what was left of a batch
\* when a call was suspended is never answered (loop.py:201, 217).
CallsAnswered ==
  \A r \in Run : confirmed[r] = {} => open[r] = Len(calls[r])

\* What a tool changed stays on record, in the run's log and then in the
\* history, until the user clears the history; of the ways a run ends, only
\* the failure of a request to the model and a client that goes away lose it:
\* a reply, the fixed reply after the last round and a suspension never do
\* (loop.py:126, v1/chat.py:57, brain.py:70).
OnRecord == recorded \cup UNION {log[r] : r \in Run}
ReportLostOnlyByFailure ==
  [][\/ OnRecord \subseteq OnRecord'
     \/ ClearHistory
     \/ \E r \in Run : Fail(r) \/ Abort(r)]_vars

\* A suspended run of the v1 endpoint can be resumed: the client holds its
\* state (v1/chat.py:11-13).
SuspensionResumable ==
  \A r \in Run : stage[r] = "suspended" => held[r] # Nothing

\* A token the browser has for a secret of a saved reply can be revealed, as
\* core/mask.py:3-12 says of every token it embeds.
RepliesRevealable == \A s \in told \cap shown : Unmasks(s)

\* A token is shown in vain only when a run ends: for a secret of its tool log
\* or of text it streamed, if the mappings were stored before or never, or for
\* a secret of its last reply that the stream has not released whole (loop.py:
\* 130-137, 169-176, 201-221, masking.py:24-31).  Text in mid-run, the
\* history and the timeline never show one in vain.
Revealable == stored \cup UNION {fresh[r] : r \in Run}
TokensLostOnlyAtTheEnd ==
  [][\A s \in Secret : s \in shown' \ Revealable' /\ s \notin shown \ Revealable
       => \E r \in Run :
            \/ \E S, W \in SUBSET Secret : s \in S \ W /\ Reply(r, S, W)
            \/ /\ s \in found[r] \cup fresh[r]
               /\ stage[r] \in {"model", "calls"}
               /\ stage'[r] \in {"idle", "suspended"}]_vars
=============================================================================
