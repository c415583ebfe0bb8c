---------------------------- MODULE AiProviders ----------------------------
(***************************************************************************)
(* The language models an administrator configures (api/admin.py), how the *)
(* one a user gets is resolved (core/llm_service.py), and the one request  *)
(* that stores what a model answered, ai_enhance (api/files.py).  Of the   *)
(* rows of llm_providers the flags enabled and is_default are kept, of the *)
(* users one, of the notes one: its text as a version number, and the      *)
(* version its stored summary was made from.                               *)
(*                                                                         *)
(* A request loads rows, decides, and commits later: `begin' and `end'.  A *)
(* commit writes the columns that differ from what was loaded.  Updates of *)
(* other rows are part of the commit's transaction, which holds the only   *)
(* write lock.  Names, keys, addresses and sort_order are left out: which  *)
(* enabled model is "the first" is left open.                              *)
(***************************************************************************)
EXTENDS Integers, FiniteSets

CONSTANTS
  Provider,    \* identities of models
  Req,         \* requests that can be in flight at once
  NoProvider,  \* NULL in the user's llm_provider_id
  MaxText      \* bound: how often the note is saved

ASSUME ProviderConstantsOK == NoProvider \notin Provider /\ MaxText \in Nat

VARIABLES
  row,      \* row[p]: whether the model is there, and its two flags
  allowed,  \* the user's ai_enabled
  assigned, \* the user's llm_provider_id
  text,     \* the version of the note's text
  summary,  \* the version the summary describes
  req       \* req[r]: what request r has loaded and is about to write

vars == <<row, allowed, assigned, text, summary, req>>

NoSummary == -1
Unborn == [there |-> "unborn", enabled |-> FALSE, default |-> FALSE]
Gone == [there |-> "deleted", enabled |-> FALSE, default |-> FALSE]
Present(e, d) == [there |-> "yes", enabled |-> e, default |-> d]

Rows == {p \in Provider : row[p].there = "yes"}
Enabled == {p \in Provider : row[p].enabled}
Defaults == {p \in Provider : row[p].default}

Idle == [op |-> "idle"]
Promoting == [op |-> "promote"]
Update(p, e, d) ==
  [op |-> "update", provider |-> p, enabled |-> e, default |-> d, loaded |-> row[p]]
Delete(p) == [op |-> "delete", provider |-> p, default |-> row[p].default]
Assign(p, a) ==
  [op |-> "assign", provider |-> p, allowed |-> a, loaded |-> <<assigned, allowed>>]

\* Mutant: once the note has been summarised, its first text is taken.
ExtractedEarlier == IF summary # NoSummary THEN 0 ELSE text

\* _extract_text reads the file
Extracted == text

Enhance == [op |-> "enhance", text |-> Extracted, seen |-> summary]

\* _resolve_provider: the models this user's next call may go to
Resolved ==
  IF ~allowed THEN {} ELSE IF assigned \in Enabled THEN {assigned}
  ELSE Defaults \cap Enabled

\* get_llm_config: the user is allowed to, and some model answers for him; the
\* keys are taken to decrypt.
Configured == allowed /\ Resolved # {}

-----------------------------------------------------------------------------
Init ==
  /\ row = [p \in Provider |-> Unborn]
  /\ allowed = FALSE /\ assigned = NoProvider
  /\ text = 0 /\ summary = NoSummary
  /\ req = [r \in Req |-> Idle]

Begin(r, q) ==
  /\ req[r] = Idle
  /\ req' = [req EXCEPT ![r] = q]
  /\ UNCHANGED <<row, allowed, assigned, text, summary>>

Finish(r) == req' = [req EXCEPT ![r] = Idle]

\* Mutant: the other defaults are left as they are.
OthersKept(rows, p) == rows

\* no model but p is the default
Others(rows, p) ==
  [q \in Provider |-> IF q = p THEN rows[q] ELSE [rows[q] EXCEPT !.default = FALSE]]

\* create_llm_provider
CreateProvider(p, e, d) ==
  /\ row[p] = Unborn
  /\ row' = [(IF d THEN Others(row, p) ELSE row) EXCEPT ![p] = Present(e, d)]
  /\ UNCHANGED <<allowed, assigned, text, summary, req>>

BeginUpdate(r, p, e, d) == p \in Rows /\ Begin(r, Update(p, e, d))

\* update_llm_provider: a new default unseats the others.  A commit that finds
\* the row deleted fails as a whole.
Updated(q) ==
  LET old == row[q.provider]
      new == [old EXCEPT !.enabled = IF q.enabled # q.loaded.enabled THEN q.enabled ELSE @,
                         !.default = IF q.default # q.loaded.default THEN q.default ELSE @]
      all == IF q.default /\ ~q.loaded.default THEN Others(row, q.provider) ELSE row
  IN  IF q.provider \in Rows THEN [all EXCEPT ![q.provider] = new] ELSE row

EndUpdate(r) ==
  /\ req[r].op = "update"
  /\ row' = Updated(req[r])
  /\ Finish(r)
  /\ UNCHANGED <<allowed, assigned, text, summary>>

BeginDelete(r, p) == p \in Rows /\ Begin(r, Delete(p))

\* Mutant: users keep the model that is deleted.
UnassignedNever(p) == assigned

\* the assignment once p is deleted
Unassigned(p) == IF assigned = p THEN NoProvider ELSE assigned

\* delete_llm_provider: one commit takes the model from its users and deletes
\* it; if it was the default when it was loaded, a second one follows.
EndDelete(r) ==
  /\ req[r].op = "delete"
  /\ row' = [row EXCEPT ![req[r].provider] = Gone]
  /\ assigned' = Unassigned(req[r].provider)
  /\ req' = [req EXCEPT ![r] = IF req[r].default THEN Promoting ELSE Idle]
  /\ UNCHANGED <<allowed, text, summary>>

\* Mutant: a deleted default is not replaced.
SuccessorNone == {}

\* the enabled models, of which the first becomes the default
Successor == Enabled

Promote(r) ==
  /\ req[r].op = "promote"
  /\ IF Successor = {} THEN row' = row
     ELSE \E p \in Successor : row' = [row EXCEPT ![p].default = TRUE]
  /\ Finish(r)
  /\ UNCHANGED <<allowed, assigned, text, summary>>

\* update_user_ai: only an enabled model can be assigned.
BeginAssign(r, p, a) == p \in Enabled \cup {NoProvider} /\ Begin(r, Assign(p, a))

EndAssign(r) ==
  /\ req[r].op = "assign"
  /\ assigned' = IF req[r].provider # req[r].loaded[1] THEN req[r].provider ELSE assigned
  /\ allowed' = IF req[r].allowed # req[r].loaded[2] THEN req[r].allowed ELSE allowed
  /\ Finish(r)
  /\ UNCHANGED <<row, text, summary>>

\* The note is saved; the summary stays.
SaveNote ==
  /\ text < MaxText /\ text' = text + 1
  /\ UNCHANGED <<row, allowed, assigned, summary, req>>

\* ai_enhance up to the call: the text is read, and some model is there.
BeginEnhance(r) == Configured /\ Begin(r, Enhance)

\* The answer is stored, whatever has happened to the note in between.
EndEnhance(r) ==
  /\ req[r].op = "enhance"
  /\ summary' = req[r].text
  /\ Finish(r)
  /\ UNCHANGED <<row, allowed, assigned, text>>

\* The call fails, or its answer holds no summary.
FailEnhance(r) ==
  /\ req[r].op = "enhance"
  /\ Finish(r)
  /\ UNCHANGED <<row, allowed, assigned, text, summary>>

\* The process stops: requests vanish before their next commit.
Restart ==
  /\ req' = [r \in Req |-> Idle]
  /\ UNCHANGED <<row, allowed, assigned, text, summary>>

Next ==
  \/ \E p \in Provider, e, d \in BOOLEAN : CreateProvider(p, e, d)
  \/ \E r \in Req :
       \/ \E p \in Provider, e, d \in BOOLEAN : BeginUpdate(r, p, e, d)
       \/ \E p \in Provider : BeginDelete(r, p)
       \/ \E p \in Provider \cup {NoProvider}, a \in BOOLEAN : BeginAssign(r, p, a)
       \/ EndUpdate(r) \/ EndDelete(r) \/ Promote(r) \/ EndAssign(r)
       \/ BeginEnhance(r) \/ EndEnhance(r) \/ FailEnhance(r)
  \/ SaveNote
  \/ Restart

Spec == Init /\ [][Next]_vars

-----------------------------------------------------------------------------
\* Some model is the default, or about to be, or none is enabled.
Covered == Defaults # {} \/ Enabled = {} \/ \E r \in Req : req[r].op = "promote"

\* While models are enabled there is one default.  A second one appears only
\* when a deletion promotes a successor although another model was made the
\* default after the deletion had begun: a call may then go to either.  None is
\* left only when an update takes the flag from the default or enables the
\* first model, when the first enabled model is created without the flag, when
\* the process stops between the two commits of a deletion, or when a model
\* became the default after its own deletion had begun.
OneDefault ==
  [][/\ Cardinality(Defaults') > 1 /\ ~(Defaults' \subseteq Defaults) =>
          \E r \in Req : Promote(r)
     /\ Covered /\ ~Covered' =>
          \/ Restart
          \/ Enabled = {} /\ \E p \in Provider : CreateProvider(p, TRUE, FALSE)
          \/ \E r \in Req :
               \/ EndUpdate(r) /\ (req[r].provider \in Defaults \/ Enabled = {})
               \/ EndDelete(r) /\ ~req[r].default]_vars

\* The model shown as assigned to a user is the one used, until that model is
\* disabled: deleting it takes it from the user, and a model that was disabled
\* or deleted cannot be assigned, except by a request that had checked it before.
Honoured == assigned \in Enabled \cup {NoProvider}
AssignmentHonoured ==
  [][Honoured /\ ~Honoured' =>
       \E r \in Req : \/ EndUpdate(r) /\ req[r].provider = assigned
                      \/ EndAssign(r) /\ req[r].provider \notin Enabled]_vars

\* A summary replaces that of a later text only if the later one was stored
\* while this call was under way.
SummaryGoesBackOnlyByOverlap ==
  [][summary' < summary =>
       \E r \in Req : EndEnhance(r) /\ req[r].seen < summary]_vars
=============================================================================
