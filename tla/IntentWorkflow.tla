--------------------------- MODULE IntentWorkflow ---------------------------
(***************************************************************************)
(* Intents as the HTTP handlers change them: POST /api/intent, POST        *)
(* /api/intent/{id}/transition and POST /api/encrypt.                      *)
(*                                                                         *)
(* The handlers are synchronous functions that the server runs on a pool   *)
(* of threads (Workers).  A handler reads the intent document once, works  *)
(* on that copy and writes later, each database call being one step here;  *)
(* the steps of different workers interleave.                              *)
(*                                                                         *)
(* What the gates of other components answer (live monitoring, face, risk, *)
(* device, session, policy) is the variable posture, which the environment *)
(* changes between any two steps; the validity window of an intent is      *)
(* lapsed, which never becomes false again.                                *)
(***************************************************************************)
EXTENDS Naturals, FiniteSets, IntentLifecycle

CONSTANTS
  Workers,   \* threads that run request handlers
  Intents,   \* identifiers get_next_id may hand out
  Tokens,    \* access tokens in use: records with a user and a role
  Failures   \* whether a handler may stop half-way (exception or crash)

Roles == {"USER_LEVEL_1", "USER_LEVEL_2", "ADMIN"}

ASSUME TokensAssumption   == \A t \in Tokens : t.role \in Roles
ASSUME FailuresAssumption == Failures \in BOOLEAN

Users == {t.user : t \in Tokens}

VARIABLES
  lifecycle,   \* state of each intent document, "absent" before insert
  created_by,  \* the user who created it
  posture,     \* do monitoring, face, risk, device, session, policy pass?
  lapsed,      \* has valid_until passed?
  request,     \* what each worker is doing
  approvers,   \* history: the tokens that have approved the intent
  approvals,   \* history: how many approvals were written
  sealed,      \* history: has an AES encryption under it succeeded?
  encrypted    \* encryption records stored for the intent

vars == <<lifecycle, created_by, posture, lapsed, request,
          approvers, approvals, sealed, encrypted>>

NoUser == "no user"
Idle   == [step |-> "idle"]

\* A request in progress: the database call its handler makes next, the
\* caller, the intent, the requested state and the state in the copy read.
Jobs == [step   : {"insert", "validate", "transition", "authorize", "save"},
         by     : Tokens,
         intent : Intents,
         target : LifecycleStates,
         row    : LifecycleStates]

TypeOK ==
  /\ lifecycle  \in [Intents -> LifecycleStates \cup {"absent"}]
  /\ created_by \in [Intents -> Users \cup {NoUser}]
  /\ posture    \in [Intents -> BOOLEAN]
  /\ lapsed     \in [Intents -> BOOLEAN]
  /\ request    \in [Workers -> {Idle} \cup Jobs]
  /\ approvers  \in [Intents -> SUBSET Tokens]
  /\ approvals  \in [Intents -> Nat]
  /\ sealed     \in [Intents -> BOOLEAN]
  /\ encrypted  \in [Intents -> Nat]

Init ==
  /\ lifecycle  = [i \in Intents |-> "absent"]
  /\ created_by = [i \in Intents |-> NoUser]
  /\ posture    \in [Intents -> BOOLEAN]
  /\ lapsed     = [i \in Intents |-> FALSE]
  /\ request    = [w \in Workers |-> Idle]
  /\ approvers  = [i \in Intents |-> {}]
  /\ approvals  = [i \in Intents |-> 0]
  /\ sealed     = [i \in Intents |-> FALSE]
  /\ encrypted  = [i \in Intents |-> 0]

-----------------------------------------------------------------------------
(***************************************************************************)
(* Who may do what.                                                        *)
(***************************************************************************)

IsAdmin(t) == t.role = "ADMIN"

\* require_owner_or_admin.
OwnerOrAdmin(t, i) == IsAdmin(t) \/ created_by[i] = t.user

\* Fault: any level 2 user approves, the owner included.
MayApprove_Self(t, i) == t.role \in {"USER_LEVEL_2", "ADMIN"}

\* Separation of duties: level 2 for somebody else's intent, or ADMIN.
MayApprove(t, i) ==
  /\ t.role \in {"USER_LEVEL_2", "ADMIN"}
  /\ created_by[i] = t.user => IsAdmin(t)

\* The owner withdraws a draft, a reviewer turns it down.
MayReject(t, i) ==
  created_by[i] = t.user \/ t.role \in {"USER_LEVEL_2", "ADMIN"}

MayRequest(t, i, target) ==
  CASE target = "rejected" -> MayReject(t, i)
    [] target = "approved" -> MayApprove(t, i)
    [] OTHER               -> OwnerOrAdmin(t, i)

\* IntentValidationService.validate, approval_eligible, for the copy read.
ApprovalEligible(i, row) == posture[i] /\ ~lapsed[i] /\ row = "draft"

-----------------------------------------------------------------------------
(***************************************************************************)
(* Request bookkeeping.                                                    *)
(***************************************************************************)

Begin(w, step, t, i, target, row) ==
  /\ request[w] = Idle
  /\ request' = [request EXCEPT ![w] =
       [step |-> step, by |-> t, intent |-> i, target |-> target, row |-> row]]

At(w, step) == request[w].step = step

Continue(w, step) == request' = [request EXCEPT ![w].step = step]

Reply(w) == request' = [request EXCEPT ![w] = Idle]

Histories == <<approvers, approvals, sealed, encrypted>>
Documents == <<lifecycle, created_by>>
World     == <<posture, lapsed>>

-----------------------------------------------------------------------------
(***************************************************************************)
(* POST /api/intent.  The gates are evaluated, get_next_id reserves the    *)
(* identifier, then the document is inserted.  An ADMIN's intent goes on   *)
(* to the validation an approval needs.                                    *)
(***************************************************************************)

Reserved == {request[w].intent : w \in {v \in Workers : At(v, "insert")}}

BeginCreate(w, t, i) ==
  /\ posture[i]
  /\ lifecycle[i] = "absent"
  /\ i \notin Reserved
  /\ Begin(w, "insert", t, i, "approved", "draft")
  /\ UNCHANGED <<Documents, World, Histories>>

Insert(w) ==
  LET job == request[w] IN
  /\ At(w, "insert")
  /\ lifecycle'  = [lifecycle EXCEPT ![job.intent] = "draft"]
  /\ created_by' = [created_by EXCEPT ![job.intent] = job.by.user]
  /\ IF IsAdmin(job.by) THEN Continue(w, "validate") ELSE Reply(w)
  /\ UNCHANGED <<World, Histories>>

-----------------------------------------------------------------------------
(***************************************************************************)
(* POST /api/intent/{id}/transition: read the document, check the caller,  *)
(* validate an approval, then check the copy read against the table and    *)
(* overwrite lifecycle_state, whatever the document holds by then.         *)
(***************************************************************************)

\* Fault: no 404 for an identifier without a document.
BeginTransition_Absent(w, t, i, target) ==
  /\ MayRequest(t, i, target)
  /\ target \in DirectlyTransitionable
  /\ Begin(w, IF target = "approved" THEN "validate" ELSE "transition",
           t, i, target, lifecycle[i])
  /\ UNCHANGED <<Documents, World, Histories>>

BeginTransition(w, t, i, target) ==
  /\ lifecycle[i] # "absent"
  /\ MayRequest(t, i, target)
  /\ target \in DirectlyTransitionable
  /\ Begin(w, IF target = "approved" THEN "validate" ELSE "transition",
           t, i, target, lifecycle[i])
  /\ UNCHANGED <<Documents, World, Histories>>

Validate(w) ==
  LET job == request[w] IN
  /\ At(w, "validate")
  /\ IF ApprovalEligible(job.intent, job.row)
       THEN Continue(w, "transition")
       ELSE Reply(w)
  /\ UNCHANGED <<Documents, World, Histories>>

\* IntentRepository.transition, the write shared by all handlers.
WriteLifecycle(w) ==
  LET job == request[w] IN
  /\ At(w, "transition")
  /\ ValidTransition(job.row, job.target)
  /\ lifecycle' = [lifecycle EXCEPT ![job.intent] = job.target]
  /\ IF job.target = "approved"
       THEN /\ approvers' = [approvers EXCEPT ![job.intent] = @ \cup {job.by}]
            /\ approvals' = [approvals EXCEPT ![job.intent] = @ + 1]
       ELSE UNCHANGED <<approvers, approvals>>
  /\ IF job.target = "used" THEN Continue(w, "save") ELSE Reply(w)
  /\ UNCHANGED <<created_by, World, sealed, encrypted>>

RefuseTransition(w) ==
  /\ At(w, "transition")
  /\ ~ValidTransition(request[w].row, request[w].target)
  /\ Reply(w)
  /\ UNCHANGED <<Documents, World, Histories>>

-----------------------------------------------------------------------------
(***************************************************************************)
(* POST /api/encrypt: the gates, the document and its state, authorization *)
(* and AES-GCM, then the document is marked used (WriteLifecycle) and the  *)
(* encryption record is stored.                                            *)
(***************************************************************************)

BeginEncrypt(w, t, i) ==
  /\ posture[i]
  /\ lifecycle[i] # "absent"
  /\ OwnerOrAdmin(t, i)
  /\ lifecycle[i] \in EncryptEligible
  /\ Begin(w, "authorize", t, i, "used", lifecycle[i])
  /\ UNCHANGED <<Documents, World, Histories>>

\* authorize() and encrypt_for_intent(); a refusal or an error leaves the
\* intent approved.
Authorize(w) ==
  LET job == request[w] IN
  /\ At(w, "authorize")
  /\ \/ /\ posture[job.intent] /\ ~lapsed[job.intent]
        /\ job.row \in CryptoEligible
        /\ sealed' = [sealed EXCEPT ![job.intent] = TRUE]
        /\ Continue(w, "transition")
     \/ /\ ~posture[job.intent] \/ lapsed[job.intent]
        /\ Reply(w)
        /\ UNCHANGED sealed
  /\ UNCHANGED <<Documents, World, approvers, approvals, encrypted>>

\* Fault: the record is stored under no intent.
SaveRecord_Unlinked(w) ==
  /\ At(w, "save")
  /\ Reply(w)
  /\ UNCHANGED <<Documents, World, Histories>>

\* EncryptionRecordRepository.save.
SaveRecord(w) ==
  /\ At(w, "save")
  /\ encrypted' = [encrypted EXCEPT ![request[w].intent] = @ + 1]
  /\ Reply(w)
  /\ UNCHANGED <<Documents, World, approvers, approvals, sealed>>

-----------------------------------------------------------------------------
\* An exception in a database call or in encryption, or the process ending:
\* the handler is gone, what it wrote stays.
Abort(w) ==
  /\ Failures
  /\ request[w] # Idle
  /\ Reply(w)
  /\ UNCHANGED <<Documents, World, Histories>>

\* Other components change what the gates answer; time passes valid_until.
PostureChanges(i) ==
  /\ posture' = [posture EXCEPT ![i] = ~@]
  /\ UNCHANGED <<Documents, lapsed, request, Histories>>

WindowCloses(i) ==
  /\ ~lapsed[i]
  /\ lapsed' = [lapsed EXCEPT ![i] = TRUE]
  /\ UNCHANGED <<Documents, posture, request, Histories>>

HandlerStep(w) ==
  \/ Insert(w) \/ Validate(w) \/ WriteLifecycle(w) \/ RefuseTransition(w)
  \/ Authorize(w) \/ SaveRecord(w)

Arrival(w) ==
  \E t \in Tokens, i \in Intents :
    \/ BeginCreate(w, t, i)
    \/ BeginEncrypt(w, t, i)
    \/ \E target \in LifecycleStates : BeginTransition(w, t, i, target)

Next ==
  \/ \E w \in Workers : Arrival(w) \/ HandlerStep(w) \/ Abort(w)
  \/ \E i \in Intents : PostureChanges(i) \/ WindowCloses(i)

Spec == Init /\ [][Next]_vars

\* A thread that has a request keeps running it; no request need ever come.
FairSpec == Spec /\ \A w \in Workers : WF_vars(HandlerStep(w))

-----------------------------------------------------------------------------
(***************************************************************************)
(* Properties of every interleaving.                                       *)
(***************************************************************************)

IndependentApproval(i) ==
  \E t \in approvers[i] :
    \/ t.role = "ADMIN"
    \/ t.role = "USER_LEVEL_2" /\ t.user # created_by[i]

\* Separation of duties reaches the cipher: nothing is ever encrypted under
\* an intent that no independent reviewer (or ADMIN) approved, whatever
\* stale copies the handlers of transition_intent, create_intent and encrypt
\* were working on.
SealedUnderReview == \A i \in Intents : sealed[i] => IndependentApproval(i)

\* An intent is marked used only when an encryption under it has succeeded:
\* no transition request, refused encryption or failed handler gets it there.
UsedOnlyBySealing == \A i \in Intents : lifecycle[i] = "used" => sealed[i]

\* Requests that overlap can each store a record for one approval, but never
\* more records than there are threads to overlap on.
ReuseBoundedByWorkers ==
  \A i \in Intents : encrypted[i] <= approvals[i] * Cardinality(Workers)

-----------------------------------------------------------------------------
(***************************************************************************)
(* Properties of requests that do not overlap (one worker).                *)
(***************************************************************************)

\* Encryption is one-shot per approval: an intent never has more encryption
\* records than approvals.
OneShot == \A i \in Intents : encrypted[i] <= approvals[i]

\* Every change of a stored lifecycle_state is one the table permits, judged
\* by the state the document held, not by the copy a handler read.
LegalLifecycle ==
  [][\A i \in Intents :
       lifecycle'[i] # lifecycle[i] =>
         \/ lifecycle[i] = "absent" /\ lifecycle'[i] = "draft"
         \/ /\ lifecycle[i] # "absent"
            /\ lifecycle'[i] \in AllowedTransitions[lifecycle[i]]]_lifecycle

\* The promise these handlers implement.
Promise == INSTANCE OneShotIntent WITH state <- lifecycle, delivered <- encrypted
PromiseKept == Promise!Spec

-----------------------------------------------------------------------------
(***************************************************************************)
(* Properties about failures.                                              *)
(***************************************************************************)

\* When no handler fails, marking an intent used is always followed by its
\* encryption record.
UsedEventuallyBacked ==
  \A i \in Intents : (lifecycle[i] = "used") ~> (encrypted[i] > 0)
=============================================================================
