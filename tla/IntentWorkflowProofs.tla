------------------------ MODULE IntentWorkflowProofs ------------------------
(***************************************************************************)
(* Theorems about IntentWorkflow, for every set of workers, intents and    *)
(* tokens.                                                                 *)
(***************************************************************************)
EXTENDS IntentWorkflow, FiniteSetTheorems, TLAPS

\* The state of every handler and document keeps its type.
THEOREM TypeCorrect == Spec => []TypeOK
<1> USE TokensAssumption DEF LifecycleStates
<1>1. Init => TypeOK
  BY DEF Init, TypeOK, Users, Idle
<1>2. TypeOK /\ [Next]_vars => TypeOK'
  <2> SUFFICES ASSUME TypeOK, [Next]_vars PROVE TypeOK'
    OBVIOUS
  <2> USE DEF TypeOK, Documents, World, Histories, Jobs
  <2>1. ASSUME NEW w \in Workers, NEW t \in Tokens, NEW i \in Intents,
               BeginCreate(w, t, i)
        PROVE  TypeOK'
    BY <2>1 DEF BeginCreate, Begin
  <2>2. ASSUME NEW w \in Workers, NEW t \in Tokens, NEW i \in Intents,
               BeginEncrypt(w, t, i)
        PROVE  TypeOK'
    BY <2>2 DEF BeginEncrypt, Begin, EncryptEligible
  <2>3. ASSUME NEW w \in Workers, NEW t \in Tokens, NEW i \in Intents,
               NEW target \in LifecycleStates, BeginTransition(w, t, i, target)
        PROVE  TypeOK'
    BY <2>3 DEF BeginTransition, Begin
  <2>4. ASSUME NEW w \in Workers, Insert(w)
        PROVE  TypeOK'
    <3>1. request[w] \in Jobs
      BY <2>4 DEF Insert, At, Idle
    <3>2. request[w].by.user \in Users
      BY <3>1 DEF Users
    <3>3. request' \in [Workers -> {Idle} \cup Jobs]
      BY <2>4, <3>1 DEF Insert, Continue, Reply
    <3> QED
      BY <2>4, <3>1, <3>2, <3>3 DEF Insert
  <2>5. ASSUME NEW w \in Workers, Validate(w)
        PROVE  TypeOK'
    BY <2>5 DEF Validate, At, Idle, Continue, Reply
  <2>6. ASSUME NEW w \in Workers, WriteLifecycle(w)
        PROVE  TypeOK'
    <3>1. request[w] \in Jobs
      BY <2>6 DEF WriteLifecycle, At, Idle
    <3>2. request' \in [Workers -> {Idle} \cup Jobs]
      BY <2>6, <3>1 DEF WriteLifecycle, Continue, Reply
    <3>3. approvers' \in [Intents -> SUBSET Tokens] /\ approvals' \in [Intents -> Nat]
      BY <2>6, <3>1 DEF WriteLifecycle
    <3> QED
      BY <2>6, <3>1, <3>2, <3>3 DEF WriteLifecycle
  <2>7. ASSUME NEW w \in Workers, RefuseTransition(w)
        PROVE  TypeOK'
    BY <2>7 DEF RefuseTransition, Reply
  <2>8. ASSUME NEW w \in Workers, Authorize(w)
        PROVE  TypeOK'
    <3>1. request[w] \in Jobs
      BY <2>8 DEF Authorize, At, Idle
    <3>2. request' \in [Workers -> {Idle} \cup Jobs]
      BY <2>8, <3>1 DEF Authorize, Continue, Reply
    <3> QED
      BY <2>8, <3>1, <3>2 DEF Authorize
  <2>9. ASSUME NEW w \in Workers, SaveRecord(w)
        PROVE  TypeOK'
    BY <2>9 DEF SaveRecord, Reply, At, Idle
  <2>10. ASSUME NEW w \in Workers, Abort(w)
         PROVE  TypeOK'
    BY <2>10 DEF Abort, Reply
  <2>11. ASSUME NEW i \in Intents, PostureChanges(i) \/ WindowCloses(i)
         PROVE  TypeOK'
    BY <2>11 DEF PostureChanges, WindowCloses
  <2>12. ASSUME UNCHANGED vars
         PROVE  TypeOK'
    BY <2>12 DEF vars
  <2> QED
    BY <2>1, <2>2, <2>3, <2>4, <2>5, <2>6, <2>7, <2>8, <2>9, <2>10, <2>11, <2>12
    DEF Next, Arrival, HandlerStep
<1> QED
  BY <1>1, <1>2, PTL DEF Spec

-----------------------------------------------------------------------------
(***************************************************************************)
(* Separation of duties.  A handler works on a copy that may be stale, so  *)
(* the stored state of an intent says nothing certain about its past; the  *)
(* invariant therefore follows the copies: whatever a handler carries      *)
(* beyond "draft" was read from a document somebody entitled had approved. *)
(***************************************************************************)

Busy(w, i) == request[w] # Idle /\ request[w].intent = i

\* An intent being inserted is untouched, and no other handler has it.
InsertFresh ==
  \A w \in Workers : At(w, "insert") =>
    /\ lifecycle[request[w].intent] = "absent"
    /\ \A v \in Workers : Busy(v, request[w].intent) => v = w

\* Nothing has happened to an intent that is not stored yet.
AbsentQuiet ==
  \A i \in Intents : lifecycle[i] = "absent" =>
    /\ approvers[i] = {}
    /\ \A w \in Workers : Busy(w, i) => At(w, "insert")

\* A document beyond the draft has been approved by somebody entitled to.
DocumentReviewed ==
  \A i \in Intents :
    lifecycle[i] \notin {"absent", "draft", "rejected"} => IndependentApproval(i)

\* So has the document behind every copy beyond the draft.
CopyReviewed ==
  \A w \in Workers :
    /\ At(w, "insert") => request[w].row = "draft"
    /\ (At(w, "validate") \/ At(w, "transition")) =>
         \/ request[w].row \in {"draft", "rejected"}
         \/ IndependentApproval(request[w].intent)
    /\ (At(w, "authorize") \/ At(w, "save")) =>
         IndependentApproval(request[w].intent)

\* Whoever is about to approve may approve.
ApproverEntitled ==
  \A w \in Workers :
    /\ (At(w, "insert") \/ At(w, "validate")) => request[w].target = "approved"
    /\ At(w, "authorize") => request[w].target = "used"
    /\ (At(w, "validate") \/ At(w, "transition")) /\ request[w].target = "approved"
         => MayApprove(request[w].by, request[w].intent)

ReviewInv ==
  /\ TypeOK
  /\ InsertFresh
  /\ AbsentQuiet
  /\ DocumentReviewed
  /\ CopyReviewed
  /\ ApproverEntitled
  /\ SealedUnderReview

\* A handler in progress holds a job.
LEMMA BusyJob ==
  ASSUME TypeOK, NEW w \in Workers, request[w].step # "idle"
  PROVE  request[w] \in Jobs
BY DEF TypeOK, Idle

\* Only an approval and a rejection leave the draft, and nothing leaves a
\* rejected intent.
LEMMA LeavingDraft ==
  ASSUME NEW row \in {"draft", "rejected"}, NEW target, ValidTransition(row, target)
  PROVE  target \in {"approved", "rejected"}
<1>1. AllowedTransitions["draft"] = {"approved", "rejected"}
  BY DEF AllowedTransitions, LifecycleStates
<1>2. AllowedTransitions["rejected"] = {}
  BY DEF AllowedTransitions, LifecycleStates
<1> QED
  BY <1>1, <1>2 DEF ValidTransition

LEMMA ReviewStep == ReviewInv /\ TypeOK' /\ [Next]_vars => ReviewInv'
<1> SUFFICES ASSUME ReviewInv, TypeOK', [Next]_vars PROVE ReviewInv'
  OBVIOUS
<1> USE DEF ReviewInv, TypeOK, Documents, World, Histories, Jobs, Idle, At, Busy,
            IndependentApproval
<1> DEFINE Goal == /\ InsertFresh' /\ AbsentQuiet' /\ DocumentReviewed'
                   /\ CopyReviewed' /\ ApproverEntitled' /\ SealedUnderReview'
<1>1. ASSUME NEW w \in Workers, NEW t \in Tokens, NEW i \in Intents,
             BeginCreate(w, t, i)
      PROVE  Goal
  <2>1. InsertFresh' BY <1>1 DEF BeginCreate, Begin, InsertFresh, AbsentQuiet, Reserved
  <2>2. AbsentQuiet' BY <1>1 DEF BeginCreate, Begin, AbsentQuiet
  <2>3. DocumentReviewed' /\ SealedUnderReview'
    BY <1>1 DEF BeginCreate, DocumentReviewed, SealedUnderReview
  <2>4. CopyReviewed' BY <1>1 DEF BeginCreate, Begin, CopyReviewed
  <2>5. ApproverEntitled' BY <1>1 DEF BeginCreate, Begin, ApproverEntitled, MayApprove
  <2> QED BY <2>1, <2>2, <2>3, <2>4, <2>5
<1>2. ASSUME NEW w \in Workers, NEW t \in Tokens, NEW i \in Intents,
             BeginEncrypt(w, t, i)
      PROVE  Goal
  <2>1. InsertFresh' BY <1>2 DEF BeginEncrypt, Begin, InsertFresh
  <2>2. AbsentQuiet' BY <1>2 DEF BeginEncrypt, Begin, AbsentQuiet
  <2>3. DocumentReviewed' /\ SealedUnderReview'
    BY <1>2 DEF BeginEncrypt, DocumentReviewed, SealedUnderReview
  <2>4. CopyReviewed'
    BY <1>2 DEF BeginEncrypt, Begin, CopyReviewed, DocumentReviewed, EncryptEligible
  <2>5. ApproverEntitled' BY <1>2 DEF BeginEncrypt, Begin, ApproverEntitled, MayApprove
  <2> QED BY <2>1, <2>2, <2>3, <2>4, <2>5
<1>3. ASSUME NEW w \in Workers, NEW t \in Tokens, NEW i \in Intents,
             NEW target \in LifecycleStates, BeginTransition(w, t, i, target)
      PROVE  Goal
  <2>1. InsertFresh' BY <1>3 DEF BeginTransition, Begin, InsertFresh
  <2>2. AbsentQuiet' BY <1>3 DEF BeginTransition, Begin, AbsentQuiet
  <2>3. DocumentReviewed' /\ SealedUnderReview'
    BY <1>3 DEF BeginTransition, DocumentReviewed, SealedUnderReview
  <2>4. CopyReviewed'
    BY <1>3 DEF BeginTransition, Begin, CopyReviewed, DocumentReviewed
  <2>5. ApproverEntitled'
    BY <1>3 DEF BeginTransition, Begin, ApproverEntitled, MayApprove, MayRequest
  <2> QED BY <2>1, <2>2, <2>3, <2>4, <2>5
<1>4. ASSUME NEW w \in Workers, Insert(w)
      PROVE  Goal
  <2>0. request[w] \in Jobs
    BY <1>4, BusyJob DEF Insert
  <2>1. InsertFresh' BY <1>4, <2>0 DEF Insert, Continue, Reply, InsertFresh
  <2>2. AbsentQuiet' BY <1>4, <2>0 DEF Insert, Continue, Reply, AbsentQuiet
  <2>3. DocumentReviewed' /\ SealedUnderReview'
    BY <1>4, <2>0 DEF Insert, DocumentReviewed, SealedUnderReview, InsertFresh, AbsentQuiet
  <2>4. CopyReviewed'
    BY <1>4, <2>0 DEF Insert, Continue, Reply, CopyReviewed, InsertFresh
  <2>5. ApproverEntitled'
    BY <1>4, <2>0 DEF Insert, Continue, Reply, ApproverEntitled, MayApprove,
                      InsertFresh, IsAdmin
  <2> QED BY <2>1, <2>2, <2>3, <2>4, <2>5
<1>5. ASSUME NEW w \in Workers, Validate(w)
      PROVE  Goal
  <2>0. request[w] \in Jobs
    BY <1>5, BusyJob DEF Validate
  <2>1. InsertFresh' BY <1>5, <2>0 DEF Validate, Continue, Reply, InsertFresh
  <2>2. AbsentQuiet' BY <1>5, <2>0 DEF Validate, Continue, Reply, AbsentQuiet
  <2>3. DocumentReviewed' /\ SealedUnderReview'
    BY <1>5 DEF Validate, DocumentReviewed, SealedUnderReview
  <2>4. CopyReviewed' BY <1>5, <2>0 DEF Validate, Continue, Reply, CopyReviewed
  <2>5. ApproverEntitled'
    BY <1>5, <2>0 DEF Validate, Continue, Reply, ApproverEntitled, MayApprove
  <2> QED BY <2>1, <2>2, <2>3, <2>4, <2>5
<1>6. ASSUME NEW w \in Workers, WriteLifecycle(w)
      PROVE  Goal
  <2>0. request[w] \in Jobs
    BY <1>6, BusyJob DEF WriteLifecycle
  <2>1. InsertFresh'
    BY <1>6, <2>0 DEF WriteLifecycle, Continue, Reply, InsertFresh
  <2>2. AbsentQuiet'
    BY <1>6, <2>0 DEF WriteLifecycle, Continue, Reply, AbsentQuiet, LifecycleStates
  <2>3. \A i \in Intents : IndependentApproval(i) => IndependentApproval(i)'
    BY <1>6, <2>0 DEF WriteLifecycle
  <2>. PICK i \in Intents : i = request[w].intent
    BY <2>0
  <2>4. request[w].target # "rejected" => IndependentApproval(i)'
    <3>1. CASE request[w].target = "approved"
      <4>1. request[w].by \in approvers'[i]
        BY <1>6, <2>0, <3>1 DEF WriteLifecycle
      <4>2. MayApprove(request[w].by, i) /\ created_by' = created_by
        BY <1>6, <3>1 DEF WriteLifecycle, ApproverEntitled
      <4> QED BY <2>0, <4>1, <4>2 DEF MayApprove, IsAdmin
    <3>2. CASE request[w].target \notin {"approved", "rejected"}
      <4>1. request[w].row \notin {"draft", "rejected"}
        BY <1>6, <3>2, LeavingDraft DEF WriteLifecycle
      <4>2. IndependentApproval(i)
        BY <1>6, <4>1 DEF WriteLifecycle, CopyReviewed
      <4> QED BY <2>3, <4>2
    <3> QED BY <3>1, <3>2
  <2>5. DocumentReviewed' /\ SealedUnderReview'
    BY <1>6, <2>0, <2>3, <2>4 DEF WriteLifecycle, DocumentReviewed, SealedUnderReview
  <2>6. CopyReviewed'
    BY <1>6, <2>0, <2>3, <2>4 DEF WriteLifecycle, Continue, Reply, CopyReviewed
  <2>7. ApproverEntitled'
    BY <1>6, <2>0 DEF WriteLifecycle, Continue, Reply, ApproverEntitled, MayApprove
  <2> QED BY <2>1, <2>2, <2>5, <2>6, <2>7
<1>7. ASSUME NEW w \in Workers, RefuseTransition(w) \/ Abort(w)
      PROVE  Goal
  BY <1>7 DEF RefuseTransition, Abort, Reply, InsertFresh, AbsentQuiet, DocumentReviewed,
              SealedUnderReview, CopyReviewed, ApproverEntitled, MayApprove
<1>8. ASSUME NEW w \in Workers, Authorize(w)
      PROVE  Goal
  <2>0. request[w] \in Jobs
    BY <1>8, BusyJob DEF Authorize
  <2>1. InsertFresh' BY <1>8, <2>0 DEF Authorize, Continue, Reply, InsertFresh
  <2>2. AbsentQuiet' BY <1>8, <2>0 DEF Authorize, Continue, Reply, AbsentQuiet
  <2>3. DocumentReviewed' BY <1>8 DEF Authorize, DocumentReviewed
  <2>4. SealedUnderReview' BY <1>8, <2>0 DEF Authorize, SealedUnderReview, CopyReviewed
  <2>5. CopyReviewed' BY <1>8, <2>0 DEF Authorize, Continue, Reply, CopyReviewed
  <2>6. ApproverEntitled'
    BY <1>8, <2>0 DEF Authorize, Continue, Reply, ApproverEntitled, MayApprove
  <2> QED BY <2>1, <2>2, <2>3, <2>4, <2>5, <2>6
<1>9. ASSUME NEW w \in Workers, SaveRecord(w)
      PROVE  Goal
  BY <1>9 DEF SaveRecord, Reply, InsertFresh, AbsentQuiet, DocumentReviewed,
              SealedUnderReview, CopyReviewed, ApproverEntitled, MayApprove
<1>10. ASSUME \/ \E i \in Intents : PostureChanges(i) \/ WindowCloses(i)
              \/ UNCHANGED vars
       PROVE  Goal
  BY <1>10 DEF PostureChanges, WindowCloses, vars, InsertFresh, AbsentQuiet,
     DocumentReviewed, SealedUnderReview, CopyReviewed, ApproverEntitled, MayApprove
<1> QED
  BY <1>1, <1>2, <1>3, <1>4, <1>5, <1>6, <1>7, <1>8, <1>9, <1>10
  DEF Next, Arrival, HandlerStep

LEMMA ReviewInvariant == Spec => []ReviewInv
<1>1. Init => ReviewInv
  BY TypeCorrect DEF Init, ReviewInv, TypeOK, InsertFresh, AbsentQuiet, DocumentReviewed,
     CopyReviewed, ApproverEntitled, SealedUnderReview, At, Busy, Idle, Users
<1> QED
  BY <1>1, TypeCorrect, ReviewStep, PTL DEF Spec

\* Nothing is encrypted under an intent that no independent reviewer
\* approved, however requests overlap and wherever they fail.
THEOREM SeparationOfDuties == Spec => []SealedUnderReview
<1>1. ReviewInv => SealedUnderReview
  BY DEF ReviewInv
<1> QED
  BY <1>1, ReviewInvariant, PTL

-----------------------------------------------------------------------------
(***************************************************************************)
(* What an encryption leaves behind, for any number of overlapping         *)
(* requests.                                                               *)
(***************************************************************************)

\* The handler is past the gates of POST /api/encrypt for intent i.
Encrypting(w, i) ==
  /\ \/ At(w, "authorize") \/ At(w, "save")
     \/ At(w, "transition") /\ request[w].target = "used"
  /\ request[w].intent = i

Saving(w, i) == At(w, "save") /\ request[w].intent = i

\* "used" is written by a handler whose encryption has succeeded, and by nobody else.
SealedFirst ==
  /\ UsedOnlyBySealing
  /\ \A w \in Workers :
       At(w, "transition") /\ request[w].target = "used" => sealed[request[w].intent]

SealingInv == ReviewInv /\ SealedFirst

LEMMA SealingStep == SealingInv /\ [Next]_vars => SealedFirst'
<1> SUFFICES ASSUME SealingInv, [Next]_vars PROVE SealedFirst'
  OBVIOUS
<1>1. /\ TypeOK /\ UsedOnlyBySealing
      /\ \A w \in Workers :
           /\ At(w, "transition") /\ request[w].target = "used" => sealed[request[w].intent]
           /\ At(w, "validate") => request[w].target = "approved"
  BY DEF SealingInv, ReviewInv, SealedFirst, ApproverEntitled
<1> USE <1>1 DEF TypeOK, Documents, World, Histories, Jobs, Idle, At, SealedFirst,
                 UsedOnlyBySealing
<1>2. ASSUME NEW w \in Workers, NEW t \in Tokens, NEW i \in Intents,
             BeginCreate(w, t, i) \/ BeginEncrypt(w, t, i)
      PROVE  SealedFirst'
  BY <1>2 DEF BeginCreate, BeginEncrypt, Begin
<1>3. ASSUME NEW w \in Workers, NEW t \in Tokens, NEW i \in Intents,
             NEW target \in LifecycleStates, BeginTransition(w, t, i, target)
      PROVE  SealedFirst'
  BY <1>3 DEF BeginTransition, Begin, DirectlyTransitionable
<1>4. ASSUME NEW w \in Workers, Insert(w) PROVE SealedFirst'
  <2>1. request[w] \in Jobs
    BY <1>4, BusyJob DEF Insert
  <2> QED
    BY <1>4, <2>1 DEF Insert, Continue, Reply
<1>5. ASSUME NEW w \in Workers, Validate(w) PROVE SealedFirst'
  <2>1. request[w] \in Jobs
    BY <1>5, BusyJob DEF Validate
  <2> QED
    BY <1>5, <2>1 DEF Validate, Continue, Reply
<1>6. ASSUME NEW w \in Workers, WriteLifecycle(w) PROVE SealedFirst'
  <2>1. request[w] \in Jobs
    BY <1>6, BusyJob DEF WriteLifecycle
  <2> QED
    BY <1>6, <2>1 DEF WriteLifecycle, Continue, Reply
<1>7. ASSUME NEW w \in Workers, Authorize(w) PROVE SealedFirst'
  <2>1. request[w] \in Jobs
    BY <1>7, BusyJob DEF Authorize
  <2> QED
    BY <1>7, <2>1 DEF Authorize, Continue, Reply
<1>8. ASSUME NEW w \in Workers, RefuseTransition(w) \/ SaveRecord(w) \/ Abort(w)
      PROVE  SealedFirst'
  BY <1>8 DEF RefuseTransition, SaveRecord, Abort, Reply
<1>9. ASSUME \/ \E i \in Intents : PostureChanges(i) \/ WindowCloses(i)
             \/ UNCHANGED vars
      PROVE  SealedFirst'
  BY <1>9 DEF PostureChanges, WindowCloses, vars
<1> QED
  BY <1>2, <1>3, <1>4, <1>5, <1>6, <1>7, <1>8, <1>9 DEF Next, Arrival, HandlerStep

LEMMA SealingInvariant == Spec => []SealingInv
<1>1. Init => SealedFirst
  BY DEF Init, SealedFirst, UsedOnlyBySealing, At, Idle
<1>2. SealingInv /\ [Next]_vars => SealedFirst'
  BY SealingStep
<1>3. ReviewInv /\ SealedFirst <=> SealingInv
  BY DEF SealingInv
<1> QED
  BY <1>1, <1>2, <1>3, ReviewInvariant, PTL DEF Spec

\* The life cycle reaches "used" only through encrypt(): the transition endpoint refuses
\* that target, and the handler writes it after AES-GCM has succeeded.
THEOREM UsedAfterSealing == Spec => []UsedOnlyBySealing
<1>1. SealingInv => UsedOnlyBySealing
  BY DEF SealingInv, SealedFirst
<1> QED
  BY <1>1, SealingInvariant, PTL

-----------------------------------------------------------------------------
(***************************************************************************)
(* How often an approval is used.  While an intent is approved, what was   *)
(* stored and what is about to be stored for it was paid for by earlier    *)
(* approvals; when it is not, the requests under way are the only ones     *)
(* that may still store a record for the last one.                         *)
(***************************************************************************)

EncryptingOf(i) == {w \in Workers : Encrypting(w, i)}
SavingOf(i)     == {w \in Workers : Saving(w, i)}
Threads == Cardinality(Workers)

BudgetOf(i) ==
  /\ encrypted[i] + Cardinality(EncryptingOf(i)) <= approvals[i] * Threads
  /\ lifecycle[i] = "approved" =>
       encrypted[i] + Cardinality(SavingOf(i)) + Threads <= approvals[i] * Threads

Budget == \A i \in Intents : BudgetOf(i)

BudgetInv == ReviewInv /\ Budget

\* Sets of workers have no more than all of them.
LEMMA SomeThreads ==
  ASSUME IsFiniteSet(Workers), NEW V \in SUBSET Workers
  PROVE  IsFiniteSet(V) /\ Cardinality(V) \in 0..Threads
<1>1. Threads \in Nat
  BY FS_CardinalityType DEF Threads
<1>2. IsFiniteSet(V) /\ Cardinality(V) <= Threads
  BY FS_Subset DEF Threads
<1>3. Cardinality(V) \in Nat
  BY <1>2, FS_CardinalityType
<1> QED
  BY <1>1, <1>2, <1>3

\* A step that begins nothing: no handler comes to encrypt, or to save.
LEMMA NothingBegun ==
  ASSUME IsFiniteSet(Workers), TypeOK, Budget, NEW i \in Intents,
         EncryptingOf(i)' \subseteq EncryptingOf(i), SavingOf(i)' \subseteq SavingOf(i),
         encrypted'[i] = encrypted[i], approvals'[i] = approvals[i],
         lifecycle'[i] = "approved" => lifecycle[i] = "approved"
  PROVE  BudgetOf(i)'
<1> DEFINE E == EncryptingOf(i)  S == SavingOf(i)  F == EncryptingOf(i)'  T == SavingOf(i)'
<1>1. E \in SUBSET Workers /\ S \in SUBSET Workers
  BY DEF EncryptingOf, SavingOf
<1>2. IsFiniteSet(E) /\ IsFiniteSet(S) /\ Cardinality(E) \in Nat /\ Cardinality(S) \in Nat
      /\ Threads \in Nat
  BY <1>1, SomeThreads, FS_CardinalityType DEF Threads
<1>3. F \in SUBSET E /\ T \in SUBSET S
  OBVIOUS
<1>4. /\ encrypted[i] + Cardinality(E) <= approvals[i] * Threads
      /\ lifecycle[i] = "approved" =>
           encrypted[i] + Cardinality(S) + Threads <= approvals[i] * Threads
  BY DEF Budget, BudgetOf
<1> HIDE DEF E, S, F, T
<1>5. Cardinality(F) <= Cardinality(E) /\ Cardinality(T) <= Cardinality(S)
      /\ IsFiniteSet(F) /\ IsFiniteSet(T)
  BY <1>2, <1>3, FS_Subset
<1>6. Cardinality(F) \in Nat /\ Cardinality(T) \in Nat
  BY <1>5, FS_CardinalityType
<1>7. encrypted[i] \in Nat /\ approvals[i] \in Nat
  BY DEF TypeOK
<1>8. approvals[i] * Threads \in Nat
  BY <1>2, <1>7
<1> DEFINE n == approvals[i] * Threads
<1>9. n \in Nat /\ approvals'[i] * Threads = n
  BY <1>8
<1>10. encrypted[i] + Cardinality(E) <= n
       /\ (lifecycle[i] = "approved" => encrypted[i] + Cardinality(S) + Threads <= n)
  BY <1>4
<1> HIDE DEF n
<1>11. encrypted'[i] + Cardinality(F) <= n
       /\ (lifecycle'[i] = "approved" => encrypted'[i] + Cardinality(T) + Threads <= n)
  BY <1>2, <1>5, <1>6, <1>7, <1>9, <1>10
<1>12. Threads' = Threads
  BY DEF Threads
<1> QED
  BY <1>9, <1>11, <1>12 DEF F, T, BudgetOf

\* The numbers of one intent.
LEMMA BudgetNumbers ==
  ASSUME IsFiniteSet(Workers), TypeOK, Budget, NEW i \in Intents
  PROVE  /\ encrypted[i] \in Nat /\ approvals[i] \in Nat /\ Threads \in Nat
         /\ approvals[i] * Threads \in Nat
         /\ (approvals[i] + 1) * Threads = approvals[i] * Threads + Threads
         /\ Cardinality(EncryptingOf(i)) \in 0..Threads
         /\ Cardinality(SavingOf(i)) \in 0..Threads
         /\ Cardinality(SavingOf(i)) <= Cardinality(EncryptingOf(i))
         /\ IsFiniteSet(EncryptingOf(i)) /\ IsFiniteSet(SavingOf(i))
<1>1. encrypted[i] \in Nat /\ approvals[i] \in Nat /\ Threads \in Nat
  BY FS_CardinalityType DEF TypeOK, Threads
<1>2. \A a, k \in Nat : a * k \in Nat /\ (a + 1) * k = a * k + k
  OBVIOUS
<1>3. EncryptingOf(i) \in SUBSET Workers /\ SavingOf(i) \in SUBSET EncryptingOf(i)
  BY DEF EncryptingOf, SavingOf, Encrypting, Saving
<1>4. IsFiniteSet(EncryptingOf(i)) /\ Cardinality(EncryptingOf(i)) \in 0..Threads
      /\ IsFiniteSet(SavingOf(i)) /\ Cardinality(SavingOf(i)) \in 0..Threads
  BY <1>3, SomeThreads
<1>5. Cardinality(SavingOf(i)) <= Cardinality(EncryptingOf(i))
  BY <1>3, <1>4, FS_Subset
<1> QED
  BY <1>1, <1>2, <1>4, <1>5

\* While an intent is approved, every thread may take up an encryption under it.
LEMMA ApprovedCovers ==
  ASSUME IsFiniteSet(Workers), TypeOK, Budget, NEW i \in Intents, lifecycle[i] = "approved",
         NEW V \in SUBSET Workers
  PROVE  encrypted[i] + Cardinality(V) <= approvals[i] * Threads
<1>1. encrypted[i] + Cardinality(SavingOf(i)) + Threads <= approvals[i] * Threads
  BY DEF Budget, BudgetOf
<1>2. Cardinality(V) \in 0..Threads
  BY SomeThreads
<1> QED
  BY <1>1, <1>2, BudgetNumbers

\* The write of a life-cycle state.
LEMMA WriteKeepsBudget ==
  ASSUME IsFiniteSet(Workers), ReviewInv, Budget, NEW w \in Workers, WriteLifecycle(w),
         NEW i \in Intents
  PROVE  BudgetOf(i)'
<1>0. TypeOK /\ request[w] \in Jobs /\ Threads' = Threads
  BY BusyJob DEF ReviewInv, WriteLifecycle, At, Threads
<1>1. /\ At(w, "transition") /\ encrypted' = encrypted
      /\ \A v \in Workers : v # w => request'[v] = request[v]
  BY <1>0 DEF WriteLifecycle, Continue, Reply, TypeOK
<1>2. CASE request[w].intent # i
  <2>1. EncryptingOf(i)' \subseteq EncryptingOf(i) /\ SavingOf(i)' \subseteq SavingOf(i)
    BY <1>0, <1>1, <1>2
    DEF WriteLifecycle, EncryptingOf, SavingOf, Encrypting, Saving, At, Continue, Reply, Idle,
        TypeOK, Jobs
  <2>2. lifecycle'[i] = lifecycle[i] /\ approvals'[i] = approvals[i]
    BY <1>0, <1>2 DEF WriteLifecycle, TypeOK, Jobs
  <2> QED
    BY <1>0, <1>1, <2>1, <2>2, NothingBegun
<1>3. CASE request[w].intent = i /\ request[w].target = "approved"
  <2>1. EncryptingOf(i)' = EncryptingOf(i) /\ SavingOf(i)' = SavingOf(i)
    BY <1>0, <1>1, <1>3
    DEF WriteLifecycle, EncryptingOf, SavingOf, Encrypting, Saving, At, Reply, Idle, TypeOK,
        Jobs
  <2>2. approvals'[i] = approvals[i] + 1
    BY <1>0, <1>3 DEF WriteLifecycle, TypeOK
  <2>3. encrypted[i] + Cardinality(EncryptingOf(i)) <= approvals[i] * Threads
    BY DEF Budget, BudgetOf
  <2>4. /\ encrypted[i] + Cardinality(EncryptingOf(i)) <= (approvals[i] + 1) * Threads
        /\ encrypted[i] + Cardinality(SavingOf(i)) + Threads <= (approvals[i] + 1) * Threads
    BY <1>0, <2>3, BudgetNumbers
  <2> QED
    BY <1>0, <1>1, <2>1, <2>2, <2>4 DEF BudgetOf
<1>4. CASE request[w].intent = i /\ request[w].target # "approved"
  <2>1. EncryptingOf(i)' \subseteq EncryptingOf(i)
    BY <1>0, <1>1, <1>4
    DEF WriteLifecycle, EncryptingOf, Encrypting, At, Continue, Reply, Idle, TypeOK, Jobs
  <2>2. lifecycle'[i] # "approved" /\ approvals'[i] = approvals[i]
    BY <1>0, <1>4 DEF WriteLifecycle, TypeOK
  <2>3. Cardinality(EncryptingOf(i)') <= Cardinality(EncryptingOf(i))
    BY <1>0, <2>1, BudgetNumbers, FS_Subset
  <2>4. EncryptingOf(i)' \in SUBSET Workers
    BY DEF EncryptingOf
  <2>5. Cardinality(EncryptingOf(i)') \in Nat
    BY <2>4, SomeThreads, FS_CardinalityType
  <2>6. encrypted[i] + Cardinality(EncryptingOf(i)) <= approvals[i] * Threads
    BY DEF Budget, BudgetOf
  <2>7. encrypted[i] + Cardinality(EncryptingOf(i)') <= approvals[i] * Threads
    BY <1>0, <2>3, <2>5, <2>6, BudgetNumbers
  <2> QED
    BY <1>0, <1>1, <2>2, <2>7 DEF BudgetOf
<1> QED
  BY <1>2, <1>3, <1>4

\* The record of an encryption takes the place of the handler that stores it.
LEMMA SaveKeepsBudget ==
  ASSUME IsFiniteSet(Workers), TypeOK, Budget, NEW w \in Workers, SaveRecord(w),
         NEW i \in Intents
  PROVE  BudgetOf(i)'
<1>0. request[w] \in Jobs /\ Threads' = Threads
  BY BusyJob DEF SaveRecord, At, Threads
<1>1. /\ At(w, "save") /\ lifecycle' = lifecycle /\ approvals' = approvals
      /\ request' = [request EXCEPT ![w] = Idle]
      /\ encrypted' = [encrypted EXCEPT ![request[w].intent] = @ + 1]
  BY DEF SaveRecord, Reply, Documents
<1>2. EncryptingOf(i)' = EncryptingOf(i) \ {w} /\ SavingOf(i)' = SavingOf(i) \ {w}
  BY <1>0, <1>1 DEF EncryptingOf, SavingOf, Encrypting, Saving, At, Idle, TypeOK, Jobs
<1>3. CASE request[w].intent # i
  <2>1. encrypted'[i] = encrypted[i]
    BY <1>0, <1>1, <1>3 DEF TypeOK, Jobs
  <2>2. EncryptingOf(i)' \subseteq EncryptingOf(i) /\ SavingOf(i)' \subseteq SavingOf(i)
    BY <1>2
  <2> QED
    BY <1>1, <2>1, <2>2, NothingBegun
<1>4. CASE request[w].intent = i
  <2>1. w \in EncryptingOf(i) /\ w \in SavingOf(i)
    BY <1>1, <1>4 DEF EncryptingOf, SavingOf, Encrypting, Saving
  <2>2. /\ Cardinality(EncryptingOf(i)') = Cardinality(EncryptingOf(i)) - 1
        /\ Cardinality(SavingOf(i)') = Cardinality(SavingOf(i)) - 1
    BY <1>2, <2>1, BudgetNumbers, FS_RemoveElement
  <2>3. encrypted'[i] = encrypted[i] + 1
    BY <1>1, <1>4 DEF TypeOK
  <2>4. BudgetOf(i)
    BY DEF Budget
  <2> QED
    BY <1>0, <1>1, <2>2, <2>3, <2>4, BudgetNumbers DEF BudgetOf
<1> QED
  BY <1>3, <1>4

LEMMA BudgetStep ==
  ASSUME IsFiniteSet(Workers)
  PROVE  BudgetInv /\ [Next]_vars => Budget'
<1> SUFFICES ASSUME BudgetInv, [Next]_vars, NEW i \in Intents PROVE BudgetOf(i)'
  BY DEF Budget
<1>0. ReviewInv /\ TypeOK /\ Budget /\ ApproverEntitled /\ Threads' = Threads
  BY DEF BudgetInv, ReviewInv, Threads
<1>1. ASSUME UNCHANGED <<approvals, encrypted>>,
             lifecycle'[i] = "approved" => lifecycle[i] = "approved",
             \A v \in Workers : /\ Encrypting(v, i)' => Encrypting(v, i)
                                /\ Saving(v, i)' => Saving(v, i)
      PROVE  BudgetOf(i)'
  <2>1. EncryptingOf(i)' \subseteq EncryptingOf(i) /\ SavingOf(i)' \subseteq SavingOf(i)
    BY <1>1 DEF EncryptingOf, SavingOf
  <2> QED
    BY <1>0, <1>1, <2>1, NothingBegun
<1>2. ASSUME NEW w \in Workers, NEW t \in Tokens, NEW j \in Intents, BeginEncrypt(w, t, j)
      PROVE  BudgetOf(i)'
  <2>1. /\ lifecycle[j] = "approved" /\ UNCHANGED <<lifecycle, approvals, encrypted>>
        /\ \A v \in Workers : Saving(v, i)' <=> Saving(v, i)
    BY <1>0, <1>2 DEF BeginEncrypt, Begin, EncryptEligible, Documents, Histories, Saving, At,
                      Idle, TypeOK
  <2>2. CASE i = j
    <3>1. SavingOf(i)' = SavingOf(i)
      BY <2>1 DEF SavingOf
    <3>2. EncryptingOf(i)' \in SUBSET Workers
      BY DEF EncryptingOf
    <3>3. encrypted[i] + Cardinality(EncryptingOf(i)') <= approvals[i] * Threads
      BY <1>0, <2>1, <2>2, <3>2, ApprovedCovers
    <3>4. BudgetOf(i)
      BY <1>0 DEF Budget
    <3> QED
      BY <1>0, <2>1, <3>1, <3>3, <3>4 DEF BudgetOf
  <2>3. CASE i # j
    <3>1. \A v \in Workers : Encrypting(v, i)' => Encrypting(v, i)
      BY <1>0, <1>2, <2>3 DEF BeginEncrypt, Begin, Encrypting, At, Idle, TypeOK
    <3> QED
      BY <1>1, <2>1, <3>1
  <2> QED
    BY <2>2, <2>3
<1>3. ASSUME NEW w \in Workers, NEW t \in Tokens, NEW j \in Intents,
             \/ BeginCreate(w, t, j)
             \/ \E target \in LifecycleStates : BeginTransition(w, t, j, target)
      PROVE  BudgetOf(i)'
  <2>1. \A v \in Workers : /\ Encrypting(v, i)' => Encrypting(v, i)
                           /\ Saving(v, i)' => Saving(v, i)
    BY <1>0, <1>3 DEF BeginCreate, BeginTransition, Begin, DirectlyTransitionable, Encrypting,
                      Saving, At, Idle, TypeOK
  <2> QED
    BY <1>1, <1>3, <2>1 DEF BeginCreate, BeginTransition, Documents, Histories
<1>4. ASSUME NEW w \in Workers, Insert(w) PROVE BudgetOf(i)'
  <2>0. request[w] \in Jobs
    BY <1>0, <1>4, BusyJob DEF Insert, At
  <2>1. \A v \in Workers : /\ Encrypting(v, i)' => Encrypting(v, i)
                           /\ Saving(v, i)' => Saving(v, i)
    BY <1>0, <1>4, <2>0 DEF Insert, Continue, Reply, Encrypting, Saving, At, Idle, TypeOK, Jobs
  <2>2. lifecycle'[i] = "approved" => lifecycle[i] = "approved"
    BY <1>0, <1>4, <2>0 DEF Insert, TypeOK, Jobs
  <2> QED
    BY <1>1, <1>4, <2>1, <2>2 DEF Insert, Histories
<1>5. ASSUME NEW w \in Workers, Validate(w) PROVE BudgetOf(i)'
  <2>0. request[w] \in Jobs /\ request[w].target = "approved"
    BY <1>0, <1>5, BusyJob DEF Validate, At, ApproverEntitled
  <2>1. \A v \in Workers : /\ Encrypting(v, i)' => Encrypting(v, i)
                           /\ Saving(v, i)' => Saving(v, i)
    BY <1>0, <1>5, <2>0 DEF Validate, Continue, Reply, Encrypting, Saving, At, Idle, TypeOK,
                            Jobs
  <2> QED
    BY <1>1, <1>5, <2>1 DEF Validate, Documents, Histories
<1>6. ASSUME NEW w \in Workers, Authorize(w) PROVE BudgetOf(i)'
  <2>0. request[w] \in Jobs /\ request[w].target = "used"
    BY <1>0, <1>6, BusyJob DEF Authorize, At, ApproverEntitled
  <2>1. \A v \in Workers : /\ Encrypting(v, i)' => Encrypting(v, i)
                           /\ Saving(v, i)' => Saving(v, i)
    BY <1>0, <1>6, <2>0 DEF Authorize, Continue, Reply, Encrypting, Saving, At, Idle, TypeOK,
                            Jobs
  <2> QED
    BY <1>1, <1>6, <2>1 DEF Authorize, Documents
<1>7. ASSUME NEW w \in Workers, RefuseTransition(w) \/ Abort(w) PROVE BudgetOf(i)'
  <2>1. \A v \in Workers : /\ Encrypting(v, i)' => Encrypting(v, i)
                           /\ Saving(v, i)' => Saving(v, i)
    BY <1>0, <1>7 DEF RefuseTransition, Abort, Reply, Encrypting, Saving, At, Idle, TypeOK
  <2> QED
    BY <1>1, <1>7, <2>1 DEF RefuseTransition, Abort, Documents, Histories
<1>8. ASSUME NEW w \in Workers, WriteLifecycle(w) PROVE BudgetOf(i)'
  BY <1>0, <1>8, WriteKeepsBudget
<1>9. ASSUME NEW w \in Workers, SaveRecord(w) PROVE BudgetOf(i)'
  BY <1>0, <1>9, SaveKeepsBudget
<1>10. ASSUME \/ \E j \in Intents : PostureChanges(j) \/ WindowCloses(j)
              \/ UNCHANGED vars
       PROVE  BudgetOf(i)'
  <2>1. UNCHANGED <<lifecycle, request, approvals, encrypted>>
    BY <1>10 DEF PostureChanges, WindowCloses, vars, Documents, Histories
  <2> QED
    BY <1>1, <2>1 DEF Encrypting, Saving, At
<1> QED
  BY <1>2, <1>3, <1>4, <1>5, <1>6, <1>7, <1>8, <1>9, <1>10 DEF Next, Arrival, HandlerStep

LEMMA BudgetInvariant ==
  ASSUME IsFiniteSet(Workers)
  PROVE  Spec => []BudgetInv
<1>1. Init => Budget
  <2> SUFFICES ASSUME Init, NEW i \in Intents PROVE BudgetOf(i)
    BY DEF Budget
  <2>1. EncryptingOf(i) = {} /\ lifecycle[i] # "approved"
    BY DEF Init, EncryptingOf, Encrypting, At, Idle
  <2>2. encrypted[i] = 0 /\ approvals[i] = 0 /\ Threads \in Nat
    BY FS_CardinalityType DEF Init, Threads
  <2> QED
    BY <2>1, <2>2, FS_EmptySet DEF BudgetOf
<1>2. BudgetInv /\ [Next]_vars => Budget'
  BY BudgetStep
<1>3. ReviewInv /\ Budget <=> BudgetInv
  BY DEF BudgetInv
<1> QED
  BY <1>1, <1>2, <1>3, ReviewInvariant, PTL DEF Spec

\* Requests to encrypt that overlap may each store a record for one approval, but an
\* approval never pays for more records than there are threads.
THEOREM ReuseBounded ==
  ASSUME IsFiniteSet(Workers)
  PROVE  Spec => []ReuseBoundedByWorkers
<1>1. BudgetInv => ReuseBoundedByWorkers
  <2> SUFFICES ASSUME BudgetInv, NEW i \in Intents
               PROVE  encrypted[i] <= approvals[i] * Threads
    BY DEF ReuseBoundedByWorkers, Threads
  <2>1. TypeOK /\ Budget /\ BudgetOf(i)
    BY DEF BudgetInv, ReviewInv, Budget
  <2> QED
    BY <2>1, BudgetNumbers DEF BudgetOf
<1> QED
  BY <1>1, BudgetInvariant, PTL

-----------------------------------------------------------------------------
(***************************************************************************)
(* Requests that do not overlap.  With one worker a copy is never stale,   *)
(* so the table checked on the copy constrains the document, and an        *)
(* approval pays for one record.  Two workers break each of these.         *)
(***************************************************************************)

SingleWorker == \A v, w \in Workers : v = w

\* The copy is the document.
CopyFresh ==
  \A w \in Workers :
    /\ At(w, "insert") => /\ lifecycle[request[w].intent] = "absent"
                          /\ request[w].row = "draft"
                          /\ request[w].target = "approved"
    /\ (At(w, "validate") \/ At(w, "transition") \/ At(w, "authorize")) =>
         lifecycle[request[w].intent] = request[w].row
    /\ At(w, "validate") => request[w].target = "approved"
    /\ At(w, "authorize") => request[w].target = "used"
    /\ (At(w, "authorize") \/ At(w, "transition")) /\ request[w].target = "used" =>
         request[w].row = "approved"
    /\ At(w, "save") => /\ lifecycle[request[w].intent] = "used"
                        /\ encrypted[request[w].intent] = 0

\* What the stored state says of approvals and records.
Ledger ==
  \A i \in Intents :
    /\ lifecycle[i] \in {"absent", "draft", "approved", "rejected"} => encrypted[i] = 0
    /\ lifecycle[i] \notin {"absent", "draft", "rejected"} => approvals[i] >= 1
    /\ encrypted[i] <= 1

SerialInv == TypeOK /\ CopyFresh /\ Ledger

\* What may follow each state, spelled out of the table.
LEMMA TransitionTable ==
  ASSUME NEW row \in LifecycleStates, NEW target, ValidTransition(row, target)
  PROVE  \/ row = "draft"    /\ target \in {"approved", "rejected"}
         \/ row = "approved" /\ target \in {"used", "expired"}
         \/ row = "used"     /\ target \in {"used", "expired"}
         \/ row = "expired"  /\ target = "archived"
         \/ row = "archived" /\ target = "destroyed"
<1>1. row \notin {"rejected", "destroyed"}
  BY DEF ValidTransition, AllowedTransitions, LifecycleStates
<1>2. CASE row = "draft"
  BY <1>2 DEF ValidTransition, AllowedTransitions, LifecycleStates
<1>3. CASE row = "approved"
  BY <1>3 DEF ValidTransition, AllowedTransitions, LifecycleStates
<1>4. CASE row = "used"
  BY <1>4 DEF ValidTransition, AllowedTransitions, LifecycleStates
<1>5. CASE row = "expired"
  BY <1>5 DEF ValidTransition, AllowedTransitions, LifecycleStates
<1>6. CASE row = "archived"
  BY <1>6 DEF ValidTransition, AllowedTransitions, LifecycleStates
<1> QED
  BY <1>1, <1>2, <1>3, <1>4, <1>5, <1>6 DEF LifecycleStates

LEMMA SerialStep ==
  ASSUME SingleWorker
  PROVE  SerialInv /\ TypeOK' /\ [Next]_vars => SerialInv'
<1> SUFFICES ASSUME SerialInv, TypeOK', [Next]_vars PROVE CopyFresh' /\ Ledger'
  BY DEF SerialInv
<1> USE DEF SerialInv, TypeOK, Documents, World, Histories, Jobs, Idle, At
<1>1. ASSUME NEW w \in Workers, NEW t \in Tokens, NEW i \in Intents,
             BeginCreate(w, t, i)
      PROVE  CopyFresh' /\ Ledger'
  <2>1. CopyFresh' BY <1>1, SingleWorker DEF SingleWorker, BeginCreate, Begin, CopyFresh
  <2>2. Ledger' BY <1>1 DEF BeginCreate, Ledger
  <2> QED BY <2>1, <2>2
<1>2. ASSUME NEW w \in Workers, NEW t \in Tokens, NEW i \in Intents,
             BeginEncrypt(w, t, i)
      PROVE  CopyFresh' /\ Ledger'
  <2>1. CopyFresh'
    BY <1>2, SingleWorker DEF SingleWorker, BeginEncrypt, Begin, CopyFresh, EncryptEligible
  <2>2. Ledger' BY <1>2 DEF BeginEncrypt, Ledger
  <2> QED BY <2>1, <2>2
<1>3. ASSUME NEW w \in Workers, NEW t \in Tokens, NEW i \in Intents,
             NEW target \in LifecycleStates, BeginTransition(w, t, i, target)
      PROVE  CopyFresh' /\ Ledger'
  <2>1. CopyFresh'
    BY <1>3, SingleWorker
    DEF SingleWorker, BeginTransition, Begin, CopyFresh, DirectlyTransitionable
  <2>2. Ledger' BY <1>3 DEF BeginTransition, Ledger
  <2> QED BY <2>1, <2>2
<1>4. ASSUME NEW w \in Workers, Insert(w)
      PROVE  CopyFresh' /\ Ledger'
  <2>0. request[w] \in Jobs
    BY <1>4, BusyJob DEF Insert
  <2>1. CopyFresh'
    BY <1>4, <2>0, SingleWorker DEF SingleWorker, Insert, Continue, Reply, CopyFresh
  <2>2. Ledger' BY <1>4, <2>0 DEF Insert, Ledger, CopyFresh
  <2> QED BY <2>1, <2>2
<1>5. ASSUME NEW w \in Workers, Validate(w)
      PROVE  CopyFresh' /\ Ledger'
  <2>0. request[w] \in Jobs
    BY <1>5, BusyJob DEF Validate
  <2>1. CopyFresh'
    BY <1>5, <2>0, SingleWorker DEF SingleWorker, Validate, Continue, Reply, CopyFresh
  <2>2. Ledger' BY <1>5 DEF Validate, Ledger
  <2> QED BY <2>1, <2>2
<1>6. ASSUME NEW w \in Workers, WriteLifecycle(w)
      PROVE  CopyFresh' /\ Ledger'
  <2>0. request[w] \in Jobs
    BY <1>6, BusyJob DEF WriteLifecycle
  <2>. PICK i \in Intents : i = request[w].intent
    BY <2>0
  <2>1. /\ lifecycle[i] = request[w].row
        /\ lifecycle' = [lifecycle EXCEPT ![i] = request[w].target]
        /\ encrypted' = encrypted
    BY <1>6 DEF WriteLifecycle, CopyFresh
  <2>2. request[w].target = "used" => encrypted[i] = 0
    BY <1>6, <2>1 DEF WriteLifecycle, CopyFresh, Ledger
  <2>3. \/ request[w].row = "draft"    /\ request[w].target \in {"approved", "rejected"}
        \/ request[w].row = "approved" /\ request[w].target \in {"used", "expired"}
        \/ request[w].row = "used"     /\ request[w].target = "expired"
        \/ request[w].row = "expired"  /\ request[w].target = "archived"
        \/ request[w].row = "archived" /\ request[w].target = "destroyed"
    BY <1>6, <2>0, TransitionTable DEF WriteLifecycle, CopyFresh
  <2>4. /\ \A j \in Intents : approvals'[j] >= approvals[j]
        /\ request[w].target = "approved" => approvals'[i] >= 1
    BY <1>6, <2>0 DEF WriteLifecycle
  <2>5. CopyFresh'
    BY <1>6, <2>0, <2>1, <2>2, SingleWorker
    DEF SingleWorker, WriteLifecycle, Continue, Reply, CopyFresh
  <2>6. Ledger'
    BY <2>1, <2>3, <2>4 DEF Ledger
  <2> QED BY <2>5, <2>6
<1>7. ASSUME NEW w \in Workers, RefuseTransition(w) \/ Abort(w)
      PROVE  CopyFresh' /\ Ledger'
  BY <1>7 DEF RefuseTransition, Abort, Reply, CopyFresh, Ledger
<1>8. ASSUME NEW w \in Workers, Authorize(w)
      PROVE  CopyFresh' /\ Ledger'
  <2>0. request[w] \in Jobs
    BY <1>8, BusyJob DEF Authorize
  <2>1. CopyFresh'
    BY <1>8, <2>0, SingleWorker DEF SingleWorker, Authorize, Continue, Reply, CopyFresh
  <2>2. Ledger' BY <1>8 DEF Authorize, Ledger
  <2> QED BY <2>1, <2>2
<1>9. ASSUME NEW w \in Workers, SaveRecord(w)
      PROVE  CopyFresh' /\ Ledger'
  <2>0. request[w] \in Jobs
    BY <1>9, BusyJob DEF SaveRecord
  <2>1. CopyFresh'
    BY <1>9, <2>0, SingleWorker DEF SingleWorker, SaveRecord, Reply, CopyFresh
  <2>2. Ledger' BY <1>9, <2>0 DEF SaveRecord, Ledger, CopyFresh
  <2> QED BY <2>1, <2>2
<1>10. ASSUME \/ \E i \in Intents : PostureChanges(i) \/ WindowCloses(i)
              \/ UNCHANGED vars
       PROVE  CopyFresh' /\ Ledger'
  BY <1>10 DEF PostureChanges, WindowCloses, vars, CopyFresh, Ledger
<1> QED
  BY <1>1, <1>2, <1>3, <1>4, <1>5, <1>6, <1>7, <1>8, <1>9, <1>10
  DEF Next, Arrival, HandlerStep

LEMMA SerialInvariant ==
  ASSUME SingleWorker
  PROVE  Spec => []SerialInv
<1>1. Init => CopyFresh /\ Ledger
  BY DEF Init, CopyFresh, Ledger, At, Idle
<1>2. SerialInv /\ TypeOK' /\ [Next]_vars => SerialInv'
  BY SerialStep
<1>3. TypeOK /\ CopyFresh /\ Ledger => SerialInv
  BY DEF SerialInv
<1> QED
  BY <1>1, <1>2, <1>3, TypeCorrect, PTL DEF Spec

\* When requests do not overlap, an intent never has more encryption records
\* than approvals, even if handlers fail half-way.
THEOREM OneShotSerial ==
  ASSUME SingleWorker
  PROVE  Spec => []OneShot
<1>1. SerialInv => OneShot
  BY DEF SerialInv, OneShot, Ledger, TypeOK
<1> QED
  BY <1>1, SerialInvariant, PTL

\* Every write of a fresh copy moves the document along the table.
LEMMA FreshWrite ==
  ASSUME SerialInv, NEW w \in Workers, WriteLifecycle(w)
  PROVE  \E i \in Intents, target \in LifecycleStates :
           /\ lifecycle[i] \in LifecycleStates
           /\ ValidTransition(lifecycle[i], target)
           /\ lifecycle' = [lifecycle EXCEPT ![i] = target]
           /\ lifecycle[i] = "used" => target = "expired"
<1>1. request[w] \in Jobs
  BY BusyJob DEF WriteLifecycle, At, SerialInv
<1>2. /\ lifecycle[request[w].intent] = request[w].row
      /\ request[w].target = "used" => request[w].row = "approved"
  BY DEF SerialInv, CopyFresh, WriteLifecycle, At
<1>3. request[w].row = "used" => request[w].target = "expired"
  BY <1>1, <1>2, TransitionTable DEF WriteLifecycle, Jobs
<1>. request[w].intent \in Intents /\ request[w].target \in LifecycleStates
  BY <1>1 DEF Jobs
<1> WITNESS request[w].intent \in Intents, request[w].target \in LifecycleStates
<1> QED
  BY <1>1, <1>2, <1>3 DEF WriteLifecycle, Jobs

\* A step of the handlers is a step of the promise, or changes neither
\* documents nor records.
LEMMA PromiseStep ==
  SerialInv /\ [Next]_vars => [Promise!Next]_<<lifecycle, encrypted>>
<1> SUFFICES ASSUME SerialInv, [Next]_vars
             PROVE  Promise!Next \/ UNCHANGED <<lifecycle, encrypted>>
  OBVIOUS
<1> USE DEF SerialInv, TypeOK, Documents, World, Histories
<1>1. ASSUME NEW w \in Workers, Insert(w)
      PROVE  Promise!Next
  <2>1. request[w] \in Jobs
    BY <1>1, BusyJob DEF Insert, At
  <2>2. PICK i \in Intents : i = request[w].intent
    BY <2>1 DEF Jobs
  <2>3. Promise!Submit(i)
    BY <1>1, <2>2 DEF Insert, At, CopyFresh, Promise!Submit, Promise!Move
  <2> QED BY <2>3 DEF Promise!Next
<1>2. ASSUME NEW w \in Workers, WriteLifecycle(w)
      PROVE  Promise!Next
  <2>1. PICK i \in Intents, target \in LifecycleStates :
           /\ lifecycle[i] \in LifecycleStates
           /\ ValidTransition(lifecycle[i], target)
           /\ lifecycle' = [lifecycle EXCEPT ![i] = target]
           /\ lifecycle[i] = "used" => target = "expired"
    BY <1>2, FreshWrite
  <2>2. encrypted' = encrypted
    BY <1>2 DEF WriteLifecycle
  <2>3. \/ lifecycle[i] = "draft"    /\ target \in {"approved", "rejected"}
        \/ lifecycle[i] = "approved" /\ target \in {"used", "expired"}
        \/ lifecycle[i] = "used"     /\ target = "expired"
        \/ lifecycle[i] = "expired"  /\ target = "archived"
        \/ lifecycle[i] = "archived" /\ target = "destroyed"
    BY <2>1, TransitionTable
  <2>4. \/ Promise!Approve(i) \/ Promise!Reject(i) \/ Promise!Use(i)
        \/ Promise!Expire(i) \/ Promise!Archive(i) \/ Promise!Destroy(i)
    BY <2>1, <2>2, <2>3
    DEF Promise!Approve, Promise!Reject, Promise!Use, Promise!Expire, Promise!Archive,
        Promise!Destroy, Promise!Move
  <2> QED BY <2>4 DEF Promise!Next
<1>3. ASSUME NEW w \in Workers, SaveRecord(w)
      PROVE  Promise!Next
  <2>1. request[w] \in Jobs
    BY <1>3, BusyJob DEF SaveRecord, At
  <2>2. PICK i \in Intents : i = request[w].intent
    BY <2>1 DEF Jobs
  <2>3. lifecycle[i] = "used" /\ encrypted[i] = 0
    BY <1>3, <2>2 DEF SaveRecord, At, CopyFresh
  <2>4. /\ encrypted' = [encrypted EXCEPT ![i] = encrypted[i] + 1]
        /\ UNCHANGED lifecycle
    BY <1>3, <2>2 DEF SaveRecord
  <2>5. encrypted[i] + 1 = 1
    BY <2>3
  <2>6. Promise!Deliver(i)
    BY <2>3, <2>4, <2>5 DEF Promise!Deliver
  <2> QED BY <2>6 DEF Promise!Next
<1>4. ASSUME NEW w \in Workers, NEW t \in Tokens, NEW i \in Intents,
             \/ BeginCreate(w, t, i) \/ BeginEncrypt(w, t, i)
             \/ \E target \in LifecycleStates : BeginTransition(w, t, i, target)
      PROVE  UNCHANGED <<lifecycle, encrypted>>
  BY <1>4 DEF BeginCreate, BeginEncrypt, BeginTransition
<1>5. ASSUME NEW w \in Workers,
             Validate(w) \/ RefuseTransition(w) \/ Authorize(w) \/ Abort(w)
      PROVE  UNCHANGED <<lifecycle, encrypted>>
  BY <1>5 DEF Validate, RefuseTransition, Authorize, Abort
<1>6. ASSUME \/ \E i \in Intents : PostureChanges(i) \/ WindowCloses(i)
             \/ UNCHANGED vars
      PROVE  UNCHANGED <<lifecycle, encrypted>>
  BY <1>6 DEF PostureChanges, WindowCloses, vars
<1> QED
  BY <1>1, <1>2, <1>3, <1>4, <1>5, <1>6 DEF Next, Arrival, HandlerStep

\* When requests do not overlap, the handlers implement OneShotIntent.
THEOREM ImplementsPromise ==
  ASSUME SingleWorker
  PROVE  Spec => PromiseKept
<1>1. Init => Promise!Init
  BY DEF Init, Promise!Init
<1>2. SerialInv /\ [Next]_vars => [Promise!Next]_<<lifecycle, encrypted>>
  BY PromiseStep
<1> QED
  BY <1>1, <1>2, SerialInvariant, PTL DEF Spec, PromiseKept, Promise!Spec

\* When requests do not overlap, a stored life cycle changes only as the
\* table permits.
THEOREM LegalLifecycleSerial ==
  ASSUME SingleWorker
  PROVE  Spec => LegalLifecycle
<1> DEFINE Legal ==
      \A i \in Intents :
        lifecycle'[i] # lifecycle[i] =>
          \/ lifecycle[i] = "absent" /\ lifecycle'[i] = "draft"
          \/ /\ lifecycle[i] # "absent"
             /\ lifecycle'[i] \in AllowedTransitions[lifecycle[i]]
<1>1. SerialInv /\ [Next]_vars => Legal
  <2> SUFFICES ASSUME SerialInv, [Next]_vars PROVE Legal
    OBVIOUS
  <2> USE DEF SerialInv, TypeOK
  <2>1. ASSUME NEW w \in Workers, Insert(w)
        PROVE  Legal
    <3>1. request[w] \in Jobs
      BY <2>1, BusyJob DEF Insert, At
    <3> QED BY <2>1, <3>1 DEF Insert, At, CopyFresh, Jobs
  <2>2. ASSUME NEW w \in Workers, WriteLifecycle(w)
        PROVE  Legal
    <3>1. PICK i \in Intents, target \in LifecycleStates :
             /\ lifecycle[i] \in LifecycleStates
             /\ ValidTransition(lifecycle[i], target)
             /\ lifecycle' = [lifecycle EXCEPT ![i] = target]
      BY <2>2, FreshWrite
    <3> QED BY <3>1 DEF ValidTransition, LifecycleStates
  <2>3. ASSUME UNCHANGED lifecycle
        PROVE  Legal
    BY <2>3
  <2>4. ASSUME NEW w \in Workers, ~ Insert(w), ~ WriteLifecycle(w),
               Arrival(w) \/ HandlerStep(w) \/ Abort(w)
        PROVE  UNCHANGED lifecycle
    BY <2>4 DEF Arrival, HandlerStep, Abort, BeginCreate, BeginEncrypt, BeginTransition,
       Validate, RefuseTransition, Authorize, SaveRecord, Documents
  <2>5. ASSUME \/ \E i \in Intents : PostureChanges(i) \/ WindowCloses(i)
               \/ UNCHANGED vars
        PROVE  UNCHANGED lifecycle
    BY <2>5 DEF PostureChanges, WindowCloses, vars, Documents
  <2> QED
    BY <2>1, <2>2, <2>3, <2>4, <2>5 DEF Next
<1> QED
  BY <1>1, SerialInvariant, PTL DEF Spec, LegalLifecycle
=============================================================================
