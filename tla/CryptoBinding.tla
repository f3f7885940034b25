--------------------------- MODULE CryptoBinding ---------------------------
(***************************************************************************)
(* What a ciphertext is bound to: POST /api/encrypt and POST /api/decrypt  *)
(* with authorization/service.py, authorization/state.py and crypto/.      *)
(*                                                                         *)
(* A ciphertext is sealed under the hash of its descriptor (CID) and the   *)
(* hash of the authorization state that authorize() computed, and opened   *)
(* only where both can be computed again.  Handlers run on Workers; the    *)
(* session meanwhile is refreshed, reauthorized and revoked by Updaters,   *)
(* in one step or, over the encrypted store, by replacing the document     *)
(* with a changed copy; and intents move along their life cycle.           *)
(*                                                                         *)
(* All descriptors name one session on one device.  Hashes are taken to be *)
(* injective: the hash of a value is the value.                            *)
(***************************************************************************)
EXTENDS Naturals, IntentLifecycle

CONSTANTS
  Workers,        \* threads that encrypt and decrypt
  Updaters,       \* threads that update the session
  Intents,        \* intent documents
  Records,        \* identifiers of encryption records
  Descriptors,    \* canonical descriptors
  Keys,           \* quantum keys
  AtomicUpdates,  \* does the store apply an update in one step?
  MaxChanges      \* bound: session updates in a behaviour

ASSUME AtomicAssumption  == AtomicUpdates \in BOOLEAN
ASSUME ChangesAssumption == MaxChanges \in Nat

VARIABLES
  session,    \* the authorization session
  posture,    \* do monitoring, face, risk, device and policy pass?
  lifecycle,  \* lifecycle_state of each intent
  canonical,  \* canonical_hash of each intent
  records,    \* encryption_records
  job,        \* what each worker is doing
  update,     \* what each updater is doing
  changes     \* history: how many updates the session has had

vars == <<session, posture, lifecycle, canonical, records, job, update, changes>>

Idle   == [step |-> "idle"]
Absent == [intent |-> "absent"]
NoCopy == [copy |-> "none"]

SessionDocs == [revoked : BOOLEAN, expired : BOOLEAN, version : Nat]

\* Fault: re-authorization is left out of the hash.
StateHash_NoVersion(descriptor, state, version) ==
  [descriptor |-> descriptor, state |-> "authorized-active", version |-> 1]

\* Fault: the literal state is hashed.
StateHash_Literal(descriptor, state, version) ==
  [descriptor |-> descriptor, state |-> state, version |-> version]

\* compute_authorization_state_hash.  Operation, device and session are the
\* descriptor's; the policy signature is that of "every rule passed".
StateHash(descriptor, state, version) ==
  [descriptor |-> descriptor,
   state      |-> IF state \in CryptoEligible THEN "authorized-active" ELSE state,
   version    |-> version]

Unbound == [descriptor |-> "none", state |-> "none", version |-> 0]

Hashes == [descriptor : Descriptors,
           state : LifecycleStates \cup {"authorized-active"}, version : Nat]

\* at: the value of changes when the binding was computed.
RecordDocs == [intent : Intents, descriptor : Descriptors, key : Keys,
               bound : Hashes, at : Nat]

\* row: the lifecycle state read; backing: history, the intents that could back
\* cryptography at that moment; copy: the session as an update has loaded it.
Jobs == [op : {"encrypt", "decrypt"},
         step : {"authorize", "bind", "use", "save", "open", "release"},
         intent : Intents, record : Records \cup {Absent},
         descriptor : Descriptors, key : Keys,
         row : LifecycleStates, backing : SUBSET Intents,
         copy : SessionDocs \cup {NoCopy},
         bound : Hashes \cup {Unbound}, at : Nat]

Updates == [op : {"refresh", "reauthorize", "revoke"},
            copy : SessionDocs \cup {NoCopy}]

TypeOK ==
  /\ session   \in SessionDocs
  /\ posture   \in BOOLEAN
  /\ lifecycle \in [Intents -> LifecycleStates]
  /\ canonical \in [Intents -> Descriptors]
  /\ records   \in [Records -> RecordDocs \cup {Absent}]
  /\ job       \in [Workers -> Jobs \cup {Idle}]
  /\ update    \in [Updaters -> Updates \cup {Idle}]
  /\ changes   \in Nat

Init ==
  /\ session   = [revoked |-> FALSE, expired |-> FALSE, version |-> 1]
  /\ posture   \in BOOLEAN
  /\ lifecycle = [i \in Intents |-> "draft"]
  /\ canonical \in [Intents -> Descriptors]
  /\ records   = [r \in Records |-> Absent]
  /\ job       = [w \in Workers |-> Idle]
  /\ update    = [u \in Updaters |-> Idle]
  /\ changes   = 0

-----------------------------------------------------------------------------
(***************************************************************************)
(* Encryption and decryption.                                              *)
(***************************************************************************)

At(w, step) == job[w].step = step

Continue(w, step) == job' = [job EXCEPT ![w].step = step]
Reply(w)          == job' = [job EXCEPT ![w] = Idle]

World == <<session, posture, canonical, update, changes>>

Eligible == {i \in Intents : lifecycle[i] \in CryptoEligible}

Begin(w, op, i, r, descriptor, key) ==
  /\ posture
  /\ job[w] = Idle
  /\ job' = [job EXCEPT ![w] =
       [op |-> op, step |-> "authorize", intent |-> i, record |-> r,
        descriptor |-> descriptor, key |-> key, row |-> lifecycle[i],
        backing |-> Eligible, copy |-> NoCopy, bound |-> Unbound, at |-> 0]]
  /\ UNCHANGED <<World, lifecycle, records>>

\* The gates, then the intent: the submitted descriptor is the approved one.
BeginEncrypt(w, i, descriptor, key) ==
  /\ descriptor = canonical[i]
  /\ lifecycle[i] \in EncryptEligible
  /\ Begin(w, "encrypt", i, Absent, descriptor, key)

\* Fault: any intent answers for the record.
Governing_Any(r) == Intents

\* get_by_hash: an intent with the hash of the record.
Governing(r) == {i \in Intents : canonical[i] = records[r].descriptor}

BeginDecrypt(w, r, descriptor, key) ==
  /\ records[r] # Absent
  /\ \E i \in Governing(r) : Begin(w, "decrypt", i, r, descriptor, key)

\* What an update works on: the document, or the copy loaded before.
Loaded     == IF AtomicUpdates THEN NoCopy ELSE session
Seen(copy) == IF AtomicUpdates THEN session ELSE copy

\* AuthorizationService.authorize: the device, then the session.
Authorize(w) ==
  /\ At(w, "authorize")
  /\ IF posture
       THEN job' = [job EXCEPT ![w].step = "bind", ![w].copy = Loaded]
       ELSE Reply(w)
  /\ UNCHANGED <<World, lifecycle, records>>

\* get_or_create is an update, though it changes nothing: the encrypted store
\* writes the copy back.  The session, the state and the policy pass.
Bind(w) ==
  LET j   == job[w]
      doc == Seen(j.copy)
  IN
  /\ At(w, "bind")
  /\ session' = doc
  /\ IF posture /\ ~doc.revoked /\ ~doc.expired /\ j.row \in CryptoEligible
       THEN job' = [job EXCEPT ![w] =
              [j EXCEPT !.bound = StateHash(j.descriptor, j.row, doc.version),
                        !.copy  = NoCopy,
                        !.at    = changes,
                        !.step  = IF j.op = "encrypt" THEN "use" ELSE "open"]]
       ELSE Reply(w)
  /\ UNCHANGED <<posture, canonical, update, changes, lifecycle, records>>

\* encrypt_for_intent, then the intent is marked used.
Use(w) ==
  /\ At(w, "use")
  /\ ValidTransition(job[w].row, "used")
  /\ lifecycle' = [lifecycle EXCEPT ![job[w].intent] = "used"]
  /\ Continue(w, "save")
  /\ UNCHANGED <<World, records>>

\* Fault: the record is stored without the authorization state hash.
Save_Unbound(w) ==
  LET j == job[w] IN
  /\ At(w, "save")
  /\ \E r \in Records :
       /\ records[r] = Absent
       /\ records' = [records EXCEPT ![r] =
            [intent |-> j.intent, descriptor |-> j.descriptor, key |-> j.key,
             bound |-> Unbound, at |-> j.at]]
  /\ Reply(w)
  /\ UNCHANGED <<World, lifecycle>>

Save(w) ==
  LET j == job[w] IN
  /\ At(w, "save")
  /\ \E r \in Records :
       /\ records[r] = Absent
       /\ records' = [records EXCEPT ![r] =
            [intent |-> j.intent, descriptor |-> j.descriptor, key |-> j.key,
             bound |-> j.bound, at |-> j.at]]
  /\ Reply(w)
  /\ UNCHANGED <<World, lifecycle>>

\* derive_intent_bound_key: HKDF, taken to be injective like the hashes.
DerivedKey(j) ==
  [key |-> j.key, descriptor |-> j.descriptor, bound |-> j.bound]

\* The tag verifies: same key, same additional data.
Authentic(j, rec) ==
  /\ DerivedKey(j) = DerivedKey(rec)
  /\ <<j.descriptor, j.bound>> = <<rec.descriptor, rec.bound>>

\* decrypt_for_intent: both hashes, then AES-GCM under the derived key.
Opens(j, rec) ==
  /\ j.descriptor = rec.descriptor
  /\ j.bound = rec.bound
  /\ Authentic(j, rec)

Open(w) ==
  /\ At(w, "open")
  /\ IF Opens(job[w], records[job[w].record]) THEN Continue(w, "release") ELSE Reply(w)
  /\ UNCHANGED <<World, lifecycle, records>>

\* The plaintext is returned.
Release(w) ==
  /\ At(w, "release")
  /\ Reply(w)
  /\ UNCHANGED <<World, lifecycle, records>>

\* An exception in a database call or in a cipher, or the process ending.
Abort(w) ==
  /\ job[w] # Idle
  /\ Reply(w)
  /\ UNCHANGED <<World, lifecycle, records>>

-----------------------------------------------------------------------------
(***************************************************************************)
(* The session, the intents and the gates meanwhile.                       *)
(***************************************************************************)

Handlers == <<canonical, records, job>>

BeginUpdate(u, op) ==
  /\ update[u] = Idle
  /\ update' = [update EXCEPT ![u] = [op |-> op, copy |-> Loaded]]
  /\ UNCHANGED <<Handlers, session, posture, lifecycle, changes>>

\* Fault: restoring a session does not make a new version of it.
Updated_SameVersion(op, doc) ==
  IF op = "revoke"
    THEN [doc EXCEPT !.revoked = TRUE]
    ELSE [revoked |-> FALSE, expired |-> FALSE,
          version |-> IF op = "refresh" THEN doc.version + 1 ELSE doc.version]

Updated(op, doc) ==
  IF op = "revoke"
    THEN [doc EXCEPT !.revoked = TRUE]
    ELSE [revoked |-> FALSE, expired |-> FALSE, version |-> doc.version + 1]

\* sessions.refresh (refused when it sees a revoked session), .reauthorize
\* and .revoke.
Update(u) ==
  LET doc == Seen(update[u].copy) IN
  /\ update[u] # Idle
  /\ changes < MaxChanges
  /\ IF update[u].op = "refresh" /\ doc.revoked
       THEN UNCHANGED <<session, changes>>
       ELSE /\ session' = Updated(update[u].op, doc)
            /\ changes' = changes + 1
  /\ update' = [update EXCEPT ![u] = Idle]
  /\ UNCHANGED <<Handlers, posture, lifecycle>>

\* A thread whose request is over, or died.
Forget(u) ==
  /\ update[u] # Idle
  /\ update' = [update EXCEPT ![u] = Idle]
  /\ UNCHANGED <<Handlers, session, posture, lifecycle, changes>>

Expire ==
  /\ ~session.expired
  /\ session' = [session EXCEPT !.expired = TRUE]
  /\ UNCHANGED <<Handlers, posture, lifecycle, update, changes>>

\* POST /api/intent/{id}/transition.
Transition(i, target) ==
  /\ target \in DirectlyTransitionable
  /\ ValidTransition(lifecycle[i], target)
  /\ lifecycle' = [lifecycle EXCEPT ![i] = target]
  /\ UNCHANGED <<Handlers, session, posture, update, changes>>

PostureChanges ==
  /\ posture' = ~posture
  /\ UNCHANGED <<Handlers, session, lifecycle, update, changes>>

Next ==
  \/ \E w \in Workers :
       \/ \E descriptor \in Descriptors, key \in Keys :
            \/ \E i \in Intents : BeginEncrypt(w, i, descriptor, key)
            \/ \E r \in Records : BeginDecrypt(w, r, descriptor, key)
       \/ Authorize(w) \/ Bind(w) \/ Use(w) \/ Save(w) \/ Open(w) \/ Release(w) \/ Abort(w)
  \/ \E u \in Updaters :
       \/ \E op \in {"refresh", "reauthorize", "revoke"} : BeginUpdate(u, op)
       \/ Update(u) \/ Forget(u)
  \/ \E i \in Intents, target \in LifecycleStates : Transition(i, target)
  \/ Expire \/ PostureChanges

Spec == Init /\ [][Next]_vars

-----------------------------------------------------------------------------
(***************************************************************************)
(* Properties.  Plaintext is in hand at "release".                         *)
(***************************************************************************)

\* A ciphertext opens only under the authorization it was sealed under: the
\* session was neither refreshed, reauthorized nor revoked between the two
\* authorize() calls, whatever happened to the document in the meantime.
OpenedUnderSameAuthorization ==
  \A w \in Workers : At(w, "release") => job[w].at = records[job[w].record].at

\* While that authorization lasts, whoever presents the descriptor and the key
\* is not refused for the binding: the change from approved to used that
\* encryption itself causes does not close the ciphertext.
UseKeepsOpen ==
  \A w \in Workers :
    LET j == job[w] IN
    /\ At(w, "open")
    /\ j.at = records[j.record].at
    /\ j.descriptor = records[j.record].descriptor
    /\ j.key = records[j.record].key
    => Opens(j, records[j.record])

\* A ciphertext opens only if, when the request read an intent, one with the very
\* descriptor the record was sealed under could back cryptography, be it the intent
\* that sealed the record or another with that descriptor; approving some other
\* action opens nothing.
ClosedWithItsDescriptor ==
  \A w \in Workers :
    At(w, "release") =>
      \E i \in job[w].backing : canonical[i] = records[job[w].record].descriptor
=============================================================================
