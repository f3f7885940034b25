# CipherQ: models, checks and proofs

CipherQ encrypts data under *intents*: an intent describes an operation, is
reviewed, and then backs one encryption.  The ciphertext is bound to the hash of
the intent's descriptor and to the authorization state of the session it was
made in; a session is watched by continuous monitoring, which may take it away.

* The backend (`src/backend`, FastAPI over MongoDB) runs every request handler on
  a thread of a pool, with no locks and no transactions: what handlers can do to
  each other between two database calls is the subject of the first half.
* The browser (`src/frontend`, React) runs one callback at a time, but a callback
  stops at every `await` and others run meanwhile; answers come late, out
  of order, or never, to pages that have moved on.  That is the second half.

Run `tlc -config <X>.cfg MC<Module>.tla` for a model, `tlapm <Module>Proofs.tla`
for the proofs.  `PROJECT.json` lists the runs, the mutant each property detects,
and the source lines each definition stands for.

## 1. Inventory

### The backend

| component | state | operations | hard behaviour | what makes it correct |
|---|---|---|---|---|
| **Intent workflow** `intent/`, `api/routers/intent.py`, `encryption.py` | `intents` (lifecycle_state, created_by, descriptor hash), `intent_versions` | create (an ADMIN's may approve itself), transition, encrypt | `transition()` validates a copy read earlier and overwrites; encryption checks, seals, marks used, saves | separation of duties; one ciphertext per approval; only edges of the table; a used intent has its ciphertext |
| **Session and device authority** `authorization/`, `api/routers/authorization.py`, `reauth_requests.py` | `auth_sessions` (user, device, revoked, version, expiry), `devices` (revoked, owner), `reauth_requests` | refresh, reauthenticate, revoke and restore sessions and devices, file and resolve requests | a reauthentication is up to five writes; revocations arrive between them; grants are presented twice | a revocation is undone only with authority; a grant works once; versions are not revived; owners are kept |
| **Continuous monitoring** `monitoring/`, `api/routers/monitoring.py` | `monitoring_sessions` (status, failure streak, stopped, evidence) | start, heartbeat, refresh, stop; the gate asked by intents and ciphers | whole records written back from copies, twice per heartbeat; a revocation in two stores | a stored revocation is enacted; streaks revoke; the gate reopens; a stopped record stays stopped; one record per session |
| **Cryptographic binding** `authorization/service.py`, `state.py`, `crypto/`, `api/routers/decryption.py` | `encryption_records` | encrypt, decrypt | state read for `authorize()` and used for HKDF and AES-GCM; sessions change between | opens under the very authorization it was sealed under, and does open there; closes with its descriptor's intents |
| **Audit chain** `audit/` | `audit_logs` | record, verify | the time is taken, the last hash read, an identifier allocated and the entry inserted in four steps | a chain no one overlapped verifies; an alarm is never forgotten |
| **Document store** `database/encrypted_store.py`, `session.py` | all collections, `counters` | find, insert, update, find_one_and_update, get_next_id | with whole-database encryption every update is decrypt, change, replace | an update is atomic; identifiers are unique |
| **Policy and risk** `policy/` | policy configuration, trusted locations | evaluate rules, assess risk | boundaries, caps, combinations with the advisory model | a worse context never lowers the action; caution only adds |
| **Qira** `qira/`, `api/routers/security.py` | incidents | decide, advise, resolve | resolved twice; stale counters | advice never loosens enforcement |
| **Quantum key exchange** `quantum/` | none | simulate BB84 | sampling, error estimate | equal keys when not aborted |
| **Accounts** `authentication/`, `api/rbac.py`, routers `auth`, `users`, `face` | `users`, `face_templates`, tokens | register, login, change role, verify face | check-then-create; the role is in the token | names are unique; roles take effect |

### The browser

| component (under `frontend/src`) | state | operations | hard behaviour | what makes it correct |
|---|---|---|---|---|
| **Monitoring client** `context/MonitoringContext.jsx`, `monitoringState.js` | snapshot, record id, generation, failure count, flags in flight | bootstrap, start, tick, refresh, reauthenticate, stop | answers of an earlier generation, lost answers, ticks that overlap starts | a lost connection is reported when it is lost; a stopped record is noticed; a foreign snapshot heals; a revocation keeps showing |
| **Sign-in** `App.jsx`, `hooks/useAuth.js`, `pages/LoginPage.jsx`, `SecurityTelemetryConsent.jsx` | `localStorage`, `sessionStorage`, stage of the login | login, enrol or verify, consent, sign out, reload | storage outlives what React knows; callbacks of a screen that is gone | the shell is shown only with consent |
| **Intent request page** `pages/CreateIntentPage.jsx` | form, attachment, request and its decision | attach, submit, poll, hand over | a timer that arms itself; a file hashed across an await | a decision is shown |
| **Cipher pages** `pages/EncryptionPage.jsx`, `DecryptionPage.jsx`, `App.jsx` | looked-up intent, face panel, result, scratch state shared by pages | look up, face check, encrypt, decrypt, hand over | nothing cancels a face check or a request; it answers to another form | a record is handed on with its descriptor |
| **Face panel** `components/face/FaceAuthPanel.jsx` | phase, frames, deadlines | capture, retry, send, report | loops over `requestAnimationFrame`, closed while they run | frames of one attempt; one report |
| **Access requests** `AccessRequestPanel.jsx`, `MonitoringBadge.jsx`, `AdminDashboard.jsx` | phase, request, in-flight flags | file, refresh, poll, approve, reject, reauthenticate | refreshes overtake a submission | an approval is noticed |
| **Administration lists** `AdminDashboard.jsx`, `IntentHistoryPage.jsx`, `PolicyManagementPage.jsx`, `AuditLogsPage.jsx` | rows, filter, busy flags, errors | filter, load, poll, change | loads overtake one another; late rows under another filter | polled rows heal |
| **Qira client** `context/QiraContext.jsx`, `components/qira/QiraWidget.jsx` | decision, key of what it was about, question, reauthentication | assess, follow up, ask, reauthenticate | the record changes while it is assessed | the decision catches up |
| **Monitoring cards** `LiveLocationCard.jsx`, `CookieSessionIntegrityCard.jsx`, `MonitoringBadge.jsx` | coordinates, digest of the token, menu | watch, check, open, act | a digest is computed across an await | tampering is shown |
| **Audit views** `Dashboard.jsx`, `VisualizationPage.jsx`, `AuditLogsPage.jsx` | last verdict on the chain | ask, show | failed and refused verifications look like sound ones | a broken chain is shown as broken |
| Profile, settings, face test, BB84 and other pages, `ui/`, `mascot/`, `quantum/` | presentation | one request per click | - | not modelled, section 8 |

### Interactions

Every intent creation and cipher operation asks the monitoring gate; encryption
reads and writes intents; encryption and decryption call
`AuthorizationService.authorize`, which reads the device and *upserts* the
session; monitoring revokes sessions (its branch that revokes a device needs denied
requests, which no router reports); reauthentication gives them back; everything
writes audit entries; all of it goes through the document store.  In the browser,
sign-in decides whether the shell is shown; the shell mounts one monitoring
provider and under it one Qira provider; cards, badge and panels derive their text
from the first; pages hand each other values through `shared` in `App.jsx`; a face
panel stands in front of sign-in, encryption, decryption and reauthentication.
The hazards, line by line and with the properties that cover them, are in
`PROJECT.json`.

## 2. Modules

| module | what it is |
|---|---|
| `IntentLifecycle` | the life-cycle states, the transition table and the two eligibility sets of `intent/lifecycle.py` |
| `IntentWorkflow` | the handlers of intents and encryption |
| `OneShotIntent` | the abstract promise of that component; `IntentWorkflow` refines it when requests do not overlap |
| `SessionAuthority` | sessions, devices, grants |
| `RevocableSessions` | the abstract promise of that component; `SessionAuthority` refines it when requests do not overlap |
| `Monitoring` | monitoring records of one session |
| `CryptoBinding` | ciphertexts, their bindings, and the session versions they depend on |
| `AuditChain` | the recording handlers and the verification of the chain |
| `MonitoringClient` | the browser's monitoring provider, with the records it talks to |
| `MonitoringViews` | what each surface shows of the provider's state |
| `SignIn` | storage, login screens, shell |
| `IntentRequestPage` | the form, its request and the poll |
| `CryptoPages` | encryption and decryption page, their face checks and requests |
| `FaceCapture` | the loops inside a face panel |
| `AccessRequests` | the locked-out user's panel and the administrator's list |
| `AdminLists` | lists that are filtered, loaded and polled |
| `QiraClient` | the assessment provider and its widget |
| `MonitoringCards` | the cards with state of their own |
| `AuditViews` | the pages that tell of `AuditChain` |
| `MC*` | instances for TLC; `MCClientPages` joins the page components |
| `*Proofs` | theorems and proofs for TLAPS |

How to read the backend's modules.  A handler is a sequence of actions of one
*worker*: `Begin...` is everything up to the first write (all reads of a handler
before its first write, with the early returns, are one step), and then one action
per database write or external effect.  What a handler read is in its job record,
so later steps work on copies exactly where the code does.  `Abort` is an exception
or the process ending: the handler is gone, what it wrote stays.

How to read the browser's.  A callback is a *job*: it runs to its next `await`, and
continues with the answer as another action.  Between these, anything else may
happen, unmounting included.  The server serves a request when it is sent, and the
answer (or an error) arrives later in any order, so a job carries what the server
said at that moment.  Values a closure captured are in the job; values it reads
through a ref or a state updater are read when it continues.

`X_Fault` next to `X` is `X` with a bug the code might have; it is used only to see
the properties fail.

### IntentWorkflow
`lifecycle`, `created_by` are the fields of the `intents` documents; `posture` (do
gate, face, risk, device and policy pass?) and `lapsed` (is `valid_until` past?)
are the answers of other components and change at any time; `approvers`,
`approvals`, `sealed`, `encrypted` are history.  `WriteLifecycle` is
`IntentRepository.transition`: it validates the copy and writes without
condition.  `BeginTransition` has the role and ownership guards, including the
rule that USER_LEVEL_2 does not approve its own intent.

### SessionAuthority
One action per repository call of refresh, reauthenticate, revoke, unrevoke,
file, approve and reject.  `AtomicUpdates` chooses the store: one step per update,
or a `Load` of the document and a later replacement of it (the whole-database
encryption of `encrypted_store.py`).  `restorations` and `retired` are history.
Monitoring revokes through `BeginMonitorRevokes`.  `PromiseKept` maps it to
`RevocableSessions`: a request that was approved is a grant, one that has restored its
session is spent, and calls that read or consume are stutters.

### Monitoring
Records of one session.  A failing heartbeat adds one to the count without a limit
(`Counts` is `Nat` in the proofs, a prefix of it for TLC).  `Evaluate` computes the new record from the copy,
`Revoke` is the call that revokes the session (only when newly revoked),
`Persist` and `Evidence` are the two writes of the whole record.  The session may
be renewed, revoked and expire and the device change at any time.

### CryptoBinding
Workers encrypt and decrypt; updaters refresh, reauthorize and revoke the one
session all descriptors name; intents move by the transition endpoint.  Hashes,
HKDF and authenticated encryption are injective functions of their inputs.
`Bind` is `get_or_create` followed by the remaining checks and the state hash; in
the encrypted store `get_or_create` writes its copy back, and so does the action.
`at`, `changes` and `backing` are history: how often the session had been updated when
a binding was computed, and which intents could back cryptography when a handler read
one.

### AuditChain and AuditViews
A recording takes the time, reads the last hash, allocates an identifier and
inserts, in four actions.  The hash of an entry is the tuple of what is hashed.
`Verifies` is `verify_chain`: in the order of identifiers it compares every entry
with its predecessor.  `overlapped` is history: has a recording ever begun while another
was under way?  The views keep the last verdict they received; Qira's decision
keeps the one of its moment, until another record is watched.  `underWatch` is
`isMonitoring`, without which the risk analysis shows no alert.

### MonitoringClient and MonitoringViews
`monitoringSessionId`, `snapshot`, `seen`, `connection`, `failures`, `reauthRequired`
and the flags are the provider's state and refs; `tick`, `refresh`, `boot`, `start` and
`reauth` are its jobs.  A generation only grows and is only
compared with the value a callback captured, so a job carries `fresh`, the outcome
of that comparison.  The history variables keep apart what the property is about from
what the code compares: `late` says whether monitoring was started, recovered or asked
to reauthenticate since the tick in flight began, and `misses` counts the failures of
ticks that are not late.  The server is part of the module (`server`: records
issued, the running one, revisions, whether the session is revoked): starting retires
the previous record, a heartbeat raises the revision.  The surfaces are operators over that
state; "active" is what is shown as SECURE.

### SignIn
A login is the number of the `saveAuth` that made it.  `login`, `consent`,
`confidence` and `storedId` are what the storage holds and survives `Reload`; the
stage and the callbacks in flight are React's.  Screens are those of `LoginPage`;
"app" stands for all pages of the shell.

### IntentRequestPage, CryptoPages, FaceCapture
A file and a descriptor are numbers.  In `CryptoPages` a face check and the request
behind it are one job, which keeps the values of the render that began it; `stored`
is the server's, and says which descriptor each record is under.  The decryption form
shows validity to the minute, so only a descriptor of `WholeMinutes` is restored by it;
Enter in the encryption form opens the gate also while a request runs.  `FaceCapture`
opens that job up: poses, frames, the deadline, the request, and the panel that may
close at each of these.

### AccessRequests, AdminLists, QiraClient, MonitoringCards
Each has its part of the server as variables (the status of requests, the version of
the data, the watched record, the token in storage) and the page's copy of it beside
them; the properties compare the two.  Equal answers on their way count as one.  In
`AccessRequests`, `offered` is whether the badge offers the panel, which it does until
it hears of the restoration: a reauthentication may fail for the page after the server
used the approval.

## 3. Runs

| run | instance | states | question |
|---|---|---|---|
| `intent_concurrent` | 2 workers, 1 intent, 4 users, failures | 1.6M | what holds of intents whatever overlaps and fails |
| `intent_serial` | 1 worker, 2 intents, 3 users, fair, no failures | 0.7M | the one-shot promise as refinement of `OneShotIntent`, the edges of the table; used intents get their record |
| `intent_reuse` | 2 workers, 1 intent | violation | can overlapping encryptions share an approval? |
| `session_atomic` | 2 workers, 1 session, 2 devices, 1 request, versions to 2 | 1.2M | overlapping restorations and revocations over atomic updates |
| `session_serial` | 1 worker, 2 sessions, 2 devices, 3 users, encrypted store | 2.6M | what the comments promise, as refinement of `RevocableSessions`, when requests do not overlap |
| `session_revocation_race` | 2 workers | violation | does a revocation survive an overlapping reauthentication? |
| `monitoring_overlap` | 2 workers, 1 record, thresholds 1, 2, 3, counts to 4, fair | 0.31M | revocations are enacted, streaks revoke, the gate reopens |
| `monitoring_serial` | 1 worker, 3 records | 35k | one running record, stopped ones stay stopped |
| `crypto_binding` | 1 worker, 1 updater, 2 intents, 2 descriptors, 2 keys, 3 updates | 2.4M | ciphertexts open under their own authorization, and only there |
| `monitoring_client` | 2 records, connection lost after 2 misses, fair | 0.47M | what the page says of connection, record and revocation |
| `client_pages` | each page component alone, bounds below, fair | 0.35M | what the pages hand on and what they end up showing |
| `client_stale_snapshot` | 2 records, revisions to 2 | violation | can a slow read overwrite a newer heartbeat? |

No run turns deadlock checking off: in every state some request may arrive or
some gate may change its answer, or the run would report it.

**Bounds, backend.**  Two workers are the least that overlap, and each hazard listed
needs two handlers; a third adds interleavings of the same pairs.  The single-worker
runs are those whose properties are about requests that do not overlap, as their
section headings in the modules say; they get the second intent, session or record
instead.  `MaxVersion` lets a session be revoked, restored and revoked again;
`MaxChanges` = 3 allows refresh, revoke, restore between sealing and opening, and
with two keys and descriptors every comparison of `Opens` can fail alone.
`CryptoBinding` has one worker because what can change under a request is the
session and the intents, which updaters and `Transition` change at any moment;
two requests meet only in the session, and only over the encrypted store.
Thresholds 1, 2, 3 make every status reachable; `Counts` goes one beyond the last, and
a count that has reached its end stays there, which no comparison can tell from one
that goes on.  Symmetry is used in runs without
liveness, and only over identifiers no action orders.

**Bounds, browser.**  `MaxRecords` = 2 gives a record and the one that replaced it,
which is what a late answer can confuse; `LostAfter` = 2 is the least limit that a
single failure does not reach, and the code's.
`client_stale_snapshot` needs revisions 1 and 2 to be told apart.  `client_pages`:
three logins (one before, one during and one after a sign-out); two requests and one
file beside none; two descriptors, one record and two jobs, so that a job of the
earlier descriptor answers to the later form (the first is approved, and the one handed
over if any, the second may be a draft; only the first is of whole minutes); two access requests, two overlapping
refreshes; two changes and two answers on their way for the lists; two records and
two assessments for Qira; two tokens and two digests; two poses, two frames and two
panels; two recorders, two entries and two moments for the chain, of which an
overlap already makes a fork or an inversion.  The components of `client_pages` share
no variable, so `mounted` explores each alone: sign-in 2k states, requests 26k,
cipher pages 172k, access 37k, lists 4k, Qira 1k, cards 0.4k, face 4k, audit 100k.

**Fairness, backend.**  Only `FairSpec` assumes any: weak fairness of the steps of a
handler that is running (a thread of the pool is scheduled until it replies).  No
request is assumed to arrive and no user to act.  `StreaksRevoke` and `GateReopens`
have the arrival of heartbeats as antecedent instead; in `monitoring_overlap` a
handler may still crash at any step, for fairness of the step does not exclude
`Abort`.  `UsedEventuallyBacked` is checked without failures, since a failure
between the two writes loses the record for good (hazard at `encryption.py:288`).

**Fairness, browser.**  `MonitoringClient!FairSpec`: the interval keeps firing, a tick
and a read that are on their way end in an answer or in an error (`fetch` does).
That calls succeed, that a user acts or that the server changes is not assumed;
"the server's record is the watched one from some point on" and the like are
antecedents.  `MCClientPages!Spec`: intervals and timers keep firing (`IntervalFires`),
requests end (`RequestEnds`), and the requests of a poll do not fail for ever
(`RequestSucceeds`, strong fairness, for failures may come between): without the last
a page can of course show nothing new.

## 4. What the runs show

Right on the server, whatever overlaps: nothing is sealed under an intent that no
independent reviewer or ADMIN approved (`SealedUnderReview`); `used` is never reached
but by sealing; one approval yields at most as many ciphertexts as there are threads.
A grant restores one session once (`OneRestorePerGrant`); a revocation seen by a
reauthentication is undone only with authority (`EarlierRevocationsHold`); the
version of a revoked session is never usable again (`RetiredVersions`); a stored
monitoring revocation is always enacted (`RevocationEnacted`); a camera that never
confirms the identity ends in revocation and one that does reopens the gate; over
atomic updates a ciphertext opens exactly under its own authorization, and only while
an intent with its very descriptor may back cryptography.

True only of requests that do not overlap: `OneShot` (here as part of the refinement
`PromiseKept`), `LegalLifecycle`, `RestoredWithAuthority` and the other promises of
`RevocableSessions` together, `OneRunning`, `StoppedStaysStopped`, and a sound audit
chain.  `AlarmOnlyAfterOverlap` says the last
the other way round: as long as stored entries are not changed, a failed verification
proves that two recordings overlapped.  It does not prove tampering, which is what the
pages make of it, and a chain that broke never verifies again.

Right in the browser: the connection is called lost only after that many ticks in a row
failed since monitoring last started, was reauthenticated or had a heartbeat answered,
each of them with no start, recovery or request to reauthenticate since it began, so
that failures of an earlier record's heartbeat arrive late and count for nothing; a page does not
watch a stopped record, nor show a snapshot of another record than the one it watches,
for ever: it replaces it, reports the connection lost, or the user reauthenticates; a
revocation that stays reaches the page, after which card, panel and badge never show
SECURE again, whatever late answer arrives; the shell
needs consent; a record is handed to the decryption page together with the descriptor
it is stored under, whatever was cancelled or looked up meanwhile; a face is compared
with frames of one attempt; polls of decisions, access requests, lists, assessments,
the stored token and the audit chain get to show what is so, once it stays so (the risk
analysis shows its alert only while a record is monitored; without one it waits for
Qira).

**Disagreements with the code's own words** (each a violation run):

1. *One-shot encryption* (`intent_reuse`).  `transition()` overwrites, so two
   overlapping encryptions each read `approved` and each store a record.  The same
   lines let an approval and a rejection of one draft both succeed, the document
   going from `rejected` to `approved` (`LegalLifecycle` with two workers).
2. *Revocation race* (`session_revocation_race`).  `reauthorize()` filters on `_id`
   only; a revocation stored after the handler's read is undone without approval.
3. *Stale snapshot* (`client_stale_snapshot`).  `applySnapshot` compares
   `snapshot_revision`, which no response carries, so the comparison never drops a
   snapshot and a slow read is shown over a newer heartbeat.

**Met on the way** and not given a run (instance, or where to see it):

* *Late heartbeat*: one that passed the test of `stopped` writes the whole record back,
  `stopped = False` included (`StoppedStaysStopped` with 2 workers, 2 records).
* *Encrypted store*: updates replace a changed copy; a decryption's own
  `get_or_create` can write the pre-refresh session back, and a refreshed-away
  ciphertext opens (`OpenedUnderSameAuthorization` with `AtomicUpdates` FALSE, 1 worker,
  2 updaters).  A refresh overlapping a revocation undoes it likewise
  (`RefreshKeepsRevoked` with two workers).
* *Shared descriptor*: `get_by_hash` returns any intent with the record's hash, and
  nothing keeps two intents from having one descriptor, so a record outlives its own
  intent.  `ClosedWithItsDescriptor` says what remains: some intent with the record's
  descriptor could back cryptography when it was read.
* `refresh_session`'s docstring says it "un-revokes" (it does not, as `sessions.py`
  says); `monitoring/service.py:554` says that re-authorization clears the failure
  streak (the code leaves it); `intent/lifecycle.py:7` says a used intent may be used
  repeatedly within its window (a second encryption is refused; decryption is not).
* *Sign-in*: `LoginPage.jsx:13-16` says monitoring begins from the verified login; a
  reload at the verification screen goes past it.  `useAuth.js:100-102` is untrue of a
  start in flight at sign-out.  Signing out from the top bar leaves page "dashboard"
  without a login, an empty root; "Return to sign in" leaves `awaitingEnrollment`; a
  failure of `faceStatus` sends an enrolled user to enrolment; `shared` is never reset
  at sign-out.
* *Monitoring client*: the in-flight flag at line 438 cannot be met inside one provider;
  a first start that fails on the network is not retried, so the page stays at
  "MONITORING: OFF" until a reload; the lost answer of a start leaves a running record
  no page watches; lines 156-158 say that an earlier record is gone for good, which a
  late start undoes; `stopSession` is never called.  The generation is raised when a
  reauthentication is requested, not when it succeeds: a tick begun while the request is
  awaited stays current, against the words of lines 154-156 and 375-377, so a failure
  after the new start counts for the new record and a late answer replaces its snapshot
  (`ForeignSnapshotHeals` is why that is only for a time).  A recovery raises the
  generation and keeps the count of misses.
* *Labels*: `monitoringState.js:1-4` says every surface derives one state;
  `AdminDashboard.jsx:1126-1163` derives its own and says SECURE while the connection
  is lost, and `LiveMonitoringPanel.jsx:64`, not told of a required reauthentication,
  says OFF where the card says RE-AUTHENTICATION REQUIRED.  The administrator's live
  video is mounted before it has a stream to attach.
* *Qira*: `QiraContext.jsx:112-114` says a decision is of this record; a widget's
  reauthentication (`QiraWidget.jsx:233-238`) lets that of an earlier one stand, and
  makes two assessments run at once (lines 22-24).  A failing assessment is retried at
  once and for ever.
* *Request page*: a second file still being hashed can be submitted as the first; the
  attachment handed on is the form's, not the request's (498).  "The next poll tick
  will retry" (`AccessRequestPanel.jsx:61`) is untrue in phase "loading"; a refresh
  that began before a submission can put the panel back to "rejected", which does not
  poll; a failed reauthentication in phase "approved" shows neither error nor button.
* *Cipher pages*: cancelling a face panel stops neither its capture nor the request
  behind it; tampering clears the outcome, and a late answer shows that of the cid
  before it; a detector that throws leaves the panel "capturing"
  (`FaceAuthPanel.jsx:128-183` has no catch).
* *Lists and cards*: lists without a poll keep the rows of an old filter after a late
  answer; an action that ends clears the busy flag of another; `suspiciousRef` is never
  reset; the location card keeps coordinates of an earlier monitoring; an unrevocation
  does not refresh the status card, and a late look-up may show "active" after a
  revocation.
* *Audit views*: a failed poll shows an empty list and a failed verification "Nominal"
  (`Dashboard.jsx:99`); a USER_LEVEL_1's verification is refused, so its dashboard
  always says "Nominal" while Qira's decision beside it may carry the alert.

## 5. Proofs

All for arbitrary constants; the proof modules say what each step uses.

| theorem | assumption | statement |
|---|---|---|
| `IntentWorkflowProofs!TypeCorrect` | - | `Spec => []TypeOK` |
| `IntentWorkflowProofs!SeparationOfDuties` | - | `Spec => []SealedUnderReview` |
| `IntentWorkflowProofs!UsedAfterSealing` | - | `Spec => []UsedOnlyBySealing` |
| `IntentWorkflowProofs!ReuseBounded` | finitely many workers | `Spec => []ReuseBoundedByWorkers` |
| `IntentWorkflowProofs!OneShotSerial` | one worker | `Spec => []OneShot` |
| `IntentWorkflowProofs!LegalLifecycleSerial` | one worker | `Spec => LegalLifecycle` |
| `IntentWorkflowProofs!ImplementsPromise` | one worker | `Spec => PromiseKept` |
| `SessionAuthorityProofs!TypeCorrect` | isolated updates | types, and copies refer to existing documents |
| `SessionAuthorityProofs!GrantsAreOneShot` | isolated updates | `Spec => []OneRestorePerGrant` |
| `SessionAuthorityProofs!RetiredForGood` | isolated updates | `Spec => []RetiredVersions` |
| `SessionAuthorityProofs!RefreshRestoresNothing` | isolated updates | `Spec => RefreshKeepsRevoked` |
| `SessionAuthorityProofs!OwnersStay` | isolated updates | `Spec => OwnersKept` |
| `SessionAuthorityProofs!RevocationsHold` | isolated updates | `Spec => EarlierRevocationsHold` |
| `SessionAuthorityProofs!DeviceRevocationsHold` | isolated updates | `Spec => DeviceRestoredByGrant` |
| `SessionAuthorityProofs!RestoredOnlyWithAuthority` | one worker | `Spec => RestoredWithAuthority` |
| `SessionAuthorityProofs!ImplementsPromise` | one worker | `Spec => PromiseKept` |
| `SessionAuthorityProofs!EncryptedImplementsPlain` | isolated updates | `Spec => Plain!Spec`: the encrypted store implements the plain one |
| `MonitoringProofs!TypeCorrect` | - | types and addresses, with counts in any `Counts`, `Nat` included |
| `MonitoringProofs!RevocationsEnacted` | - | `Spec => []RevocationEnacted` |
| `MonitoringProofs!OneRunningSerial` | one worker | `Spec => []OneRunning` |
| `MonitoringProofs!StoppedForGoodSerial` | one worker | `Spec => StoppedStaysStopped` |
| `CryptoBindingProofs!TypeCorrect` | atomic updates | `Spec => []TypeOK` |
| `CryptoBindingProofs!VersionBinds` | atomic updates | `Spec => []OpenedUnderSameAuthorization` |
| `CryptoBindingProofs!UseLeavesOpen` | atomic updates | `Spec => []UseKeepsOpen` |
| `CryptoBindingProofs!DescriptorGoverns` | atomic updates | `Spec => []ClosedWithItsDescriptor` |
| `AuditViewsProofs!AuditTypes` | - | types |
| `AuditViewsProofs!AlarmsAreTrue` | - | `AuditSpec => []AlarmOnlyAfterOverlap` |
| `AuditViewsProofs!SerialChainVerifies` | - | the chain verifies until recordings overlap |
| `AuditViewsProofs!BrokenForGood` | - | a chain that broke never verifies again |
| `MonitoringClientProofs!ClientTypes` | - | types, and jobs name existing records |
| `MonitoringClientProofs!LostAfterMisses` | - | `Spec => []LostOnlyAfterMisses` |
| `CryptoPagesProofs!CryptoPagesTypes` | - | types |
| `CryptoPagesProofs!HandedWithItsCid` | - | `CryptoSpec => []RecordHandedWithItsCid` |
| `ClientPagesProofs!SignInTypes` | - | types |
| `ClientPagesProofs!ShellNeedsConsent` | - | `SignInSpec => []ShellOnlyWithConsent` |
| `ClientPagesProofs!FaceTypes` | - | types |
| `ClientPagesProofs!FramesOfOneAttempt` | - | `FaceSpec => []AskedWithItsFrames` |
| `ClientPagesProofs!SuccessReportedOnce` | - | a panel reports success at most once |
| `ClientPagesProofs!ApprovalsOnCards` | - | a card shows as approved what was approved |
| `ClientPagesProofs!ApprovedRequests` | - | so does the panel of a locked-out user |
| `ClientPagesProofs!EachComponent` | - | the composed pages behave as each component's specification says |
| `ClientPagesProofs!ClientTypes` | - | `Spec => []ClientTypeOK` |
| `ClientPagesProofs!ClientSafety` | - | the safety properties of `client_pages`, of the composed pages |

The constants' assumptions (roles of tokens, order of thresholds, an identifier
outside a set, bounds that are numbers) are the `ASSUME`s of the modules.  *Atomic
updates* is the plain MongoDB store (`AtomicUpdates`).  *Isolated updates*
(`Isolated`) is that store with any number of workers, or the encrypted one with
requests that do not overlap, the setting of `session_serial`.  *One worker* means
requests that do not overlap; with two workers each of these properties fails, so the
hypothesis is needed, as it is for the store: the encrypted one with two workers breaks
`OneRestorePerGrant`, `OwnersKept` and `RetiredVersions` (`session_atomic` with
`AtomicUpdates` FALSE).  Together the theorems state every invariant and every action
property that a passing run checks.

*Separation of duties* is not inductive: a handler works on a copy, so `ReviewInv`
says that every copy, and every document, that is past `draft` belongs to an intent
with an independent approval, and that a handler holding an approval in hand was
entitled to it.  Approvals are never withdrawn, so stale copies stay harmless.

*Sealing and reuse*: `SealedFirst` adds that a handler about to write `used` has sealed.
For the number of ciphertexts, `BudgetOf(i)` counts the handlers under way: records and
encryptions in progress are at most approvals times threads, and while the intent is
approved there is room for every thread once more beside the records and the handlers
about to store one.  An approval adds that room, leaving `approved` spends it, and no
handler begins to encrypt otherwise.  Of cardinalities only the library's theorems on
subsets, insertion and removal are used.

*One worker* gives `CopyFresh` (the copy of the running handler is the document);
with `Ledger`, which counts ciphertexts and approvals by life-cycle state, it makes
`SerialInv` inductive, and from it follow the step properties and the refinement:
each step maps to a step of `OneShotIntent` or to a stutter (`used -> used`
included, which the table lists).

*Isolated updates*: `CopiesInv` says that a copy loaded from the encrypted store is the
document as it is, which gives `Coherent`: whichever the store, an update starts from the
present document.  Everything below follows from single updates.

*Grants*: whoever holds a consumed grant holds it alone and has not restored yet
(`GrantInv`); the filter on `approved` in `resolve()` is what makes the holder unique.

*Retired versions* are behind the version of the session, or equal to it and the session
is still revoked (`RetiredInv`); every update that gives the session back also raises
its version.

*Authority*: a handler on its way to restore is the ADMIN of the session, or holds a grant
for this caller, session and device, or found the session not revoked (`EntitledInv`,
`GrantInv`); a filed request never changes what it is for.  With one worker what it
found is still so (`SawInv`), which makes the third case harmless.  For the refinement of
`RevocableSessions`, `PaidInv` adds that a handler names a request exactly when it relies on
a grant; that the grant is for this session and not spent is already in the others.  Every call then maps to one step of the
promise or to a stutter; approvals cannot be withdrawn or changed (`GrantsKept`).

*The two stores*: with isolated updates a load is a stutter of the plain store and
the update of the copy is the update MongoDB would have made (`PlainUpdate`), so the
module over the encrypted store implements the module over the plain one, with
`AtomicUpdates` TRUE and no copies.

*Enacted revocations*: the copy of every handler satisfies the invariant of the
stored record except between evaluating and revoking (`EnactInv`), and a session
only moves on by revocation or a higher version, both of which preserve it.

*One running record*: with one worker, the record a heartbeat writes back is still
running, and a start that is about to create one has seen no other running
(`MonitoringProofs!SerialInv`); a handler that fails between the two leaves fewer.

*Version binding*: every binding of the session's present version dates from the
session's last change, unless that revoked it, and while revoked nothing is bound
(`StampInv`).  So bindings of equal versions are of one moment, and `Opens` compares
versions.  The other direction: bindings of one moment are of one version
(`MomentInv`), and each is of the request's descriptor and of `authorized-active`,
to which both eligible states of the intent are mapped (`RequestInv`).

*Audit chain*: until recordings overlap, at most one is in progress, and it hangs on the
last entry and comes after all others in time and number (`AuditViewsProofs!SerialInv`).
Entries are never removed, and one that lands between two others repairs nothing, for
what follows it hangs on another entry (`NeverRepaired`); so a failed verification stays
one, and the verdicts on their way and on the pages are old verdicts of a chain that was
already broken.

*Monitoring client*: jobs that go on with a record name one the server has, since
records are never removed.  For the connection, `MissesCounted` relates the code's
comparison to the history: a tick is `late` exactly if it is not `fresh`, and the
provider's count is `misses`.  Every action that sets `late` raises the generation and
thereby takes `fresh` from the tick in flight, and every action that clears `misses`
also clears the count and the connection.

*Shell and consent*: `LoginPage` waits on one screen at a time, its callbacks run only
on the screen that began them, and away from it a signed-in tab that is ready has its
consent stored; a reload starts from what is stored.

*Handed records*: a success answer, a shown result and a hand-over each carry a record
that is stored, with the descriptor it is stored under, and stored records never
change; so it does not matter which form the answer arrives at.

*Frames and reports*: while a capture runs, its frames are one per earlier pose, and
neither start nor retry is offered; after success was reported nothing is offered at
all.

*Approvals on cards*: what an answer, a card or a poll says of an intent is as far as the
server has got or behind it (`AtLeast`), and nothing leads from `rejected` to
`approved` or from `approved` back to `draft`.  For access requests likewise, with the
newest request existing whenever one was filed.

*The pages together*: a step of `MCClientPages` is a step of the mounted component that
leaves the variables of the others alone, hence a step or a stutter of each
(`EachComponent`), and what was proved of a component holds of the composition.

Not proved, only checked: liveness and leads-to (`UsedEventuallyBacked`,
`StreaksRevoke`, `GateReopens`, `StoppedRecordNoticed`, `ForeignSnapshotHeals`,
`RevocationSticks`, `DecisionShown`, `AccessDecisionNoticed`,
`RowsHeal`, `DecisionCatchesUp`, `TamperShown`, `BreakShown`), which needs fairness
and ENABLED and is beyond the prover used.

## 6. Abstractions

* All reads of a handler before its first write are one step.  The code's reads
  are separate calls; the documents read are different ones, and their relation at
  that moment is not what the properties are about.
* Answers of gates are Booleans that change freely (`posture`); in `CryptoBinding` the
  policy signature is that of "every rule passed", the only one that is hashed.
* Time is an event: a window closes, a session expires, a timer fires.  `AuditChain`
  has a clock, for the order of entries depends on it.
* Identifiers are unique (see the document store in section 7).
* `CryptoBinding` follows one session.  A descriptor names its session and device,
  and records of different sessions share nothing but the intents' hashes.
* Failure counts, on the server and in the browser, grow without a limit in the code.
  `Counts` bounds them for TLC, at or above every threshold; the theorems hold with `Nat`.
* The risk part of a heartbeat: no router reports denied requests, so the scores
  that could change the status beyond the modelled facts do not arise.
* Session expiry is left out of `SessionAuthority`, whose handlers never test it.
* In the browser a request is served when it is sent; an answer that is lost and a
  request that is lost are told apart only where the server changes.
* `MonitoringClient` has one mounted provider; a second tab is the server's change of
  a record.
* Forms are reduced to the field a property is about, texts and layout are left out,
  and detection, liveness and quality of a face are free verdicts.

## 7. Plan

What is left, in this order; each comes with an instance, mutants and, where a theorem
is named, a proof module.

1. **DocumentStore** (`encrypted_store.py`, `session.py`): update, upsert,
   update_many and `get_next_id` for both stores, with an abstract atomic store that
   the plain one implements; identifiers unique, no update lost.  Theorem: the
   refinement for atomic updates.
2. **PolicyAndRisk** (`policy/`): rules, scores and actions as operators with reference
   definitions; monotone in every factor, advisory model only adds caution.
3. **QiraDecision** and **BB84**: decision table and incidents; sifting and abort.
   The pure functions of 2 and 3 share one MC module and one run over bounded inputs.
4. **Accounts**: registration, and roles carried in tokens.
5. **MonitoringClient** over `Monitoring`: the records of the client's server as a
   refinement of the backend's module, in place of the part it has of its own.
6. More theorems: the audit chain as a refinement of a log that is only appended to,
   and which steps of `MonitoringClient` may replace a snapshot.

## 8. Not modelled

* The language-model provider of Qira and the machine-learned risk model (external or
  numeric; they can only add caution), password hashing, face comparison and the
  detector (numeric).
* Policy and risk, Qira's decision, BB84 and accounts: planned above.
* Routes for policies, trusted locations and listings (one repository call each),
  application wiring and message schemas.  `intent/versioning.py` keeps a history
  nothing in the code adds a second version to.
* Pages with one request per click and no state that outlives it: profile, settings,
  the face test, the BB84 simulation; `ui/`, `mascot/` and `quantum/` components.
* The statistics and charts of the dashboards and of the risk analysis, which lay out
  what other components hold, and the live video.
