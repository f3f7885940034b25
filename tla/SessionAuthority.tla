-------------------------- MODULE SessionAuthority --------------------------
(***************************************************************************)
(* Who may take a session or a device away, and who may give it back: the  *)
(* routes of api/routers/authorization.py and api/routers/                 *)
(* reauth_requests.py, and the revocations of live monitoring, over the    *)
(* collections auth_sessions, devices and reauth_requests.                 *)
(*                                                                         *)
(* A handler runs on one of the Workers and interleaves with the others at *)
(* every database call.  MongoDB applies an update to one document         *)
(* atomically (AtomicUpdates).  With whole-database encryption the store   *)
(* of database/encrypted_store.py stands in between: it loads and decrypts *)
(* the document, changes the copy and replaces the stored document, so an  *)
(* update is two steps (Load, then the update on the copy).                *)
(*                                                                         *)
(* Expiry is left out: none of these handlers asks for it.                 *)
(***************************************************************************)
EXTENDS Naturals, FiniteSets

CONSTANTS
  Workers,        \* threads that run request handlers
  Sessions,       \* session identifiers browsers use
  Devices,        \* device identifiers browsers use
  Requests,       \* identifiers of reauthorization requests
  Tokens,         \* access tokens in use: records with a user and a role
  AtomicUpdates,  \* does the store apply an update in one step?
  MaxVersion      \* bound: no handler starts on a session version above it

Roles == {"USER_LEVEL_1", "USER_LEVEL_2", "ADMIN"}

ASSUME TokensAssumption  == \A t \in Tokens : t.role \in Roles
ASSUME AtomicAssumption  == AtomicUpdates \in BOOLEAN
ASSUME VersionAssumption == MaxVersion \in Nat

Users == {t.user : t \in Tokens}

VARIABLES
  sessions,      \* auth_sessions
  devices,       \* devices
  requests,      \* reauth_requests
  job,           \* what each worker is doing
  loaded,        \* the copy a worker's update works on (encrypted store)
  restorations,  \* history: sessions restored on the strength of a request
  retired        \* history: session versions that were revoked

vars == <<sessions, devices, requests, job, loaded, restorations, retired>>

NoUser    == "no user"
NoRequest == "no request"
NoSession == [version |-> 0]
Unfiled   == [status |-> "absent"]
NoCopy    == [copy |-> "none"]
Idle      == [step |-> "idle"]

ASSUME RequestsAssumption == NoRequest \notin Requests

SessionDocs == [user : Users, device : Devices, revoked : BOOLEAN, version : Nat]
DeviceDocs  == [revoked : BOOLEAN, owner : Users \cup {NoUser}]
RequestDocs == [status  : {"pending", "approved", "rejected", "consumed"},
                user    : Users, device : Devices, session : Sessions]

SessionSteps == {"refresh", "establish", "reauthorize", "revoke session"}
DeviceSteps  == {"status", "unrevoke", "revoke device"}
RequestSteps == {"consume", "approve", "reject"}

\* A request being served: the handler (op), the database call it makes next
\* (step), the caller, the documents concerned, what the handler read of them
\* (existed, sawRevoked, sawDeviceRevoked) and what entitles it to restore.
Jobs ==
  [op               : {"refresh", "reauth", "file", "resolve", "revoke",
                       "unrevoke", "monitor"},
   step             : SessionSteps \cup DeviceSteps \cup RequestSteps
                        \cup {"claim", "file"},
   by               : Tokens,
   session          : Sessions,
   device           : Devices,
   request          : Requests \cup {NoRequest},
   existed          : BOOLEAN,
   sawRevoked       : BOOLEAN,
   sawDeviceRevoked : BOOLEAN,
   authority        : {"none", "self", "grant"}]

TypeOK ==
  /\ sessions     \in [Sessions -> SessionDocs \cup {NoSession}]
  /\ devices      \in [Devices -> DeviceDocs]
  /\ requests     \in [Requests -> RequestDocs \cup {Unfiled}]
  /\ job          \in [Workers -> Jobs \cup {Idle}]
  /\ loaded       \in [Workers -> SessionDocs \cup DeviceDocs \cup RequestDocs
                                    \cup {NoSession, NoCopy}]
  /\ restorations \in [Requests -> Nat]
  /\ retired      \in [Sessions -> SUBSET Nat]

Init ==
  /\ sessions     = [s \in Sessions |-> NoSession]
  /\ devices      = [d \in Devices |-> [revoked |-> FALSE, owner |-> NoUser]]
  /\ requests     = [r \in Requests |-> Unfiled]
  /\ job          = [w \in Workers |-> Idle]
  /\ loaded       = [w \in Workers |-> NoCopy]
  /\ restorations = [r \in Requests |-> 0]
  /\ retired      = [s \in Sessions |-> {}]

-----------------------------------------------------------------------------
(***************************************************************************)
(* Facts about documents.                                                  *)
(***************************************************************************)

Exists(s)  == sessions[s] # NoSession
Revoked(s) == Exists(s) /\ sessions[s].revoked

IsAdmin(t) == t.role = "ADMIN"

\* require_owner_or_admin.
OwnerOrAdmin(t, owner) == IsAdmin(t) \/ owner = t.user

Matching(r, t, d, s) ==
  /\ requests[r] # Unfiled
  /\ requests[r].user = t.user /\ requests[r].device = d
  /\ requests[r].session = s

\* get_approved_for, or the request named in the call when it matches.
GrantsFor(t, d, s) ==
  {r \in Requests : Matching(r, t, d, s) /\ requests[r].status = "approved"}

\* has_pending_for.
HasPending(t, d, s) ==
  \E r \in Requests : Matching(r, t, d, s) /\ requests[r].status = "pending"

-----------------------------------------------------------------------------
(***************************************************************************)
(* Handlers and the store.                                                 *)
(***************************************************************************)

At(w, step) == job[w].step = step

Documents == <<sessions, devices, requests>>
Histories == <<restorations, retired>>

Begin(w, op, step, t, s, d) ==
  /\ job[w] = Idle
  /\ job' = [job EXCEPT ![w] =
       [op |-> op, step |-> step, by |-> t, session |-> s, device |-> d,
        request |-> NoRequest, existed |-> Exists(s), sawRevoked |-> Revoked(s),
        sawDeviceRevoked |-> FALSE, authority |-> "none"]]
  /\ UNCHANGED <<Documents, loaded, Histories>>

Continue(w, step) == job' = [job EXCEPT ![w].step = step]

Reply(w) == job' = [job EXCEPT ![w] = Idle]

\* The document that the next database call of w updates.
Document(w) ==
  CASE job[w].step \in SessionSteps -> sessions[job[w].session]
    [] job[w].step \in DeviceSteps  -> devices[job[w].device]
    [] job[w].step \in RequestSteps -> requests[job[w].request]
    [] job[w].step = "claim"        -> devices[sessions[job[w].session].device]

\* EncryptedCollection: find, decrypt.
Load(w) ==
  /\ ~AtomicUpdates
  /\ job[w] # Idle /\ ~At(w, "file")
  /\ loaded[w] = NoCopy
  /\ loaded' = [loaded EXCEPT ![w] = Document(w)]
  /\ UNCHANGED <<Documents, job, Histories>>

\* The document an update starts from.
Seen(w) == IF AtomicUpdates THEN Document(w) ELSE loaded[w]

\* w makes the call: the copy, if any, is used up.
Update(w, step) ==
  /\ At(w, step)
  /\ AtomicUpdates \/ loaded[w] # NoCopy
  /\ loaded' = [loaded EXCEPT ![w] = NoCopy]

-----------------------------------------------------------------------------
(***************************************************************************)
(* POST /sessions/{id}/refresh and /sessions/{id}/reauthenticate begin by  *)
(* reading the session, then the device status.                            *)
(***************************************************************************)

Bounded(s) == sessions[s].version <= MaxVersion

BeginRefresh(w, t, s, d) ==
  /\ Bounded(s)
  /\ Begin(w, "refresh", "status", t, s, d)

\* The device of an existing session is the session's, not the payload's.
BeginReauth(w, t, s, d) ==
  /\ Bounded(s)
  /\ Exists(s) => d = sessions[s].device
  /\ Begin(w, "reauth", "status", t, s, d)

\* devices.get_status is an update too: it inserts a missing document.
Status(w) ==
  /\ Update(w, "status")
  /\ devices' = [devices EXCEPT ![job[w].device] = Seen(w)]

\* An existing session is its user's, or an ADMIN's to act on; a new one is
\* refused on a device that somebody else owns.
MayUse(j) ==
  IF j.existed
    THEN OwnerOrAdmin(j.by, sessions[j.session].user)
    ELSE \/ devices[j.device].owner = NoUser
         \/ OwnerOrAdmin(j.by, devices[j.device].owner)

RefreshStatus(w) ==
  LET j == job[w] IN
  /\ Status(w)
  /\ j.op = "refresh"
  /\ IF Seen(w).revoked \/ ~MayUse(j)
       THEN Reply(w)
       ELSE Continue(w, IF j.existed THEN "refresh" ELSE "establish")
  /\ UNCHANGED <<sessions, requests, Histories>>

\* An ADMIN restores what is the ADMIN's own, or nobody's.
SelfService(j) ==
  /\ IsAdmin(j.by)
  /\ j.existed => sessions[j.session].user = j.by.user
  /\ devices[j.device].owner \in {NoUser, j.by.user}

\* What entitles the caller to cross a revocation.
Authorities(j) ==
  IF SelfService(j) THEN {[authority |-> "self", request |-> NoRequest]}
  ELSE IF GrantsFor(j.by, j.device, j.session) # {}
    THEN {[authority |-> "grant", request |-> r] :
            r \in GrantsFor(j.by, j.device, j.session)}
    ELSE {[authority |-> "none", request |-> NoRequest]}

Restore(j) == IF j.existed THEN "reauthorize" ELSE "establish"

\* Fault: the gate looks at the device alone.
ReauthStatus_DeviceOnly(w) ==
  LET j == job[w] IN
  /\ Status(w)
  /\ j.op = "reauth"
  /\ \/ Reply(w)
     \/ \E a \in Authorities(j) :
          /\ Seen(w).revoked => a.authority # "none"
          /\ MayUse(j)
          /\ job' = [job EXCEPT ![w] =
               [j EXCEPT !.authority = a.authority, !.request = a.request,
                         !.sawDeviceRevoked = Seen(w).revoked,
                         !.step = CASE a.authority = "grant" -> "consume"
                                    [] a.authority = "self" /\ Seen(w).revoked
                                         -> "unrevoke"
                                    [] OTHER -> Restore(j)]]
  /\ UNCHANGED <<sessions, requests, Histories>>

\* The status, the look-up of a grant, the refusals and the face check.
ReauthStatus(w) ==
  LET j == job[w] IN
  /\ Status(w)
  /\ j.op = "reauth"
  /\ \/ Reply(w)    \* refused, or the face does not match
     \/ \E a \in Authorities(j) :
          /\ Seen(w).revoked \/ j.sawRevoked => a.authority # "none"
          /\ MayUse(j)
          /\ job' = [job EXCEPT ![w] =
               [j EXCEPT !.authority = a.authority, !.request = a.request,
                         !.sawDeviceRevoked = Seen(w).revoked,
                         !.step = CASE a.authority = "grant" -> "consume"
                                    [] a.authority = "self" /\ Seen(w).revoked
                                         -> "unrevoke"
                                    [] OTHER -> Restore(j)]]
  /\ UNCHANGED <<sessions, requests, Histories>>

-----------------------------------------------------------------------------
(***************************************************************************)
(* The updates those two handlers make.                                    *)
(***************************************************************************)

\* Fault: the update is not filtered on the status.
Consume_Unfiltered(w) ==
  LET j == job[w] IN
  /\ Update(w, "consume")
  /\ requests' = [requests EXCEPT ![j.request] =
                    [Seen(w) EXCEPT !.status = "consumed"]]
  /\ Continue(w, IF j.sawDeviceRevoked THEN "unrevoke" ELSE Restore(j))
  /\ UNCHANGED <<sessions, devices, Histories>>

\* consume_approved: the filter is status = approved.
Consume(w) ==
  LET j == job[w] IN
  /\ Update(w, "consume")
  /\ IF Seen(w).status = "approved"
       THEN /\ requests' = [requests EXCEPT ![j.request] =
                              [Seen(w) EXCEPT !.status = "consumed"]]
            /\ Continue(w, IF j.sawDeviceRevoked THEN "unrevoke" ELSE Restore(j))
       ELSE UNCHANGED requests /\ Reply(w)
  /\ UNCHANGED <<sessions, devices, Histories>>

\* devices.unrevoke, on the way to a restored session or for an ADMIN.
Unrevoke(w) ==
  LET j == job[w] IN
  /\ Update(w, "unrevoke")
  /\ devices' = [devices EXCEPT ![j.device] = [Seen(w) EXCEPT !.revoked = FALSE]]
  /\ IF j.op = "reauth" THEN Continue(w, Restore(j)) ELSE Reply(w)
  /\ UNCHANGED <<sessions, requests, Histories>>

\* Fault: a refresh un-revokes, as its docstring says.
Refresh_Unrevokes(w) ==
  LET s == job[w].session IN
  /\ Update(w, "refresh")
  /\ sessions' = [sessions EXCEPT ![s] =
                    [Seen(w) EXCEPT !.revoked = FALSE, !.version = @ + 1]]
  /\ Continue(w, "claim")
  /\ UNCHANGED <<devices, requests, Histories>>

\* sessions.refresh: the filter is revoked # true.
Refresh(w) ==
  LET s == job[w].session IN
  /\ Update(w, "refresh")
  /\ IF Seen(w).revoked
       THEN UNCHANGED sessions /\ Reply(w)
       ELSE /\ sessions' = [sessions EXCEPT ![s] =
                              [Seen(w) EXCEPT !.version = @ + 1]]
            /\ Continue(w, "claim")
  /\ UNCHANGED <<devices, requests, Histories>>

\* Fault: the version is not bumped.
Reauthorize_SameVersion(w) ==
  LET j == job[w] IN
  /\ Update(w, "reauthorize")
  /\ sessions' = [sessions EXCEPT ![j.session] = [Seen(w) EXCEPT !.revoked = FALSE]]
  /\ restorations' = [r \in Requests |->
       IF r = j.request THEN restorations[r] + 1 ELSE restorations[r]]
  /\ Continue(w, "claim")
  /\ UNCHANGED <<devices, requests, retired>>

\* sessions.reauthorize: no filter on revoked.
Reauthorize(w) ==
  LET j == job[w] IN
  /\ Update(w, "reauthorize")
  /\ sessions' = [sessions EXCEPT ![j.session] =
                    [Seen(w) EXCEPT !.revoked = FALSE, !.version = @ + 1]]
  /\ restorations' = [r \in Requests |->
       IF r = j.request THEN restorations[r] + 1 ELSE restorations[r]]
  /\ Continue(w, "claim")
  /\ UNCHANGED <<devices, requests, retired>>

\* Fault: the new document has no owner.
Establish_Unowned(w) ==
  LET j == job[w] IN
  /\ Update(w, "establish")
  /\ sessions' = [sessions EXCEPT ![j.session] =
       IF Seen(w) # NoSession THEN Seen(w)
       ELSE IF Exists(j.session) THEN @
       ELSE [user |-> NoUser, device |-> j.device,
             revoked |-> FALSE, version |-> 1]]
  /\ Continue(w, "claim")
  /\ UNCHANGED <<devices, requests, Histories>>

\* sessions.get_or_create: a document that appeared meanwhile is kept.
Establish(w) ==
  LET j == job[w] IN
  /\ Update(w, "establish")
  /\ sessions' = [sessions EXCEPT ![j.session] =
       IF Seen(w) # NoSession THEN Seen(w)
       ELSE IF Exists(j.session) THEN @
       ELSE [user |-> j.by.user, device |-> j.device,
             revoked |-> FALSE, version |-> 1]]
  /\ Continue(w, "claim")
  /\ UNCHANGED <<devices, requests, Histories>>

\* Fault: the last session's user becomes the owner.
Claim_Overwrites(w) ==
  LET session == sessions[job[w].session] IN
  /\ Update(w, "claim")
  /\ devices' = [devices EXCEPT ![session.device] =
       [Seen(w) EXCEPT !.owner = session.user]]
  /\ Reply(w)
  /\ UNCHANGED <<sessions, requests, Histories>>

\* devices.claim_owner(session.device_id, session.user_id).
Claim(w) ==
  LET session == sessions[job[w].session] IN
  /\ Update(w, "claim")
  /\ devices' = [devices EXCEPT ![session.device] =
       [Seen(w) EXCEPT !.owner = IF @ = NoUser THEN session.user ELSE @]]
  /\ Reply(w)
  /\ UNCHANGED <<sessions, requests, Histories>>

-----------------------------------------------------------------------------
(***************************************************************************)
(* Reauthorization requests: the user files one, an ADMIN decides it.      *)
(***************************************************************************)

BeginFile(w, t, s, d) ==
  /\ devices[d].owner = t.user \/ IsAdmin(t)
  /\ Exists(s) /\ sessions[s].user = t.user /\ sessions[s].device = d
  /\ ~HasPending(t, d, s)
  /\ Begin(w, "file", "file", t, s, d)

File(w) ==
  LET j == job[w] IN
  /\ At(w, "file")
  /\ \E r \in Requests :
       /\ requests[r] = Unfiled
       /\ requests' = [requests EXCEPT ![r] =
            [status |-> "pending", user |-> j.by.user,
             device |-> j.device, session |-> j.session]]
  /\ Reply(w)
  /\ UNCHANGED <<sessions, devices, loaded, Histories>>

BeginResolve(w, t, r, step) ==
  /\ IsAdmin(t)
  /\ requests[r] # Unfiled /\ requests[r].status = "pending"
  /\ job[w] = Idle
  /\ job' = [job EXCEPT ![w] =
       [op |-> "resolve", step |-> step, by |-> t,
        session |-> requests[r].session, device |-> requests[r].device,
        request |-> r, existed |-> TRUE, sawRevoked |-> FALSE,
        sawDeviceRevoked |-> FALSE, authority |-> "none"]]
  /\ UNCHANGED <<Documents, loaded, Histories>>

\* requests.resolve: the filter is status = pending.
Resolve(w, step, status) ==
  /\ Update(w, step)
  /\ requests' = IF Seen(w).status = "pending"
                   THEN [requests EXCEPT ![job[w].request] =
                           [Seen(w) EXCEPT !.status = status]]
                   ELSE requests
  /\ Reply(w)
  /\ UNCHANGED <<sessions, devices, Histories>>

-----------------------------------------------------------------------------
(***************************************************************************)
(* Revocation: by an ADMIN, not of what is the ADMIN's own, and of a       *)
(* session by its monitoring or by Qira's enforcement.  (Monitoring would  *)
(* revoke the device too, after denied requests that no router reports.)   *)
(* An ADMIN can also unrevoke a device, directly or by resolving one of    *)
(* its incidents; the session named in such a call plays no part in it.    *)
(***************************************************************************)

BeginRevokeSession(w, t, s) ==
  /\ IsAdmin(t)
  /\ Exists(s) /\ sessions[s].user # t.user
  /\ Begin(w, "revoke", "revoke session", t, s, sessions[s].device)

BeginRevokeDevice(w, t, s, d) ==
  /\ IsAdmin(t)
  /\ devices[d].owner # t.user
  /\ Begin(w, "revoke", "revoke device", t, s, d)

\* Fault: the route does not require the ADMIN role.
BeginUnrevokeDevice_AnyRole(w, t, s, d) ==
  Begin(w, "unrevoke", "unrevoke", t, s, d)

BeginUnrevokeDevice(w, t, s, d) ==
  /\ IsAdmin(t)
  /\ Begin(w, "unrevoke", "unrevoke", t, s, d)

BeginMonitorRevokes(w, t, s) ==
  /\ Exists(s) /\ sessions[s].user = t.user /\ ~Revoked(s)
  /\ Begin(w, "monitor", "revoke session", t, s, sessions[s].device)

RevokeSession(w) ==
  LET j == job[w] IN
  /\ Update(w, "revoke session")
  /\ sessions' = [sessions EXCEPT ![j.session] = [Seen(w) EXCEPT !.revoked = TRUE]]
  /\ retired' = [retired EXCEPT ![j.session] = @ \cup {Seen(w).version}]
  /\ Reply(w)
  /\ UNCHANGED <<devices, requests, restorations>>

RevokeDevice(w) ==
  LET j == job[w] IN
  /\ Update(w, "revoke device")
  /\ devices' = [devices EXCEPT ![j.device] = [Seen(w) EXCEPT !.revoked = TRUE]]
  /\ Reply(w)
  /\ UNCHANGED <<sessions, requests, Histories>>

-----------------------------------------------------------------------------
\* An exception in a database call, or the process ending.
Abort(w) ==
  /\ job[w] # Idle
  /\ Reply(w)
  /\ loaded' = [loaded EXCEPT ![w] = NoCopy]
  /\ UNCHANGED <<Documents, Histories>>

Arrival(w) ==
  \E t \in Tokens :
    \/ \E s \in Sessions, d \in Devices :
         \/ BeginRefresh(w, t, s, d)
         \/ BeginReauth(w, t, s, d)
         \/ BeginFile(w, t, s, d)
         \/ BeginRevokeDevice(w, t, s, d)
         \/ BeginUnrevokeDevice(w, t, s, d)
    \/ \E s \in Sessions : BeginRevokeSession(w, t, s) \/ BeginMonitorRevokes(w, t, s)
    \/ \E r \in Requests, step \in {"approve", "reject"} : BeginResolve(w, t, r, step)

HandlerStep(w) ==
  \/ RefreshStatus(w) \/ ReauthStatus(w)
  \/ Consume(w) \/ Unrevoke(w) \/ Refresh(w) \/ Reauthorize(w)
  \/ Establish(w) \/ Claim(w) \/ File(w)
  \/ Resolve(w, "approve", "approved") \/ Resolve(w, "reject", "rejected")
  \/ RevokeSession(w) \/ RevokeDevice(w)

Next == \E w \in Workers : Arrival(w) \/ Load(w) \/ HandlerStep(w) \/ Abort(w)

Spec == Init /\ [][Next]_vars

-----------------------------------------------------------------------------
(***************************************************************************)
(* Properties when updates are atomic.                                     *)
(***************************************************************************)

\* One administrator's decision restores at most one session, however many
\* reauthentications present the grant at once, and only a consumed grant does.
OneRestorePerGrant ==
  \A r \in Requests :
    /\ restorations[r] <= 1
    /\ restorations[r] = 1 => requests[r].status = "consumed"

\* A version under which a session was revoked is never authorized again, so
\* nothing bound to it can be opened after the session is restored.
RetiredVersions ==
  \A s \in Sessions :
    Exists(s) /\ ~Revoked(s) => sessions[s].version \notin retired[s]

Restores(w, s) == At(w, "reauthorize") /\ job[w].session = s

\* Only a reauthentication clears a session's revocation, and one that began
\* after the revocation only with authority: an ADMIN restoring the ADMIN's
\* own session, or a consumed grant for this caller and this session.
EarlierRevocationsHold ==
  [][\A s \in Sessions :
       Revoked(s) /\ ~Revoked(s)' =>
         \E w \in Workers :
           /\ Restores(w, s)
           /\ job[w].sawRevoked =>
                \/ IsAdmin(job[w].by) /\ sessions[s].user = job[w].by.user
                \/ /\ job[w].request # NoRequest
                   /\ Matching(job[w].request, job[w].by, job[w].device, s)
                   /\ requests[job[w].request].status = "consumed"]_sessions

\* A device stays revoked until an ADMIN restores it or a handler that has
\* consumed a grant for that very device does.
DeviceRestoredByGrant ==
  [][\A d \in Devices :
       devices[d].revoked /\ ~devices'[d].revoked =>
         \E w \in Workers :
           /\ At(w, "unrevoke") /\ job[w].device = d
           /\ \/ IsAdmin(job[w].by)
              \/ /\ job[w].request # NoRequest
                 /\ requests[job[w].request].device = d
                 /\ requests[job[w].request].status = "consumed"]_devices

-----------------------------------------------------------------------------
(***************************************************************************)
(* What the comments in the code say: true of requests that do not overlap.*)
(***************************************************************************)

\* A caller crosses a revoked session boundary only with authority, whenever
\* the revocation happened.
RestoredWithAuthority ==
  [][\A s \in Sessions :
       Revoked(s) /\ ~Revoked(s)' =>
         \E w \in Workers : Restores(w, s) /\ job[w].authority # "none"]_sessions

\* claim_owner never transfers a device, and neither does any other update.
OwnersKept ==
  [][\A d \in Devices :
       devices[d].owner # NoUser => devices'[d].owner = devices[d].owner]_devices

\* No refresh ever flips revoked back to false.
RefreshKeepsRevoked ==
  [][\A w \in Workers :
       At(w, "refresh") /\ job'[w].step # "refresh" =>
         \A s \in Sessions : Revoked(s) => Revoked(s)']_vars

\* The promise these handlers implement: a request that was approved, and perhaps
\* consumed, is a grant, and one that has restored its session is spent.
Admins == {t.user : t \in {x \in Tokens : IsAdmin(x)}}

GrantedSession(r) ==
  IF requests[r] # Unfiled /\ requests[r].status \in {"approved", "consumed"}
    THEN requests[r].session
    ELSE NoSession

Promise == INSTANCE RevocableSessions
             WITH session <- sessions,
                  owner   <- [d \in Devices |-> devices[d].owner],
                  grant   <- [r \in Requests |-> GrantedSession(r)],
                  spent   <- {r \in Requests : restorations[r] > 0}

\* Revoked sessions come back, grants are spent and devices are claimed only as the
\* promise says, through crashes between the calls of a handler and over either store.
PromiseKept == Promise!Spec
=============================================================================
