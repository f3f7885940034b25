----------------------- MODULE SessionAuthorityProofs -----------------------
(***************************************************************************)
(* For any number of workers, sessions, devices and requests, over a store *)
(* whose updates are atomic, or over the encrypted one with one request at *)
(* a time (Isolated): types are kept; one grant restores at most one       *)
(* session; a retired version is not used again; a refresh restores        *)
(* nothing; devices keep their owners; and revocations of sessions and     *)
(* devices are lifted only by those entitled to.  With one request at a    *)
(* time the module implements RevocableSessions, and the encrypted store   *)
(* implements the plain one.                                               *)
(*                                                                         *)
(* The argument about the store comes first: under Isolated every update   *)
(* starts from the document as it is (Coherent), and the rest is about     *)
(* single updates of current documents.                                    *)
(***************************************************************************)
EXTENDS SessionAuthority, TLAPS

-----------------------------------------------------------------------------
(***************************************************************************)
(* Types.  A handler past its first reads relies on documents that exist.  *)
(***************************************************************************)

NeedsSession(j) ==
  j.step \in {"refresh", "reauthorize", "revoke session", "claim"}

NeedsRequest(j) == j.step \in RequestSteps

GroundedJob(j, ss, rs) ==
  /\ NeedsSession(j) => ss[j.session] # NoSession
  /\ NeedsRequest(j) => j.request \in Requests /\ rs[j.request] # Unfiled
  /\ j.op \in {"refresh", "reauth"} /\ j.existed => ss[j.session] # NoSession
  /\ j.step = "consume" => j.op = "reauth"

Grounded ==
  \A w \in Workers : job[w] # Idle => GroundedJob(job[w], sessions, requests)

Typed == TypeOK /\ Grounded

\* An update starts from the document as it is: either the store applies it in one
\* step, or no other request comes between the load and the update.
Ready(w) == AtomicUpdates \/ loaded[w] # NoCopy

Coherent == \A w \in Workers : Ready(w) /\ job[w] # Idle => Seen(w) = Document(w)

Isolated == AtomicUpdates \/ \A v, w \in Workers : v = w

LEMMA JobTyped ==
  ASSUME TypeOK, NEW w \in Workers, job[w] # Idle
  PROVE  job[w] \in Jobs
BY DEF TypeOK

\* The document an update works on.
LEMMA SeenSession ==
  ASSUME Coherent, TypeOK, NEW w \in Workers, Ready(w), job[w] # Idle,
         job[w].step \in SessionSteps
  PROVE  /\ Seen(w) = sessions[job[w].session]
         /\ Seen(w) \in SessionDocs \cup {NoSession}
<1>1. Seen(w) = sessions[job[w].session]
  BY DEF Coherent, Document, SessionSteps, DeviceSteps, RequestSteps
<1>2. job[w].session \in Sessions
  BY JobTyped DEF Jobs
<1> QED
  BY <1>1, <1>2 DEF TypeOK

LEMMA SeenDevice ==
  ASSUME Coherent, TypeOK, NEW w \in Workers, Ready(w), job[w] # Idle,
         job[w].step \in DeviceSteps
  PROVE  /\ Seen(w) = devices[job[w].device]
         /\ Seen(w) \in DeviceDocs
<1>1. Seen(w) = devices[job[w].device]
  BY DEF Coherent, Document, SessionSteps, DeviceSteps, RequestSteps
<1>2. job[w].device \in Devices
  BY JobTyped DEF Jobs
<1> QED
  BY <1>1, <1>2 DEF TypeOK

LEMMA SeenRequest ==
  ASSUME Coherent, Typed, NEW w \in Workers, Ready(w), job[w] # Idle,
         job[w].step \in RequestSteps
  PROVE  /\ Seen(w) = requests[job[w].request]
         /\ job[w].request \in Requests
         /\ Seen(w) \in RequestDocs
<1>1. Seen(w) = requests[job[w].request]
  BY DEF Coherent, Document, SessionSteps, DeviceSteps, RequestSteps
<1>2. job[w].request \in Requests /\ requests[job[w].request] # Unfiled
  BY DEF Typed, Grounded, GroundedJob, NeedsRequest
<1> QED
  BY <1>1, <1>2 DEF Typed, TypeOK

LEMMA SeenOwner ==
  ASSUME Coherent, Typed, NEW w \in Workers, Ready(w), job[w] # Idle,
         job[w].step = "claim"
  PROVE  /\ sessions[job[w].session] \in SessionDocs
         /\ Seen(w) = devices[sessions[job[w].session].device]
         /\ Seen(w) \in DeviceDocs
<1>1. job[w].session \in Sessions
  BY JobTyped DEF Jobs, Typed
<1>2. sessions[job[w].session] # NoSession
  BY DEF Typed, Grounded, GroundedJob, NeedsSession
<1>3. sessions[job[w].session] \in SessionDocs
  BY <1>1, <1>2 DEF Typed, TypeOK
<1>4. Seen(w) = devices[sessions[job[w].session].device]
  BY DEF Coherent, Document, SessionSteps, DeviceSteps, RequestSteps
<1>5. sessions[job[w].session].device \in Devices
  BY <1>3 DEF SessionDocs
<1> QED
  BY <1>3, <1>4, <1>5 DEF Typed, TypeOK

LEMMA JobSteps ==
  \A j \in Jobs :
    \A step \in SessionSteps \cup DeviceSteps \cup RequestSteps \cup {"claim", "file"} :
      [j EXCEPT !.step = step] \in Jobs
BY DEF Jobs

LEMMA BeginType ==
  ASSUME TypeOK, NEW w \in Workers, NEW t \in Tokens, NEW s \in Sessions,
         NEW d \in Devices,
         NEW op \in {"refresh", "reauth", "file", "revoke", "unrevoke", "monitor"},
         NEW step \in {"status", "file", "revoke session", "revoke device", "unrevoke"},
         Begin(w, op, step, t, s, d)
  PROVE  TypeOK'
<1> DEFINE j == [op |-> op, step |-> step, by |-> t, session |-> s, device |-> d,
                 request |-> NoRequest, existed |-> Exists(s),
                 sawRevoked |-> Revoked(s), sawDeviceRevoked |-> FALSE,
                 authority |-> "none"]
<1>1. Exists(s) \in BOOLEAN /\ Revoked(s) \in BOOLEAN
  BY DEF Exists, Revoked, TypeOK, SessionDocs
<1>2. j \in Jobs
  BY <1>1 DEF Jobs, SessionSteps, DeviceSteps, RequestSteps
<1> HIDE DEF j
<1>3. job' = [job EXCEPT ![w] = j]
  BY DEF Begin, j
<1> QED
  BY <1>2, <1>3 DEF TypeOK, Begin, Documents, Histories

\* Whoever is entitled to restore by a grant holds a request that was filed.
LEMMA AuthorityTypes ==
  ASSUME TypeOK, NEW j \in Jobs, NEW a \in Authorities(j)
  PROVE  /\ a.authority \in {"none", "self", "grant"}
         /\ a.request \in Requests \cup {NoRequest}
         /\ a.authority = "grant" =>
              /\ a.request \in Requests
              /\ requests[a.request] # Unfiled
         /\ a.authority # "grant" => a.request = NoRequest
BY DEF Authorities, GrantsFor, Matching

\* What it takes for an update to keep the types, one collection at a time.
LEMMA Reply_Continue ==
  ASSUME TypeOK, NEW w \in Workers, job[w] # Idle
  PROVE  /\ Reply(w) => job' \in [Workers -> Jobs \cup {Idle}]
         /\ \A step \in SessionSteps \cup DeviceSteps \cup RequestSteps
                            \cup {"claim", "file"} :
              Continue(w, step) => job' \in [Workers -> Jobs \cup {Idle}]
<1>1. Reply(w) => job' \in [Workers -> Jobs \cup {Idle}]
  BY DEF Reply, TypeOK
<1>2. ASSUME NEW step \in SessionSteps \cup DeviceSteps \cup RequestSteps
                            \cup {"claim", "file"}, Continue(w, step)
      PROVE  job' \in [Workers -> Jobs \cup {Idle}]
  <2>1. [job[w] EXCEPT !.step = step] \in Jobs
    BY JobTyped, JobSteps
  <2> QED
    BY <1>2, <2>1 DEF Continue, TypeOK
<1> QED
  BY <1>1, <1>2

LEMMA UpdateLoaded ==
  ASSUME TypeOK, NEW w \in Workers, NEW step, Update(w, step)
  PROVE  loaded' \in [Workers -> SessionDocs \cup DeviceDocs \cup RequestDocs
                                  \cup {NoSession, NoCopy}]
BY DEF Update, TypeOK

LEMMA UpdateBusy ==
  ASSUME NEW w \in Workers, NEW step, Update(w, step), step # "idle"
  PROVE  job[w] # Idle /\ Ready(w) /\ job[w].step = step
BY DEF Update, At, Idle, Ready

LEMMA StatusTypes ==
  ASSUME Coherent, TypeOK, NEW w \in Workers, Status(w)
  PROVE  devices' = devices
<1>1. job[w] # Idle /\ Ready(w) /\ job[w].step = "status"
  BY UpdateBusy DEF Status
<1>2. Seen(w) = devices[job[w].device]
  BY <1>1, SeenDevice DEF DeviceSteps
<1> QED
  BY <1>2 DEF Status, TypeOK

LEMMA HandlerTypes ==
  ASSUME Coherent, Typed, NEW w \in Workers, HandlerStep(w)
  PROVE  TypeOK'
<1> DEFINE j == job[w]
<1> USE DEF Typed
<1>1. CASE RefreshStatus(w)
  <2>1. job[w] # Idle /\ devices' = devices /\ Update(w, "status")
    BY <1>1, UpdateBusy, StatusTypes DEF RefreshStatus, Status
  <2>2. job' \in [Workers -> Jobs \cup {Idle}]
    BY <1>1, <2>1, Reply_Continue DEF RefreshStatus, SessionSteps
  <2> QED
    BY <1>1, <2>1, <2>2, UpdateLoaded DEF RefreshStatus, TypeOK, Histories
<1>2. CASE ReauthStatus(w)
  <2>1. job[w] # Idle /\ devices' = devices /\ Update(w, "status")
    BY <1>2, UpdateBusy, StatusTypes DEF ReauthStatus, Status
  <2>2. j \in Jobs
    BY <2>1, JobTyped
  <2>3. job' \in [Workers -> Jobs \cup {Idle}]
    <3>1. CASE Reply(w)
      BY <2>1, <3>1, Reply_Continue
    <3>2. ASSUME NEW a \in Authorities(j),
                 job' = [job EXCEPT ![w] =
                   [j EXCEPT !.authority = a.authority, !.request = a.request,
                             !.sawDeviceRevoked = Seen(w).revoked,
                             !.step = CASE a.authority = "grant" -> "consume"
                                        [] a.authority = "self" /\ Seen(w).revoked
                                             -> "unrevoke"
                                        [] OTHER -> Restore(j)]]
          PROVE  job' \in [Workers -> Jobs \cup {Idle}]
      <4> DEFINE step == CASE a.authority = "grant" -> "consume"
                           [] a.authority = "self" /\ Seen(w).revoked -> "unrevoke"
                           [] OTHER -> Restore(j)
      <4>1. step \in SessionSteps \cup DeviceSteps \cup RequestSteps \cup {"claim", "file"}
        BY DEF SessionSteps, DeviceSteps, RequestSteps, Restore
      <4>2. Seen(w).revoked \in BOOLEAN
        BY <2>1, UpdateBusy, SeenDevice DEF DeviceSteps, DeviceDocs
      <4>3. a.authority \in {"none", "self", "grant"} /\ a.request \in Requests \cup {NoRequest}
        BY <2>2, AuthorityTypes
      <4> HIDE DEF step
      <4>4. [j EXCEPT !.authority = a.authority, !.request = a.request,
                      !.sawDeviceRevoked = Seen(w).revoked, !.step = step] \in Jobs
        BY <2>2, <4>1, <4>2, <4>3 DEF Jobs
      <4> QED
        BY <3>2, <4>4 DEF step, TypeOK
    <3> QED
      BY <1>2, <3>1, <3>2 DEF ReauthStatus
  <2> QED
    BY <1>2, <2>1, <2>3, UpdateLoaded DEF ReauthStatus, TypeOK, Histories
<1>3. CASE Consume(w)
  <2>1. Update(w, "consume") /\ job[w] # Idle /\ Ready(w) /\ job[w].step = "consume"
    BY <1>3, UpdateBusy DEF Consume
  <2>2. Seen(w) \in RequestDocs /\ j.request \in Requests
    BY <2>1, SeenRequest DEF RequestSteps
  <2>3. [Seen(w) EXCEPT !.status = "consumed"] \in RequestDocs
    BY <2>2 DEF RequestDocs
  <2>4. requests' \in [Requests -> RequestDocs \cup {Unfiled}]
    BY <1>3, <2>2, <2>3 DEF Consume, TypeOK
  <2>5. job' \in [Workers -> Jobs \cup {Idle}]
    BY <1>3, <2>1, Reply_Continue DEF Consume, Restore, SessionSteps, DeviceSteps
  <2> QED
    BY <1>3, <2>1, <2>4, <2>5, UpdateLoaded DEF Consume, TypeOK, Histories
<1>4. CASE Unrevoke(w)
  <2>1. Update(w, "unrevoke") /\ job[w] # Idle /\ Ready(w) /\ job[w].step = "unrevoke"
    BY <1>4, UpdateBusy DEF Unrevoke
  <2>2. [Seen(w) EXCEPT !.revoked = FALSE] \in DeviceDocs
    BY <2>1, SeenDevice DEF DeviceSteps, DeviceDocs
  <2>3. devices' \in [Devices -> DeviceDocs]
    BY <1>4, <2>2 DEF Unrevoke, TypeOK
  <2>4. job' \in [Workers -> Jobs \cup {Idle}]
    BY <1>4, <2>1, Reply_Continue DEF Unrevoke, Restore, SessionSteps
  <2> QED
    BY <1>4, <2>1, <2>3, <2>4, UpdateLoaded DEF Unrevoke, TypeOK, Histories
<1>5. CASE Refresh(w)
  <2>1. Update(w, "refresh") /\ job[w] # Idle /\ Ready(w) /\ job[w].step = "refresh"
    BY <1>5, UpdateBusy DEF Refresh
  <2>2. Seen(w) \in SessionDocs
    BY <2>1, SeenSession DEF SessionSteps, Grounded, GroundedJob, NeedsSession
  <2>3. [Seen(w) EXCEPT !.version = @ + 1] \in SessionDocs
    BY <2>2 DEF SessionDocs
  <2>4. sessions' \in [Sessions -> SessionDocs \cup {NoSession}]
    BY <1>5, <2>3 DEF Refresh, TypeOK
  <2>5. job' \in [Workers -> Jobs \cup {Idle}]
    BY <1>5, <2>1, Reply_Continue DEF Refresh
  <2> QED
    BY <1>5, <2>1, <2>4, <2>5, UpdateLoaded DEF Refresh, TypeOK, Histories
<1>6. CASE Reauthorize(w)
  <2>1. Update(w, "reauthorize") /\ job[w] # Idle /\ Ready(w) /\ job[w].step = "reauthorize"
    BY <1>6, UpdateBusy DEF Reauthorize
  <2>2. Seen(w) \in SessionDocs
    BY <2>1, SeenSession DEF SessionSteps, Grounded, GroundedJob, NeedsSession
  <2> DEFINE next == Seen(w).version + 1
  <2>a. next \in Nat
    BY <2>2 DEF SessionDocs
  <2> HIDE DEF next
  <2>b. [Seen(w) EXCEPT !.revoked = FALSE, !.version = next] \in SessionDocs
    BY <2>2, <2>a DEF SessionDocs
  <2>3. [Seen(w) EXCEPT !.revoked = FALSE, !.version = @ + 1] \in SessionDocs
    BY <2>b DEF next
  <2>4. sessions' \in [Sessions -> SessionDocs \cup {NoSession}]
    BY <1>6, <2>3 DEF Reauthorize, TypeOK
  <2>5. job' \in [Workers -> Jobs \cup {Idle}]
    BY <1>6, <2>1, Reply_Continue DEF Reauthorize
  <2>6. restorations' \in [Requests -> Nat]
    BY <1>6 DEF Reauthorize, TypeOK
  <2> QED
    BY <1>6, <2>1, <2>4, <2>5, <2>6, UpdateLoaded DEF Reauthorize, TypeOK
<1>7. CASE Establish(w)
  <2>1. Update(w, "establish") /\ job[w] # Idle /\ Ready(w) /\ job[w].step = "establish"
    BY <1>7, UpdateBusy DEF Establish
  <2>2. j \in Jobs /\ Seen(w) \in SessionDocs \cup {NoSession}
    BY <2>1, JobTyped, SeenSession DEF SessionSteps
  <2>3. [user |-> j.by.user, device |-> j.device, revoked |-> FALSE, version |-> 1]
           \in SessionDocs
    BY <2>2 DEF SessionDocs, Jobs, Users
  <2>4. sessions' \in [Sessions -> SessionDocs \cup {NoSession}]
    BY <1>7, <2>2, <2>3 DEF Establish, TypeOK
  <2>5. job' \in [Workers -> Jobs \cup {Idle}]
    BY <1>7, <2>1, Reply_Continue DEF Establish
  <2> QED
    BY <1>7, <2>1, <2>4, <2>5, UpdateLoaded DEF Establish, TypeOK, Histories
<1>8. CASE Claim(w)
  <2>1. Update(w, "claim") /\ job[w] # Idle /\ Ready(w) /\ job[w].step = "claim"
    BY <1>8, UpdateBusy DEF Claim
  <2>2. Seen(w) \in DeviceDocs /\ sessions[j.session] \in SessionDocs
    BY <2>1, SeenOwner
  <2>3. [Seen(w) EXCEPT !.owner = IF @ = NoUser THEN sessions[j.session].user ELSE @]
           \in DeviceDocs
    BY <2>2 DEF DeviceDocs, SessionDocs
  <2>4. devices' \in [Devices -> DeviceDocs]
    BY <1>8, <2>3 DEF Claim, TypeOK
  <2>5. job' \in [Workers -> Jobs \cup {Idle}]
    BY <1>8, <2>1, Reply_Continue DEF Claim
  <2> QED
    BY <1>8, <2>1, <2>4, <2>5, UpdateLoaded DEF Claim, TypeOK, Histories
<1>9. CASE File(w)
  <2>1. job[w] # Idle
    BY <1>9 DEF File, At, Idle
  <2>2. j \in Jobs
    BY <2>1, JobTyped
  <2>3. [status |-> "pending", user |-> j.by.user, device |-> j.device,
         session |-> j.session] \in RequestDocs
    BY <2>2 DEF RequestDocs, Jobs, Users
  <2>4. requests' \in [Requests -> RequestDocs \cup {Unfiled}]
    BY <1>9, <2>3 DEF File, TypeOK
  <2>5. job' \in [Workers -> Jobs \cup {Idle}]
    BY <1>9, <2>1, Reply_Continue DEF File
  <2> QED
    BY <1>9, <2>4, <2>5 DEF File, TypeOK, Histories
<1>10. ASSUME NEW step \in {"approve", "reject"},
              NEW status \in {"approved", "rejected"}, Resolve(w, step, status)
       PROVE  TypeOK'
  <2>1. Update(w, step) /\ job[w] # Idle /\ Ready(w) /\ job[w].step = step
    BY <1>10, UpdateBusy DEF Resolve
  <2>2. Seen(w) \in RequestDocs
    BY <2>1, SeenRequest DEF RequestSteps
  <2>3. [Seen(w) EXCEPT !.status = status] \in RequestDocs
    BY <2>2 DEF RequestDocs
  <2>4. requests' \in [Requests -> RequestDocs \cup {Unfiled}]
    BY <1>10, <2>3 DEF Resolve, TypeOK
  <2>5. job' \in [Workers -> Jobs \cup {Idle}]
    BY <1>10, <2>1, Reply_Continue DEF Resolve
  <2> QED
    BY <1>10, <2>1, <2>4, <2>5, UpdateLoaded DEF Resolve, TypeOK, Histories
<1>11. CASE RevokeSession(w)
  <2>1. /\ Update(w, "revoke session") /\ job[w] # Idle /\ Ready(w)
        /\ job[w].step = "revoke session"
    BY <1>11, UpdateBusy DEF RevokeSession
  <2>2. Seen(w) \in SessionDocs
    BY <2>1, SeenSession DEF SessionSteps, Grounded, GroundedJob, NeedsSession
  <2>3. [Seen(w) EXCEPT !.revoked = TRUE] \in SessionDocs /\ Seen(w).version \in Nat
    BY <2>2 DEF SessionDocs
  <2>4. sessions' \in [Sessions -> SessionDocs \cup {NoSession}]
    BY <1>11, <2>3 DEF RevokeSession, TypeOK
  <2>5. retired' \in [Sessions -> SUBSET Nat]
    BY <1>11, <2>3 DEF RevokeSession, TypeOK
  <2>6. job' \in [Workers -> Jobs \cup {Idle}]
    BY <1>11, <2>1, Reply_Continue DEF RevokeSession
  <2> QED
    BY <1>11, <2>1, <2>4, <2>5, <2>6, UpdateLoaded DEF RevokeSession, TypeOK
<1>12. CASE RevokeDevice(w)
  <2>1. /\ Update(w, "revoke device") /\ job[w] # Idle /\ Ready(w)
        /\ job[w].step = "revoke device"
    BY <1>12, UpdateBusy DEF RevokeDevice
  <2>2. [Seen(w) EXCEPT !.revoked = TRUE] \in DeviceDocs
    BY <2>1, SeenDevice DEF DeviceSteps, DeviceDocs
  <2>3. devices' \in [Devices -> DeviceDocs]
    BY <1>12, <2>2 DEF RevokeDevice, TypeOK
  <2>4. job' \in [Workers -> Jobs \cup {Idle}]
    BY <1>12, <2>1, Reply_Continue DEF RevokeDevice
  <2> QED
    BY <1>12, <2>1, <2>3, <2>4, UpdateLoaded DEF RevokeDevice, TypeOK, Histories
<1> QED
  BY <1>1, <1>2, <1>3, <1>4, <1>5, <1>6, <1>7, <1>8, <1>9, <1>10, <1>11, <1>12
  DEF HandlerStep

\* What the encrypted store loads is a document of one of the three collections.
LEMMA DocumentType ==
  ASSUME Typed, NEW w \in Workers, job[w] # Idle, ~At(w, "file")
  PROVE  Document(w) \in SessionDocs \cup DeviceDocs \cup RequestDocs \cup {NoSession}
<1> USE DEF Typed, SessionSteps, DeviceSteps, RequestSteps
<1>1. job[w] \in Jobs
  BY JobTyped
<1>2. CASE job[w].step \in SessionSteps
  <2>1. Document(w) = sessions[job[w].session]
    BY <1>2 DEF Document
  <2> QED
    BY <1>1, <2>1 DEF TypeOK, Jobs
<1>3. CASE job[w].step \in DeviceSteps
  <2>1. Document(w) = devices[job[w].device]
    BY <1>3 DEF Document
  <2>2. job[w].device \in Devices
    BY <1>1 DEF Jobs
  <2>3. devices[job[w].device] \in DeviceDocs
    BY <2>2 DEF TypeOK
  <2> QED
    BY <2>1, <2>3
<1>4. CASE job[w].step \in RequestSteps
  <2>1. Document(w) = requests[job[w].request]
    BY <1>4 DEF Document
  <2>2. job[w].request \in Requests /\ requests[job[w].request] # Unfiled
    BY <1>4 DEF Grounded, GroundedJob, NeedsRequest
  <2> QED
    BY <2>1, <2>2 DEF TypeOK
<1>5. CASE job[w].step = "claim"
  <2>1. Document(w) = devices[sessions[job[w].session].device]
    BY <1>5 DEF Document
  <2>2. job[w].session \in Sessions /\ sessions[job[w].session] # NoSession
    BY <1>1, <1>5 DEF Grounded, GroundedJob, NeedsSession, Jobs
  <2>3. sessions[job[w].session].device \in Devices
    BY <2>2 DEF TypeOK, SessionDocs
  <2> QED
    BY <2>1, <2>3 DEF TypeOK
<1> QED
  BY <1>1, <1>2, <1>3, <1>4, <1>5 DEF Jobs, At

LEMMA TypeStep ==
  ASSUME Coherent, Typed, [Next]_vars
  PROVE  TypeOK'
<1>1. CASE UNCHANGED vars
  BY <1>1 DEF vars, Typed, TypeOK
<1>2. ASSUME NEW w \in Workers, Arrival(w)
      PROVE  TypeOK'
  <2>1. ASSUME NEW t \in Tokens, NEW s \in Sessions, NEW d \in Devices,
               \/ BeginRefresh(w, t, s, d)
               \/ BeginReauth(w, t, s, d)
               \/ BeginFile(w, t, s, d)
               \/ BeginRevokeDevice(w, t, s, d)
               \/ BeginUnrevokeDevice(w, t, s, d)
        PROVE  TypeOK'
    BY <2>1, BeginType DEF Typed, BeginRefresh, BeginReauth, BeginFile,
       BeginRevokeDevice, BeginUnrevokeDevice
  <2>2. ASSUME NEW t \in Tokens, NEW s \in Sessions,
               BeginRevokeSession(w, t, s) \/ BeginMonitorRevokes(w, t, s)
        PROVE  TypeOK'
    <3>1. sessions[s].device \in Devices
      BY <2>2 DEF BeginRevokeSession, BeginMonitorRevokes, Exists, Typed, TypeOK,
                  SessionDocs
    <3> QED
      BY <2>2, <3>1, BeginType DEF Typed, BeginRevokeSession, BeginMonitorRevokes
  <2>3. ASSUME NEW t \in Tokens, NEW r \in Requests,
               NEW step \in {"approve", "reject"}, BeginResolve(w, t, r, step)
        PROVE  TypeOK'
    <3> DEFINE j == [op |-> "resolve", step |-> step, by |-> t,
                     session |-> requests[r].session, device |-> requests[r].device,
                     request |-> r, existed |-> TRUE, sawRevoked |-> FALSE,
                     sawDeviceRevoked |-> FALSE, authority |-> "none"]
    <3>1. requests[r] \in RequestDocs
      BY <2>3 DEF BeginResolve, Typed, TypeOK
    <3>2. j \in Jobs
      BY <3>1 DEF Jobs, RequestDocs, RequestSteps
    <3> HIDE DEF j
    <3>3. job' = [job EXCEPT ![w] = j]
      BY <2>3 DEF BeginResolve, j
    <3> QED
      BY <2>3, <3>2, <3>3 DEF BeginResolve, Typed, TypeOK, Documents, Histories
  <2> QED
    BY <1>2, <2>1, <2>2, <2>3 DEF Arrival
<1>3. ASSUME NEW w \in Workers, HandlerStep(w)
      PROVE  TypeOK'
  BY <1>3, HandlerTypes
<1>4. ASSUME NEW w \in Workers, Load(w) \/ Abort(w)
      PROVE  TypeOK'
  <2>1. CASE Load(w)
    <3>1. Document(w) \in SessionDocs \cup DeviceDocs \cup RequestDocs \cup {NoSession}
      BY <2>1, DocumentType DEF Load
    <3> QED
      BY <2>1, <3>1 DEF Load, Typed, TypeOK, Documents, Histories
  <2>2. CASE Abort(w)
    BY <2>2 DEF Abort, Reply, Typed, TypeOK, Documents, Histories
  <2> QED
    BY <1>4, <2>1, <2>2
<1> QED
  BY <1>1, <1>2, <1>3, <1>4 DEF Next

\* Documents are never deleted, and a consumed grant stays consumed.
SessionsLast == \A s \in Sessions : sessions[s] # NoSession => sessions'[s] # NoSession

RequestsLast ==
  \A r \in Requests :
    /\ requests[r] # Unfiled => requests'[r] # Unfiled
    /\ requests[r].status = "consumed" => requests'[r].status = "consumed"

LEMMA Lasting ==
  ASSUME Coherent, Typed, [Next]_vars
  PROVE  SessionsLast /\ RequestsLast
<1> USE DEF Typed
<1>1. UNCHANGED <<sessions, requests>> => SessionsLast /\ RequestsLast
  BY DEF SessionsLast, RequestsLast
<1>2. ASSUME NEW w \in Workers, Refresh(w) \/ Reauthorize(w) \/ RevokeSession(w)
      PROVE  SessionsLast /\ RequestsLast
  <2>1. job[w] # Idle /\ Ready(w) /\ job[w].step \in {"refresh", "reauthorize", "revoke session"}
    BY <1>2, UpdateBusy DEF Refresh, Reauthorize, RevokeSession
  <2>2. Seen(w) \in SessionDocs
    BY <2>1, SeenSession DEF SessionSteps, Grounded, GroundedJob, NeedsSession
  <2>3. /\ [Seen(w) EXCEPT !.revoked = FALSE, !.version = @ + 1] # NoSession
        /\ [Seen(w) EXCEPT !.version = @ + 1] # NoSession
        /\ [Seen(w) EXCEPT !.revoked = TRUE] # NoSession
    BY <2>2 DEF SessionDocs, NoSession
  <2> QED
    BY <1>2, <2>3 DEF SessionsLast, RequestsLast, Refresh, Reauthorize, RevokeSession, TypeOK, Histories
<1>3. ASSUME NEW w \in Workers, Establish(w)
      PROVE  SessionsLast /\ RequestsLast
  <2>1. job[w] # Idle /\ Ready(w) /\ job[w].step = "establish"
    BY <1>3, UpdateBusy DEF Establish
  <2>2. Seen(w) = sessions[job[w].session]
    BY <2>1, SeenSession DEF SessionSteps
  <2> QED
    BY <1>3, <2>2 DEF SessionsLast, RequestsLast, Establish, TypeOK, Exists
<1>4. ASSUME NEW w \in Workers, Consume(w)
      PROVE  SessionsLast /\ RequestsLast
  <2>1. job[w] # Idle /\ Ready(w) /\ job[w].step = "consume"
    BY <1>4, UpdateBusy DEF Consume
  <2>2. Seen(w) \in RequestDocs
    BY <2>1, SeenRequest DEF RequestSteps
  <2> DEFINE doc == [Seen(w) EXCEPT !.status = "consumed"]
  <2>3. doc.status = "consumed"
    BY <2>2 DEF RequestDocs
  <2>4. \/ requests' = requests
        \/ requests' = [requests EXCEPT ![job[w].request] = doc]
    BY <1>4 DEF Consume
  <2>5. sessions' = sessions
    BY <1>4 DEF Consume
  <2> HIDE DEF doc
  <2>6. doc # Unfiled
    BY <2>3 DEF Unfiled
  <2> QED
    BY <2>3, <2>4, <2>5, <2>6 DEF SessionsLast, RequestsLast, TypeOK
<1>5. ASSUME NEW w \in Workers, NEW step \in {"approve", "reject"},
             NEW status \in {"approved", "rejected"}, Resolve(w, step, status)
      PROVE  SessionsLast /\ RequestsLast
  <2>1. job[w] # Idle /\ Ready(w) /\ job[w].step = step
    BY <1>5, UpdateBusy DEF Resolve
  <2>2. Seen(w) = requests[job[w].request] /\ Seen(w) \in RequestDocs
    BY <2>1, SeenRequest DEF RequestSteps
  <2>3. [Seen(w) EXCEPT !.status = status].status = status
    BY <2>2 DEF RequestDocs
  <2> QED
    BY <1>5, <2>2, <2>3 DEF SessionsLast, RequestsLast, Resolve, TypeOK, Unfiled
<1>6. ASSUME NEW w \in Workers, File(w)
      PROVE  SessionsLast /\ RequestsLast
  BY <1>6 DEF SessionsLast, RequestsLast, File, TypeOK, Unfiled
<1>7. ASSUME NEW w \in Workers,
             Arrival(w) \/ Load(w) \/ Abort(w) \/ RefreshStatus(w) \/ ReauthStatus(w)
               \/ Unrevoke(w) \/ Claim(w) \/ RevokeDevice(w)
      PROVE  SessionsLast /\ RequestsLast
  <2>1. Arrival(w) => UNCHANGED <<sessions, requests>>
    <3>1. \A op, step, t, s, d : Begin(w, op, step, t, s, d) =>
            UNCHANGED <<sessions, requests>>
      BY DEF Begin, Documents, Histories
    <3>2. \A t, r, step : BeginResolve(w, t, r, step) =>
            UNCHANGED <<sessions, requests>>
      BY DEF BeginResolve, Documents, Histories
    <3> QED
      BY <3>1, <3>2 DEF Arrival, BeginRefresh, BeginReauth, BeginFile,
         BeginRevokeDevice, BeginUnrevokeDevice, BeginRevokeSession,
         BeginMonitorRevokes
  <2>2. Load(w) \/ Abort(w) => UNCHANGED <<sessions, requests>>
    BY DEF Load, Abort, Documents
  <2>3. RefreshStatus(w) \/ ReauthStatus(w) => UNCHANGED <<sessions, requests>>
    BY DEF RefreshStatus, ReauthStatus
  <2>4. Unrevoke(w) \/ Claim(w) \/ RevokeDevice(w) => UNCHANGED <<sessions, requests>>
    BY DEF Unrevoke, Claim, RevokeDevice
  <2> QED
    BY <1>1, <1>7, <2>1, <2>2, <2>3, <2>4
<1>8. CASE UNCHANGED vars
  BY <1>1, <1>8 DEF vars
<1>9. ASSUME NEW w \in Workers, HandlerStep(w)
      PROVE  SessionsLast /\ RequestsLast
  BY <1>2, <1>3, <1>4, <1>5, <1>6, <1>7, <1>9 DEF HandlerStep
<1> QED
  BY <1>7, <1>8, <1>9 DEF Next

LEMMA GroundedLasts ==
  ASSUME SessionsLast, RequestsLast, NEW j \in Jobs,
         GroundedJob(j, sessions, requests)
  PROVE  GroundedJob(j, sessions', requests')
BY DEF SessionsLast, RequestsLast, GroundedJob, Jobs

LEMMA HandlerBusy ==
  ASSUME NEW w \in Workers, HandlerStep(w)
  PROVE  job[w] # Idle
<1>1. Status(w) => job[w] # Idle
  BY UpdateBusy DEF Status
<1>2. RefreshStatus(w) \/ ReauthStatus(w) => Status(w)
  BY DEF RefreshStatus, ReauthStatus
<1>3. \A step, status : Resolve(w, step, status) => Update(w, step)
  BY DEF Resolve
<1>4. \A step : step # "idle" /\ Update(w, step) => job[w] # Idle
  BY UpdateBusy
<1>5. File(w) => job[w] # Idle
  BY DEF File, At, Idle
<1>6. Consume(w) \/ Unrevoke(w) \/ Refresh(w) \/ Reauthorize(w) \/ Establish(w)
        \/ Claim(w) \/ RevokeSession(w) \/ RevokeDevice(w) => job[w] # Idle
  BY <1>4 DEF Consume, Unrevoke, Refresh, Reauthorize, Establish, Claim,
              RevokeSession, RevokeDevice
<1>7. Resolve(w, "approve", "approved") \/ Resolve(w, "reject", "rejected")
        => job[w] # Idle
  BY <1>3, <1>4
<1> QED
  BY <1>1, <1>2, <1>5, <1>6, <1>7 DEF HandlerStep

\* A handler goes on to a call whose documents exist.
LEMMA GroundedNext ==
  ASSUME Coherent, Typed, SessionsLast, RequestsLast, NEW w \in Workers,
         HandlerStep(w)
  PROVE  job'[w] # Idle => GroundedJob(job'[w], sessions', requests')
<1> DEFINE j == job[w]
<1> USE DEF Typed
<1>1. job[w] # Idle
  BY HandlerBusy
<1>2. j \in Jobs
  BY <1>1, JobTyped
<1>3. GroundedJob(j, sessions', requests')
  BY <1>1, <1>2, GroundedLasts DEF Grounded
<1>4. Reply(w) => job'[w] = Idle
  BY DEF Reply, TypeOK
<1>5. ASSUME NEW step, Continue(w, step),
             step \in {"refresh", "reauthorize", "claim"} =>
               sessions'[j.session] # NoSession,
             step \in {"refresh", "reauthorize", "claim", "establish", "unrevoke"}
      PROVE  GroundedJob(job'[w], sessions', requests')
  <2>1. job'[w] = [j EXCEPT !.step = step]
    BY <1>5 DEF Continue, TypeOK
  <2>2. /\ job'[w].step = step /\ job'[w].session = j.session
        /\ job'[w].op = j.op /\ job'[w].existed = j.existed
    BY <1>2, <2>1 DEF Jobs
  <2> QED
    BY <1>3, <1>5, <2>2 DEF GroundedJob, NeedsSession, NeedsRequest, RequestSteps
<1>6. j.op = "reauth" =>
        /\ Restore(j) \in {"reauthorize", "establish"}
        /\ Restore(j) = "reauthorize" => sessions'[j.session] # NoSession
  BY <1>3 DEF Restore, GroundedJob
<1>7. CASE RefreshStatus(w)
  <2>1. j.existed => sessions'[j.session] # NoSession
    BY <1>3, <1>7 DEF RefreshStatus, GroundedJob
  <2> QED
    BY <1>4, <1>5, <1>7, <2>1 DEF RefreshStatus
<1>8. CASE ReauthStatus(w)
  <2>1. j.op = "reauth"
    BY <1>8 DEF ReauthStatus
  <2>2. ASSUME NEW a \in Authorities(j),
               job' = [job EXCEPT ![w] =
                 [j EXCEPT !.authority = a.authority, !.request = a.request,
                           !.sawDeviceRevoked = Seen(w).revoked,
                           !.step = CASE a.authority = "grant" -> "consume"
                                      [] a.authority = "self" /\ Seen(w).revoked
                                           -> "unrevoke"
                                      [] OTHER -> Restore(j)]]
        PROVE  GroundedJob(job'[w], sessions', requests')
    <3> DEFINE step == CASE a.authority = "grant" -> "consume"
                         [] a.authority = "self" /\ Seen(w).revoked -> "unrevoke"
                         [] OTHER -> Restore(j)
    <3>1. job'[w] = [j EXCEPT !.authority = a.authority, !.request = a.request,
                              !.sawDeviceRevoked = Seen(w).revoked, !.step = step]
      BY <2>2 DEF TypeOK
    <3>2. a.authority = "grant" => a.request \in Requests /\ requests[a.request] # Unfiled
      BY <1>2, AuthorityTypes
    <3>3. \/ step = "consume" /\ a.authority = "grant"
          \/ step = "unrevoke"
          \/ step = Restore(j)
      OBVIOUS
    <3> HIDE DEF step
    <3>4. /\ job'[w].step = step /\ job'[w].session = j.session
          /\ job'[w].op = j.op /\ job'[w].existed = j.existed
          /\ job'[w].request = a.request
      BY <1>2, <3>1 DEF Jobs
    <3>5. /\ NeedsSession(job'[w]) => sessions'[j.session] # NoSession
          /\ NeedsRequest(job'[w]) => a.request \in Requests /\ requests[a.request] # Unfiled
      BY <1>6, <2>1, <3>2, <3>3, <3>4 DEF NeedsSession, NeedsRequest, RequestSteps
    <3> QED
      BY <1>3, <2>1, <3>4, <3>5 DEF GroundedJob, RequestsLast
  <2> QED
    BY <1>4, <1>8, <2>2 DEF ReauthStatus
<1>9. CASE Consume(w)
  <2>1. j.op = "reauth"
    <3>1. j.step = "consume"
      BY <1>9, UpdateBusy DEF Consume
    <3> QED
      BY <1>3, <3>1 DEF GroundedJob
  <2>2. Reply(w) \/ Continue(w, "unrevoke") \/ Continue(w, Restore(j))
    BY <1>9 DEF Consume
  <2>3. Continue(w, "unrevoke") => GroundedJob(job'[w], sessions', requests')
    BY <1>5
  <2>4. Continue(w, Restore(j)) => GroundedJob(job'[w], sessions', requests')
    BY <1>5, <1>6, <2>1
  <2> QED
    BY <1>4, <2>2, <2>3, <2>4
<1>10. CASE Unrevoke(w)
  <2>1. Reply(w) \/ (j.op = "reauth" /\ Continue(w, Restore(j)))
    BY <1>10 DEF Unrevoke
  <2>2. j.op = "reauth" /\ Continue(w, Restore(j)) => GroundedJob(job'[w], sessions', requests')
    BY <1>5, <1>6
  <2> QED
    BY <1>4, <2>1, <2>2
<1>11. CASE Refresh(w) \/ Reauthorize(w)
  <2>1. NeedsSession(j)
    BY <1>11, UpdateBusy DEF Refresh, Reauthorize, NeedsSession
  <2>2. sessions'[j.session] # NoSession
    BY <1>3, <2>1 DEF GroundedJob
  <2>3. Reply(w) \/ Continue(w, "claim")
    BY <1>11 DEF Refresh, Reauthorize
  <2> QED
    BY <1>4, <1>5, <2>2, <2>3
<1>12. CASE Establish(w)
  <2>1. [user |-> j.by.user, device |-> j.device, revoked |-> FALSE, version |-> 1]
          # NoSession
    BY DEF NoSession
  <2>2. sessions'[j.session] # NoSession
    BY <1>2, <1>12, <2>1 DEF Establish, TypeOK, Jobs, Exists
  <2> QED
    BY <1>5, <1>12, <2>2 DEF Establish
<1>13. CASE Claim(w) \/ File(w) \/ RevokeSession(w) \/ RevokeDevice(w)
  BY <1>4, <1>13 DEF Claim, File, RevokeSession, RevokeDevice
<1>14. ASSUME NEW step, NEW status, Resolve(w, step, status)
       PROVE  job'[w] = Idle
  BY <1>4, <1>14 DEF Resolve
<1> QED
  BY <1>7, <1>8, <1>9, <1>10, <1>11, <1>12, <1>13, <1>14 DEF HandlerStep

\* A step of one worker leaves the others where they are.
LEMMA OthersWait ==
  ASSUME TypeOK, NEW w \in Workers,
         Arrival(w) \/ Load(w) \/ HandlerStep(w) \/ Abort(w)
  PROVE  \A v \in Workers \ {w} : job'[v] = job[v]
<1>1. Arrival(w) => \A v \in Workers \ {w} : job'[v] = job[v]
  <2>1. \A op, step, t, s, d : Begin(w, op, step, t, s, d) =>
          \A v \in Workers \ {w} : job'[v] = job[v]
    BY DEF Begin, TypeOK
  <2>2. \A t, r, step : BeginResolve(w, t, r, step) =>
          \A v \in Workers \ {w} : job'[v] = job[v]
    BY DEF BeginResolve, TypeOK
  <2> QED
    BY <2>1, <2>2 DEF Arrival, BeginRefresh, BeginReauth, BeginFile,
       BeginRevokeDevice, BeginUnrevokeDevice, BeginRevokeSession,
       BeginMonitorRevokes
<1>2. Load(w) \/ Abort(w) => \A v \in Workers \ {w} : job'[v] = job[v]
  BY DEF Load, Abort, Reply, TypeOK
<1>3. HandlerStep(w) => \A v \in Workers \ {w} : job'[v] = job[v]
  <2>1. Reply(w) => \A v \in Workers \ {w} : job'[v] = job[v]
    BY DEF Reply, TypeOK
  <2>2. \A step : Continue(w, step) => \A v \in Workers \ {w} : job'[v] = job[v]
    BY DEF Continue, TypeOK
  <2>3. RefreshStatus(w) \/ Consume(w) \/ Unrevoke(w) \/ Refresh(w) \/ Reauthorize(w)
          => \A v \in Workers \ {w} : job'[v] = job[v]
    BY <2>1, <2>2 DEF RefreshStatus, Consume, Unrevoke, Refresh, Reauthorize
  <2>4. ReauthStatus(w) => \A v \in Workers \ {w} : job'[v] = job[v]
    BY <2>1 DEF ReauthStatus, TypeOK
  <2>5. Establish(w) \/ Claim(w) \/ File(w) \/ RevokeSession(w) \/ RevokeDevice(w)
          => \A v \in Workers \ {w} : job'[v] = job[v]
    BY <2>1, <2>2 DEF Establish, Claim, File, RevokeSession, RevokeDevice
  <2>6. \A step, status :
          Resolve(w, step, status) => \A v \in Workers \ {w} : job'[v] = job[v]
    BY <2>1 DEF Resolve
  <2> QED
    BY <2>3, <2>4, <2>5, <2>6 DEF HandlerStep
<1> QED
  BY <1>1, <1>2, <1>3

LEMMA GroundedStep ==
  ASSUME Coherent, Typed, [Next]_vars
  PROVE  Grounded'
<1> USE DEF Typed
<1>1. SessionsLast /\ RequestsLast
  BY Lasting
<1>2. ASSUME NEW w \in Workers, job[w] # Idle, job'[w] = job[w]
      PROVE  GroundedJob(job'[w], sessions', requests')
  BY <1>1, <1>2, JobTyped, GroundedLasts DEF Grounded
<1>3. CASE UNCHANGED vars
  BY <1>2, <1>3 DEF vars, Grounded
<1>4. ASSUME NEW w \in Workers, Arrival(w) \/ Load(w) \/ HandlerStep(w) \/ Abort(w)
      PROVE  Grounded'
  <2>1. \A v \in Workers \ {w} : job'[v] = job[v]
    BY <1>4, OthersWait
  <2>2. job'[w] # Idle => GroundedJob(job'[w], sessions', requests')
    <3>1. CASE Arrival(w)
      <4>1. ASSUME NEW op, NEW step, NEW t, NEW s, NEW d, Begin(w, op, step, t, s, d),
                   \/ step \in {"status", "file", "revoke device", "unrevoke"}
                   \/ step = "revoke session" /\ Exists(s)
            PROVE  GroundedJob(job'[w], sessions, requests) /\ UNCHANGED <<sessions, requests>>
        <5>1. /\ job'[w].step = step /\ job'[w].session = s
              /\ job'[w].existed = Exists(s)
          BY <4>1 DEF Begin, TypeOK
        <5>2. UNCHANGED <<sessions, requests>>
          BY <4>1 DEF Begin, Documents, Histories
        <5> QED
          BY <4>1, <5>1, <5>2 DEF GroundedJob, NeedsSession, NeedsRequest, RequestSteps, Exists
      <4>2. ASSUME NEW t \in Tokens, NEW r \in Requests,
                   NEW step \in {"approve", "reject"}, BeginResolve(w, t, r, step)
            PROVE  GroundedJob(job'[w], sessions, requests) /\ UNCHANGED <<sessions, requests>>
        <5>1. /\ job'[w].step = step /\ job'[w].request = r /\ job'[w].op = "resolve"
              /\ requests[r] # Unfiled
          BY <4>2 DEF BeginResolve, TypeOK
        <5>2. UNCHANGED <<sessions, requests>>
          BY <4>2 DEF BeginResolve, Documents, Histories
        <5> QED
          BY <5>1, <5>2 DEF GroundedJob, NeedsSession, NeedsRequest, RequestSteps
      <4> QED
        BY <3>1, <4>1, <4>2 DEF Arrival, BeginRefresh, BeginReauth, BeginFile,
           BeginRevokeDevice, BeginUnrevokeDevice, BeginRevokeSession,
           BeginMonitorRevokes
    <3>2. CASE Load(w) \/ Abort(w)
      BY <1>2, <3>2 DEF Load, Abort, Reply, TypeOK
    <3> QED
      BY <1>1, <1>4, <3>1, <3>2, GroundedNext
  <2> QED
    BY <1>2, <2>1, <2>2 DEF Grounded
<1> QED
  BY <1>3, <1>4 DEF Next

\* A copy is of the document as it is, and of a handler that will update it.
CopiesInv ==
  ~AtomicUpdates =>
    \A w \in Workers : loaded[w] # NoCopy =>
      job[w] # Idle /\ ~At(w, "file") /\ loaded[w] = Document(w)

LEMMA CopiesCoherent ==
  ASSUME CopiesInv
  PROVE  Coherent
BY DEF CopiesInv, Coherent, Ready, Seen

LEMMA CopiesStep ==
  ASSUME Isolated, TypeOK, CopiesInv, [Next]_vars
  PROVE  CopiesInv'
<1> SUFFICES ASSUME ~AtomicUpdates, NEW v \in Workers, loaded'[v] # NoCopy
             PROVE  job'[v] # Idle /\ ~At(v, "file")' /\ loaded'[v] = Document(v)'
  BY DEF CopiesInv
<1>1. UNCHANGED <<sessions, devices, requests, job>> =>
        Document(v)' = Document(v) /\ At(v, "file")' = At(v, "file")
  BY DEF Document, At
<1>2. CASE UNCHANGED vars
  BY <1>1, <1>2 DEF CopiesInv, vars
<1>3. ASSUME NEW w \in Workers, Arrival(w) \/ Load(w) \/ HandlerStep(w) \/ Abort(w)
      PROVE  job'[v] # Idle /\ ~At(v, "file")' /\ loaded'[v] = Document(v)'
  <2>1. v = w
    BY DEF Isolated
  <2>2. ASSUME loaded' = loaded, job[w] = Idle \/ At(w, "file")
        PROVE  FALSE
    BY <2>1, <2>2 DEF CopiesInv
  <2>3. ASSUME loaded' = [loaded EXCEPT ![w] = NoCopy]
        PROVE  FALSE
    BY <2>1, <2>3 DEF TypeOK
  <2>4. CASE Arrival(w)
    <3>1. \A op, step, t, s, d : Begin(w, op, step, t, s, d) => FALSE
      BY <2>2 DEF Begin
    <3>2. \A t, r, step : BeginResolve(w, t, r, step) => FALSE
      BY <2>2 DEF BeginResolve
    <3> QED
      BY <2>4, <3>1, <3>2 DEF Arrival, BeginRefresh, BeginReauth, BeginFile,
         BeginRevokeDevice, BeginUnrevokeDevice, BeginRevokeSession,
         BeginMonitorRevokes
  <2>5. CASE Load(w)
    <3>1. loaded'[v] = Document(v) /\ job[v] # Idle /\ ~At(v, "file")
      BY <2>1, <2>5 DEF Load, TypeOK
    <3> QED
      BY <1>1, <2>5, <3>1 DEF Load, Documents
  <2>6. CASE File(w)
    BY <2>2, <2>6 DEF File
  <2>7. CASE HandlerStep(w) /\ ~File(w)
    <3>1. \A step : Update(w, step) => FALSE
      BY <2>3 DEF Update
    <3>2. \A step, status : Resolve(w, step, status) => FALSE
      BY <3>1 DEF Resolve
    <3> QED
      BY <2>7, <3>1, <3>2 DEF HandlerStep, RefreshStatus, ReauthStatus, Status, Consume,
         Unrevoke, Refresh, Reauthorize, Establish, Claim, RevokeSession, RevokeDevice
  <2>8. CASE Abort(w)
    BY <2>3, <2>8 DEF Abort
  <2> QED
    BY <1>3, <2>4, <2>5, <2>6, <2>7, <2>8
<1> QED
  BY <1>2, <1>3 DEF Next

LEMMA StoreHolds ==
  ASSUME Isolated
  PROVE  Spec => [](Typed /\ CopiesInv)
<1>1. Init => Typed /\ CopiesInv
  BY DEF Init, Typed, TypeOK, Grounded, Idle, DeviceDocs, CopiesInv
<1>2. Typed /\ CopiesInv /\ [Next]_vars => Typed' /\ CopiesInv'
  BY TypeStep, GroundedStep, CopiesCoherent, CopiesStep DEF Typed
<1> QED
  BY <1>1, <1>2, PTL DEF Spec

\* Over atomic updates, or with one request at a time, every document, job and history
\* keeps its type.
THEOREM TypeCorrect ==
  ASSUME Isolated
  PROVE  Spec => [](TypeOK /\ Grounded)
BY StoreHolds, PTL DEF Typed

-----------------------------------------------------------------------------
(***************************************************************************)
(* Grants.  Between consuming a grant and restoring the session, a handler *)
(* holds the grant: the grant is consumed, has restored nothing, and no    *)
(* other handler holds it.                                                 *)
(***************************************************************************)

Holding(j) == j.step \in {"unrevoke", "reauthorize"} /\ j.request # NoRequest

GrantInv ==
  /\ \A w \in Workers : Holding(job[w]) =>
       /\ requests[job[w].request].status = "consumed"
       /\ restorations[job[w].request] = 0
  /\ \A v, w \in Workers :
       v # w /\ Holding(job[v]) /\ Holding(job[w]) => job[v].request # job[w].request
  /\ OneRestorePerGrant

LEMMA HoldingTypes ==
  ASSUME TypeOK, NEW w \in Workers, Holding(job[w])
  PROVE  job[w] \in Jobs /\ job[w].request \in Requests
BY DEF Holding, TypeOK, Jobs, Idle

\* A step makes a handler hold a grant only by consuming an approved one.
LEMMA NewHolder ==
  ASSUME Coherent, Typed, NEW w \in Workers,
         Arrival(w) \/ Load(w) \/ HandlerStep(w) \/ Abort(w),
         Holding(job'[w])
  PROVE  /\ job'[w].request = job[w].request
         /\ \/ Holding(job[w])
            \/ /\ job[w].request \in Requests
               /\ requests[job[w].request].status = "approved"
               /\ requests'[job[w].request].status = "consumed"
<1> DEFINE j == job[w]
<1> USE DEF Typed
<1>1. job'[w] # Idle
  BY DEF Holding, Idle
<1>2. Reply(w) => FALSE
  BY <1>1 DEF Reply, TypeOK
<1>3. ASSUME NEW step, Continue(w, step), step \notin {"unrevoke", "reauthorize"},
             HandlerStep(w)
      PROVE  FALSE
  <2>1. j \in Jobs
    BY <1>3, HandlerBusy, JobTyped
  <2>2. job'[w].step = step
    BY <1>3, <2>1 DEF Continue, TypeOK, Jobs
  <2> QED
    BY <1>3, <2>2 DEF Holding
<1>4. CASE Arrival(w)
  <2>1. \A op, step, t, s, d : Begin(w, op, step, t, s, d) => job'[w].request = NoRequest
    BY DEF Begin, TypeOK
  <2>2. \A t, r, step : BeginResolve(w, t, r, step) => job'[w].step = step
    BY DEF BeginResolve, TypeOK
  <2> QED
    BY <1>4, <2>1, <2>2 DEF Holding, Arrival, BeginRefresh, BeginReauth, BeginFile,
       BeginRevokeDevice, BeginUnrevokeDevice, BeginRevokeSession,
       BeginMonitorRevokes
<1>5. CASE Load(w)
  BY <1>5 DEF Load
<1>6. CASE Abort(w)
  BY <1>2, <1>6 DEF Abort
<1>7. CASE ReauthStatus(w)
  <2>1. j \in Jobs
    BY <1>7, HandlerBusy, JobTyped DEF HandlerStep
  <2>2. ASSUME NEW a \in Authorities(j),
               job' = [job EXCEPT ![w] =
                 [j EXCEPT !.authority = a.authority, !.request = a.request,
                           !.sawDeviceRevoked = Seen(w).revoked,
                           !.step = CASE a.authority = "grant" -> "consume"
                                      [] a.authority = "self" /\ Seen(w).revoked
                                           -> "unrevoke"
                                      [] OTHER -> Restore(j)]]
        PROVE  FALSE
    <3>1. /\ job'[w].request = a.request
          /\ a.authority = "grant" => job'[w].step = "consume"
      BY <2>1, <2>2 DEF TypeOK, Jobs
    <3>2. a.authority # "grant" => a.request = NoRequest
      BY <2>1, AuthorityTypes
    <3> QED
      BY <3>1, <3>2 DEF Holding
  <2> QED
    BY <1>2, <1>7, <2>2 DEF ReauthStatus
<1>8. CASE Consume(w)
  <2>1. job[w] # Idle /\ Ready(w) /\ j.step = "consume"
    BY <1>8, UpdateBusy DEF Consume
  <2>2. j \in Jobs /\ Seen(w) = requests[j.request] /\ j.request \in Requests
        /\ Seen(w) \in RequestDocs
    BY <2>1, JobTyped, SeenRequest DEF RequestSteps
  <2>3. /\ Seen(w).status = "approved"
        /\ requests' = [requests EXCEPT ![j.request] = [Seen(w) EXCEPT !.status = "consumed"]]
        /\ Continue(w, IF j.sawDeviceRevoked THEN "unrevoke" ELSE Restore(j))
    BY <1>2, <1>8 DEF Consume
  <2>4. job'[w].request = j.request
    BY <2>2, <2>3 DEF Continue, TypeOK, Jobs
  <2>5. requests'[j.request].status = "consumed"
    BY <2>2, <2>3 DEF TypeOK, RequestDocs
  <2> QED
    BY <2>2, <2>3, <2>4, <2>5
<1>9. CASE Unrevoke(w)
  <2>1. job[w] # Idle /\ Ready(w) /\ j.step = "unrevoke"
    BY <1>9, UpdateBusy DEF Unrevoke
  <2>2. j \in Jobs /\ Continue(w, Restore(j))
    BY <1>2, <1>9, <2>1, JobTyped DEF Unrevoke
  <2>3. job'[w].request = j.request
    BY <2>2 DEF Continue, TypeOK, Jobs
  <2> QED
    BY <2>1, <2>3 DEF Holding
<1>10. CASE RefreshStatus(w)
  <2>1. Continue(w, "refresh") \/ Continue(w, "establish")
    BY <1>2, <1>10 DEF RefreshStatus
  <2> QED
    BY <1>3, <1>10, <2>1 DEF HandlerStep
<1>11. CASE Refresh(w) \/ Reauthorize(w) \/ Establish(w)
  <2>1. Continue(w, "claim")
    BY <1>2, <1>11 DEF Refresh, Reauthorize, Establish
  <2> QED
    BY <1>3, <1>11, <2>1 DEF HandlerStep
<1>12. CASE Claim(w) \/ File(w) \/ RevokeSession(w) \/ RevokeDevice(w)
  BY <1>2, <1>12 DEF Claim, File, RevokeSession, RevokeDevice
<1>13. ASSUME NEW step, NEW status, Resolve(w, step, status)
       PROVE  FALSE
  BY <1>2, <1>13 DEF Resolve
<1> QED
  BY <1>4, <1>5, <1>6, <1>7, <1>8, <1>9, <1>10, <1>11, <1>12, <1>13 DEF HandlerStep

\* Only reauthorize counts restorations.
LEMMA RestorationsKept ==
  ASSUME NEW w \in Workers, Arrival(w) \/ Load(w) \/ HandlerStep(w) \/ Abort(w),
         ~Reauthorize(w)
  PROVE  restorations' = restorations
<1>1. \A op, step, t, s, d : Begin(w, op, step, t, s, d) => restorations' = restorations
  BY DEF Begin, Histories
<1>2. \A t, r, step : BeginResolve(w, t, r, step) => restorations' = restorations
  BY DEF BeginResolve, Histories
<1>3. Arrival(w) => restorations' = restorations
  BY <1>1, <1>2 DEF Arrival, BeginRefresh, BeginReauth, BeginFile, BeginRevokeDevice,
     BeginUnrevokeDevice, BeginRevokeSession, BeginMonitorRevokes
<1>4. Load(w) \/ Abort(w) \/ RefreshStatus(w) \/ ReauthStatus(w) \/ Consume(w)
        \/ Unrevoke(w) \/ Refresh(w) => restorations' = restorations
  BY DEF Load, Abort, RefreshStatus, ReauthStatus, Consume, Unrevoke, Refresh, Histories
<1>5. Establish(w) \/ Claim(w) \/ File(w) \/ RevokeSession(w) \/ RevokeDevice(w)
        => restorations' = restorations
  BY DEF Establish, Claim, File, RevokeSession, RevokeDevice, Histories
<1>6. \A step, status : Resolve(w, step, status) => restorations' = restorations
  BY DEF Resolve, Histories
<1> QED
  BY <1>3, <1>4, <1>5, <1>6 DEF HandlerStep

LEMMA GrantStep ==
  ASSUME Coherent, Typed, GrantInv, [Next]_vars
  PROVE  GrantInv'
<1> USE DEF Typed
<1>1. RequestsLast
  BY Lasting
<1>2. CASE UNCHANGED vars
  BY <1>2 DEF vars, GrantInv, OneRestorePerGrant, Holding
<1>3. ASSUME NEW w \in Workers, Arrival(w) \/ Load(w) \/ HandlerStep(w) \/ Abort(w)
      PROVE  GrantInv'
  <2> DEFINE j == job[w]
  <2>1. \A v \in Workers \ {w} : job'[v] = job[v]
    BY <1>3, OthersWait
  <2>2. \A v \in Workers : Holding(job[v]) => job[v].request \in Requests
    BY HoldingTypes
  <2>3. CASE Reauthorize(w)
    <3>1. job[w] # Idle /\ Ready(w) /\ j.step = "reauthorize"
      BY <2>3, UpdateBusy DEF Reauthorize
    <3>2. j \in Jobs
      BY <3>1, JobTyped
    <3>3. job'[w].step = "claim"
      BY <2>3, <3>2 DEF Reauthorize, Continue, TypeOK, Jobs
    <3>4. ~Holding(job'[w])
      BY <3>3 DEF Holding
    <3>5. requests' = requests
      BY <2>3 DEF Reauthorize
    <3>6. \A r \in Requests : restorations'[r] =
            IF r = j.request THEN restorations[r] + 1 ELSE restorations[r]
      BY <2>3 DEF Reauthorize
    <3>7. j.request \in Requests => Holding(j)
      BY <3>1, RequestsAssumption DEF Holding
    <3>8. OneRestorePerGrant'
      <4> SUFFICES ASSUME NEW r \in Requests
                   PROVE  /\ restorations'[r] <= 1
                          /\ restorations'[r] = 1 => requests'[r].status = "consumed"
        BY DEF OneRestorePerGrant
      <4>1. CASE r = j.request
        BY <3>5, <3>6, <3>7, <4>1 DEF GrantInv
      <4>2. CASE r # j.request
        BY <3>5, <3>6, <4>2 DEF GrantInv, OneRestorePerGrant
      <4> QED
        BY <4>1, <4>2
    <3>9. ASSUME NEW v \in Workers, Holding(job'[v])
          PROVE  /\ v # w /\ job'[v] = job[v]
                 /\ requests'[job'[v].request].status = "consumed"
                 /\ restorations'[job'[v].request] = 0
      <4>1. v # w /\ job'[v] = job[v]
        BY <2>1, <3>4, <3>9
      <4>2. job[v].request \in Requests
        BY <2>2, <3>9, <4>1
      <4>3. job[v].request # j.request
        BY <3>7, <3>9, <4>1, <4>2 DEF GrantInv
      <4> QED
        BY <3>5, <3>6, <3>9, <4>1, <4>2, <4>3 DEF GrantInv
    <3> QED
      BY <3>8, <3>9 DEF GrantInv, Holding
  <2>4. CASE ~Reauthorize(w)
    <3>1. restorations' = restorations
      BY <1>3, <2>4, RestorationsKept
    <3>2. \A r \in Requests : requests[r].status = "consumed" => requests'[r].status = "consumed"
      BY <1>1 DEF RequestsLast
    <3>3. OneRestorePerGrant'
      BY <3>1, <3>2 DEF GrantInv, OneRestorePerGrant
    <3>4. Holding(job'[w]) =>
            /\ job'[w].request = j.request
            /\ \/ Holding(j)
               \/ /\ j.request \in Requests
                  /\ requests[j.request].status = "approved"
                  /\ requests'[j.request].status = "consumed"
      BY <1>3, NewHolder
    <3>5. \A r \in Requests : requests[r].status = "approved" =>
            /\ restorations[r] = 0
            /\ \A v \in Workers : Holding(job[v]) => job[v].request # r
      BY DEF GrantInv, OneRestorePerGrant, TypeOK
    <3>6. ASSUME NEW v \in Workers, Holding(job'[v])
          PROVE  /\ requests'[job'[v].request].status = "consumed"
                 /\ restorations'[job'[v].request] = 0
      BY <2>1, <2>2, <3>1, <3>2, <3>4, <3>5, <3>6 DEF GrantInv
    <3>7. ASSUME NEW u \in Workers, NEW v \in Workers, u # v,
                 Holding(job'[u]), Holding(job'[v])
          PROVE  job'[u].request # job'[v].request
      BY <2>1, <2>2, <3>4, <3>5, <3>7 DEF GrantInv
    <3> QED
      BY <3>3, <3>6, <3>7 DEF GrantInv, Holding
  <2> QED
    BY <2>3, <2>4
<1> QED
  BY <1>2, <1>3 DEF Next

\* GrantInv is inductive.
LEMMA GrantHolds ==
  ASSUME Isolated
  PROVE  Spec => []GrantInv
<1>1. Init => GrantInv
  BY DEF Init, GrantInv, OneRestorePerGrant, Holding, Idle
<1>2. Typed /\ CopiesInv /\ GrantInv /\ [Next]_vars => GrantInv'
  BY CopiesCoherent, GrantStep
<1> QED
  BY <1>1, <1>2, StoreHolds, PTL DEF Spec

\* One administrator's decision restores at most one session, however many
\* handlers present it at once over a store that applies updates atomically, or one
\* after the other over the encrypted store.
THEOREM GrantsAreOneShot ==
  ASSUME Isolated
  PROVE  Spec => []OneRestorePerGrant
<1>1. GrantInv => OneRestorePerGrant
  BY DEF GrantInv
<1> QED
  BY <1>1, GrantHolds, PTL

-----------------------------------------------------------------------------
(***************************************************************************)
(* Sessions.  What one step can make of a session's document: create it,   *)
(* bump the version of one that is not revoked, restore it under a new     *)
(* version, or revoke it under the version it has.                         *)
(***************************************************************************)

Kept(s) == sessions'[s] = sessions[s] /\ retired'[s] = retired[s]

Created(s) ==
  /\ ~Exists(s)
  /\ sessions'[s] \in SessionDocs /\ ~sessions'[s].revoked
  /\ retired'[s] = retired[s]

\* The same session, marked revoked or not, under a version.
Marked(new, doc, revoked, version) ==
  /\ new \in SessionDocs
  /\ new.user = doc.user /\ new.device = doc.device
  /\ new.revoked = revoked /\ new.version = version

Changed(s, revoked, version) ==
  Exists(s) /\ Marked(sessions'[s], sessions[s], revoked, version)

SessionMove(w, s) ==
  \/ Kept(s)
  \/ Created(s)
  \/ /\ At(w, "refresh") /\ ~Revoked(s)
     /\ Changed(s, FALSE, sessions[s].version + 1) /\ retired'[s] = retired[s]
  \/ /\ Restores(w, s)
     /\ Changed(s, FALSE, sessions[s].version + 1) /\ retired'[s] = retired[s]
  \/ /\ At(w, "revoke session")
     /\ Changed(s, TRUE, sessions[s].version)
     /\ retired'[s] = retired[s] \cup {sessions[s].version}

\* Every other step leaves sessions and history alone.
LEMMA SessionsKept ==
  ASSUME NEW w \in Workers, Arrival(w) \/ Load(w) \/ HandlerStep(w) \/ Abort(w)
  PROVE  \/ sessions' = sessions /\ retired' = retired
         \/ Refresh(w) \/ Reauthorize(w) \/ Establish(w) \/ RevokeSession(w)
<1> DEFINE Same == sessions' = sessions /\ retired' = retired
<1>1. \A op, step, t, s, d : Begin(w, op, step, t, s, d) => Same
  BY DEF Begin, Documents, Histories
<1>2. \A t, r, step : BeginResolve(w, t, r, step) => Same
  BY DEF BeginResolve, Documents, Histories
<1>3. Arrival(w) => Same
  BY <1>1, <1>2 DEF Arrival, BeginRefresh, BeginReauth, BeginFile, BeginRevokeDevice,
     BeginUnrevokeDevice, BeginRevokeSession, BeginMonitorRevokes
<1>4. Load(w) \/ Abort(w) \/ RefreshStatus(w) \/ ReauthStatus(w) => Same
  BY DEF Load, Abort, RefreshStatus, ReauthStatus, Documents, Histories
<1>5. Consume(w) \/ Unrevoke(w) \/ Claim(w) \/ File(w) \/ RevokeDevice(w) => Same
  BY DEF Consume, Unrevoke, Claim, File, RevokeDevice, Histories
<1>6. \A step, status : Resolve(w, step, status) => Same
  BY DEF Resolve, Histories
<1> QED
  BY <1>3, <1>4, <1>5, <1>6 DEF HandlerStep

LEMMA SessionMarks ==
  ASSUME NEW doc \in SessionDocs
  PROVE  /\ Marked([doc EXCEPT !.revoked = TRUE], doc, TRUE, doc.version)
         /\ ~doc.revoked =>
              Marked([doc EXCEPT !.version = @ + 1], doc, FALSE, doc.version + 1)
         /\ Marked([doc EXCEPT !.revoked = FALSE, !.version = @ + 1],
                   doc, FALSE, doc.version + 1)
<1>1. Marked([doc EXCEPT !.revoked = TRUE], doc, TRUE, doc.version)
  BY DEF SessionDocs, Marked
<1> DEFINE bumped == doc.version + 1
<1>2. bumped \in Nat /\ doc.revoked \in BOOLEAN
  BY DEF SessionDocs
<1> HIDE DEF bumped
<1>3. ~doc.revoked => Marked([doc EXCEPT !.version = bumped], doc, FALSE, bumped)
  BY <1>2 DEF SessionDocs, Marked
<1>4. Marked([doc EXCEPT !.revoked = FALSE, !.version = bumped], doc, FALSE, bumped)
  BY <1>2 DEF SessionDocs, Marked
<1> QED
  BY <1>1, <1>3, <1>4 DEF bumped

LEMMA SessionMoves ==
  ASSUME Coherent, Typed, NEW w \in Workers, NEW s \in Sessions,
         Arrival(w) \/ Load(w) \/ HandlerStep(w) \/ Abort(w)
  PROVE  SessionMove(w, s)
<1> DEFINE j   == job[w]
           doc == sessions[j.session]
<1> USE DEF Typed
<1>1. CASE Refresh(w) \/ Reauthorize(w) \/ RevokeSession(w)
  <2>1. /\ job[w] # Idle /\ Ready(w)
        /\ j.step \in {"refresh", "reauthorize", "revoke session"}
        /\ Refresh(w) => j.step = "refresh"
        /\ Reauthorize(w) => j.step = "reauthorize"
        /\ RevokeSession(w) => j.step = "revoke session"
    BY <1>1, UpdateBusy DEF Refresh, Reauthorize, RevokeSession
  <2>2. j \in Jobs /\ Seen(w) = doc /\ doc \in SessionDocs /\ Exists(j.session)
    BY <2>1, JobTyped, SeenSession
    DEF SessionSteps, Grounded, GroundedJob, NeedsSession, Exists
  <2>3. /\ Marked([doc EXCEPT !.revoked = TRUE], doc, TRUE, doc.version)
        /\ ~doc.revoked =>
             Marked([doc EXCEPT !.version = @ + 1], doc, FALSE, doc.version + 1)
        /\ Marked([doc EXCEPT !.revoked = FALSE, !.version = @ + 1],
                  doc, FALSE, doc.version + 1)
    BY <2>2, SessionMarks
  <2>4. j.session \in Sessions
    BY <2>2 DEF Jobs
  <2>5. s # j.session => Kept(s)
    BY <1>1, <2>4 DEF Refresh, Reauthorize, RevokeSession, Kept, TypeOK, Histories
  <2>6. CASE Refresh(w) /\ s = j.session
    <3>1. CASE doc.revoked
      BY <2>2, <2>6, <3>1 DEF Refresh, Histories, Kept, SessionMove
    <3>2. CASE ~doc.revoked
      <4>1. Marked(sessions'[s], doc, FALSE, doc.version + 1) /\ retired' = retired
        BY <2>2, <2>3, <2>4, <2>6, <3>2 DEF Refresh, Histories, TypeOK
      <4> QED
        BY <2>1, <2>2, <2>6, <3>2, <4>1 DEF SessionMove, Changed, At, Revoked
    <3> QED
      BY <3>1, <3>2
  <2>7. CASE Reauthorize(w) /\ s = j.session
    <3>1. Marked(sessions'[s], doc, FALSE, doc.version + 1) /\ retired' = retired
      BY <2>2, <2>3, <2>4, <2>7 DEF Reauthorize, TypeOK
    <3> QED
      BY <2>1, <2>2, <2>7, <3>1 DEF SessionMove, Changed, At, Restores
  <2>8. CASE RevokeSession(w) /\ s = j.session
    <3>1. /\ Marked(sessions'[s], doc, TRUE, doc.version)
          /\ retired'[s] = retired[s] \cup {doc.version}
      BY <2>2, <2>3, <2>4, <2>8 DEF RevokeSession, TypeOK
    <3> QED
      BY <2>1, <2>2, <2>8, <3>1 DEF SessionMove, Changed, At
  <2> QED
    BY <1>1, <2>5, <2>6, <2>7, <2>8 DEF SessionMove
<1>2. CASE Establish(w)
  <2>1. job[w] # Idle /\ Ready(w) /\ j.step = "establish"
    BY <1>2, UpdateBusy DEF Establish
  <2>2. j \in Jobs /\ Seen(w) = doc
    BY <2>1, JobTyped, SeenSession DEF SessionSteps
  <2> DEFINE new == [user |-> j.by.user, device |-> j.device,
                     revoked |-> FALSE, version |-> 1]
  <2>3. new \in SessionDocs /\ ~new.revoked /\ j.session \in Sessions
    BY <2>2 DEF SessionDocs, Jobs, Users
  <2>4. retired' = retired
        /\ sessions' = [sessions EXCEPT ![j.session] = IF doc # NoSession THEN doc ELSE new]
    BY <1>2, <2>2 DEF Establish, Histories, Exists
  <2> HIDE DEF new
  <2>5. sessions'[s] = IF s = j.session /\ doc = NoSession THEN new ELSE sessions[s]
    BY <2>3, <2>4 DEF TypeOK
  <2> QED
    BY <2>3, <2>4, <2>5 DEF SessionMove, Kept, Created, Exists
<1>3. CASE sessions' = sessions /\ retired' = retired
  BY <1>3 DEF SessionMove, Kept
<1> QED
  BY <1>1, <1>2, <1>3, SessionsKept

\* Only sessions.reauthorize lifts a session's revocation.
LEMMA OnlyRestoresLift ==
  ASSUME Coherent, Typed, NEW w \in Workers, NEW s \in Sessions,
         Arrival(w) \/ Load(w) \/ HandlerStep(w) \/ Abort(w),
         Revoked(s), ~Revoked(s)'
  PROVE  Restores(w, s)
<1>1. SessionMove(w, s)
  BY SessionMoves
<1>2. Kept(s) => Revoked(s)'
  BY DEF Kept, Revoked, Exists
<1>3. Changed(s, TRUE, sessions[s].version) => Revoked(s)'
  BY DEF Changed, Marked, Revoked, Exists, SessionDocs, NoSession
<1> QED
  BY <1>1, <1>2, <1>3 DEF SessionMove, Created, Revoked

\* A retired version is behind the session's, unless the session is still revoked.
RetiredInv ==
  \A s \in Sessions :
    /\ ~Exists(s) => retired[s] = {}
    /\ \A v \in retired[s] :
         /\ v <= sessions[s].version
         /\ v = sessions[s].version => sessions[s].revoked

LEMMA RetiredStep ==
  ASSUME Coherent, Typed, RetiredInv, [Next]_vars
  PROVE  RetiredInv'
<1> USE DEF Typed
<1> SUFFICES ASSUME NEW s \in Sessions
             PROVE  /\ sessions'[s] = NoSession => retired'[s] = {}
                    /\ \A v \in retired'[s] :
                         /\ v <= sessions'[s].version
                         /\ v = sessions'[s].version => sessions'[s].revoked
  BY DEF RetiredInv, Exists
<1>1. /\ retired[s] \subseteq Nat
      /\ sessions[s] \in SessionDocs \/ sessions[s] = NoSession
      /\ Exists(s) => sessions[s].version \in Nat
  BY DEF TypeOK, SessionDocs, Exists
<1>2. \A v \in retired[s] :
        v <= sessions[s].version /\ (v = sessions[s].version => sessions[s].revoked)
  BY DEF RetiredInv
<1>3. CASE Kept(s)
  BY <1>3 DEF Kept, RetiredInv, Exists
<1>4. CASE Created(s)
  <2>1. sessions'[s] # NoSession /\ retired'[s] = {}
    BY <1>4 DEF Created, RetiredInv, SessionDocs, NoSession
  <2> QED
    BY <2>1
<1>5. ASSUME Changed(s, FALSE, sessions[s].version + 1), retired'[s] = retired[s]
      PROVE  /\ sessions'[s] # NoSession
             /\ \A v \in retired'[s] : v <= sessions'[s].version /\ v # sessions'[s].version
  <2>1. Exists(s) /\ sessions'[s].version = sessions[s].version + 1
    BY <1>5 DEF Changed, Marked
  <2>2. sessions'[s] # NoSession
    BY <1>5 DEF Changed, Marked, SessionDocs, NoSession
  <2> QED
    BY <1>1, <1>2, <1>5, <2>1, <2>2
<1>6. ASSUME Changed(s, TRUE, sessions[s].version),
             retired'[s] = retired[s] \cup {sessions[s].version}
      PROVE  /\ sessions'[s] # NoSession
             /\ \A v \in retired'[s] : v <= sessions'[s].version /\ sessions'[s].revoked
  <2>1. Exists(s) /\ sessions'[s].version = sessions[s].version /\ sessions'[s].revoked
    BY <1>6 DEF Changed, Marked
  <2>2. sessions'[s] # NoSession
    BY <1>6 DEF Changed, Marked, SessionDocs, NoSession
  <2> QED
    BY <1>1, <1>2, <1>6, <2>1, <2>2
<1>7. ASSUME NEW w \in Workers, Arrival(w) \/ Load(w) \/ HandlerStep(w) \/ Abort(w)
      PROVE  \/ Kept(s) \/ Created(s)
             \/ Changed(s, FALSE, sessions[s].version + 1) /\ retired'[s] = retired[s]
             \/ /\ Changed(s, TRUE, sessions[s].version)
                /\ retired'[s] = retired[s] \cup {sessions[s].version}
  BY <1>7, SessionMoves DEF SessionMove
<1>8. CASE UNCHANGED vars
  BY <1>3, <1>8 DEF vars, Kept
<1> QED
  BY <1>3, <1>4, <1>5, <1>6, <1>7, <1>8 DEF Next

\* The version a session is revoked under is never authorized again, however refreshes,
\* restorations and revocations interleave: what was bound to it stays closed.
THEOREM RetiredForGood ==
  ASSUME Isolated
  PROVE  Spec => []RetiredVersions
<1>1. Init => RetiredInv
  BY DEF Init, RetiredInv
<1>2. Typed /\ CopiesInv /\ RetiredInv /\ [Next]_vars => RetiredInv'
  BY CopiesCoherent, RetiredStep
<1>3. RetiredInv => RetiredVersions
  BY DEF RetiredInv, RetiredVersions, Revoked
<1> QED
  BY <1>1, <1>2, <1>3, StoreHolds, PTL DEF Spec

\* No refresh flips revoked back: the filter of sessions.refresh and the update are one
\* step, so a revocation between the handler's look-up and its update wins.
THEOREM RefreshRestoresNothing ==
  ASSUME Isolated
  PROVE  Spec => RefreshKeepsRevoked
<1>1. Typed /\ CopiesInv /\ [Next]_vars =>
        [\A w \in Workers :
           At(w, "refresh") /\ job'[w].step # "refresh" =>
             \A s \in Sessions : Revoked(s) => Revoked(s)']_vars
  <2> SUFFICES ASSUME Typed, CopiesInv, Next, NEW w \in Workers,
                      At(w, "refresh"), job'[w].step # "refresh",
                      NEW s \in Sessions, Revoked(s)
               PROVE  Revoked(s)'
    OBVIOUS
  <2>1. PICK v \in Workers : Arrival(v) \/ Load(v) \/ HandlerStep(v) \/ Abort(v)
    BY DEF Next
  <2>2. v = w
    BY <2>1, OthersWait DEF Typed, At
  <2>3. SessionMove(w, s) /\ ~Restores(w, s)
    BY <2>1, <2>2, CopiesCoherent, SessionMoves DEF At, Restores
  <2>4. sessions'[s] = sessions[s] \/ Changed(s, TRUE, sessions[s].version)
    BY <2>3 DEF SessionMove, Kept, Created, Revoked
  <2> QED
    BY <2>4 DEF Revoked, Exists, Changed, Marked, SessionDocs, NoSession
<1> QED
  BY <1>1, StoreHolds, PTL DEF Spec, RefreshKeepsRevoked

-----------------------------------------------------------------------------
(***************************************************************************)
(* Devices.  Only unrevoke clears a revocation, and only the first claim   *)
(* names an owner.                                                         *)
(***************************************************************************)

DeviceMove(w, d) ==
  \/ devices'[d] = devices[d]
  \/ /\ At(w, "unrevoke") /\ job[w].device = d
     /\ devices'[d].owner = devices[d].owner
  \/ /\ At(w, "revoke device") /\ devices'[d].revoked
     /\ devices'[d].owner = devices[d].owner
  \/ /\ At(w, "claim") /\ devices'[d].revoked = devices[d].revoked
     /\ devices[d].owner # NoUser => devices'[d].owner = devices[d].owner

LEMMA DeviceMoves ==
  ASSUME Coherent, Typed, NEW w \in Workers, NEW d \in Devices,
         Arrival(w) \/ Load(w) \/ HandlerStep(w) \/ Abort(w)
  PROVE  DeviceMove(w, d)
<1> DEFINE j == job[w]
<1> USE DEF Typed
<1>1. CASE Unrevoke(w)
  <2>1. job[w] # Idle /\ Ready(w) /\ j.step = "unrevoke"
    BY <1>1, UpdateBusy DEF Unrevoke
  <2>2. Seen(w) = devices[j.device] /\ Seen(w) \in DeviceDocs
    BY <2>1, SeenDevice DEF DeviceSteps
  <2>3. [Seen(w) EXCEPT !.revoked = FALSE].owner = Seen(w).owner
    BY <2>2 DEF DeviceDocs
  <2> QED
    BY <1>1, <2>1, <2>2, <2>3 DEF Unrevoke, DeviceMove, At, TypeOK
<1>2. CASE RevokeDevice(w)
  <2>1. job[w] # Idle /\ Ready(w) /\ j.step = "revoke device"
    BY <1>2, UpdateBusy DEF RevokeDevice
  <2>2. Seen(w) = devices[j.device] /\ Seen(w) \in DeviceDocs
    BY <2>1, SeenDevice DEF DeviceSteps
  <2>3. /\ [Seen(w) EXCEPT !.revoked = TRUE].owner = Seen(w).owner
        /\ [Seen(w) EXCEPT !.revoked = TRUE].revoked
    BY <2>2 DEF DeviceDocs
  <2> QED
    BY <1>2, <2>1, <2>2, <2>3 DEF RevokeDevice, DeviceMove, At, TypeOK
<1>3. CASE Claim(w)
  <2>1. job[w] # Idle /\ Ready(w) /\ j.step = "claim"
    BY <1>3, UpdateBusy DEF Claim
  <2> DEFINE session == sessions[j.session]
             new == [Seen(w) EXCEPT !.owner = IF @ = NoUser THEN session.user ELSE @]
  <2>2. Seen(w) = devices[session.device] /\ Seen(w) \in DeviceDocs
    BY <2>1, SeenOwner
  <2>3. /\ new.revoked = Seen(w).revoked
        /\ Seen(w).owner # NoUser => new.owner = Seen(w).owner
    BY <2>2 DEF DeviceDocs
  <2>4. devices' = [devices EXCEPT ![session.device] = new]
    BY <1>3 DEF Claim
  <2> HIDE DEF new
  <2> QED
    BY <2>1, <2>2, <2>3, <2>4 DEF DeviceMove, At, TypeOK
<1>4. CASE RefreshStatus(w) \/ ReauthStatus(w)
  BY <1>4, StatusTypes DEF RefreshStatus, ReauthStatus, DeviceMove
<1>5. CASE Arrival(w)
  <2>1. \A op, step, t, s, e : Begin(w, op, step, t, s, e) => devices' = devices
    BY DEF Begin, Documents
  <2>2. \A t, r, step : BeginResolve(w, t, r, step) => devices' = devices
    BY DEF BeginResolve, Documents
  <2> QED
    BY <1>5, <2>1, <2>2 DEF Arrival, BeginRefresh, BeginReauth, BeginFile,
       BeginRevokeDevice, BeginUnrevokeDevice, BeginRevokeSession, BeginMonitorRevokes,
       DeviceMove
<1>6. CASE Load(w) \/ Abort(w) \/ Consume(w) \/ Refresh(w) \/ Reauthorize(w)
  BY <1>6 DEF Load, Abort, Consume, Refresh, Reauthorize, Documents, DeviceMove
<1>7. CASE Establish(w) \/ File(w) \/ RevokeSession(w)
  BY <1>7 DEF Establish, File, RevokeSession, DeviceMove
<1>8. ASSUME NEW step, NEW status, Resolve(w, step, status)
      PROVE  DeviceMove(w, d)
  BY <1>8 DEF Resolve, DeviceMove
<1> QED
  BY <1>1, <1>2, <1>3, <1>4, <1>5, <1>6, <1>7, <1>8 DEF HandlerStep

\* claim_owner never transfers a device, whatever sessions are opened on it.
THEOREM OwnersStay ==
  ASSUME Isolated
  PROVE  Spec => OwnersKept
<1>1. Typed /\ CopiesInv /\ [Next]_vars =>
        [\A d \in Devices :
           devices[d].owner # NoUser => devices'[d].owner = devices[d].owner]_devices
  <2> SUFFICES ASSUME Typed, CopiesInv, Next, NEW d \in Devices, devices[d].owner # NoUser
               PROVE  devices'[d].owner = devices[d].owner
    BY DEF vars
  <2>1. PICK w \in Workers : Arrival(w) \/ Load(w) \/ HandlerStep(w) \/ Abort(w)
    BY DEF Next
  <2>2. DeviceMove(w, d)
    BY <2>1, CopiesCoherent, DeviceMoves
  <2> QED
    BY <2>2 DEF DeviceMove
<1> QED
  BY <1>1, StoreHolds, PTL DEF Spec, OwnersKept

-----------------------------------------------------------------------------
(***************************************************************************)
(* Entitlement.  A handler that is past the gate has what the gate asks    *)
(* for: it is an ADMIN's own, it has a grant for this caller, device and   *)
(* session, or it found no revocation.  What entitles it cannot be taken   *)
(* away: a session's user, and what a request is for, never change.        *)
(***************************************************************************)

Restoring == {"consume", "unrevoke", "reauthorize"}

\* Matching, for the requests rs.
For(r, j, rs) ==
  /\ rs[r] # Unfiled
  /\ rs[r].user = j.by.user /\ rs[r].device = j.device /\ rs[r].session = j.session

Entitled(j, ss, rs) ==
  /\ j.step = "reauthorize" => j.op = "reauth" /\ j.existed
  /\ j.step = "unrevoke" => j.op = "reauth" \/ IsAdmin(j.by)
  /\ j.op = "reauth" /\ j.step \in Restoring =>
       \/ /\ j.authority = "self" /\ IsAdmin(j.by)
          /\ j.existed => ss[j.session].user = j.by.user
       \/ /\ j.authority = "grant" /\ j.request \in Requests
          /\ For(j.request, j, rs)
       \/ j.authority = "none" /\ j.step = "reauthorize" /\ ~j.sawRevoked

EntitledInv ==
  \A w \in Workers : job[w] # Idle => Entitled(job[w], sessions, requests)

\* What a request is for never changes.
RequestsStand ==
  \A r \in Requests : requests[r] # Unfiled =>
    /\ requests'[r] # Unfiled
    /\ requests'[r].user = requests[r].user
    /\ requests'[r].device = requests[r].device
    /\ requests'[r].session = requests[r].session

LEMMA RequestsStanding ==
  ASSUME Coherent, Typed, NEW w \in Workers,
         Arrival(w) \/ Load(w) \/ HandlerStep(w) \/ Abort(w)
  PROVE  RequestsStand
<1> DEFINE j == job[w]
<1> USE DEF Typed
<1>1. CASE requests' = requests
  BY <1>1 DEF RequestsStand
<1>2. ASSUME NEW status \in {"consumed", "approved", "rejected"}, j # Idle, Ready(w),
             j.step \in RequestSteps,
             requests' = [requests EXCEPT ![j.request] = [Seen(w) EXCEPT !.status = status]]
      PROVE  RequestsStand
  <2>1. /\ Seen(w) = requests[j.request] /\ j.request \in Requests
        /\ Seen(w) \in RequestDocs
    BY <1>2, SeenRequest
  <2> DEFINE new == [Seen(w) EXCEPT !.status = status]
  <2>2. /\ new \in RequestDocs
        /\ new.user = Seen(w).user /\ new.device = Seen(w).device
        /\ new.session = Seen(w).session
    BY <2>1 DEF RequestDocs
  <2>3. new # Unfiled
    BY <2>2 DEF RequestDocs, Unfiled
  <2>4. requests' = [requests EXCEPT ![j.request] = new]
    BY <1>2
  <2> HIDE DEF new
  <2> QED
    BY <2>1, <2>2, <2>3, <2>4 DEF RequestsStand, TypeOK
<1>3. CASE Consume(w)
  <2>1. j # Idle /\ Ready(w) /\ j.step = "consume"
    BY <1>3, UpdateBusy DEF Consume
  <2> QED
    BY <1>1, <1>2, <1>3, <2>1 DEF Consume, RequestSteps
<1>4. ASSUME NEW step \in {"approve", "reject"}, NEW status \in {"approved", "rejected"},
             Resolve(w, step, status)
      PROVE  RequestsStand
  <2>1. j # Idle /\ Ready(w) /\ j.step = step
    BY <1>4, UpdateBusy DEF Resolve
  <2> QED
    BY <1>1, <1>2, <1>4, <2>1 DEF Resolve, RequestSteps
<1>5. CASE File(w)
  BY <1>5 DEF File, RequestsStand, TypeOK
<1>6. CASE Arrival(w)
  <2>1. \A op, step, t, s, d : Begin(w, op, step, t, s, d) => requests' = requests
    BY DEF Begin, Documents
  <2>2. \A t, r, step : BeginResolve(w, t, r, step) => requests' = requests
    BY DEF BeginResolve, Documents
  <2>3. requests' = requests
    BY <1>6, <2>1, <2>2 DEF Arrival, BeginRefresh, BeginReauth, BeginFile,
       BeginRevokeDevice, BeginUnrevokeDevice, BeginRevokeSession, BeginMonitorRevokes
  <2> QED
    BY <1>1, <2>3
<1>7. CASE Load(w) \/ Abort(w) \/ RefreshStatus(w) \/ ReauthStatus(w) \/ Unrevoke(w)
  BY <1>1, <1>7 DEF Load, Abort, RefreshStatus, ReauthStatus, Unrevoke, Documents
<1>8. CASE Refresh(w) \/ Reauthorize(w) \/ Establish(w) \/ Claim(w) \/ RevokeSession(w)
             \/ RevokeDevice(w)
  BY <1>1, <1>8 DEF Refresh, Reauthorize, Establish, Claim, RevokeSession, RevokeDevice
<1> QED
  BY <1>3, <1>4, <1>5, <1>6, <1>7, <1>8 DEF HandlerStep

\* Nor does the user of a session.
UsersStand ==
  \A s \in Sessions : Exists(s) => sessions'[s].user = sessions[s].user

LEMMA UsersStanding ==
  ASSUME Coherent, Typed, NEW w \in Workers,
         Arrival(w) \/ Load(w) \/ HandlerStep(w) \/ Abort(w)
  PROVE  UsersStand
<1> SUFFICES ASSUME NEW s \in Sessions, Exists(s)
             PROVE  sessions'[s].user = sessions[s].user
  BY DEF UsersStand
<1>1. SessionMove(w, s)
  BY SessionMoves
<1> QED
  BY <1>1 DEF SessionMove, Kept, Created, Changed, Marked

LEMMA EntitledLasts ==
  ASSUME Typed, UsersStand, RequestsStand, NEW j \in Jobs, Entitled(j, sessions, requests),
         GroundedJob(j, sessions, requests)
  PROVE  Entitled(j, sessions', requests')
<1>1. /\ j.op = "reauth" /\ j.existed => sessions'[j.session].user = sessions[j.session].user
      /\ j.request \in Requests /\ For(j.request, j, requests) => For(j.request, j, requests')
  BY DEF UsersStand, RequestsStand, GroundedJob, Exists, For, Jobs
<1> QED
  BY <1>1 DEF Entitled

\* Whoever goes on beyond the gate is entitled to.
LEMMA EntitledNext ==
  ASSUME Coherent, Typed, EntitledInv, UsersStand, RequestsStand, NEW w \in Workers,
         Arrival(w) \/ Load(w) \/ HandlerStep(w) \/ Abort(w)
  PROVE  job'[w] # Idle => Entitled(job'[w], sessions', requests')
<1> DEFINE j == job[w]
           k == job'[w]
<1> USE DEF Typed
<1>1. ASSUME k # Idle, k.step \notin Restoring
      PROVE  Entitled(job'[w], sessions', requests')
  BY <1>1 DEF Entitled, Restoring
<1>2. Reply(w) => k = Idle
  BY DEF Reply, TypeOK
<1>3. CASE Arrival(w)
  <2>1. ASSUME NEW op, NEW step, NEW t \in Tokens, NEW s, NEW d,
               Begin(w, op, step, t, s, d),
               \/ step \notin Restoring
               \/ step = "unrevoke" /\ op = "unrevoke" /\ IsAdmin(t)
        PROVE  Entitled(job'[w], sessions', requests')
    <3>1. k.step = step /\ k.op = op /\ k.by = t
      BY <2>1 DEF Begin, TypeOK
    <3> QED
      BY <2>1, <3>1 DEF Entitled, Restoring
  <2>2. ASSUME NEW t, NEW r, NEW step \in {"approve", "reject"}, BeginResolve(w, t, r, step)
        PROVE  Entitled(job'[w], sessions', requests')
    <3>1. k.step = step
      BY <2>2 DEF BeginResolve, TypeOK
    <3> QED
      BY <3>1 DEF Entitled, Restoring
  <2> QED
    BY <1>3, <2>1, <2>2 DEF Arrival, BeginRefresh, BeginReauth, BeginFile,
       BeginRevokeDevice, BeginUnrevokeDevice, BeginRevokeSession, BeginMonitorRevokes,
       Restoring
<1>4. CASE Load(w)
  <2>1. k = j /\ job' = job /\ j # Idle
    BY <1>4 DEF Load
  <2>2. j \in Jobs /\ Entitled(j, sessions, requests) /\ GroundedJob(j, sessions, requests)
    BY <2>1, JobTyped DEF EntitledInv, Grounded
  <2> QED
    BY <2>1, <2>2, EntitledLasts
<1>5. CASE Abort(w)
  BY <1>2, <1>5 DEF Abort
<1>6. CASE HandlerStep(w)
  <2>1. j \in Jobs /\ Entitled(j, sessions, requests) /\ GroundedJob(j, sessions, requests)
    BY <1>6, HandlerBusy, JobTyped DEF EntitledInv, Grounded
  <2>2. ASSUME NEW step, Continue(w, step)
        PROVE  /\ k.step = step /\ k.op = j.op /\ k.by = j.by /\ k.existed = j.existed
               /\ k.session = j.session /\ k.device = j.device /\ k.request = j.request
               /\ k.authority = j.authority /\ k.sawRevoked = j.sawRevoked
    <3>1. k = [j EXCEPT !.step = step]
      BY <2>2 DEF Continue, TypeOK
    <3> QED
      BY <2>1, <3>1 DEF Jobs
  <2>3. ASSUME NEW step \in {"refresh", "establish", "claim"}, Continue(w, step)
        PROVE  k = Idle \/ k.step \notin Restoring
    BY <2>2, <2>3 DEF Restoring
  <2>4. ASSUME j.op = "reauth", j.step \in {"consume", "unrevoke"},
               \/ Continue(w, Restore(j))
               \/ j.step = "consume" /\ Continue(w, "unrevoke")
        PROVE  Entitled(job'[w], sessions', requests')
    <3>1. /\ k.step \in {"establish", "unrevoke", "reauthorize"}
          /\ k.step = "reauthorize" => j.existed
          /\ k.op = j.op /\ k.by = j.by /\ k.existed = j.existed
          /\ k.session = j.session /\ k.device = j.device /\ k.request = j.request
          /\ k.authority = j.authority /\ k.sawRevoked = j.sawRevoked
      BY <2>2, <2>4 DEF Restore
    <3>2. Entitled(j, sessions', requests')
      BY <2>1, EntitledLasts
    <3> QED
      BY <2>4, <3>1, <3>2 DEF Entitled, Restoring, For
  <2>5. CASE ReauthStatus(w)
    <3>1. sessions' = sessions /\ requests' = requests /\ j.op = "reauth"
      BY <2>5 DEF ReauthStatus
    <3>2. ASSUME NEW a \in Authorities(j), Seen(w).revoked \/ j.sawRevoked => a.authority # "none",
                 job' = [job EXCEPT ![w] =
                   [j EXCEPT !.authority = a.authority, !.request = a.request,
                             !.sawDeviceRevoked = Seen(w).revoked,
                             !.step = CASE a.authority = "grant" -> "consume"
                                        [] a.authority = "self" /\ Seen(w).revoked
                                             -> "unrevoke"
                                        [] OTHER -> Restore(j)]]
          PROVE  Entitled(job'[w], sessions', requests')
      <4> DEFINE step == CASE a.authority = "grant" -> "consume"
                           [] a.authority = "self" /\ Seen(w).revoked -> "unrevoke"
                           [] OTHER -> Restore(j)
      <4>1. k = [j EXCEPT !.authority = a.authority, !.request = a.request,
                          !.sawDeviceRevoked = Seen(w).revoked, !.step = step]
        BY <3>2 DEF TypeOK
      <4>2. /\ step = "reauthorize" => j.existed
            /\ step \in {"consume", "unrevoke"} => a.authority # "none"
        BY DEF Restore
      <4>3. \/ a.authority = "self" /\ SelfService(j)
            \/ a.authority = "grant" /\ a.request \in GrantsFor(j.by, j.device, j.session)
            \/ a.authority = "none"
        BY DEF Authorities
      <4> HIDE DEF step
      <4>4. /\ k.step = step /\ k.op = j.op /\ k.by = j.by /\ k.existed = j.existed
            /\ k.session = j.session /\ k.device = j.device /\ k.sawRevoked = j.sawRevoked
            /\ k.authority = a.authority /\ k.request = a.request
        BY <2>1, <4>1 DEF Jobs
      <4>5. \/ k.authority = "self" /\ IsAdmin(k.by)
              /\ (k.existed => sessions[k.session].user = k.by.user)
            \/ k.authority = "grant" /\ k.request \in Requests
              /\ For(k.request, k, requests)
            \/ k.authority = "none" /\ k.step \notin {"consume", "unrevoke"} /\ ~k.sawRevoked
        BY <3>2, <4>2, <4>3, <4>4 DEF SelfService, GrantsFor, Matching, For
      <4> QED
        BY <3>1, <4>2, <4>4, <4>5 DEF Entitled, Restoring, For
    <3> QED
      BY <1>2, <2>5, <3>2 DEF ReauthStatus
  <2>6. CASE Consume(w)
    <3>1. j.step = "consume" /\ j.op = "reauth"
      BY <2>1, <2>6, UpdateBusy DEF Consume, GroundedJob
    <3> QED
      BY <1>2, <2>4, <2>6, <3>1 DEF Consume
  <2>7. CASE Unrevoke(w)
    <3>1. j.step = "unrevoke"
      BY <2>7, UpdateBusy DEF Unrevoke
    <3> QED
      BY <1>2, <2>4, <2>7, <3>1 DEF Unrevoke
  <2>8. CASE RefreshStatus(w) \/ Refresh(w) \/ Reauthorize(w) \/ Establish(w)
    <3>1. Reply(w) \/ Continue(w, "refresh") \/ Continue(w, "establish") \/ Continue(w, "claim")
      BY <2>8 DEF RefreshStatus, Refresh, Reauthorize, Establish
    <3> QED
      BY <1>1, <1>2, <2>3, <3>1
  <2>9. CASE Claim(w) \/ File(w) \/ RevokeSession(w) \/ RevokeDevice(w)
    BY <1>2, <2>9 DEF Claim, File, RevokeSession, RevokeDevice
  <2>10. ASSUME NEW step, NEW status, Resolve(w, step, status)
         PROVE  k = Idle
    BY <1>2, <2>10 DEF Resolve
  <2> QED
    BY <1>6, <2>5, <2>6, <2>7, <2>8, <2>9, <2>10 DEF HandlerStep
<1> QED
  BY <1>3, <1>4, <1>5, <1>6

LEMMA EntitledStep ==
  ASSUME Coherent, Typed, EntitledInv, [Next]_vars
  PROVE  EntitledInv'
<1>1. ASSUME NEW w \in Workers, Arrival(w) \/ Load(w) \/ HandlerStep(w) \/ Abort(w)
      PROVE  EntitledInv'
  <2>1. UsersStand /\ RequestsStand
    BY <1>1, UsersStanding, RequestsStanding
  <2>2. job'[w] # Idle => Entitled(job'[w], sessions', requests')
    BY <1>1, <2>1, EntitledNext
  <2>3. ASSUME NEW v \in Workers, v # w, job'[v] # Idle
        PROVE  Entitled(job'[v], sessions', requests')
    <3>1. job'[v] = job[v]
      BY <1>1, <2>3, OthersWait DEF Typed
    <3>2. /\ job[v] \in Jobs /\ Entitled(job[v], sessions, requests)
          /\ GroundedJob(job[v], sessions, requests)
      BY <2>3, <3>1, JobTyped DEF EntitledInv, Typed, Grounded
    <3> QED
      BY <2>1, <3>1, <3>2, EntitledLasts
  <2> QED
    BY <2>2, <2>3 DEF EntitledInv
<1>2. CASE UNCHANGED vars
  BY <1>2 DEF vars, EntitledInv
<1> QED
  BY <1>1, <1>2 DEF Next

LEMMA EntitledHolds ==
  ASSUME Isolated
  PROVE  Spec => [](Typed /\ Coherent /\ GrantInv /\ EntitledInv)
<1>1. Init => EntitledInv
  BY DEF Init, EntitledInv
<1>2. Typed /\ CopiesInv /\ EntitledInv /\ [Next]_vars => EntitledInv'
  BY CopiesCoherent, EntitledStep
<1>3. CopiesInv => Coherent
  BY CopiesCoherent
<1> QED
  BY <1>1, <1>2, <1>3, StoreHolds, GrantHolds, PTL DEF Spec

\* A revocation is lifted only by a reauthentication; one that found the session revoked
\* is by the session's own ADMIN or has consumed a grant for this caller and session.
THEOREM RevocationsHold ==
  ASSUME Isolated
  PROVE  Spec => EarlierRevocationsHold
<1>1. Typed /\ Coherent /\ GrantInv /\ EntitledInv /\ [Next]_vars =>
        [\A s \in Sessions :
           Revoked(s) /\ ~Revoked(s)' =>
             \E w \in Workers :
               /\ Restores(w, s)
               /\ job[w].sawRevoked =>
                    \/ IsAdmin(job[w].by) /\ sessions[s].user = job[w].by.user
                    \/ /\ job[w].request # NoRequest
                       /\ Matching(job[w].request, job[w].by, job[w].device, s)
                       /\ requests[job[w].request].status = "consumed"]_sessions
  <2> SUFFICES ASSUME Typed, Coherent, GrantInv, EntitledInv, Next, NEW s \in Sessions,
                      Revoked(s), ~Revoked(s)'
               PROVE  \E w \in Workers :
                 /\ Restores(w, s)
                 /\ job[w].sawRevoked =>
                      \/ IsAdmin(job[w].by) /\ sessions[s].user = job[w].by.user
                      \/ /\ job[w].request # NoRequest
                         /\ Matching(job[w].request, job[w].by, job[w].device, s)
                         /\ requests[job[w].request].status = "consumed"
    BY DEF vars
  <2>1. PICK w \in Workers : Arrival(w) \/ Load(w) \/ HandlerStep(w) \/ Abort(w)
    BY DEF Next
  <2>2. Restores(w, s)
    BY <2>1, OnlyRestoresLift
  <2> DEFINE j == job[w]
  <2>3. j # Idle /\ j.step = "reauthorize" /\ j.session = s
    BY <2>2 DEF Restores, At, Idle
  <2>4. Entitled(j, sessions, requests)
    BY <2>3 DEF EntitledInv
  <2>5. j.request \in Requests =>
          j.request # NoRequest /\ requests[j.request].status = "consumed"
    BY <2>3, RequestsAssumption DEF GrantInv, Holding
  <2>6. j.sawRevoked =>
          \/ IsAdmin(j.by) /\ sessions[s].user = j.by.user
          \/ /\ j.request # NoRequest
             /\ Matching(j.request, j.by, j.device, s)
             /\ requests[j.request].status = "consumed"
    BY <2>3, <2>4, <2>5 DEF Entitled, Restoring, For, Matching
  <2> QED
    BY <2>2, <2>6
<1> QED
  BY <1>1, EntitledHolds, PTL DEF Spec, EarlierRevocationsHold

\* A device stays revoked until an ADMIN restores it or a handler that has consumed a
\* grant for that very device does.
THEOREM DeviceRevocationsHold ==
  ASSUME Isolated
  PROVE  Spec => DeviceRestoredByGrant
<1>1. Typed /\ Coherent /\ GrantInv /\ EntitledInv /\ [Next]_vars =>
        [\A d \in Devices :
           devices[d].revoked /\ ~devices'[d].revoked =>
             \E w \in Workers :
               /\ At(w, "unrevoke") /\ job[w].device = d
               /\ \/ IsAdmin(job[w].by)
                  \/ /\ job[w].request # NoRequest
                     /\ requests[job[w].request].device = d
                     /\ requests[job[w].request].status = "consumed"]_devices
  <2> SUFFICES ASSUME Typed, Coherent, GrantInv, EntitledInv, Next, NEW d \in Devices,
                      devices[d].revoked, ~devices'[d].revoked
               PROVE  \E w \in Workers :
                 /\ At(w, "unrevoke") /\ job[w].device = d
                 /\ \/ IsAdmin(job[w].by)
                    \/ /\ job[w].request # NoRequest
                       /\ requests[job[w].request].device = d
                       /\ requests[job[w].request].status = "consumed"
    BY DEF vars
  <2>1. PICK w \in Workers : Arrival(w) \/ Load(w) \/ HandlerStep(w) \/ Abort(w)
    BY DEF Next
  <2>2. At(w, "unrevoke") /\ job[w].device = d
    BY <2>1, DeviceMoves DEF DeviceMove
  <2> DEFINE j == job[w]
  <2>3. j # Idle /\ j.step = "unrevoke" /\ j.device = d
    BY <2>2 DEF At, Idle
  <2>4. Entitled(j, sessions, requests)
    BY <2>3 DEF EntitledInv
  <2>5. j.request \in Requests =>
          j.request # NoRequest /\ requests[j.request].status = "consumed"
    BY <2>3, RequestsAssumption DEF GrantInv, Holding
  <2>6. \/ IsAdmin(j.by)
        \/ /\ j.request # NoRequest
           /\ requests[j.request].device = d
           /\ requests[j.request].status = "consumed"
    BY <2>3, <2>4, <2>5 DEF Entitled, Restoring, For
  <2> QED
    BY <2>2, <2>6
<1> QED
  BY <1>1, EntitledHolds, PTL DEF Spec, DeviceRestoredByGrant

-----------------------------------------------------------------------------
(***************************************************************************)
(* One request at a time.  What a reauthentication found of the session    *)
(* still holds when it restores it, so none crosses a revocation without   *)
(* authority, over the encrypted store too.  With two workers it can       *)
(* (RestoredWithAuthority is violated).                                    *)
(***************************************************************************)

OneWorker == \A v, w \in Workers : v = w

Gated == {"status"} \cup Restoring

\* Revoked, for the sessions ss.
RevokedIn(ss, s) == ss[s] # NoSession /\ ss[s].revoked

SawInv ==
  \A w \in Workers :
    job[w] # Idle /\ job[w].op = "reauth" /\ job[w].step \in Gated =>
      job[w].sawRevoked = RevokedIn(sessions, job[w].session)

LEMMA SawStep ==
  ASSUME OneWorker, Coherent, Typed, EntitledInv, SawInv, [Next]_vars
  PROVE  SawInv'
<1> USE DEF Typed
<1>1. ASSUME NEW w \in Workers, Arrival(w) \/ Load(w) \/ HandlerStep(w) \/ Abort(w)
      PROVE  SawInv'
  <2> DEFINE j == job[w]
             k == job'[w]
  <2> SUFFICES ASSUME k # Idle, k.op = "reauth", k.step \in Gated
               PROVE  k.sawRevoked = RevokedIn(sessions', k.session)
    BY DEF SawInv, OneWorker
  <2>1. Reply(w) => FALSE
    BY DEF Reply, TypeOK
  <2>2. ASSUME NEW step, j \in Jobs, Continue(w, step)
        PROVE  k.step = step
    BY <2>2 DEF Continue, TypeOK, Jobs
  <2>3. sessions' = sessions
    <3>1. ASSUME Refresh(w) \/ Reauthorize(w) \/ Establish(w) \/ RevokeSession(w)
          PROVE  FALSE
      <4>1. j \in Jobs
        BY <3>1, HandlerBusy, JobTyped DEF HandlerStep
      <4>2. Continue(w, "claim")
        BY <2>1, <3>1 DEF Refresh, Reauthorize, Establish, RevokeSession
      <4> QED
        BY <2>2, <4>1, <4>2 DEF Gated, Restoring
    <3> QED
      BY <1>1, <3>1, SessionsKept
  <2>5. CASE Arrival(w)
    <3>1. \A op, step, t, s, d : Begin(w, op, step, t, s, d) =>
            k.sawRevoked = RevokedIn(sessions, s) /\ k.session = s
      BY DEF Begin, TypeOK, Revoked, Exists, RevokedIn
    <3>2. \A t, r, step : BeginResolve(w, t, r, step) => k.op = "resolve"
      BY DEF BeginResolve, TypeOK
    <3> QED
      BY <2>3, <2>5, <3>1, <3>2 DEF Arrival, BeginRefresh, BeginReauth, BeginFile,
         BeginRevokeDevice, BeginUnrevokeDevice, BeginRevokeSession, BeginMonitorRevokes
  <2>6. CASE Load(w)
    BY <2>3, <2>6 DEF Load, SawInv
  <2>7. CASE Abort(w)
    BY <2>1, <2>7 DEF Abort
  <2>8. CASE HandlerStep(w)
    <3>1. j # Idle /\ j \in Jobs
      BY <2>8, HandlerBusy, JobTyped
    <3>2. ASSUME j.step \in Gated, j.op = "reauth", k.sawRevoked = j.sawRevoked,
                 k.session = j.session
          PROVE  k.sawRevoked = RevokedIn(sessions', k.session)
      BY <2>3, <3>1, <3>2 DEF SawInv
    <3>3. ASSUME NEW step, Continue(w, step)
          PROVE  /\ k.sawRevoked = j.sawRevoked /\ k.session = j.session /\ k.op = j.op
                 /\ k.step = step
      <4>1. k = [j EXCEPT !.step = step]
        BY <3>3 DEF Continue, TypeOK
      <4> QED
        BY <3>1, <4>1 DEF Jobs
    <3>4. CASE ReauthStatus(w)
      <4>1. j.step = "status" /\ j.op = "reauth"
        BY <3>4, UpdateBusy DEF ReauthStatus, Status
      <4>2. PICK a \in Authorities(j) :
              job' = [job EXCEPT ![w] =
                [j EXCEPT !.authority = a.authority, !.request = a.request,
                          !.sawDeviceRevoked = Seen(w).revoked,
                          !.step = CASE a.authority = "grant" -> "consume"
                                     [] a.authority = "self" /\ Seen(w).revoked
                                          -> "unrevoke"
                                     [] OTHER -> Restore(j)]]
        BY <2>1, <3>4 DEF ReauthStatus
      <4> DEFINE step == CASE a.authority = "grant" -> "consume"
                           [] a.authority = "self" /\ Seen(w).revoked -> "unrevoke"
                           [] OTHER -> Restore(j)
      <4>3. k = [j EXCEPT !.authority = a.authority, !.request = a.request,
                          !.sawDeviceRevoked = Seen(w).revoked, !.step = step]
        BY <4>2 DEF TypeOK
      <4> HIDE DEF step
      <4>4. k.sawRevoked = j.sawRevoked /\ k.session = j.session
        BY <3>1, <4>3 DEF Jobs
      <4> QED
        BY <3>2, <4>1, <4>4 DEF Gated
    <3>5. CASE Consume(w) \/ Unrevoke(w)
      <4>1. j.step \in Gated
        BY <3>5, UpdateBusy DEF Consume, Unrevoke, Gated, Restoring
      <4>2. Continue(w, "unrevoke") \/ Continue(w, Restore(j))
        BY <2>1, <3>5 DEF Consume, Unrevoke
      <4> QED
        BY <3>2, <3>3, <4>1, <4>2
    <3>6. CASE RefreshStatus(w) \/ Refresh(w) \/ Reauthorize(w) \/ Establish(w)
      <4>1. Continue(w, "refresh") \/ Continue(w, "establish") \/ Continue(w, "claim")
        BY <2>1, <3>6 DEF RefreshStatus, Refresh, Reauthorize, Establish
      <4> QED
        BY <3>3, <4>1 DEF Gated, Restoring
    <3>7. CASE Claim(w) \/ File(w) \/ RevokeSession(w) \/ RevokeDevice(w)
      BY <2>1, <3>7 DEF Claim, File, RevokeSession, RevokeDevice
    <3>8. ASSUME NEW step, NEW status, Resolve(w, step, status)
          PROVE  FALSE
      BY <2>1, <3>8 DEF Resolve
    <3> QED
      BY <2>8, <3>4, <3>5, <3>6, <3>7, <3>8 DEF HandlerStep
  <2> QED
    BY <1>1, <2>5, <2>6, <2>7, <2>8
<1>2. CASE UNCHANGED vars
  BY <1>2 DEF vars, SawInv
<1> QED
  BY <1>1, <1>2 DEF Next

\* Among requests that do not overlap, no session boundary is crossed without authority,
\* as the comment at the reauthentication gate says.
THEOREM RestoredOnlyWithAuthority ==
  ASSUME OneWorker
  PROVE  Spec => RestoredWithAuthority
<1>1. Isolated
  BY DEF OneWorker, Isolated
<1>2. Init => SawInv
  BY DEF Init, SawInv
<1>3. Typed /\ Coherent /\ EntitledInv /\ SawInv /\ [Next]_vars => SawInv'
  BY SawStep
<1>4. Typed /\ Coherent /\ EntitledInv /\ SawInv /\ [Next]_vars =>
        [\A s \in Sessions :
           Revoked(s) /\ ~Revoked(s)' =>
             \E w \in Workers : Restores(w, s) /\ job[w].authority # "none"]_sessions
  <2> SUFFICES ASSUME Typed, Coherent, EntitledInv, SawInv, Next, NEW s \in Sessions,
                      Revoked(s), ~Revoked(s)'
               PROVE  \E w \in Workers : Restores(w, s) /\ job[w].authority # "none"
    BY DEF vars
  <2>1. PICK w \in Workers : Arrival(w) \/ Load(w) \/ HandlerStep(w) \/ Abort(w)
    BY DEF Next
  <2>2. Restores(w, s)
    BY <2>1, OnlyRestoresLift
  <2>3. job[w] # Idle /\ job[w].step = "reauthorize" /\ job[w].session = s
    BY <2>2 DEF Restores, At, Idle
  <2>4. job[w].op = "reauth" /\ job[w].sawRevoked
    BY <2>3 DEF EntitledInv, Entitled, SawInv, Gated, Restoring, RevokedIn, Revoked, Exists
  <2>5. job[w].authority # "none"
    BY <2>3, <2>4 DEF EntitledInv, Entitled, Restoring
  <2> QED
    BY <2>2, <2>5
<1> QED
  BY <1>1, <1>2, <1>3, <1>4, EntitledHolds, PTL DEF Spec, RestoredWithAuthority

-----------------------------------------------------------------------------
(***************************************************************************)
(* The promise.  Each update of a session, each first claim of a device    *)
(* and each approval of a request is a step of RevocableSessions; the      *)
(* other calls, loads and failures are stuttering steps.  What a           *)
(* restoration needs is what the handler carries: GrantInv has it that a   *)
(* grant it holds is not spent, EntitledInv that the grant is for this     *)
(* session, and SawInv that a handler without authority restores nothing.  *)
(***************************************************************************)

\* A handler names a request exactly when it relies on a grant.
PaidInv ==
  \A w \in Workers :
    job[w] # Idle /\ job[w].op = "reauth" =>
      (job[w].authority = "grant" <=> job[w].request # NoRequest)

LEMMA PaidStep ==
  ASSUME Typed, PaidInv, [Next]_vars
  PROVE  PaidInv'
<1> USE DEF Typed
<1>1. ASSUME NEW w \in Workers, Arrival(w) \/ Load(w) \/ HandlerStep(w) \/ Abort(w)
      PROVE  PaidInv'
  <2> DEFINE j == job[w]
             k == job'[w]
  <2> SUFFICES ASSUME k # Idle, k.op = "reauth"
               PROVE  k.authority = "grant" <=> k.request # NoRequest
    BY <1>1, OthersWait DEF PaidInv
  <2>1. Reply(w) => FALSE
    BY DEF Reply, TypeOK
  <2>2. ASSUME NEW step, Continue(w, step), j # Idle
        PROVE  k.authority = "grant" <=> k.request # NoRequest
    <3>1. j \in Jobs /\ k = [j EXCEPT !.step = step]
      BY <2>2, JobTyped DEF Continue, TypeOK
    <3>2. k.op = j.op /\ k.authority = j.authority /\ k.request = j.request
      BY <3>1 DEF Jobs
    <3> QED
      BY <2>2, <3>2 DEF PaidInv
  <2>3. CASE Arrival(w)
    <3>1. \A op, step, t, s, d : Begin(w, op, step, t, s, d) =>
            k.authority = "none" /\ k.request = NoRequest
      BY DEF Begin, TypeOK
    <3>2. \A t, r, step : ~BeginResolve(w, t, r, step)
      BY DEF BeginResolve, TypeOK
    <3> QED
      BY <2>3, <3>1, <3>2 DEF Arrival, BeginRefresh, BeginReauth, BeginFile,
         BeginRevokeDevice, BeginUnrevokeDevice, BeginRevokeSession, BeginMonitorRevokes
  <2>4. CASE Load(w)
    BY <2>4 DEF Load, PaidInv
  <2>5. CASE Abort(w)
    BY <2>1, <2>5 DEF Abort
  <2>6. CASE ReauthStatus(w)
    <3>1. j \in Jobs
      BY <2>6, HandlerBusy, JobTyped DEF HandlerStep
    <3>2. ASSUME NEW a \in Authorities(j),
                 job' = [job EXCEPT ![w] =
                   [j EXCEPT !.authority = a.authority, !.request = a.request,
                             !.sawDeviceRevoked = Seen(w).revoked,
                             !.step = CASE a.authority = "grant" -> "consume"
                                        [] a.authority = "self" /\ Seen(w).revoked
                                             -> "unrevoke"
                                        [] OTHER -> Restore(j)]]
          PROVE  k.authority = "grant" <=> k.request # NoRequest
      <4>1. k.authority = a.authority /\ k.request = a.request
        BY <3>1, <3>2 DEF TypeOK, Jobs
      <4>2. a.authority = "grant" <=> a.request # NoRequest
        BY RequestsAssumption DEF Authorities, GrantsFor
      <4> QED
        BY <4>1, <4>2
    <3> QED
      BY <2>1, <2>6, <3>2 DEF ReauthStatus
  <2>7. CASE RefreshStatus(w) \/ Consume(w) \/ Unrevoke(w) \/ Refresh(w)
    <3>1. /\ j # Idle
          /\ \E step : Continue(w, step)
      BY <2>1, <2>7, HandlerBusy
      DEF HandlerStep, RefreshStatus, Consume, Unrevoke, Refresh
    <3> QED
      BY <2>2, <3>1
  <2>8. CASE Reauthorize(w) \/ Establish(w)
    <3>1. j # Idle /\ Continue(w, "claim")
      BY <2>8, HandlerBusy DEF HandlerStep, Reauthorize, Establish
    <3> QED
      BY <2>2, <3>1
  <2>9. CASE Claim(w) \/ File(w) \/ RevokeSession(w) \/ RevokeDevice(w)
    BY <2>1, <2>9 DEF Claim, File, RevokeSession, RevokeDevice
  <2>10. ASSUME NEW step, NEW status, Resolve(w, step, status)
         PROVE  FALSE
    BY <2>1, <2>10 DEF Resolve
  <2> QED
    BY <1>1, <2>3, <2>4, <2>5, <2>6, <2>7, <2>8, <2>9, <2>10 DEF HandlerStep
<1>2. CASE UNCHANGED vars
  BY <1>2 DEF vars, PaidInv
<1> QED
  BY <1>1, <1>2 DEF Next

\* GrantedSession, for the requests rs.
GrantedIn(rs, r) ==
  IF rs[r] # Unfiled /\ rs[r].status \in {"approved", "consumed"}
    THEN rs[r].session
    ELSE NoSession

\* Only an approval grants.
LEMMA GrantsKept ==
  ASSUME Coherent, Typed, NEW w \in Workers,
         Arrival(w) \/ Load(w) \/ HandlerStep(w) \/ Abort(w), ~At(w, "approve")
  PROVE  \A r \in Requests : GrantedIn(requests', r) = GrantedIn(requests, r)
<1> DEFINE j == job[w]
<1> USE DEF Typed
<1>1. CASE requests' = requests
  BY <1>1
<1>2. ASSUME NEW from \in {"approved", "pending"}, NEW to \in {"consumed", "rejected"},
             from = "approved" <=> to = "consumed",
             j # Idle, Ready(w), j.step \in RequestSteps, Seen(w).status = from,
             requests' = [requests EXCEPT ![j.request] = [Seen(w) EXCEPT !.status = to]]
      PROVE  \A r \in Requests : GrantedIn(requests', r) = GrantedIn(requests, r)
  <2>1. /\ Seen(w) = requests[j.request] /\ j.request \in Requests
        /\ Seen(w) \in RequestDocs
    BY <1>2, SeenRequest
  <2> DEFINE new == [Seen(w) EXCEPT !.status = to]
  <2>2. new \in RequestDocs /\ new.status = to /\ new.session = Seen(w).session
    BY <2>1 DEF RequestDocs
  <2>3. new # Unfiled /\ Seen(w) # Unfiled
    BY <2>1, <2>2 DEF RequestDocs, Unfiled
  <2>4. \A r \in Requests :
          requests'[r] = IF r = j.request THEN new ELSE requests[r]
    BY <1>2, <2>1 DEF TypeOK
  <2> HIDE DEF new
  <2> QED
    BY <1>2, <2>1, <2>2, <2>3, <2>4 DEF GrantedIn
<1>3. CASE Consume(w)
  <2>1. j # Idle /\ Ready(w) /\ j.step = "consume"
    BY <1>3, UpdateBusy DEF Consume
  <2> QED
    BY <1>1, <1>2, <1>3, <2>1 DEF Consume, RequestSteps
<1>4. CASE Resolve(w, "reject", "rejected")
  <2>1. j # Idle /\ Ready(w) /\ j.step = "reject"
    BY <1>4, UpdateBusy DEF Resolve
  <2> QED
    BY <1>1, <1>2, <1>4, <2>1 DEF Resolve, RequestSteps
<1>5. CASE File(w)
  <2>1. PICK r \in Requests :
          /\ requests[r] = Unfiled
          /\ requests' = [requests EXCEPT ![r] =
               [status |-> "pending", user |-> j.by.user,
                device |-> j.device, session |-> j.session]]
    BY <1>5 DEF File
  <2> QED
    BY <2>1 DEF GrantedIn, TypeOK
<1>6. CASE Arrival(w)
  <2>1. \A op, step, t, s, d : Begin(w, op, step, t, s, d) => requests' = requests
    BY DEF Begin, Documents
  <2>2. \A t, r, step : BeginResolve(w, t, r, step) => requests' = requests
    BY DEF BeginResolve, Documents
  <2>3. requests' = requests
    BY <1>6, <2>1, <2>2 DEF Arrival, BeginRefresh, BeginReauth, BeginFile,
       BeginRevokeDevice, BeginUnrevokeDevice, BeginRevokeSession, BeginMonitorRevokes
  <2> QED
    BY <1>1, <2>3
<1>7. CASE Load(w) \/ Abort(w) \/ RefreshStatus(w) \/ ReauthStatus(w) \/ Unrevoke(w)
  BY <1>1, <1>7 DEF Load, Abort, RefreshStatus, ReauthStatus, Unrevoke, Documents
<1>8. CASE Refresh(w) \/ Reauthorize(w) \/ Establish(w) \/ Claim(w)
             \/ RevokeSession(w) \/ RevokeDevice(w)
  BY <1>1, <1>8 DEF Refresh, Reauthorize, Establish, Claim, RevokeSession, RevokeDevice
<1>9. ~Resolve(w, "approve", "approved")
  BY DEF Resolve, Update
<1> QED
  BY <1>3, <1>4, <1>5, <1>6, <1>7, <1>8, <1>9 DEF HandlerStep

\* What RevocableSessions sees, beside the sessions.
OwnersSame == \A d \in Devices : devices'[d].owner = devices[d].owner
GrantsSame == \A r \in Requests : GrantedIn(requests', r) = GrantedIn(requests, r)
SpentSame  == restorations' = restorations

Promised ==
  <<sessions, [d \in Devices |-> devices[d].owner],
    [r \in Requests |-> GrantedSession(r)], {r \in Requests : restorations[r] > 0}>>

\* The two sides of a step that is not about them.
LEMMA SameViews ==
  /\ OwnersSame => [d \in Devices |-> devices[d].owner]' = [d \in Devices |-> devices[d].owner]
  /\ GrantsSame => [r \in Requests |-> GrantedSession(r)]'
                     = [r \in Requests |-> GrantedSession(r)]
  /\ SpentSame => {r \in Requests : restorations[r] > 0}'
                    = {r \in Requests : restorations[r] > 0}
<1>1. OwnersSame => [d \in Devices |-> devices[d].owner]' = [d \in Devices |-> devices[d].owner]
  BY DEF OwnersSame
<1>2. GrantsSame => [r \in Requests |-> GrantedSession(r)]'
                      = [r \in Requests |-> GrantedSession(r)]
  BY DEF GrantsSame, GrantedIn, GrantedSession
<1>3. SpentSame => {r \in Requests : restorations[r] > 0}'
                     = {r \in Requests : restorations[r] > 0}
  BY DEF SpentSame
<1> QED
  BY <1>1, <1>2, <1>3

LEMMA OwnersKeptBy ==
  ASSUME Coherent, Typed, NEW w \in Workers,
         Arrival(w) \/ Load(w) \/ HandlerStep(w) \/ Abort(w), ~At(w, "claim")
  PROVE  OwnersSame
BY DeviceMoves DEF DeviceMove, OwnersSame

\* A refresh, or a reauthorization, makes of the document its next version.
LEMMA NextDocument ==
  ASSUME NEW doc \in SessionDocs, ~doc.revoked
  PROVE  [doc EXCEPT !.version = @ + 1] = Promise!Renewed(doc)
BY DEF SessionDocs, Promise!Renewed

LEMMA RefreshPromised ==
  ASSUME Coherent, Typed, NEW w \in Workers, Refresh(w)
  PROVE  Promise!Next \/ UNCHANGED Promised
<1> DEFINE j == job[w]
           s == j.session
<1> USE DEF Typed
<1>1. j # Idle /\ Ready(w) /\ j.step = "refresh"
  BY UpdateBusy DEF Refresh
<1>2. /\ j \in Jobs /\ s \in Sessions /\ Exists(s)
      /\ Seen(w) = sessions[s] /\ sessions[s] \in SessionDocs
  BY <1>1, JobTyped, SeenSession
  DEF SessionSteps, Grounded, GroundedJob, NeedsSession, Exists, Jobs
<1>3. OwnersSame /\ GrantsSame /\ SpentSame
  BY DEF Refresh, Histories, OwnersSame, GrantsSame, SpentSame
<1>4. CASE sessions[s].revoked
  BY <1>2, <1>3, <1>4, SameViews DEF Refresh, Promised
<1>5. CASE ~sessions[s].revoked
  <2>1. sessions' = [sessions EXCEPT ![s] = Promise!Renewed(sessions[s])]
    BY <1>2, <1>5, NextDocument DEF Refresh
  <2>2. Promise!Renew(s)
    BY <1>2, <1>3, <1>5, <2>1, SameViews
    DEF Promise!Renew, Promise!NextVersion, Promise!Exists, Exists
  <2> QED
    BY <1>2, <2>2 DEF Promise!Next
<1> QED
  BY <1>4, <1>5

LEMMA ReauthorizePromised ==
  ASSUME Coherent, Typed, GrantInv, EntitledInv, PaidInv, SawInv,
         NEW w \in Workers, Reauthorize(w)
  PROVE  Promise!Next
<1> DEFINE j == job[w]
           s == j.session
<1> USE DEF Typed
<1>1. j # Idle /\ Ready(w) /\ j.step = "reauthorize"
  BY UpdateBusy DEF Reauthorize
<1>2. /\ j \in Jobs /\ s \in Sessions /\ Exists(s)
      /\ Seen(w) = sessions[s] /\ sessions[s] \in SessionDocs
  BY <1>1, JobTyped, SeenSession
  DEF SessionSteps, Grounded, GroundedJob, NeedsSession, Exists, Jobs
<1>3. /\ j.op = "reauth" /\ j.existed
      /\ \/ /\ j.authority = "self" /\ IsAdmin(j.by) /\ sessions[s].user = j.by.user
         \/ j.authority = "grant" /\ j.request \in Requests /\ For(j.request, j, requests)
         \/ j.authority = "none" /\ ~j.sawRevoked
  BY <1>1 DEF EntitledInv, Entitled, Restoring
<1>4. j.authority = "grant" <=> j.request # NoRequest
  BY <1>1, <1>3 DEF PaidInv
<1>5. sessions' = [sessions EXCEPT ![s] = Promise!Renewed(sessions[s])]
  BY <1>2 DEF Reauthorize, Promise!Renewed
<1>6. OwnersSame /\ GrantsSame
  BY DEF Reauthorize, OwnersSame, GrantsSame
<1>7. Promise!NextVersion(s)
  BY <1>5, <1>6, SameViews DEF Promise!NextVersion
<1>8. j.authority # "grant" => SpentSame
  <2> SUFFICES ASSUME j.request = NoRequest PROVE restorations' = restorations
    BY <1>4 DEF SpentSame
  <2>1. \A r \in Requests : restorations'[r] = restorations[r]
    BY RequestsAssumption DEF Reauthorize
  <2> QED
    BY <2>1 DEF Reauthorize, TypeOK
<1>9. CASE j.authority = "self"
  <2>1. sessions[s].user \in Admins
    BY <1>2, <1>3, <1>9 DEF Admins, Jobs
  <2>2. Promise!RestoreOwn(s)
    BY <1>2, <1>7, <1>8, <1>9, <2>1, SameViews DEF Promise!RestoreOwn, Promise!Exists, Exists
  <2> QED
    BY <1>2, <2>2 DEF Promise!Next
<1>10. CASE j.authority = "none"
  <2>1. ~sessions[s].revoked
    BY <1>1, <1>2, <1>3, <1>10 DEF SawInv, Gated, Restoring, RevokedIn, Exists
  <2>2. Promise!Renew(s)
    BY <1>2, <1>7, <1>8, <1>10, <2>1, SameViews DEF Promise!Renew, Promise!Exists, Exists
  <2> QED
    BY <1>2, <2>2 DEF Promise!Next
<1>11. CASE j.authority = "grant"
  <2> DEFINE r == j.request
  <2>1. r \in Requests /\ Holding(j) /\ For(r, j, requests)
    BY <1>1, <1>3, <1>4, <1>11 DEF Holding
  <2>2. requests[r].status = "consumed" /\ restorations[r] = 0
    BY <2>1 DEF GrantInv
  <2>3. GrantedSession(r) = s
    BY <2>1, <2>2 DEF GrantedSession, For
  <2>4. {q \in Requests : restorations[q] > 0}'
          = {q \in Requests : restorations[q] > 0} \cup {r}
    <3>1. \A q \in Requests :
            restorations'[q] = IF q = r THEN restorations[q] + 1 ELSE restorations[q]
      BY DEF Reauthorize
    <3>2. \A q \in Requests : restorations'[q] > 0 <=> restorations[q] > 0 \/ q = r
      BY <2>2, <3>1
    <3> QED
      BY <2>1, <3>2
  <2>5. PICK q \in Requests : q = r
    BY <2>1
  <2>6. Promise!RestoreByGrant(s, q)
    BY <1>2, <1>7, <2>2, <2>3, <2>4, <2>5
    DEF Promise!RestoreByGrant, Promise!Exists, Exists
  <2> QED
    BY <1>2, <2>6 DEF Promise!Next
<1> QED
  BY <1>3, <1>9, <1>10, <1>11

LEMMA EstablishPromised ==
  ASSUME Coherent, Typed, NEW w \in Workers, Establish(w)
  PROVE  Promise!Next \/ UNCHANGED Promised
<1> DEFINE j == job[w]
           s == j.session
<1> USE DEF Typed
<1>1. j # Idle /\ Ready(w) /\ j.step = "establish"
  BY UpdateBusy DEF Establish
<1>2. /\ j \in Jobs /\ s \in Sessions /\ j.device \in Devices /\ j.by.user \in Users
      /\ Seen(w) = sessions[s]
  BY <1>1, JobTyped, SeenSession DEF SessionSteps, Jobs, Users
<1>3. OwnersSame /\ GrantsSame /\ SpentSame
  BY DEF Establish, Histories, OwnersSame, GrantsSame, SpentSame
<1>4. CASE Exists(s)
  <2>1. sessions' = sessions
    BY <1>2, <1>4 DEF Establish, Exists, TypeOK
  <2> QED
    BY <1>3, <2>1, SameViews DEF Promised
<1>5. CASE ~Exists(s)
  <2>1. sessions' = [sessions EXCEPT ![s] = [user |-> j.by.user, device |-> j.device,
                                             revoked |-> FALSE, version |-> 1]]
    BY <1>2, <1>5 DEF Establish, Exists
  <2>2. Promise!Open(s, j.by.user, j.device)
    BY <1>3, <1>5, <2>1, SameViews DEF Promise!Open, Promise!Exists, Exists
  <2> QED
    BY <1>2, <2>2 DEF Promise!Next
<1> QED
  BY <1>4, <1>5

LEMMA RevokePromised ==
  ASSUME Coherent, Typed, NEW w \in Workers, RevokeSession(w)
  PROVE  Promise!Next
<1> DEFINE j == job[w]
           s == j.session
<1> USE DEF Typed
<1>1. j # Idle /\ Ready(w) /\ j.step = "revoke session"
  BY UpdateBusy DEF RevokeSession
<1>2. s \in Sessions /\ Exists(s) /\ Seen(w) = sessions[s]
  BY <1>1, JobTyped, SeenSession
  DEF SessionSteps, Grounded, GroundedJob, NeedsSession, Exists, Jobs
<1>3. OwnersSame /\ GrantsSame /\ SpentSame
  BY DEF RevokeSession, OwnersSame, GrantsSame, SpentSame
<1>4. Promise!Revoke(s)
  BY <1>2, <1>3, SameViews DEF RevokeSession, Promise!Revoke, Promise!Exists, Exists
<1> QED
  BY <1>2, <1>4 DEF Promise!Next

LEMMA ClaimPromised ==
  ASSUME Coherent, Typed, NEW w \in Workers, Claim(w)
  PROVE  Promise!Next \/ UNCHANGED Promised
<1> USE DEF Typed
<1>1. job[w] # Idle /\ Ready(w) /\ job[w].step = "claim"
  BY UpdateBusy DEF Claim
<1> DEFINE doc == sessions[job[w].session]
           d   == doc.device
           new == [Seen(w) EXCEPT !.owner = IF @ = NoUser THEN doc.user ELSE @]
<1>2. /\ doc \in SessionDocs /\ d \in Devices /\ doc.user \in Users
      /\ Seen(w) = devices[d] /\ devices[d] \in DeviceDocs
  BY <1>1, SeenOwner DEF SessionDocs
<1>3. new.owner = IF devices[d].owner = NoUser THEN doc.user ELSE devices[d].owner
  BY <1>2 DEF DeviceDocs
<1>4. devices' = [devices EXCEPT ![d] = new]
  BY DEF Claim
<1>5. GrantsSame /\ SpentSame /\ sessions' = sessions
  BY DEF Claim, Histories, GrantsSame, SpentSame
<1> HIDE DEF new
<1>6. \A e \in Devices :
        devices'[e].owner = IF e = d /\ devices[d].owner = NoUser THEN doc.user
                            ELSE devices[e].owner
  BY <1>2, <1>3, <1>4 DEF TypeOK
<1>7. CASE devices[d].owner = NoUser
  <2>1. [e \in Devices |-> devices[e].owner]'
          = [[e \in Devices |-> devices[e].owner] EXCEPT ![d] = doc.user]
    BY <1>2, <1>6, <1>7
  <2>2. PICK e \in Devices, u \in Users : e = d /\ u = doc.user
    BY <1>2
  <2>3. Promise!Claim(e, u)
    BY <1>5, <1>7, <2>1, <2>2, SameViews DEF Promise!Claim
  <2> QED
    BY <2>3 DEF Promise!Next
<1>8. CASE devices[d].owner # NoUser
  BY <1>5, <1>6, <1>8, SameViews DEF OwnersSame, Promised
<1> QED
  BY <1>7, <1>8

LEMMA ApprovePromised ==
  ASSUME Coherent, Typed, NEW w \in Workers, Resolve(w, "approve", "approved")
  PROVE  Promise!Next \/ UNCHANGED Promised
<1> DEFINE r == job[w].request
<1> USE DEF Typed
<1>1. job[w] # Idle /\ Ready(w) /\ job[w].step = "approve"
  BY UpdateBusy DEF Resolve
<1>2. r \in Requests /\ Seen(w) = requests[r] /\ requests[r] \in RequestDocs
  BY <1>1, SeenRequest DEF RequestSteps
<1>3. OwnersSame /\ SpentSame /\ sessions' = sessions
  BY DEF Resolve, Histories, OwnersSame, SpentSame
<1>4. CASE requests[r].status = "pending"
  <2> DEFINE new == [requests[r] EXCEPT !.status = "approved"]
             s   == requests[r].session
  <2>1. new \in RequestDocs /\ new.status = "approved" /\ new.session = s /\ s \in Sessions
    BY <1>2 DEF RequestDocs
  <2>2. new # Unfiled
    BY <2>1 DEF RequestDocs, Unfiled
  <2>3. requests' = [requests EXCEPT ![r] = new]
    BY <1>2, <1>4 DEF Resolve
  <2> HIDE DEF new
  <2>4. GrantedSession(r) = NoSession
    BY <1>4 DEF GrantedSession
  <2>5. \A q \in Requests : GrantedIn(requests', q) =
                              IF q = r THEN s ELSE GrantedIn(requests, q)
    BY <1>2, <2>1, <2>2, <2>3 DEF GrantedIn, TypeOK
  <2>6. [q \in Requests |-> GrantedSession(q)]'
          = [[q \in Requests |-> GrantedSession(q)] EXCEPT ![r] = s]
    BY <1>2, <2>5 DEF GrantedIn, GrantedSession
  <2>7. Promise!Grant(r, s)
    BY <1>2, <1>3, <2>4, <2>6, SameViews DEF Promise!Grant
  <2> QED
    BY <1>2, <2>1, <2>7 DEF Promise!Next
<1>5. CASE requests[r].status # "pending"
  <2>1. requests' = requests
    BY <1>2, <1>5 DEF Resolve
  <2> QED
    BY <1>3, <2>1, SameViews DEF GrantsSame, Promised
<1> QED
  BY <1>4, <1>5

LEMMA PromiseStep ==
  ASSUME Coherent, Typed, GrantInv, EntitledInv, PaidInv, SawInv, [Next]_vars
  PROVE  Promise!Next \/ UNCHANGED Promised
<1>1. CASE UNCHANGED vars
  BY <1>1 DEF vars, Promised, GrantedSession
<1>2. ASSUME NEW w \in Workers, Arrival(w) \/ Load(w) \/ HandlerStep(w) \/ Abort(w),
             ~Refresh(w), ~Reauthorize(w), ~Establish(w), ~RevokeSession(w), ~Claim(w),
             ~Resolve(w, "approve", "approved")
      PROVE  UNCHANGED Promised
  <2>1. sessions' = sessions
    BY <1>2, SessionsKept
  <2>2. SpentSame
    BY <1>2, RestorationsKept DEF SpentSame
  <2>3. CASE ~At(w, "claim") /\ ~At(w, "approve")
    BY <1>2, <2>1, <2>2, <2>3, OwnersKeptBy, GrantsKept, SameViews DEF GrantsSame, Promised
  <2>4. CASE At(w, "claim") \/ At(w, "approve")
    <3>1. Arrival(w) => job[w] = Idle
      <4>1. \A op, step, t, s, d : Begin(w, op, step, t, s, d) => job[w] = Idle
        BY DEF Begin
      <4>2. \A t, r, step : BeginResolve(w, t, r, step) => job[w] = Idle
        BY DEF BeginResolve
      <4> QED
        BY <4>1, <4>2 DEF Arrival, BeginRefresh, BeginReauth, BeginFile, BeginRevokeDevice,
           BeginUnrevokeDevice, BeginRevokeSession, BeginMonitorRevokes
    <3>2. job[w] # Idle
      BY <2>4 DEF At, Idle
    <3>3. Load(w) \/ Abort(w)
      BY <1>2, <2>4, <3>1, <3>2
      DEF At, HandlerStep, RefreshStatus, ReauthStatus, Status, Consume, Unrevoke, File,
          Resolve, RevokeDevice, Update
    <3>4. devices' = devices /\ requests' = requests
      BY <3>3 DEF Load, Abort, Documents
    <3> QED
      BY <2>1, <2>2, <3>4, SameViews DEF OwnersSame, GrantsSame, Promised
  <2> QED
    BY <2>3, <2>4
<1> QED
  BY <1>1, <1>2, RefreshPromised, ReauthorizePromised, EstablishPromised, RevokePromised,
     ClaimPromised, ApprovePromised DEF Next

\* Among requests that do not overlap, the handlers of sessions.py, devices.py and
\* reauth_requests.py keep the promise as one: through crashes between their calls, a
\* revoked session comes back only to its ADMIN or for a grant that is then spent.
THEOREM ImplementsPromise ==
  ASSUME OneWorker
  PROVE  Spec => PromiseKept
<1>1. Init => Promise!Init
  <2> SUFFICES ASSUME Init PROVE Promise!Init
    OBVIOUS
  <2>1. [d \in Devices |-> devices[d].owner] = [d \in Devices |-> NoUser]
    BY DEF Init
  <2>2. [r \in Requests |-> GrantedSession(r)] = [r \in Requests |-> NoSession]
    BY DEF Init, GrantedSession
  <2>3. {r \in Requests : restorations[r] > 0} = {}
    BY DEF Init
  <2> QED
    BY <2>1, <2>2, <2>3 DEF Init, Promise!Init
<1>2. Init => PaidInv /\ SawInv
  BY DEF Init, PaidInv, SawInv
<1>3. Typed /\ Coherent /\ EntitledInv /\ SawInv /\ PaidInv /\ [Next]_vars
        => SawInv' /\ PaidInv'
  BY SawStep, PaidStep
<1>4. Typed /\ Coherent /\ GrantInv /\ EntitledInv /\ SawInv /\ PaidInv /\ [Next]_vars
        => [Promise!Next]_Promised
  BY PromiseStep
<1>5. Isolated
  BY DEF OneWorker, Isolated
<1> QED
  BY <1>1, <1>2, <1>3, <1>4, <1>5, EntitledHolds, PTL
  DEF Spec, PromiseKept, Promise!Spec, Promise!vars, Promised

-----------------------------------------------------------------------------
(***************************************************************************)
(* The two stores.  As long as updates start from the document as it is,   *)
(* a load is a step nobody sees, and the update of the copy is the update  *)
(* MongoDB would have made: with one request at a time the encrypted store *)
(* does what the plain one does.                                           *)
(***************************************************************************)

Plain == INSTANCE SessionAuthority
           WITH AtomicUpdates <- TRUE, loaded <- [w \in Workers |-> NoCopy]

\* What does not depend on the store.
LEMMA PlainWords ==
  /\ Plain!Idle = Idle /\ Plain!NoCopy = NoCopy /\ Plain!NoUser = NoUser
  /\ Plain!NoRequest = NoRequest /\ Plain!NoSession = NoSession /\ Plain!Unfiled = Unfiled
  /\ Plain!Documents = Documents /\ Plain!Histories = Histories
  /\ \A s : (Plain!Exists(s) <=> Exists(s)) /\ (Plain!Revoked(s) <=> Revoked(s))
  /\ \A s : Plain!Bounded(s) <=> Bounded(s)
  /\ \A t : Plain!IsAdmin(t) <=> IsAdmin(t)
  /\ \A j : (Plain!MayUse(j) <=> MayUse(j)) /\ Plain!Restore(j) = Restore(j)
  /\ \A j : Plain!Authorities(j) = Authorities(j)
  /\ \A t, d, s : Plain!HasPending(t, d, s) <=> HasPending(t, d, s)
<1>1. /\ Plain!Idle = Idle /\ Plain!NoCopy = NoCopy /\ Plain!NoUser = NoUser
      /\ Plain!NoRequest = NoRequest /\ Plain!NoSession = NoSession /\ Plain!Unfiled = Unfiled
  BY DEF Plain!Idle, Idle, Plain!NoCopy, NoCopy, Plain!NoUser, NoUser, Plain!NoRequest,
     NoRequest, Plain!NoSession, NoSession, Plain!Unfiled, Unfiled
<1>2. Plain!Documents = Documents /\ Plain!Histories = Histories
  BY DEF Plain!Documents, Documents, Plain!Histories, Histories
<1>3. \A s : (Plain!Exists(s) <=> Exists(s)) /\ (Plain!Revoked(s) <=> Revoked(s))
  BY <1>1 DEF Plain!Exists, Exists, Plain!Revoked, Revoked
<1>4. \A s : Plain!Bounded(s) <=> Bounded(s)
  BY DEF Plain!Bounded, Bounded
<1>5. \A t : Plain!IsAdmin(t) <=> IsAdmin(t)
  BY DEF Plain!IsAdmin, IsAdmin
<1>6. \A t, owner : Plain!OwnerOrAdmin(t, owner) <=> OwnerOrAdmin(t, owner)
  BY <1>5 DEF Plain!OwnerOrAdmin, OwnerOrAdmin
<1>7. \A j : (Plain!MayUse(j) <=> MayUse(j)) /\ Plain!Restore(j) = Restore(j)
  BY <1>1, <1>6 DEF Plain!MayUse, MayUse, Plain!Restore, Restore
<1>8. \A r, t, d, s : Plain!Matching(r, t, d, s) <=> Matching(r, t, d, s)
  BY <1>1 DEF Plain!Matching, Matching
<1>9. \A t, d, s : Plain!GrantsFor(t, d, s) = GrantsFor(t, d, s)
  BY <1>8 DEF Plain!GrantsFor, GrantsFor
<1>10. \A j : Plain!SelfService(j) <=> SelfService(j)
  BY <1>1, <1>5 DEF Plain!SelfService, SelfService
<1>11. \A j : Plain!Authorities(j) = Authorities(j)
  BY <1>1, <1>9, <1>10 DEF Plain!Authorities, Authorities
<1>12. \A t, d, s : Plain!HasPending(t, d, s) <=> HasPending(t, d, s)
  BY <1>8 DEF Plain!HasPending, HasPending
<1> QED
  BY <1>1, <1>2, <1>3, <1>4, <1>5, <1>7, <1>11, <1>12

LEMMA PlainReplies ==
  ASSUME NEW w
  PROVE  /\ Plain!Reply(w) <=> Reply(w)
         /\ \A step : Plain!Continue(w, step) <=> Continue(w, step)
BY DEF Plain!Reply, Reply, Plain!Continue, Continue, Plain!Idle, Idle

\* The same call, over the plain store.
LEMMA PlainUpdate ==
  ASSUME Coherent, NEW w \in Workers, NEW step, Update(w, step), step # "idle"
  PROVE  Plain!Update(w, step) /\ Plain!Seen(w) = Seen(w)
<1>1. job[w] # Idle /\ Ready(w)
  BY UpdateBusy
<1>2. Seen(w) = Document(w)
  BY <1>1 DEF Coherent
<1>3. Plain!Document(w) = Document(w)
  BY DEF Plain!Document, Document, Plain!SessionSteps, SessionSteps, Plain!DeviceSteps,
     DeviceSteps, Plain!RequestSteps, RequestSteps
<1>4. Plain!Seen(w) = Document(w)
  BY <1>3 DEF Plain!Seen
<1>5. Plain!Update(w, step)
  BY DEF Update, At, Plain!Update, Plain!At, Plain!NoCopy, NoCopy
<1> QED
  BY <1>2, <1>4, <1>5

LEMMA PlainArrival ==
  ASSUME NEW w \in Workers, Arrival(w)
  PROVE  Plain!Arrival(w)
<1>1. ASSUME NEW op, NEW step, NEW t, NEW s, NEW d, Begin(w, op, step, t, s, d)
      PROVE  Plain!Begin(w, op, step, t, s, d)
  <2>1. Plain!Exists(s) = Exists(s) /\ Plain!Revoked(s) = Revoked(s)
    BY DEF Exists, Plain!Exists, Revoked, Plain!Revoked, NoSession, Plain!NoSession
  <2>2. Plain!NoRequest = NoRequest /\ Plain!Idle = Idle
    BY PlainWords
  <2>3. job[w] = Plain!Idle
    BY <1>1, <2>2 DEF Begin
  <2>4. job' = [job EXCEPT ![w] =
          [op |-> op, step |-> step, by |-> t, session |-> s, device |-> d,
           request |-> Plain!NoRequest, existed |-> Plain!Exists(s),
           sawRevoked |-> Plain!Revoked(s), sawDeviceRevoked |-> FALSE,
           authority |-> "none"]]
    <3> HIDE DEF Exists, Revoked, NoRequest
    <3> QED
      BY <1>1, <2>1, <2>2 DEF Begin
  <2>5. UNCHANGED <<Plain!Documents, Plain!Histories>>
    BY <1>1 DEF Begin, Documents, Histories, Plain!Documents, Plain!Histories
  <2> QED
    BY <2>3, <2>4, <2>5 DEF Plain!Begin
<1>2. ASSUME NEW t, NEW r, NEW step, BeginResolve(w, t, r, step)
      PROVE  Plain!BeginResolve(w, t, r, step)
  BY <1>2, PlainWords DEF BeginResolve, Plain!BeginResolve, Plain!Documents, Documents,
     Plain!Histories, Histories
<1>3. ASSUME NEW t \in Tokens, NEW s \in Sessions, NEW d \in Devices
      PROVE  /\ BeginRefresh(w, t, s, d) => Plain!BeginRefresh(w, t, s, d)
             /\ BeginReauth(w, t, s, d) => Plain!BeginReauth(w, t, s, d)
             /\ BeginFile(w, t, s, d) => Plain!BeginFile(w, t, s, d)
             /\ BeginRevokeDevice(w, t, s, d) => Plain!BeginRevokeDevice(w, t, s, d)
             /\ BeginUnrevokeDevice(w, t, s, d) => Plain!BeginUnrevokeDevice(w, t, s, d)
  BY <1>1, PlainWords
  DEF BeginRefresh, Plain!BeginRefresh, BeginReauth, Plain!BeginReauth, BeginFile,
      Plain!BeginFile, BeginRevokeDevice, Plain!BeginRevokeDevice, BeginUnrevokeDevice,
      Plain!BeginUnrevokeDevice
<1>4. ASSUME NEW t \in Tokens, NEW s \in Sessions
      PROVE  /\ BeginRevokeSession(w, t, s) => Plain!BeginRevokeSession(w, t, s)
             /\ BeginMonitorRevokes(w, t, s) => Plain!BeginMonitorRevokes(w, t, s)
  BY <1>1, PlainWords
  DEF BeginRevokeSession, Plain!BeginRevokeSession, BeginMonitorRevokes,
      Plain!BeginMonitorRevokes
<1> QED
  BY <1>2, <1>3, <1>4 DEF Arrival, Plain!Arrival

LEMMA PlainHandler ==
  ASSUME Coherent, NEW w \in Workers, HandlerStep(w)
  PROVE  Plain!HandlerStep(w)
<1> USE PlainWords, PlainReplies
<1>1. Status(w) => Plain!Status(w) /\ Plain!Seen(w) = Seen(w)
  BY PlainUpdate DEF Status, Plain!Status
<1>2. CASE RefreshStatus(w)
  <2>1. Plain!RefreshStatus(w)
    BY <1>1, <1>2 DEF RefreshStatus, Plain!RefreshStatus, Plain!Histories, Histories
  <2> QED BY <2>1 DEF Plain!HandlerStep
<1>3. CASE ReauthStatus(w)
  <2>1. Plain!ReauthStatus(w)
    BY <1>1, <1>3 DEF ReauthStatus, Plain!ReauthStatus, Plain!Histories, Histories
  <2> QED BY <2>1 DEF Plain!HandlerStep
<1>4. CASE Consume(w)
  <2>1. Plain!Consume(w)
    BY <1>4, PlainUpdate DEF Consume, Plain!Consume, Plain!Histories, Histories
  <2> QED BY <2>1 DEF Plain!HandlerStep
<1>5. CASE Unrevoke(w)
  <2>1. Plain!Unrevoke(w)
    BY <1>5, PlainUpdate DEF Unrevoke, Plain!Unrevoke, Plain!Histories, Histories
  <2> QED BY <2>1 DEF Plain!HandlerStep
<1>6. CASE Refresh(w)
  <2>1. Plain!Refresh(w)
    BY <1>6, PlainUpdate DEF Refresh, Plain!Refresh, Plain!Histories, Histories
  <2> QED BY <2>1 DEF Plain!HandlerStep
<1>7. CASE Reauthorize(w)
  <2>1. Plain!Reauthorize(w)
    BY <1>7, PlainUpdate DEF Reauthorize, Plain!Reauthorize
  <2> QED BY <2>1 DEF Plain!HandlerStep
<1>8. CASE Establish(w)
  <2>1. Plain!Establish(w)
    BY <1>8, PlainUpdate DEF Establish, Plain!Establish, Plain!Histories, Histories
  <2> QED BY <2>1 DEF Plain!HandlerStep
<1>9. CASE Claim(w)
  <2>1. Plain!Claim(w)
    BY <1>9, PlainUpdate DEF Claim, Plain!Claim, Plain!Histories, Histories
  <2> QED BY <2>1 DEF Plain!HandlerStep
<1>10. CASE File(w)
  <2>1. Plain!File(w)
    BY <1>10 DEF File, Plain!File, At, Plain!At, Plain!Histories, Histories
  <2> QED BY <2>1 DEF Plain!HandlerStep
<1>11. ASSUME NEW step \in {"approve", "reject"}, NEW status, Resolve(w, step, status)
       PROVE  Plain!Resolve(w, step, status)
  BY <1>11, PlainUpdate DEF Resolve, Plain!Resolve, Plain!Histories, Histories
<1>12. CASE RevokeSession(w)
  <2>1. Plain!RevokeSession(w)
    BY <1>12, PlainUpdate DEF RevokeSession, Plain!RevokeSession
  <2> QED BY <2>1 DEF Plain!HandlerStep
<1>13. CASE RevokeDevice(w)
  <2>1. Plain!RevokeDevice(w)
    BY <1>13, PlainUpdate DEF RevokeDevice, Plain!RevokeDevice, Plain!Histories, Histories
  <2> QED BY <2>1 DEF Plain!HandlerStep
<1> QED
  BY <1>2, <1>3, <1>4, <1>5, <1>6, <1>7, <1>8, <1>9, <1>10, <1>11, <1>12, <1>13
  DEF HandlerStep, Plain!HandlerStep

LEMMA PlainStep ==
  ASSUME Coherent, [Next]_vars
  PROVE  Plain!Next \/ UNCHANGED Plain!vars
<1>1. CASE UNCHANGED vars
  BY <1>1 DEF vars, Plain!vars
<1>2. ASSUME NEW w \in Workers, Load(w)
      PROVE  UNCHANGED Plain!vars
  BY <1>2 DEF Load, Plain!vars, Documents, Histories
<1>3. ASSUME NEW w \in Workers, Abort(w)
      PROVE  Plain!Next
  <2>1. Plain!Abort(w)
    BY <1>3, PlainWords, PlainReplies
    DEF Abort, Plain!Abort, Plain!Documents, Documents, Plain!Histories, Histories
  <2> QED
    BY <2>1 DEF Plain!Next
<1> QED
  BY <1>1, <1>2, <1>3, PlainArrival, PlainHandler DEF Next, Plain!Next

\* The encrypted store, which loads, changes and replaces a document, implements the plain
\* one when requests do not overlap; so whatever MongoDB's handlers satisfy holds of it.
THEOREM EncryptedImplementsPlain ==
  ASSUME Isolated
  PROVE  Spec => Plain!Spec
<1>1. Init => Plain!Init
  BY PlainWords DEF Init, Plain!Init
<1>2. CopiesInv /\ [Next]_vars => [Plain!Next]_Plain!vars
  BY CopiesCoherent, PlainStep
<1> QED
  BY <1>1, <1>2, StoreHolds, PTL DEF Spec, Plain!Spec
=============================================================================
