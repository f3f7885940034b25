-------------------------- MODULE MonitoringClient --------------------------
(***************************************************************************)
(* The continuous-monitoring loop of the browser                           *)
(* (src/frontend/src/context/MonitoringContext.jsx), one mounted provider  *)
(* of one signed-in session, with the part of the server it talks to.      *)
(*                                                                         *)
(* Every callback of the provider is a job: it runs to its next await and  *)
(* continues with the answer some time later.  Between those steps the     *)
(* other callbacks run.  The server serves a request when it is sent; the  *)
(* request or its answer may be lost, and the caller then sees an error.   *)
(*                                                                         *)
(* monitoringGenerationRef only ever grows and is only compared with the   *)
(* value a callback captured, so a job carries the outcome of that         *)
(* comparison, `fresh', which every increment makes FALSE.                 *)
(***************************************************************************)
EXTENDS Naturals

CONSTANTS
  MaxRecords,    \* bound: monitoring records the server ever creates
  MaxRevision,   \* bound: revisions of a record are told apart up to here
  LostAfter,     \* CONNECTION_LOST_AFTER_FAILURES
  Counts         \* bound: failures are counted up to the end of this set; the
                 \* code counts without end, which is Counts = Nat

ASSUME BoundsAssumption == MaxRecords \in Nat \ {0} /\ MaxRevision \in Nat \ {0}
ASSUME LostAssumption == LostAfter \in Nat \ {0}
ASSUME CountsAssumption == Counts \subseteq Nat /\ 0..LostAfter \subseteq Counts

VARIABLES
  server,               \* records issued, the running one, revisions, revocation
  monitoringSessionId,  \* the record the provider watches, 0 for null
  snapshot,             \* the snapshot every card and badge shows
  seen,                 \* snapshotSessionRef and snapshotRevisionRef (+ 1)
  reauthRequired,
  failures,             \* consecutiveHeartbeatFailuresRef
  connection,           \* connectionState
  pending,              \* a confidence left by the sign-in's face verification
  opening,              \* a bootstrap waits for a refresh before it opens the camera
  returning,            \* returningUserVerification
  startInFlight,        \* monitoringStartInFlightRef
  tick, refresh, boot, start, reauth,  \* the jobs
  late,                 \* history: has monitoring been started, recovered or asked to
                        \* reauthenticate since the tick under way began?
  misses                \* history: the ticks that failed in a row, late ones apart

client == <<monitoringSessionId, snapshot, seen>>
flags == <<reauthRequired, pending, opening, returning, startInFlight>>
health == <<failures, connection>>
vars == <<server, client, flags, health, tick, refresh, boot, start, reauth>>
history == <<late, misses>>

Ids == 1..MaxRecords

NoSnapshot == [id |-> 0, revision |-> 0, status |-> "none"]
Snapshots == {NoSnapshot} \cup
             [id : Ids, revision : 1..MaxRevision, status : {"active", "revoked"}]

\* What a job waits for: an answer, a 403, or nothing, when the request was lost.
Ok(s) == [kind |-> "ok", snap |-> s]
Refused == [kind |-> "refused", snap |-> NoSnapshot]
Lost == [kind |-> "lost", snap |-> NoSnapshot]
Answers == [kind : {"ok", "refused", "lost"}, snap : Snapshots]

Idle == [step |-> "none", id |-> 0, fresh |-> FALSE, answer |-> Lost]
Job(step, id, answer) == [step |-> step, id |-> id, fresh |-> TRUE, answer |-> answer]
Answered(job, step) == job.step = step /\ job.answer.kind = "ok"
\* What a job of an earlier generation waits for does not matter any more.
Stale(job) == IF job = Idle THEN Idle
              ELSE [job EXCEPT !.fresh = FALSE, !.id = 0, !.answer = Lost]

Steps == {"none", "camera", "heartbeat", "get", "lookup",
          "refreshSession", "start", "reauthenticate", "await", "confirm"}
Jobs == [step : Steps, id : 0..MaxRecords, fresh : BOOLEAN, answer : Answers]

(***************************************************************************)
(* The server: what monitoring/service.py and routers/authorization.py     *)
(* answer.  One session; `running' is the record of it that is not         *)
(* stopped, `revoked' whether the session, or its device, is revoked.      *)
(***************************************************************************)
SnapshotOf(id) ==
  [id |-> id, revision |-> server.revision[id],
   status |-> IF server.revoked THEN "revoked" ELSE "active"]

NextRevision(n) == IF n < MaxRevision THEN n + 1 ELSE n

\* A start of a session that is not revoked retires the running record and creates
\* the next one.
ServeStart(answer) ==
  \/ server.revoked /\ answer = Refused /\ UNCHANGED server
  \/ /\ ~server.revoked /\ server.issued < MaxRecords
     /\ LET id == server.issued + 1
        IN  /\ server' = [server EXCEPT !.issued = id, !.running = id,
                                        !.revision[id] = 1]
            /\ answer = Ok([id |-> id, revision |-> 1, status |-> "active"])
  \/ answer = Lost /\ UNCHANGED server

\* A heartbeat of the running record is a new revision of it; of any other an error.
ServeHeartbeat(id, answer) ==
  \/ /\ id = server.running
     /\ server' = [server EXCEPT !.revision[id] = NextRevision(@)]
     /\ answer = Ok([SnapshotOf(id) EXCEPT !.revision = NextRevision(@)])
  \/ answer = Lost /\ UNCHANGED server

Revoke ==
  /\ ~server.revoked
  /\ server' = [server EXCEPT !.revoked = TRUE]
  /\ UNCHANGED <<client, flags, health, tick, refresh, boot, start, reauth>>

(***************************************************************************)
(* What the page may take from an answer.                                  *)
(***************************************************************************)
\* Number(nextSnapshot.snapshot_revision ?? 0): MonitoringSnapshotResponse has no
\* such field, so every snapshot that reaches the browser counts as revision 0.
Carried(s) == 0

SeenRevision(s) == IF seen.session = s.id THEN seen.revision ELSE 0

\* Fault: a snapshot of the revision already seen is ignored.
ApplySnapshot_Newer(s) ==
  IF Carried(s) + 1 <= SeenRevision(s)
  THEN /\ seen' = [session |-> s.id, revision |-> SeenRevision(s)]
       /\ UNCHANGED snapshot
  ELSE /\ seen' = [session |-> s.id, revision |-> Carried(s) + 1]
       /\ snapshot' = s

\* applySnapshot; `seen.revision' is the reference plus one, 0 after a reset.
ApplySnapshot(s) ==
  IF Carried(s) + 1 < SeenRevision(s)
  THEN /\ seen' = [session |-> s.id, revision |-> SeenRevision(s)]
       /\ UNCHANGED snapshot
  ELSE /\ seen' = [session |-> s.id, revision |-> Carried(s) + 1]
       /\ snapshot' = s

\* getMonitoringForSession: the record of the session that is not stopped.
Lookup == Job("lookup", 0, IF server.running = 0 THEN Lost
                           ELSE Ok(SnapshotOf(server.running)))

\* The bootstrap effect runs again whenever the watched record or the snapshot
\* changed (startSession depends on both); the run before it is cancelled.
BootAfter(id, shown, inFlight) ==
  IF id = monitoringSessionId /\ shown = snapshot THEN boot
  ELSE IF id = 0 /\ ~inFlight THEN Lookup
  ELSE Idle

(***************************************************************************)
(* tick: sample the camera, then report it.                                *)
(***************************************************************************)
BeginTick ==
  /\ monitoringSessionId # 0
  /\ tick = Idle
  /\ tick' = Job("camera", monitoringSessionId, Lost)
  /\ UNCHANGED <<server, client, flags, health, refresh, boot, start, reauth>>

\* The face check is over; a tick of an earlier generation sends nothing.
SendHeartbeat ==
  /\ tick.step = "camera"
  /\ IF tick.fresh
     THEN \E answer \in Answers :
            /\ ServeHeartbeat(tick.id, answer)
            /\ tick' = [tick EXCEPT !.step = "heartbeat", !.answer = answer]
     ELSE tick' = Idle /\ UNCHANGED server
  /\ UNCHANGED <<client, flags, health, refresh, boot, start, reauth>>

\* Fault: only the failures are reset.
HeartbeatAnswered_NotApplied ==
  /\ Answered(tick, "heartbeat") /\ tick.fresh
  /\ failures' = 0 /\ connection' = "connected"
  /\ tick' = Idle
  /\ UNCHANGED <<server, client, flags, refresh, boot, start, reauth>>

HeartbeatAnswered ==
  /\ Answered(tick, "heartbeat") /\ tick.fresh
  /\ ApplySnapshot(tick.answer.snap)
  /\ failures' = 0 /\ connection' = "connected"
  /\ boot' = BootAfter(monitoringSessionId, snapshot', startInFlight)
  /\ tick' = Idle
  /\ UNCHANGED <<server, monitoringSessionId, flags, refresh, start, reauth>>

\* Fault: a failure is not counted.
TickFails_NotCounted ==
  /\ tick # Idle /\ tick.fresh
  /\ tick' = Idle
  /\ UNCHANGED <<server, client, flags, health, refresh, boot, start, reauth>>

OneMore(n) == IF n + 1 \in Counts THEN n + 1 ELSE n

\* Fault: the generation is not compared.
TickFails_CountsLate ==
  /\ tick # Idle
  /\ failures' = OneMore(failures)
  /\ connection' = IF failures + 1 >= LostAfter THEN "lost" ELSE connection
  /\ tick' = Idle
  /\ UNCHANGED <<server, client, flags, refresh, boot, start, reauth>>

\* The face check or the heartbeat failed; a heartbeat whose answer was lost has
\* been served all the same.
TickFails ==
  /\ tick # Idle /\ tick.fresh
  /\ failures' = OneMore(failures)
  /\ connection' = IF failures + 1 >= LostAfter THEN "lost" ELSE connection
  /\ tick' = Idle
  /\ UNCHANGED <<server, client, flags, refresh, boot, start, reauth>>

TickDropped ==
  /\ tick # Idle /\ ~tick.fresh
  /\ tick' = Idle
  /\ UNCHANGED <<server, client, flags, health, refresh, boot, start, reauth>>

(***************************************************************************)
(* refreshMonitoringState, from its interval, when the tab becomes visible *)
(* and when the connection is back.  Of its three reads only that of the   *)
(* monitoring record changes the snapshot.                                 *)
(***************************************************************************)
\* Any record can be read, a stopped one too.
Read(step, id) == Job(step, id, Ok(SnapshotOf(id)))

BeginRefresh ==
  /\ monitoringSessionId # 0
  /\ refresh = Idle
  /\ refresh' = Read("get", monitoringSessionId)
  /\ UNCHANGED <<server, client, flags, health, tick, boot, start, reauth>>

RefreshAnswered ==
  /\ refresh # Idle
  /\ IF refresh.fresh /\ Answered(refresh, "get")
     THEN ApplySnapshot(refresh.answer.snap)
     ELSE UNCHANGED <<snapshot, seen>>
  /\ boot' = BootAfter(monitoringSessionId, snapshot', startInFlight)
  /\ reauth' = IF reauth.step = "await" THEN Read("confirm", reauth.id)
               ELSE reauth
  /\ refresh' = Idle
  /\ UNCHANGED <<server, monitoringSessionId, flags, health, tick, start>>

(***************************************************************************)
(* startSession: refresh the session, then start.                          *)
(***************************************************************************)
\* Up to its first await.  The early return for a session already started needs a
\* watched record, and no caller has one.
BeginStart ==
  /\ start = Idle
  /\ start' = Job("refreshSession", 0, IF server.revoked THEN Refused ELSE Ok(NoSnapshot))
  /\ failures' = 0 /\ connection' = "connected"
  /\ tick' = Stale(tick) /\ refresh' = Stale(refresh)

\* The session is good: send the start, unless one is in flight.
SessionRefreshed ==
  /\ Answered(start, "refreshSession")
  /\ reauthRequired' = FALSE
  /\ startInFlight' = ~startInFlight
  /\ IF startInFlight THEN start' = Idle /\ UNCHANGED server
     ELSE \E answer \in Answers :
            ServeStart(answer) /\ start' = Job("start", 0, answer)
  /\ UNCHANGED <<client, health, pending, opening, returning,
                 tick, refresh, boot, reauth>>

\* No generation is compared here: whatever happened meanwhile, the record is watched.
Started ==
  /\ Answered(start, "start")
  /\ ApplySnapshot(start.answer.snap)
  /\ monitoringSessionId' = start.answer.snap.id
  /\ boot' = BootAfter(monitoringSessionId', snapshot', FALSE)
  /\ startInFlight' = FALSE
  /\ start' = Idle
  /\ UNCHANGED <<server, health, reauthRequired, pending, opening,
                 returning, tick, refresh, reauth>>

\* Either request failed; a 403 means that the session or its device is revoked.
StartFails ==
  /\ start # Idle
  /\ reauthRequired' = (reauthRequired \/ start.answer = Refused)
  /\ startInFlight' = FALSE
  /\ start' = Idle
  /\ UNCHANGED <<server, client, health, pending, opening, returning,
                 tick, refresh, boot, reauth>>

(***************************************************************************)
(* Bootstrap: recover a running record, else start with the sign-in's      *)
(* confidence, else verify the returning user.                             *)
(***************************************************************************)
Recover ==
  /\ Answered(boot, "lookup")
  /\ ApplySnapshot(boot.answer.snap)
  /\ monitoringSessionId' = boot.answer.snap.id
  /\ reauthRequired' = (boot.answer.snap.status = "revoked")
  /\ boot' = Idle
  /\ tick' = Stale(tick)
  /\ refresh' = IF refresh = Idle THEN Read("get", monitoringSessionId')
                ELSE Stale(refresh)
  /\ UNCHANGED <<server, health, pending, opening, returning, startInFlight,
                 start, reauth>>

\* No record to recover, or the lookup failed.
StartPending ==
  /\ boot.step = "lookup"
  /\ pending /\ ~startInFlight
  /\ pending' = FALSE
  /\ BeginStart
  /\ boot' = Idle
  /\ UNCHANGED <<server, client, reauthRequired, opening, returning,
                 startInFlight, reauth>>

\* Nothing to recover and no confidence: refresh, then open the camera.
NothingToStart ==
  /\ boot.step = "lookup"
  /\ ~pending \/ startInFlight
  /\ opening' = (opening \/ ~pending)
  /\ boot' = Idle
  /\ UNCHANGED <<server, client, reauthRequired, pending, returning,
                 startInFlight, health, tick, refresh, start, reauth>>

\* The run does not ask again whether it was cancelled or a record is watched.
OpenCamera ==
  /\ opening
  /\ opening' = FALSE /\ returning' = TRUE
  /\ UNCHANGED <<server, client, reauthRequired, pending,
                 startInFlight, health, tick, refresh, boot, start, reauth>>

\* A verification succeeded (those that fail are repeated by an interval).
ReturningVerified ==
  /\ returning /\ monitoringSessionId = 0
  /\ returning' = FALSE
  /\ BeginStart
  /\ UNCHANGED <<server, client, reauthRequired, pending, opening,
                 startInFlight, boot, reauth>>

(***************************************************************************)
(* reauthenticate: restore the session, tear down, start, read back.       *)
(***************************************************************************)
\* MonitoringBlockedBanner's rule: what the pages call blocked.
Blocked == reauthRequired \/ monitoringSessionId = 0 \/ snapshot.status = "revoked"

\* When the badge offers a face check: the same condition as the administrator's
\* monitor and Qira's panel have.
Watching == monitoringSessionId # 0 /\ snapshot # NoSnapshot
ReauthOffered == IF Watching THEN snapshot.status = "revoked" ELSE reauthRequired

BeginReauth ==
  /\ ReauthOffered
  /\ reauth = Idle
  /\ \E answer \in {Ok(NoSnapshot), Refused, Lost} :
       /\ reauth' = Job("reauthenticate", 0, answer)
       /\ server' = IF answer.kind = "ok" THEN [server EXCEPT !.revoked = FALSE]
                    ELSE server
  /\ tick' = Stale(tick) /\ refresh' = Stale(refresh)
  /\ UNCHANGED <<client, flags, health, boot, start>>

\* The session is restored: forget the old record, then start another.
Reauthenticated ==
  /\ Answered(reauth, "reauthenticate")
  /\ failures' = 0 /\ connection' = "connected"
  /\ startInFlight' = FALSE
  /\ seen' = [session |-> 0, revision |-> 0]
  /\ snapshot' = NoSnapshot
  /\ monitoringSessionId' = 0
  /\ boot' = BootAfter(0, NoSnapshot, FALSE)
  /\ \E answer \in Answers : ServeStart(answer) /\ reauth' = Job("start", 0, answer)
  /\ UNCHANGED <<reauthRequired, pending, opening, returning,
                 tick, refresh, start>>

\* Watch the new record and read it back; a refresh already running is not awaited.
Restarted ==
  /\ Answered(reauth, "start")
  /\ ApplySnapshot(reauth.answer.snap)
  /\ monitoringSessionId' = reauth.answer.snap.id
  /\ boot' = BootAfter(monitoringSessionId', snapshot', startInFlight)
  /\ IF refresh = Idle
     THEN /\ refresh' = Read("get", monitoringSessionId')
          /\ reauth' = Job("await", monitoringSessionId', Lost)
     ELSE /\ reauth' = Read("confirm", monitoringSessionId')
          /\ UNCHANGED refresh
  /\ UNCHANGED <<server, flags, health, tick, start>>

\* Unblock only when session, device and record all say so.
Confirmed ==
  /\ Answered(reauth, "confirm")
  /\ IF reauth.answer.snap.status = "active"
     THEN /\ ApplySnapshot(reauth.answer.snap)
          /\ reauthRequired' = FALSE
     ELSE /\ reauthRequired' = TRUE
          /\ UNCHANGED <<snapshot, seen>>
  /\ boot' = BootAfter(monitoringSessionId, snapshot', startInFlight)
  /\ reauth' = Idle
  /\ UNCHANGED <<server, monitoringSessionId, pending, opening,
                 returning, startInFlight, health, tick, refresh, start>>

ReauthFails ==
  /\ reauth # Idle /\ reauth.step # "await"
  /\ reauth' = Idle
  /\ UNCHANGED <<server, client, flags, health, tick, refresh, boot, start>>

(***************************************************************************)
(* Specification                                                           *)
(***************************************************************************)
\* The provider has just been mounted; a record may run from before.
Init ==
  /\ \E running \in {0, 1}, revoked \in BOOLEAN :
       server = [issued |-> running, running |-> running, revoked |-> revoked,
                 revision |-> [i \in Ids |-> 1]]
  /\ monitoringSessionId = 0 /\ snapshot = NoSnapshot
  /\ seen = [session |-> 0, revision |-> 0]
  /\ reauthRequired = FALSE
  /\ failures = 0 /\ connection = "connected"
  /\ pending \in BOOLEAN
  /\ opening = FALSE /\ returning = FALSE /\ startInFlight = FALSE
  /\ boot = Lookup
  /\ tick = Idle /\ refresh = Idle /\ start = Idle /\ reauth = Idle
  /\ late = FALSE /\ misses = 0

\* The page is reloaded: everything but the server and sessionStorage is gone.
Reload ==
  /\ monitoringSessionId' = 0 /\ snapshot' = NoSnapshot
  /\ seen' = [session |-> 0, revision |-> 0]
  /\ reauthRequired' = FALSE
  /\ failures' = 0 /\ connection' = "connected"
  /\ opening' = FALSE /\ returning' = FALSE /\ startInFlight' = FALSE
  /\ boot' = Lookup
  /\ tick' = Idle /\ refresh' = Idle /\ start' = Idle /\ reauth' = Idle
  /\ UNCHANGED <<server, pending>>

Tick == SendHeartbeat \/ HeartbeatAnswered \/ TickFails \/ TickDropped
Start == SessionRefreshed \/ Started \/ StartFails

\* What the history notes of a step: it ends a generation, or it does not.
Supersede == late' = (tick # Idle)
GoOn == late' = (late /\ tick' # Idle)

Next ==
  \/ (Recover \/ BeginReauth) /\ Supersede /\ UNCHANGED misses
  \/ (StartPending \/ ReturningVerified) /\ Supersede /\ misses' = 0
  \/ TickFails /\ GoOn /\ misses' = IF late THEN misses ELSE OneMore(misses)
  \/ (HeartbeatAnswered \/ Reauthenticated \/ Reload) /\ GoOn /\ misses' = 0
  \/ /\ \/ Revoke \/ BeginTick \/ SendHeartbeat \/ TickDropped
        \/ BeginRefresh \/ RefreshAnswered
        \/ Start \/ NothingToStart \/ OpenCamera
        \/ Restarted \/ Confirmed \/ ReauthFails
     /\ GoOn /\ UNCHANGED misses

Spec == Init /\ [][Next]_<<vars, history>>

\* The interval of the ticks keeps firing, and a request ends in an answer or an
\* error.  No user and no server change is assumed, nor that any request succeeds.
FairSpec ==
  /\ Spec
  /\ WF_vars(BeginTick) /\ WF_vars(Tick) /\ WF_vars(RefreshAnswered)

(***************************************************************************)
(* Properties                                                              *)
(***************************************************************************)
ProviderTypes ==
  /\ server \in [issued : 0..MaxRecords, running : 0..MaxRecords,
                 revoked : BOOLEAN, revision : [Ids -> 1..MaxRevision]]
  /\ monitoringSessionId \in 0..MaxRecords
  /\ snapshot \in Snapshots
  /\ seen \in [session : 0..MaxRecords, revision : 0..MaxRevision + 1]
  /\ reauthRequired \in BOOLEAN
  /\ failures \in Nat /\ connection \in {"connected", "lost"}
  /\ pending \in BOOLEAN /\ opening \in BOOLEAN /\ returning \in BOOLEAN
  /\ startInFlight \in BOOLEAN
  /\ tick \in Jobs /\ refresh \in Jobs /\ boot \in Jobs
  /\ start \in Jobs /\ reauth \in Jobs

\* Every variable keeps its type, also with failures counted without end.
TypeOK == ProviderTypes /\ late \in BOOLEAN /\ misses \in Nat

\* A connection is called lost only after LostAfter ticks in a row failed since
\* monitoring last started, was reauthenticated or had a heartbeat answered ("must
\* fail this many times in a row before the UI stops trusting the last-known ACTIVE
\* status"), each of them without a start, a recovery or a request to reauthenticate
\* since it began ("Never let that old request change connection health for the new
\* monitoring generation").
LostOnlyAfterMisses == connection = "lost" => misses >= LostAfter

\* The page does not go on for ever watching a record that the server has stopped:
\* it gives the record up, reports the connection lost, or the user reauthenticates.
StoppedRecordNoticed ==
  (monitoringSessionId \notin {0, server.running})
    ~> \/ monitoringSessionId \in {0, server.running}
       \/ connection = "lost" \/ reauth # Idle

\* A snapshot of another record than the one watched does not stay: the next
\* heartbeat replaces it, or the page says that the connection is lost.
ForeignSnapshotHeals ==
  (monitoringSessionId \notin {0, snapshot.id})
    ~> \/ monitoringSessionId \in {0, snapshot.id}
       \/ connection = "lost" \/ reauth # Idle

(***************************************************************************)
(* What comments of the file say and the code does not do.                 *)
(***************************************************************************)
\* "A slower read-only GET must never overwrite a newer heartbeat response."
NewerSnapshotStays ==
  [][snapshot'.id = snapshot.id => snapshot'.revision >= snapshot.revision]_vars

\* "A late heartbeat from a revoked session must never overwrite the fresh session
\* created by reauthentication": the snapshot of a record never gives way to one of
\* an earlier record.
EarlierRecordStaysGone ==
  [][snapshot'.id = 0 \/ snapshot'.id >= snapshot.id]_vars
=============================================================================
