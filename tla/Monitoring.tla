----------------------------- MODULE Monitoring -----------------------------
(***************************************************************************)
(* Continuous monitoring of one authorization session on its device:       *)
(* monitoring/service.py behind api/routers/monitoring.py, and the gate of *)
(* monitoring/crypto_gate.py that every encryption and decryption passes.  *)
(*                                                                         *)
(* A handler reads a monitoring record, works on the copy, and writes the  *)
(* whole record back, twice for a heartbeat; meanwhile other handlers do   *)
(* the same, and the routes of SessionAuthority change the session and the *)
(* device.  Each update of one document is atomic.                         *)
(*                                                                         *)
(* No router reports denied requests, so their count stays 0: the scores   *)
(* that risk adds to the thresholds are then those of facts that revoke by *)
(* themselves, and a device is never revoked from here.                    *)
(***************************************************************************)
EXTENDS Naturals

CONSTANTS
  Workers,          \* threads that run request handlers
  Records,          \* identifiers of monitoring sessions
  NoRecord,         \* no identifier
  WarningAfter,     \* MonitoringThresholds.warning_after
  ReauthAfter,      \* MonitoringThresholds.reauth_required_after
  InvalidateAfter,  \* MonitoringThresholds.invalidate_after
  MaxVersion,       \* bound: the session's version does not grow past it
  Counts            \* bound: failures are counted up to the end of this set;
                    \* the code counts without end, which is Counts = Nat

\* MonitoringThresholds.__post_init__.
ASSUME ThresholdsAssumption ==
  /\ WarningAfter \in Nat \ {0} /\ ReauthAfter \in Nat /\ InvalidateAfter \in Nat
  /\ WarningAfter <= ReauthAfter /\ ReauthAfter <= InvalidateAfter
ASSUME VersionAssumption  == MaxVersion \in Nat
\* Every threshold can be passed, and nothing but thresholds is compared with.
ASSUME CountsAssumption   == Counts \subseteq Nat /\ 0..InvalidateAfter + 1 \subseteq Counts
ASSUME NoRecordAssumption == NoRecord \notin Records

VARIABLES
  session,  \* the authorization session
  device,   \* its device
  records,  \* monitoring_sessions
  job       \* what each worker is doing

vars == <<session, device, records, job>>

Statuses == {"active", "warning", "reauth_required", "revoked"}

\* revokedAt is 0 where the code has None: versions start at 1.
RecordDocs == [status : Statuses, failures : Nat,
               revokedAt : Nat, stopped : BOOLEAN]
Absent     == [status |-> "absent"]
Fresh      == [status |-> "active", failures |-> 0, revokedAt |-> 0,
               stopped |-> FALSE]
Idle       == [step |-> "idle"]

\* op: the handler; step: the call it makes next; ok: does the frame confirm
\* the identity; copy: the record as the handler has it.
Jobs == [op : {"start", "stop", "heartbeat"},
         step : {"retire", "stop", "create", "evaluate", "revoke", "persist",
                 "evidence"},
         record : Records \cup {NoRecord}, ok : BOOLEAN, copy : RecordDocs]

TypeOK ==
  /\ session \in [revoked : BOOLEAN, expired : BOOLEAN, version : Nat \ {0}]
  /\ device  \in [revoked : BOOLEAN]
  /\ records \in [Records -> RecordDocs \cup {Absent}]
  /\ job     \in [Workers -> Jobs \cup {Idle}]

Init ==
  /\ session = [revoked |-> FALSE, expired |-> FALSE, version |-> 1]
  /\ device  = [revoked |-> FALSE]
  /\ records = [r \in Records |-> Absent]
  /\ job     = [w \in Workers |-> Idle]

-----------------------------------------------------------------------------
(***************************************************************************)
(* What an evaluation concludes from a record and the documents of the     *)
(* session and the device.                                                 *)
(***************************************************************************)

Stored(r)  == records[r] # Absent
Running(r) == Stored(r) /\ ~records[r].stopped

Usable == ~session.revoked /\ ~session.expired /\ ~device.revoked

\* Fault: the latch never opens.
AlreadyRevoked_ForGood(rec) == rec.status = "revoked"

\* A revocation under an earlier version of the session is over.
AlreadyRevoked(rec) ==
  /\ rec.status = "revoked"
  /\ rec.revokedAt = 0 \/ session.version <= rec.revokedAt

\* Fault: a heartbeat that fails leaves the count alone, as a refresh does.
Failures_Unchanged(rec, ok) == IF ok THEN 0 ELSE rec.failures

\* The code adds 1 whatever the count is; only the bound Counts ends it.
Failures(rec, ok) ==
  IF ok THEN 0
  ELSE IF rec.failures + 1 \in Counts THEN rec.failures + 1
  ELSE rec.failures

\* "active" stands for "warning" too where stored evidence is what decides.
StatusFor(rec, failures) ==
  IF ~Usable \/ AlreadyRevoked(rec) \/ failures >= InvalidateAfter
    THEN "revoked"
  ELSE IF failures >= ReauthAfter  THEN "reauth_required"
  ELSE IF failures >= WarningAfter THEN "warning"
  ELSE "active"

\* require_crypto_monitoring: refresh derives the status again.
GateOpens ==
  \E r \in Records :
    /\ Running(r)
    /\ StatusFor(records[r], records[r].failures) \in {"active", "warning"}

-----------------------------------------------------------------------------
(***************************************************************************)
(* Handlers.                                                               *)
(***************************************************************************)

At(w, step) == job[w] # Idle /\ job[w].step = step

Continue(w, step) == job' = [job EXCEPT ![w].step = step]
Reply(w)          == job' = [job EXCEPT ![w] = Idle]

Begin(w, op, step, r, ok, copy) ==
  /\ job[w] = Idle
  /\ job' = [job EXCEPT ![w] = [op |-> op, step |-> step, record |-> r,
                                ok |-> ok, copy |-> copy]]
  /\ UNCHANGED <<session, device, records>>

\* Fault: the previous record is left running.
BeginStart_KeepsPrevious(w) ==
  /\ Usable
  /\ Begin(w, "start", "create", NoRecord, TRUE, Fresh)

\* The checks, then get_by_session.  The latest running record is latest by
\* the clocks of the handlers that wrote, so any may be.
BeginStart(w) ==
  /\ Usable
  /\ IF \E r \in Records : Running(r)
       THEN \E r \in Records :
              Running(r) /\ Begin(w, "start", "retire", r, TRUE, Fresh)
       ELSE Begin(w, "start", "create", NoRecord, TRUE, Fresh)

\* Fault: a record that does not exist is not told apart.
BeginStop_Unchecked(w, r) == Begin(w, "stop", "stop", r, TRUE, records[r])

BeginStop(w, r) ==
  /\ Stored(r)
  /\ Begin(w, "stop", "stop", r, TRUE, records[r])

BeginHeartbeat(w, r, ok) ==
  /\ Running(r)
  /\ Begin(w, "heartbeat", "evaluate", r, ok, records[r])

\* stop reads the record that get_by_session found.
Retire(w) ==
  /\ At(w, "retire")
  /\ job' = [job EXCEPT ![w].step = "stop", ![w].copy = records[job[w].record]]
  /\ UNCHANGED <<session, device, records>>

Stop(w) ==
  LET j == job[w] IN
  /\ At(w, "stop")
  /\ records' = [records EXCEPT ![j.record] = [j.copy EXCEPT !.stopped = TRUE]]
  /\ IF j.op = "start" THEN Continue(w, "create") ELSE Reply(w)
  /\ UNCHANGED <<session, device>>

\* Fault: a start takes over the record of a stopped one.
Create_Reuses(w) ==
  /\ At(w, "create")
  /\ \E r \in Records :
       /\ ~Running(r)
       /\ records' = [records EXCEPT ![r] = Fresh]
       /\ job' = [job EXCEPT ![w].step = "evaluate", ![w].record = r,
                             ![w].copy = Fresh]
  /\ UNCHANGED <<session, device>>

Create(w) ==
  /\ At(w, "create")
  /\ \E r \in Records :
       /\ ~Stored(r)
       /\ records' = [records EXCEPT ![r] = Fresh]
       /\ job' = [job EXCEPT ![w].step = "evaluate", ![w].record = r,
                             ![w].copy = Fresh]
  /\ UNCHANGED <<session, device>>

\* The record as _evaluate leaves it.
Evaluated(j) ==
  LET failures == Failures(j.copy, j.ok)
      status   == StatusFor(j.copy, failures)
  IN [j.copy EXCEPT
        !.failures  = failures,
        !.status    = status,
        !.revokedAt = IF status = "revoked" THEN session.version ELSE 0]

\* Fault: only a streak of failures does.
NewlyRevoked_StreakOnly(j) ==
  /\ Evaluated(j).failures >= InvalidateAfter /\ ~AlreadyRevoked(j.copy)
  /\ ~session.revoked

\* Does the evaluation revoke the session?
NewlyRevoked(j) ==
  /\ Evaluated(j).status = "revoked" /\ ~AlreadyRevoked(j.copy)
  /\ ~session.revoked

Evaluate(w) ==
  LET j == job[w] IN
  /\ At(w, "evaluate")
  /\ job' = [job EXCEPT ![w] =
       [j EXCEPT !.copy = Evaluated(j),
                 !.step = IF NewlyRevoked(j) THEN "revoke" ELSE "persist"]]
  /\ UNCHANGED <<session, device, records>>

Revoke(w) ==
  /\ At(w, "revoke")
  /\ session' = [session EXCEPT !.revoked = TRUE]
  /\ Continue(w, "persist")
  /\ UNCHANGED <<device, records>>

\* The whole record, from the copy.
Save(w) == records' = [records EXCEPT ![job[w].record] = job[w].copy]

Persist(w) ==
  /\ At(w, "persist")
  /\ Save(w)
  /\ Continue(w, "evidence")
  /\ UNCHANGED <<session, device>>

Evidence(w) ==
  /\ At(w, "evidence")
  /\ Save(w)
  /\ Reply(w)
  /\ UNCHANGED <<session, device>>

\* An exception in a database call, or the process ending.
Abort(w) ==
  /\ job[w] # Idle
  /\ Reply(w)
  /\ UNCHANGED <<session, device, records>>

-----------------------------------------------------------------------------
(***************************************************************************)
(* What SessionAuthority's handlers do meanwhile, and time.                *)
(***************************************************************************)

\* sessions.refresh (by = "refresh") has a filter, sessions.reauthorize none.
Renew(by) ==
  /\ session.version < MaxVersion
  /\ by = "refresh" => ~session.revoked
  /\ session' = [revoked |-> FALSE, expired |-> FALSE,
                 version |-> session.version + 1]
  /\ UNCHANGED <<device, records, job>>

RevokeSession ==
  /\ ~session.revoked
  /\ session' = [session EXCEPT !.revoked = TRUE]
  /\ UNCHANGED <<device, records, job>>

Expire ==
  /\ ~session.expired
  /\ session' = [session EXCEPT !.expired = TRUE]
  /\ UNCHANGED <<device, records, job>>

SetDevice(revoked) ==
  /\ device.revoked # revoked
  /\ device' = [revoked |-> revoked]
  /\ UNCHANGED <<session, records, job>>

Authority ==
  \/ Renew("refresh") \/ Renew("reauthorize")
  \/ RevokeSession \/ Expire
  \/ SetDevice(TRUE) \/ SetDevice(FALSE)

Arrival(w) ==
  \/ BeginStart(w)
  \/ \E r \in Records :
       BeginStop(w, r) \/ \E ok \in BOOLEAN : BeginHeartbeat(w, r, ok)

HandlerStep(w) ==
  \/ Retire(w) \/ Stop(w) \/ Create(w)
  \/ Evaluate(w) \/ Revoke(w) \/ Persist(w) \/ Evidence(w)

Next ==
  \/ Authority
  \/ \E w \in Workers : Arrival(w) \/ HandlerStep(w) \/ Abort(w)

Spec == Init /\ [][Next]_vars

\* A thread that runs a handler is scheduled until the handler replies.
FairSpec == Spec /\ \A w \in Workers : WF_vars(HandlerStep(w))

-----------------------------------------------------------------------------
(***************************************************************************)
(* Properties.                                                             *)
(***************************************************************************)

Enacted(rec, s) ==
  rec.status = "revoked" => s.revoked \/ s.version > rec.revokedAt

\* A record that says "revoked" has had its session revoked: the session still
\* is, or has been renewed since.  The order of the writes in _evaluate keeps
\* this through crashes and overlapping heartbeats.
RevocationEnacted == \A r \in Records : Enacted(records[r], session)

\* A heartbeat whose evaluation is stored.
Tick(w, ok) == Persist(w) /\ job[w].ok = ok

SomeTick(ok) == \E w \in Workers : Tick(w, ok)

\* However heartbeats and renewals overlap, a camera that never again confirms
\* the identity gets the session revoked, and revoked again when renewed.
StreaksRevoke ==
  []<><<SomeTick(FALSE)>>_vars /\ <>[][~SomeTick(TRUE)]_vars => []<>session.revoked

\* A revocation does not latch: while the session stays usable and heartbeats
\* confirm the identity, the gate opens again.
GateReopens ==
  []<><<SomeTick(TRUE)>>_vars /\ <>[][~SomeTick(FALSE)]_vars /\ <>[]Usable
    => []<>GateOpens

-----------------------------------------------------------------------------
(***************************************************************************)
(* Properties of handlers that do not overlap.                             *)
(***************************************************************************)

\* Starting to monitor a session retires its previous record, so that one
\* record at most answers for the session.
OneRunning ==
  \A r1, r2 \in Records : Running(r1) /\ Running(r2) => r1 = r2

\* A record that was stopped, by its user or by the start of its replacement,
\* takes no further part, even if an old heartbeat arrives late.
StoppedStaysStopped ==
  [][\A r \in Records : Stored(r) /\ ~Running(r) => ~Running(r)']_records
=============================================================================
