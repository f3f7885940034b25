-------------------------- MODULE MonitoringProofs --------------------------
(***************************************************************************)
(* For any number of workers and records, and any thresholds: types are    *)
(* kept, and a stored revocation is one that was enacted.  Without         *)
(* overlapping requests, one record runs at most, and a stopped one for    *)
(* good has stopped.                                                       *)
(***************************************************************************)
EXTENDS Monitoring, TLAPS

-----------------------------------------------------------------------------
(***************************************************************************)
(* Types.                                                                  *)
(***************************************************************************)

\* The places where a record's content comes from.
LEMMA RecordTypes ==
  /\ Fresh \in RecordDocs
  /\ \A rec \in RecordDocs : [rec EXCEPT !.stopped = TRUE] \in RecordDocs
  /\ \A rec \in RecordDocs, ok \in BOOLEAN : Failures(rec, ok) \in Nat
  /\ \A rec, failures : StatusFor(rec, failures) \in Statuses
  /\ Absent \notin RecordDocs /\ Idle \notin Jobs
<1>1. Fresh \in RecordDocs
  BY ThresholdsAssumption DEF Fresh, RecordDocs, Statuses
<1>2. \A rec \in RecordDocs : [rec EXCEPT !.stopped = TRUE] \in RecordDocs
  BY DEF RecordDocs
<1>3. \A rec \in RecordDocs, ok \in BOOLEAN : Failures(rec, ok) \in Nat
  BY ThresholdsAssumption DEF RecordDocs, Failures
<1>4. \A rec, failures : StatusFor(rec, failures) \in Statuses
  BY DEF StatusFor, Statuses
<1>5. Absent \notin RecordDocs /\ Idle \notin Jobs
  BY DEF Absent, RecordDocs, Statuses, Idle, Jobs
<1> QED
  BY <1>1, <1>2, <1>3, <1>4, <1>5

LEMMA EvaluatedType ==
  ASSUME TypeOK, NEW w \in Workers, job[w] # Idle
  PROVE  /\ job[w] \in Jobs
         /\ Evaluated(job[w]) \in RecordDocs
         /\ Evaluated(job[w]).status = StatusFor(job[w].copy, Failures(job[w].copy, job[w].ok))
         /\ Evaluated(job[w]).revokedAt =
              IF Evaluated(job[w]).status = "revoked" THEN session.version ELSE 0
<1>1. job[w] \in Jobs
  BY DEF TypeOK
<1>2. job[w].copy \in RecordDocs /\ job[w].ok \in BOOLEAN
  BY <1>1 DEF Jobs
<1>3. session.version \in Nat
  BY DEF TypeOK
<1> DEFINE failures == Failures(job[w].copy, job[w].ok)
           status   == StatusFor(job[w].copy, failures)
<1>4. failures \in Nat /\ status \in Statuses
  BY <1>2, RecordTypes
<1> HIDE DEF failures, status
<1>5. Evaluated(job[w]) =
        [job[w].copy EXCEPT !.failures = failures, !.status = status,
                            !.revokedAt = IF status = "revoked" THEN session.version ELSE 0]
  BY DEF Evaluated, failures, status
<1> DEFINE at == IF status = "revoked" THEN session.version ELSE 0
<1>6. at \in Nat
  BY <1>3
<1> HIDE DEF at
<1>7. Evaluated(job[w]) =
        [job[w].copy EXCEPT !.failures = failures, !.status = status,
                            !.revokedAt = at]
  BY <1>5 DEF at
<1>8. /\ Evaluated(job[w]) \in RecordDocs
      /\ Evaluated(job[w]).status = status
      /\ Evaluated(job[w]).revokedAt = at
  BY <1>2, <1>4, <1>6, <1>7 DEF RecordDocs
<1> QED
  BY <1>1, <1>8 DEF at, status, failures

\* One lemma for each kind of step keeps the goals small.
LEMMA BeginType ==
  ASSUME TypeOK, NEW w \in Workers, Arrival(w)
  PROVE  TypeOK'
<1>1. ASSUME NEW op \in {"start", "stop", "heartbeat"},
             NEW step \in {"retire", "stop", "create", "evaluate"},
             NEW r \in Records \cup {NoRecord}, NEW ok \in BOOLEAN,
             NEW copy \in RecordDocs, Begin(w, op, step, r, ok, copy)
      PROVE  TypeOK'
  <2>1. [op |-> op, step |-> step, record |-> r, ok |-> ok, copy |-> copy] \in Jobs
    BY DEF Jobs
  <2> QED
    BY <1>1, <2>1 DEF TypeOK, Begin
<1>2. CASE BeginStart(w)
  BY <1>1, <1>2, RecordTypes DEF BeginStart
<1>3. ASSUME NEW r \in Records, BeginStop(w, r)
      PROVE  TypeOK'
  <2>1. records[r] \in RecordDocs
    BY <1>3 DEF BeginStop, Stored, TypeOK
  <2> QED
    BY <1>1, <1>3, <2>1 DEF BeginStop
<1>4. ASSUME NEW r \in Records, NEW ok \in BOOLEAN, BeginHeartbeat(w, r, ok)
      PROVE  TypeOK'
  <2>1. records[r] \in RecordDocs
    BY <1>4 DEF BeginHeartbeat, Running, Stored, TypeOK
  <2> QED
    BY <1>1, <1>4, <2>1 DEF BeginHeartbeat
<1> QED
  BY <1>2, <1>3, <1>4 DEF Arrival

\* A handler works on the record it is about, and once it has one it keeps it.
Addressed(j) ==
  /\ j.step # "create" => j.record \in Records
  /\ j.step = "retire" => records[j.record] # Absent

AddressInv == \A w \in Workers : job[w] # Idle => Addressed(job[w])

\* Records are never deleted.
LEMMA HandlerType ==
  ASSUME TypeOK, AddressInv, NEW w \in Workers, HandlerStep(w) \/ Abort(w)
  PROVE  TypeOK'
<1> DEFINE j == job[w]
<1>1. j \in Jobs /\ Addressed(j)
  BY DEF HandlerStep, Abort, Retire, Stop, Create, Evaluate, Revoke, Persist,
         Evidence, At, TypeOK, AddressInv
<1>2. CASE Retire(w)
  <2>1. records[j.record] \in RecordDocs
    BY <1>1, <1>2 DEF Retire, At, Addressed, TypeOK
  <2>2. [j EXCEPT !.step = "stop", !.copy = records[j.record]] \in Jobs
    BY <1>1, <2>1 DEF Jobs
  <2> QED
    BY <1>2, <2>2 DEF Retire, TypeOK
<1>3. CASE Stop(w)
  <2>1. [j.copy EXCEPT !.stopped = TRUE] \in RecordDocs /\ j.record \in Records
    BY <1>1, <1>3, RecordTypes DEF Jobs, Stop, At, Addressed
  <2>2. [j EXCEPT !.step = "create"] \in Jobs
    BY <1>1 DEF Jobs
  <2>3. job' \in [Workers -> Jobs \cup {Idle}]
    BY <1>3, <2>2 DEF Stop, Continue, Reply, TypeOK
  <2>4. records' \in [Records -> RecordDocs \cup {Absent}]
    BY <1>3, <2>1 DEF Stop, TypeOK
  <2> QED
    BY <1>3, <2>3, <2>4 DEF Stop, TypeOK
<1>4. CASE Create(w)
  <2>1. PICK r \in Records :
          /\ records' = [records EXCEPT ![r] = Fresh]
          /\ job' = [job EXCEPT ![w].step = "evaluate", ![w].record = r,
                                ![w].copy = Fresh]
    BY <1>4 DEF Create
  <2>2. [j EXCEPT !.step = "evaluate", !.record = r, !.copy = Fresh] \in Jobs
    BY <1>1, RecordTypes DEF Jobs
  <2>3. job' \in [Workers -> Jobs \cup {Idle}]
    BY <2>1, <2>2 DEF TypeOK
  <2>4. records' \in [Records -> RecordDocs \cup {Absent}]
    BY <2>1, RecordTypes DEF TypeOK
  <2> QED
    BY <1>4, <2>3, <2>4 DEF Create, TypeOK
<1>5. CASE Evaluate(w)
  <2>1. Evaluated(j) \in RecordDocs
    BY <1>5, EvaluatedType DEF Evaluate, At
  <2>2. \A step \in {"revoke", "persist"} :
          [j EXCEPT !.copy = Evaluated(j), !.step = step] \in Jobs
    BY <1>1, <2>1 DEF Jobs
  <2>3. (IF NewlyRevoked(j) THEN "revoke" ELSE "persist") \in {"revoke", "persist"}
    OBVIOUS
  <2>4. job' \in [Workers -> Jobs \cup {Idle}]
    BY <1>5, <2>2, <2>3 DEF Evaluate, TypeOK
  <2> QED
    BY <1>5, <2>4 DEF Evaluate, TypeOK
<1>6. CASE Revoke(w)
  <2>1. [j EXCEPT !.step = "persist"] \in Jobs
    BY <1>1 DEF Jobs
  <2> QED
    BY <1>6, <2>1 DEF Revoke, Continue, TypeOK
<1>7. CASE Persist(w)
  <2>1. [j EXCEPT !.step = "evidence"] \in Jobs /\ j.copy \in RecordDocs
    BY <1>1 DEF Jobs
  <2> QED
    BY <1>7, <2>1 DEF Persist, Save, Continue, TypeOK
<1>8. CASE Evidence(w)
  <2>1. j.copy \in RecordDocs
    BY <1>1 DEF Jobs
  <2> QED
    BY <1>8, <2>1 DEF Evidence, Save, Reply, TypeOK
<1>9. CASE Abort(w)
  BY <1>9 DEF Abort, Reply, TypeOK
<1> QED
  BY <1>2, <1>3, <1>4, <1>5, <1>6, <1>7, <1>8, <1>9 DEF HandlerStep

LEMMA AuthorityType ==
  ASSUME TypeOK, Authority
  PROVE  TypeOK'
<1>1. ASSUME NEW by, Renew(by)
      PROVE  TypeOK'
  <2>1. session.version + 1 \in Nat \ {0}
    BY DEF TypeOK
  <2> QED
    BY <1>1, <2>1 DEF Renew, TypeOK
<1>2. CASE RevokeSession \/ Expire
  BY <1>2 DEF RevokeSession, Expire, TypeOK
<1>3. ASSUME NEW revoked \in BOOLEAN, SetDevice(revoked)
      PROVE  TypeOK'
  BY <1>3 DEF SetDevice, TypeOK
<1> QED
  BY <1>1, <1>2, <1>3 DEF Authority

LEMMA AddressStep ==
  ASSUME TypeOK, AddressInv, [Next]_vars
  PROVE  AddressInv'
<1>1. CASE UNCHANGED vars
  BY <1>1 DEF vars, AddressInv, Addressed
<1>2. CASE Authority
  <2>1. records' = records /\ job' = job
    BY <1>2 DEF Authority, Renew, RevokeSession, Expire, SetDevice
  <2> QED
    BY <2>1 DEF AddressInv, Addressed
<1>3. ASSUME NEW w \in Workers, Arrival(w) \/ HandlerStep(w) \/ Abort(w)
      PROVE  AddressInv'
  <2>1. \A v \in Workers \ {w} : job'[v] = job[v]
    BY <1>3 DEF Arrival, BeginStart, BeginStop, BeginHeartbeat, Begin,
        HandlerStep, Retire, Stop, Create, Evaluate, Revoke, Persist, Evidence,
        Continue, Reply, Abort, TypeOK
  <2>2. /\ \A r \in Records : records[r] # Absent => records'[r] # Absent
        /\ job'[w] # Idle => Addressed(job[w])'
    <3>1. CASE Arrival(w)
      <4>1. records' = records
        BY <3>1 DEF Arrival, BeginStart, BeginStop, BeginHeartbeat, Begin
      <4>2. Addressed(job'[w])
        BY <3>1 DEF Arrival, BeginStart, BeginStop, BeginHeartbeat, Begin,
                    Addressed, Running, Stored, TypeOK
      <4> QED
        BY <4>1, <4>2 DEF Addressed
    <3>2. CASE HandlerStep(w)
      <4>1. job[w] \in Jobs /\ Addressed(job[w])
        BY <3>2 DEF HandlerStep, Retire, Stop, Create, Evaluate, Revoke,
                    Persist, Evidence, At, TypeOK, AddressInv
      <4>2. job[w].copy \in RecordDocs /\ [job[w].copy EXCEPT !.stopped = TRUE] # Absent
        BY <4>1 DEF Jobs, RecordDocs, Absent
      <4>3. job[w].copy # Absent /\ Fresh # Absent
        BY <4>2, RecordTypes
      <4>4. \A r \in Records : records[r] # Absent => records'[r] # Absent
        BY <3>2, <4>2, <4>3 DEF HandlerStep, Retire, Stop, Create, Evaluate,
           Revoke, Persist, Evidence, Save, TypeOK
      <4>5. job'[w] # Idle => job'[w].step # "retire" /\
              (job'[w].step # "create" => job'[w].record \in Records)
        <5>1. CASE Retire(w)
          BY <4>1, <5>1 DEF Retire, At, Addressed, TypeOK, Jobs
        <5>2. CASE Stop(w)
          BY <4>1, <5>2 DEF Stop, Continue, Reply, TypeOK, Jobs
        <5>3. CASE Create(w)
          BY <4>1, <5>3 DEF Create, TypeOK, Jobs
        <5>4. CASE Evaluate(w)
          BY <4>1, <5>4 DEF Evaluate, At, Addressed, TypeOK, Jobs
        <5>5. CASE Revoke(w) \/ Persist(w)
          BY <4>1, <5>5 DEF Revoke, Persist, Continue, At, Addressed, TypeOK, Jobs
        <5>6. CASE Evidence(w)
          BY <5>6 DEF Evidence, Reply, TypeOK
        <5> QED
          BY <3>2, <5>1, <5>2, <5>3, <5>4, <5>5, <5>6 DEF HandlerStep
      <4> QED
        BY <4>4, <4>5 DEF Addressed
    <3>3. CASE Abort(w)
      BY <3>3 DEF Abort, Reply, TypeOK
    <3> QED
      BY <1>3, <3>1, <3>2, <3>3
  <2>3. \A v \in Workers \ {w} : job[v] # Idle /\ Addressed(job[v]) => Addressed(job[v])'
    <3> SUFFICES ASSUME NEW v \in Workers \ {w}, job[v] # Idle, Addressed(job[v])
                 PROVE  Addressed(job[v])'
      OBVIOUS
    <3>1. job[v] \in Jobs /\ job'[v] = job[v]
      BY <2>1 DEF TypeOK
    <3> QED
      BY <2>2, <3>1 DEF Addressed, Jobs
  <2> QED
    BY <2>1, <2>2, <2>3 DEF AddressInv
<1> QED
  BY <1>1, <1>2, <1>3 DEF Next

\* Sessions, records and the copies of handlers keep their types, also with
\* failures counted without end, as _evaluate does (Counts = Nat); and every
\* handler that is past creating its record is about one of the records.
THEOREM TypeCorrect == Spec => [](TypeOK /\ AddressInv)
<1>1. Init => TypeOK /\ AddressInv
  BY DEF Init, TypeOK, AddressInv
<1>2. TypeOK /\ AddressInv /\ [Next]_vars => TypeOK' /\ AddressInv'
  <2> SUFFICES ASSUME TypeOK, AddressInv, [Next]_vars
               PROVE  TypeOK' /\ AddressInv'
    OBVIOUS
  <2>1. CASE UNCHANGED vars
    BY <2>1, AddressStep DEF vars, TypeOK
  <2>2. CASE Next
    BY <2>2, BeginType, HandlerType, AuthorityType, AddressStep DEF Next
  <2> QED
    BY <2>1, <2>2
<1> QED
  BY <1>1, <1>2, PTL DEF Spec

-----------------------------------------------------------------------------
(***************************************************************************)
(* Revocations.  A handler between its evaluation and its last write holds *)
(* a copy whose revocation it has enacted or found enacted, except when it *)
(* is about to enact it; and no revocation is dated after the session's    *)
(* version.                                                                *)
(***************************************************************************)

Dated(rec, s) == rec.status = "revoked" => rec.revokedAt \in 1..s.version

Sound(rec, s) == Enacted(rec, s) /\ Dated(rec, s)

SoundJob(j, s) ==
  /\ Dated(j.copy, s)
  /\ j.step # "revoke" => Enacted(j.copy, s)

EnactInv ==
  /\ \A r \in Records : Sound(records[r], session)
  /\ \A w \in Workers : job[w] # Idle => SoundJob(job[w], session)

\* All that a session undergoes: a revocation, or a renewal.
Later ==
  \/ session'.version = session.version /\ (session.revoked => session'.revoked)
  \/ session'.version = session.version + 1

LEMMA AuthorityLater ==
  ASSUME TypeOK, Authority
  PROVE  Later
<1>1. ASSUME NEW by, Renew(by)
      PROVE  Later
  BY <1>1 DEF Renew, Later
<1>2. CASE RevokeSession \/ Expire
  BY <1>2 DEF RevokeSession, Expire, TypeOK, Later
<1>3. ASSUME NEW revoked, SetDevice(revoked)
      PROVE  Later
  BY <1>3 DEF SetDevice, Later
<1> QED
  BY <1>1, <1>2, <1>3 DEF Authority

\* It makes no sound record or copy unsound.
LEMMA SoundKept ==
  ASSUME TypeOK, Later
  PROVE  \A rec : /\ Dated(rec, session) => Dated(rec, session')
                  /\ Sound(rec, session) => Sound(rec, session')
BY DEF Sound, Dated, Enacted, Later, TypeOK

LEMMA SoundJobKept ==
  ASSUME \A rec : /\ Dated(rec, session) => Dated(rec, session')
                  /\ Sound(rec, session) => Sound(rec, session')
  PROVE  \A j : SoundJob(j, session) => SoundJob(j, session')
BY DEF SoundJob, Sound

\* The heart of the argument: a copy that comes out of an evaluation is sound,
\* or the handler revokes the session next.
LEMMA EvaluatedSound ==
  ASSUME TypeOK, EnactInv, NEW w \in Workers, At(w, "evaluate")
  PROVE  /\ Dated(Evaluated(job[w]), session)
         /\ ~NewlyRevoked(job[w]) => Enacted(Evaluated(job[w]), session)
<1>1. job[w] # Idle /\ Sound(job[w].copy, session)
  BY DEF At, EnactInv, Sound, SoundJob
<1>2. session.version \in Nat \ {0}
  BY DEF TypeOK
<1>3. Evaluated(job[w]).revokedAt =
        IF Evaluated(job[w]).status = "revoked" THEN session.version ELSE 0
  BY <1>1, EvaluatedType
<1>4. Dated(Evaluated(job[w]), session)
  BY <1>2, <1>3 DEF Dated
<1>5. AlreadyRevoked(job[w].copy) => session.revoked
  <2> SUFFICES ASSUME AlreadyRevoked(job[w].copy) PROVE session.revoked
    OBVIOUS
  <2>1. job[w].copy.revokedAt \in 1..session.version
    BY <1>1 DEF AlreadyRevoked, Sound, Dated
  <2>2. session.version <= job[w].copy.revokedAt
    BY <1>2, <2>1 DEF AlreadyRevoked
  <2>3. session.revoked \/ session.version > job[w].copy.revokedAt
    BY <1>1 DEF AlreadyRevoked, Sound, Enacted
  <2> QED
    BY <1>2, <2>1, <2>2, <2>3
<1>6. ~NewlyRevoked(job[w]) => Enacted(Evaluated(job[w]), session)
  BY <1>5 DEF NewlyRevoked, Enacted
<1> QED
  BY <1>4, <1>6

\* Contents that are no revocation are sound.
LEMMA HarmlessSound ==
  /\ \A s : Sound(Fresh, s) /\ Sound(Absent, s)
  /\ \A rec \in RecordDocs : \A s : Sound(rec, s) => Sound([rec EXCEPT !.stopped = TRUE], s)
BY DEF Sound, Enacted, Dated, Fresh, Absent, RecordDocs

LEMMA EnactStep ==
  ASSUME TypeOK, AddressInv, EnactInv, [Next]_vars
  PROVE  EnactInv'
<1>1. CASE UNCHANGED vars
  BY <1>1 DEF vars, EnactInv
<1>2. CASE Authority
  <2>1. records' = records /\ job' = job
    BY <1>2 DEF Authority, Renew, RevokeSession, Expire, SetDevice
  <2>2. \A rec : /\ Dated(rec, session) => Dated(rec, session')
                 /\ Sound(rec, session) => Sound(rec, session')
    BY <1>2, AuthorityLater, SoundKept
  <2>3. \A j : SoundJob(j, session) => SoundJob(j, session')
    BY <2>2, SoundJobKept
  <2> QED
    BY <2>1, <2>2, <2>3 DEF EnactInv
<1>3. ASSUME NEW w \in Workers, Arrival(w)
      PROVE  EnactInv'
  <2>1. ASSUME NEW op, NEW step, NEW r, NEW ok, NEW copy,
               Begin(w, op, step, r, ok, copy), Sound(copy, session)
        PROVE  EnactInv'
    <3>1. SoundJob([op |-> op, step |-> step, record |-> r, ok |-> ok,
                    copy |-> copy], session)
      BY <2>1 DEF SoundJob, Sound
    <3> QED
      BY <2>1, <3>1 DEF Begin, EnactInv, TypeOK
  <2> QED
    BY <1>3, <2>1, HarmlessSound
    DEF Arrival, BeginStart, BeginStop, BeginHeartbeat, EnactInv
<1>4. ASSUME NEW w \in Workers, HandlerStep(w) \/ Abort(w)
      PROVE  EnactInv'
  <2> DEFINE j == job[w]
  <2>1. j \in Jobs /\ Addressed(j) /\ SoundJob(j, session)
    BY <1>4 DEF HandlerStep, Abort, Retire, Stop, Create, Evaluate, Revoke,
                Persist, Evidence, At, TypeOK, AddressInv, EnactInv
  <2> SUFFICES
        /\ \A r \in Records : Sound(records'[r], session')
        /\ \A v \in Workers : job'[v] # Idle => SoundJob(job'[v], session')
    BY DEF EnactInv
  <2> USE DEF EnactInv
  <2>2. CASE Retire(w)
    <3>1. SoundJob([j EXCEPT !.step = "stop", !.copy = records[j.record]], session)
      BY <2>1, <2>2 DEF Retire, At, Addressed, SoundJob, Sound, Jobs
    <3> QED
      BY <2>2, <3>1 DEF Retire, TypeOK
  <2>3. CASE Stop(w)
    <3>1. Sound([j.copy EXCEPT !.stopped = TRUE], session)
      BY <2>1, <2>3, HarmlessSound DEF Stop, At, SoundJob, Sound, Jobs
    <3>2. SoundJob([j EXCEPT !.step = "create"], session)
      BY <2>1, <2>3 DEF Stop, At, SoundJob, Jobs
    <3> QED
      BY <2>3, <3>1, <3>2 DEF Stop, Continue, Reply, TypeOK
  <2>4. CASE Create(w)
    <3>1. PICK r \in Records :
            /\ records' = [records EXCEPT ![r] = Fresh]
            /\ job' = [job EXCEPT ![w].step = "evaluate", ![w].record = r,
                                  ![w].copy = Fresh]
      BY <2>4 DEF Create
    <3>2. SoundJob([j EXCEPT !.step = "evaluate", !.record = r, !.copy = Fresh],
                   session)
      BY <2>1, HarmlessSound DEF SoundJob, Sound, Jobs
    <3> QED
      BY <2>4, <3>1, <3>2, HarmlessSound DEF Create, TypeOK
  <2>5. CASE Evaluate(w)
    <3>1. /\ Dated(Evaluated(j), session)
          /\ ~NewlyRevoked(j) => Enacted(Evaluated(j), session)
      BY <2>5, EvaluatedSound DEF Evaluate
    <3>2. SoundJob([j EXCEPT !.copy = Evaluated(j),
                             !.step = IF NewlyRevoked(j) THEN "revoke" ELSE "persist"],
                   session)
      BY <2>1, <3>1 DEF SoundJob, Jobs
    <3> QED
      BY <2>5, <3>2 DEF Evaluate, TypeOK
  <2>6. CASE Revoke(w)
    <3>1. \A rec : /\ Dated(rec, session) => Dated(rec, session')
                   /\ Sound(rec, session) => Sound(rec, session')
      <4>1. Later
        BY <2>6 DEF Revoke, Later, TypeOK
      <4> QED
        BY <4>1, SoundKept
    <3>2. session'.revoked
      BY <2>6 DEF Revoke, TypeOK
    <3>3. SoundJob([j EXCEPT !.step = "persist"], session')
      BY <2>1, <3>1, <3>2 DEF SoundJob, Enacted, Jobs
    <3>4. \A i : SoundJob(i, session) => SoundJob(i, session')
      BY <3>1, SoundJobKept
    <3> QED
      BY <2>6, <3>1, <3>3, <3>4 DEF Revoke, Continue, TypeOK
  <2>7. CASE Persist(w)
    <3>1. Sound(j.copy, session)
      BY <2>1, <2>7 DEF Persist, At, SoundJob, Sound
    <3>2. SoundJob([j EXCEPT !.step = "evidence"], session)
      BY <2>1, <3>1 DEF SoundJob, Sound, Jobs
    <3> QED
      BY <2>7, <3>1, <3>2 DEF Persist, Save, Continue, TypeOK
  <2>8. CASE Evidence(w)
    <3>1. Sound(j.copy, session)
      BY <2>1, <2>8 DEF Evidence, At, SoundJob, Sound
    <3> QED
      BY <2>8, <3>1 DEF Evidence, Save, Reply, TypeOK
  <2>9. CASE Abort(w)
    BY <2>9 DEF Abort, Reply, TypeOK
  <2> QED
    BY <1>4, <2>2, <2>3, <2>4, <2>5, <2>6, <2>7, <2>8, <2>9 DEF HandlerStep
<1> QED
  BY <1>1, <1>2, <1>3, <1>4 DEF Next

\* A record that says "revoked" has had its session revoked, through crashes
\* and overlapping heartbeats, whatever the thresholds are.
THEOREM RevocationsEnacted == Spec => []RevocationEnacted
<1>1. Init => EnactInv
  BY HarmlessSound DEF Init, EnactInv
<1>2. TypeOK /\ AddressInv /\ EnactInv /\ [Next]_vars => EnactInv'
  BY EnactStep
<1>3. EnactInv => RevocationEnacted
  BY DEF EnactInv, Sound, RevocationEnacted
<1> QED
  BY <1>1, <1>2, <1>3, TypeCorrect, PTL DEF Spec

-----------------------------------------------------------------------------
(***************************************************************************)
(* Handlers that do not overlap.  Between two of its calls nobody stops    *)
(* the record a handler is about, so what it writes back is still running; *)
(* and a start creates its record when it has seen every other one         *)
(* stopped.  Two overlapping starts, or a stop that overlaps a heartbeat,  *)
(* break each of these.                                                    *)
(***************************************************************************)

SingleWorker == \A v, w \in Workers : v = w

Runs(rec) == rec # Absent /\ ~rec.stopped

\* What a handler may rely on, over the records as they are.
AloneAt(j, recs) ==
  /\ j.step = "create" => \A r \in Records : ~Runs(recs[r])
  /\ j.step = "stop" /\ j.op = "start" => Runs(recs[j.record])
  /\ j.step = "retire" => j.op = "start" /\ Runs(recs[j.record])
  /\ j.step \in {"evaluate", "revoke", "persist", "evidence"} =>
       Runs(recs[j.record]) /\ ~j.copy.stopped

OneRuns(recs) == \A r, q \in Records : Runs(recs[r]) /\ Runs(recs[q]) => r = q

SerialInv ==
  /\ OneRuns(records)
  /\ \A w \in Workers : job[w] # Idle => AloneAt(job[w], records)

\* A record that has stopped does not run again.
NoneRestarts == \A r \in Records : records[r] # Absent /\ Runs(records'[r]) => Runs(records[r])

\* The only handler goes on with job j, or is done.
LEMMA OnlyHandler ==
  ASSUME SingleWorker, TypeOK, NEW w \in Workers, NEW j, OneRuns(records'),
         job' = [job EXCEPT ![w] = j], j # Idle => AloneAt(j, records')
  PROVE  SerialInv'
<1>1. \A v \in Workers : v = w /\ job'[v] = j
  BY DEF SingleWorker, TypeOK
<1> QED
  BY <1>1 DEF SerialInv

LEMMA SerialBegin ==
  ASSUME SingleWorker, TypeOK, SerialInv, NEW w \in Workers, Arrival(w)
  PROVE  SerialInv' /\ NoneRestarts
<1>1. records' = records
  BY DEF Arrival, BeginStart, BeginStop, BeginHeartbeat, Begin
<1>2. OneRuns(records') /\ NoneRestarts
  BY <1>1 DEF SerialInv, NoneRestarts
<1>3. ASSUME NEW op, NEW step, NEW r, NEW ok, NEW copy, Begin(w, op, step, r, ok, copy),
             AloneAt([op |-> op, step |-> step, record |-> r, ok |-> ok, copy |-> copy],
                     records)
      PROVE  SerialInv'
  BY <1>1, <1>2, <1>3, OnlyHandler DEF Begin
<1>4. CASE BeginStart(w)
  <2>1. ASSUME NEW r \in Records, Running(r), Begin(w, "start", "retire", r, TRUE, Fresh)
        PROVE  SerialInv'
    <3>1. AloneAt([op |-> "start", step |-> "retire", record |-> r, ok |-> TRUE,
                   copy |-> Fresh], records)
      BY <2>1 DEF AloneAt, Runs, Running, Stored
    <3> QED
      BY <1>3, <2>1, <3>1
  <2>2. ASSUME \A r \in Records : ~Running(r), Begin(w, "start", "create", NoRecord, TRUE, Fresh)
        PROVE  SerialInv'
    <3>1. AloneAt([op |-> "start", step |-> "create", record |-> NoRecord, ok |-> TRUE,
                   copy |-> Fresh], records)
      BY <2>2 DEF AloneAt, Runs, Running, Stored
    <3> QED
      BY <1>3, <2>2, <3>1
  <2> QED
    BY <1>2, <1>4, <2>1, <2>2 DEF BeginStart
<1>5. ASSUME NEW r \in Records, BeginStop(w, r) PROVE SerialInv'
  <2>1. AloneAt([op |-> "stop", step |-> "stop", record |-> r, ok |-> TRUE,
                 copy |-> records[r]], records)
    BY DEF AloneAt
  <2> QED
    BY <1>3, <1>5, <2>1 DEF BeginStop
<1>6. ASSUME NEW r \in Records, NEW ok \in BOOLEAN, BeginHeartbeat(w, r, ok) PROVE SerialInv'
  <2>1. AloneAt([op |-> "heartbeat", step |-> "evaluate", record |-> r, ok |-> ok,
                 copy |-> records[r]], records)
    BY <1>6 DEF AloneAt, Runs, BeginHeartbeat, Running, Stored
  <2> QED
    BY <1>3, <1>6, <2>1 DEF BeginHeartbeat
<1> QED
  BY <1>2, <1>4, <1>5, <1>6 DEF Arrival

\* Writing back a copy that has not stopped, over a record that has not.
LEMMA SerialSave ==
  ASSUME TypeOK, SerialInv, NEW r \in Records, NEW copy \in RecordDocs,
         ~copy.stopped, Runs(records[r]), records' = [records EXCEPT ![r] = copy]
  PROVE  OneRuns(records') /\ NoneRestarts /\ Runs(records'[r])
<1>1. records'[r] = copy /\ \A q \in Records : q # r => records'[q] = records[q]
  BY DEF TypeOK
<1>2. Runs(copy)
  BY RecordTypes DEF Runs
<1>3. \A q \in Records : Runs(records'[q]) <=> Runs(records[q])
  BY <1>1, <1>2
<1> QED
  BY <1>1, <1>2, <1>3 DEF SerialInv, OneRuns, NoneRestarts

LEMMA SerialHandler ==
  ASSUME SingleWorker, TypeOK, AddressInv, SerialInv, NEW w \in Workers,
         HandlerStep(w) \/ Abort(w)
  PROVE  SerialInv' /\ NoneRestarts
<1> DEFINE j == job[w]
<1>1. j \in Jobs /\ j # Idle /\ Addressed(j) /\ AloneAt(j, records)
  BY RecordTypes
  DEF HandlerStep, Abort, Retire, Stop, Create, Evaluate, Revoke, Persist, Evidence, At,
      TypeOK, AddressInv, SerialInv
<1>2. records' = records => OneRuns(records') /\ NoneRestarts
  BY DEF SerialInv, NoneRestarts
<1>3. CASE Retire(w)
  <2> DEFINE k == [j EXCEPT !.step = "stop", !.copy = records[j.record]]
  <2>1. AloneAt(k, records)
    BY <1>1, <1>3 DEF Retire, At, AloneAt, Jobs
  <2>2. job' = [job EXCEPT ![w] = k] /\ records' = records
    BY <1>3 DEF Retire
  <2> QED
    BY <1>2, <2>1, <2>2, OnlyHandler
<1>4. CASE Stop(w)
  <2> DEFINE stopped == [j.copy EXCEPT !.stopped = TRUE]
  <2>1. /\ j.record \in Records /\ j.step = "stop"
        /\ records' = [records EXCEPT ![j.record] = stopped]
    BY <1>1, <1>4 DEF Stop, At, Addressed
  <2>2. ~Runs(stopped)
    BY <1>1 DEF Runs, Jobs, RecordDocs
  <2>3. /\ ~Runs(records'[j.record])
        /\ \A q \in Records : q # j.record => records'[q] = records[q]
    BY <2>1, <2>2 DEF TypeOK
  <2>4. OneRuns(records') /\ NoneRestarts
    BY <2>3 DEF SerialInv, OneRuns, NoneRestarts
  <2>5. CASE j.op = "start"
    <3>1. \A q \in Records : ~Runs(records'[q])
      BY <1>1, <2>1, <2>3, <2>5 DEF AloneAt, SerialInv, OneRuns
    <3>2. AloneAt([j EXCEPT !.step = "create"], records')
      BY <1>1, <3>1 DEF AloneAt, Jobs
    <3>3. job' = [job EXCEPT ![w] = [j EXCEPT !.step = "create"]]
      BY <1>4, <2>5 DEF Stop, Continue
    <3> QED
      BY <2>4, <3>2, <3>3, OnlyHandler
  <2>6. CASE j.op # "start"
    <3>1. job' = [job EXCEPT ![w] = Idle]
      BY <1>4, <2>6 DEF Stop, Reply
    <3> QED
      BY <2>4, <3>1, OnlyHandler
  <2> QED
    BY <2>5, <2>6
<1>5. CASE Create(w)
  <2>1. PICK r \in Records :
          /\ ~Stored(r)
          /\ records' = [records EXCEPT ![r] = Fresh]
          /\ job' = [job EXCEPT ![w].step = "evaluate", ![w].record = r, ![w].copy = Fresh]
    BY <1>5 DEF Create
  <2> DEFINE k == [j EXCEPT !.step = "evaluate", !.record = r, !.copy = Fresh]
  <2>2. job' = [job EXCEPT ![w] = k]
    BY <2>1 DEF TypeOK
  <2>3. \A q \in Records : ~Runs(records[q])
    BY <1>1, <1>5 DEF Create, At, AloneAt
  <2>4. records'[r] = Fresh /\ \A q \in Records : q # r => records'[q] = records[q]
    BY <2>1 DEF TypeOK
  <2>5. Runs(Fresh)
    BY RecordTypes DEF Runs, Fresh
  <2>6. OneRuns(records') /\ NoneRestarts
    BY <2>1, <2>3, <2>4 DEF OneRuns, NoneRestarts, Stored
  <2>7. k.step = "evaluate" /\ k.record = r /\ k.copy = Fresh
    BY <1>1 DEF Jobs
  <2>8. AloneAt(k, records')
    BY <2>4, <2>5, <2>7 DEF AloneAt, Fresh
  <2> QED
    BY <2>2, <2>6, <2>8, OnlyHandler
<1>6. CASE Evaluate(w)
  <2> DEFINE step == IF NewlyRevoked(j) THEN "revoke" ELSE "persist"
             k == [j EXCEPT !.copy = Evaluated(j), !.step = step]
  <2>1. job' = [job EXCEPT ![w] = k] /\ records' = records /\ j.step = "evaluate"
    BY <1>6 DEF Evaluate, At
  <2>2. step \in {"revoke", "persist"}
    OBVIOUS
  <2>3. Evaluated(j).stopped = j.copy.stopped
    BY <1>1 DEF Evaluated, Jobs, RecordDocs
  <2> HIDE DEF step
  <2>4. k.step = step /\ k.record = j.record /\ k.copy = Evaluated(j)
    BY <1>1 DEF Jobs
  <2>5. AloneAt(k, records)
    BY <1>1, <2>1, <2>2, <2>3, <2>4 DEF AloneAt
  <2> QED
    BY <1>2, <2>1, <2>5, OnlyHandler
<1>7. CASE Revoke(w)
  <2>1. AloneAt([j EXCEPT !.step = "persist"], records)
    BY <1>1, <1>7 DEF Revoke, At, AloneAt, Jobs
  <2>2. job' = [job EXCEPT ![w] = [j EXCEPT !.step = "persist"]] /\ records' = records
    BY <1>7 DEF Revoke, Continue
  <2> QED
    BY <1>2, <2>1, <2>2, OnlyHandler
<1>8. CASE Persist(w) \/ Evidence(w)
  <2>1. /\ j.record \in Records /\ Runs(records[j.record]) /\ ~j.copy.stopped
        /\ j.copy \in RecordDocs
        /\ records' = [records EXCEPT ![j.record] = j.copy]
    BY <1>1, <1>8 DEF Persist, Evidence, Save, At, Addressed, AloneAt, Jobs
  <2>2. OneRuns(records') /\ NoneRestarts /\ Runs(records'[j.record])
    BY <2>1, SerialSave
  <2>3. CASE Persist(w)
    <3>1. AloneAt([j EXCEPT !.step = "evidence"], records')
      BY <1>1, <2>1, <2>2 DEF AloneAt, Jobs
    <3>2. job' = [job EXCEPT ![w] = [j EXCEPT !.step = "evidence"]]
      BY <2>3 DEF Persist, Continue
    <3> QED
      BY <2>2, <3>1, <3>2, OnlyHandler
  <2>4. CASE Evidence(w)
    <3>1. job' = [job EXCEPT ![w] = Idle]
      BY <2>4 DEF Evidence, Reply
    <3> QED
      BY <2>2, <3>1, OnlyHandler
  <2> QED
    BY <1>8, <2>3, <2>4
<1>9. CASE Abort(w)
  <2>1. job' = [job EXCEPT ![w] = Idle] /\ records' = records
    BY <1>9 DEF Abort, Reply
  <2> QED
    BY <1>2, <2>1, OnlyHandler
<1> QED
  BY <1>3, <1>4, <1>5, <1>6, <1>7, <1>8, <1>9 DEF HandlerStep

LEMMA SerialStep ==
  ASSUME SingleWorker
  PROVE  TypeOK /\ AddressInv /\ SerialInv /\ [Next]_vars => SerialInv' /\ NoneRestarts
<1> SUFFICES ASSUME TypeOK, AddressInv, SerialInv, [Next]_vars PROVE SerialInv' /\ NoneRestarts
  OBVIOUS
<1>1. CASE UNCHANGED <<records, job>>
  BY <1>1 DEF SerialInv, NoneRestarts
<1>2. CASE Authority \/ UNCHANGED vars
  BY <1>1, <1>2 DEF Authority, Renew, RevokeSession, Expire, SetDevice, vars
<1>3. ASSUME NEW w \in Workers, Arrival(w) PROVE SerialInv' /\ NoneRestarts
  BY <1>3, SerialBegin
<1>4. ASSUME NEW w \in Workers, HandlerStep(w) \/ Abort(w) PROVE SerialInv' /\ NoneRestarts
  BY <1>4, SerialHandler
<1> QED
  BY <1>2, <1>3, <1>4 DEF Next

LEMMA SerialInvariant ==
  ASSUME SingleWorker
  PROVE  Spec => []SerialInv
<1>1. Init => SerialInv
  BY DEF Init, SerialInv, OneRuns, Runs
<1>2. TypeOK /\ AddressInv /\ SerialInv /\ [Next]_vars => SerialInv'
  BY SerialStep
<1> QED
  BY <1>1, <1>2, TypeCorrect, PTL DEF Spec

\* Without overlapping requests, starting to monitor a session retires its previous record
\* before the new one is created, so one record at most answers for the session.
THEOREM OneRunningSerial ==
  ASSUME SingleWorker
  PROVE  Spec => []OneRunning
<1>1. SerialInv => OneRunning
  BY DEF SerialInv, OneRuns, Runs, OneRunning, Running, Stored
<1> QED
  BY <1>1, SerialInvariant, PTL

\* Without overlapping requests, a record that was stopped takes no further part: every
\* write of a heartbeat or of a start goes to a record that is running.
THEOREM StoppedForGoodSerial ==
  ASSUME SingleWorker
  PROVE  Spec => StoppedStaysStopped
<1> DEFINE Kept == \A r \in Records : Stored(r) /\ ~Running(r) => ~Running(r)'
<1>1. TypeOK /\ AddressInv /\ SerialInv /\ [Next]_vars => Kept
  <2> SUFFICES ASSUME TypeOK, AddressInv, SerialInv, [Next]_vars PROVE Kept
    OBVIOUS
  <2>1. NoneRestarts
    BY SerialStep
  <2> QED
    BY <2>1 DEF NoneRestarts, Runs, Running, Stored
<1> QED
  BY <1>1, SerialInvariant, TypeCorrect, PTL DEF Spec, StoppedStaysStopped
=============================================================================
