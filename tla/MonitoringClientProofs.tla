----------------------- MODULE MonitoringClientProofs -----------------------
(***************************************************************************)
(* For any number of records and revisions and any limit: types are kept,  *)
(* and the connection is called lost only after that many failures, no     *)
(* failure of a tick of an earlier generation among them.                  *)
(***************************************************************************)
EXTENDS MonitoringClient, TLAPS

Servers == [issued : 0..MaxRecords, running : 0..MaxRecords,
            revoked : BOOLEAN, revision : [Ids -> 1..MaxRevision]]
Real == [id : Ids, revision : 1..MaxRevision, status : {"active", "revoked"}]

\* A job that goes on with a record goes on with one that exists.
JobsNameRecords ==
  /\ tick # Idle /\ tick.fresh => tick.id \in Ids
  /\ Answered(boot, "lookup") => boot.answer.snap \in Real
  /\ Answered(reauth, "start") => reauth.answer.snap \in Real
  /\ reauth.step = "await" => reauth.id \in Ids

\* A tick knows whether it is late, so what the page counts are the ticks that failed
\* in time.
MissesCounted ==
  /\ tick # Idle => tick.step # "none" /\ (late <=> ~tick.fresh)
  /\ tick = Idle => ~late
  /\ late \in BOOLEAN
  /\ failures = misses /\ misses \in Counts

ClientInv == ProviderTypes /\ JobsNameRecords /\ MissesCounted /\ LostOnlyAfterMisses

-----------------------------------------------------------------------------
(***************************************************************************)
(* Types of what the actions are made of.                                  *)
(***************************************************************************)
LEMMA Constants ==
  /\ 0 \in 0..MaxRecords /\ 1 \in 1..MaxRevision /\ 1 \in Ids
  /\ Ids \subseteq 0..MaxRecords
  /\ \A n \in 1..MaxRevision : NextRevision(n) \in 1..MaxRevision
BY BoundsAssumption DEF Ids, NextRevision

LEMMA AnswerTypes ==
  /\ Refused \in Answers /\ Lost \in Answers /\ Ok(NoSnapshot) \in Answers
  /\ \A s \in Real : s \in Snapshots /\ Ok(s) \in Answers
BY DEF Refused, Lost, Ok, Answers, Snapshots, Real

LEMMA JobTypes ==
  /\ Idle \in Jobs
  /\ \A job \in Jobs : Stale(job) \in Jobs /\ (Stale(job) = Idle \/ ~Stale(job).fresh)
  /\ \A step \in Steps, id \in 0..MaxRecords, answer \in Answers : Job(step, id, answer) \in Jobs
<1>1. Idle \in Jobs
  BY Constants, AnswerTypes DEF Idle, Jobs, Steps
<1>2. ASSUME NEW job \in Jobs
      PROVE  Stale(job) \in Jobs /\ (Stale(job) = Idle \/ ~Stale(job).fresh)
  BY <1>1, Constants, AnswerTypes DEF Stale, Jobs
<1>3. ASSUME NEW step \in Steps, NEW id \in 0..MaxRecords, NEW answer \in Answers
      PROVE  Job(step, id, answer) \in Jobs
  BY DEF Job, Jobs
<1> QED
  BY <1>1, <1>2, <1>3

LEMMA SnapshotTypes ==
  ASSUME ProviderTypes, NEW id \in Ids
  PROVE  SnapshotOf(id) \in Real
BY DEF ProviderTypes, SnapshotOf, Real

LEMMA ReadTypes ==
  ASSUME ProviderTypes, NEW id \in Ids, NEW step \in Steps
  PROVE  Read(step, id) \in Jobs
<1>1. Ok(SnapshotOf(id)) \in Answers
  BY SnapshotTypes, AnswerTypes
<1> QED
  BY <1>1, JobTypes, Constants DEF Read

LEMMA LookupTypes ==
  ASSUME ProviderTypes
  PROVE  /\ Lookup \in Jobs
         /\ Answered(Lookup, "lookup") => Lookup.answer.snap \in Real
<1>1. server.running # 0 => server.running \in Ids
  BY BoundsAssumption DEF ProviderTypes, Ids
<1> DEFINE answer == IF server.running = 0 THEN Lost ELSE Ok(SnapshotOf(server.running))
<1>2. answer \in Answers
  BY <1>1, SnapshotTypes, AnswerTypes
<1>3. answer.kind = "ok" => answer.snap \in Real
  BY <1>1, SnapshotTypes DEF Lost, Ok
<1> HIDE DEF answer
<1>4. Lookup = Job("lookup", 0, answer)
  BY DEF Lookup, answer
<1>5. "lookup" \in Steps
  BY DEF Steps
<1> QED
  BY <1>2, <1>3, <1>4, <1>5, JobTypes, Constants DEF Answered, Job

\* What the bootstrap does next, when the server's records are what they were.
LEMMA BootTypes ==
  ASSUME ProviderTypes, JobsNameRecords, NEW id, NEW shown, NEW inFlight
  PROVE  /\ BootAfter(id, shown, inFlight) \in Jobs
         /\ Answered(BootAfter(id, shown, inFlight), "lookup")
              => BootAfter(id, shown, inFlight).answer.snap \in Real
<1> DEFINE next == BootAfter(id, shown, inFlight)
<1>1. next \in {boot, Lookup, Idle}
  BY DEF BootAfter
<1>2. boot \in Jobs /\ (Answered(boot, "lookup") => boot.answer.snap \in Real)
  BY DEF ProviderTypes, JobsNameRecords
<1>3. ~Answered(Idle, "lookup")
  BY DEF Answered, Idle
<1> HIDE DEF next
<1>4. next \in Jobs
  BY <1>1, <1>2, JobTypes, LookupTypes
<1>5. Answered(next, "lookup") => next.answer.snap \in Real
  BY <1>1, <1>2, <1>3, LookupTypes
<1> QED
  BY <1>4, <1>5 DEF next

LEMMA ApplyTypes ==
  ASSUME ProviderTypes, NEW s \in Snapshots, ApplySnapshot(s)
  PROVE  /\ snapshot' \in Snapshots
         /\ seen' \in [session : 0..MaxRecords, revision : 0..MaxRevision + 1]
<1>1. s.id \in 0..MaxRecords
  <2>1. CASE s = NoSnapshot
    BY <2>1, Constants DEF NoSnapshot
  <2>2. CASE s \in [id : Ids, revision : 1..MaxRevision, status : {"active", "revoked"}]
    <3>1. s.id \in Ids
      BY <2>2
    <3> QED
      BY <3>1, Constants
  <2> QED
    BY <2>1, <2>2 DEF Snapshots
<1>2. SeenRevision(s) \in 0..MaxRevision + 1 /\ 1 \in 0..MaxRevision + 1
  BY BoundsAssumption DEF SeenRevision, ProviderTypes
<1>3. Carried(s) + 1 = 1
  BY DEF Carried
<1> QED
  BY <1>1, <1>2, <1>3 DEF ApplySnapshot, ProviderTypes

LEMMA ServerTypes ==
  ASSUME ProviderTypes, NEW answer \in Answers
  PROVE  /\ ServeStart(answer) =>
              server' \in Servers /\ (answer.kind = "ok" => answer.snap \in Real)
         /\ \A id \in Ids : ServeHeartbeat(id, answer) => server' \in Servers
<1>1. server \in Servers
  BY DEF ProviderTypes, Servers
<1>2. ASSUME ServeStart(answer)
      PROVE  server' \in Servers /\ (answer.kind = "ok" => answer.snap \in Real)
  <2>1. CASE UNCHANGED server /\ answer \in {Refused, Lost}
    BY <1>1, <2>1 DEF Refused, Lost
  <2>2. CASE ~server.revoked /\ server.issued < MaxRecords
    <3> DEFINE id == server.issued + 1
    <3>1. id \in Ids
      BY <1>1, <2>2, BoundsAssumption DEF Servers, Ids
    <3> HIDE DEF id
    <3>2. CASE /\ server' = [server EXCEPT !.issued = id, !.running = id, !.revision[id] = 1]
               /\ answer = Ok([id |-> id, revision |-> 1, status |-> "active"])
      <4>1. server' \in Servers
        BY <1>1, <3>1, <3>2, Constants DEF Servers
      <4>2. answer.snap \in Real
        BY <3>1, <3>2, Constants DEF Ok, Real
      <4> QED
        BY <4>1, <4>2
    <3> QED
      BY <1>2, <2>1, <2>2, <3>2 DEF ServeStart, id
  <2> QED
    BY <1>2, <2>1, <2>2 DEF ServeStart
<1>3. ASSUME NEW id \in Ids, ServeHeartbeat(id, answer) PROVE server' \in Servers
  <2> DEFINE next == NextRevision(server.revision[id])
  <2>1. next \in 1..MaxRevision
    BY <1>1, Constants DEF Servers
  <2> HIDE DEF next
  <2>2. server' = server \/ server' = [server EXCEPT !.revision[id] = next]
    BY <1>3 DEF ServeHeartbeat, next
  <2> QED
    BY <1>1, <2>1, <2>2 DEF Servers
<1> QED
  BY <1>2, <1>3

-----------------------------------------------------------------------------
(***************************************************************************)
(* The inductive step, by the callback.                                    *)
(***************************************************************************)
LEMMA TickStep ==
  ASSUME ProviderTypes, JobsNameRecords, BeginTick \/ Tick
  PROVE  ProviderTypes' /\ JobsNameRecords'
<1> USE DEF client, flags, health
<1>1. CASE BeginTick
  <2>1. monitoringSessionId \in Ids
    BY <1>1, BoundsAssumption DEF BeginTick, ProviderTypes, Ids
  <2>2. tick' \in Jobs /\ tick'.id \in Ids
    BY <1>1, <2>1, JobTypes, AnswerTypes, Constants DEF BeginTick, Steps, Job
  <2> QED
    BY <1>1, <2>2 DEF BeginTick, ProviderTypes, JobsNameRecords, Answered
<1>2. CASE SendHeartbeat /\ tick.fresh
  <2>1. tick.id \in Ids /\ tick \in Jobs
    <3>1. tick # Idle
      <4>1. tick.step = "camera" /\ Idle.step = "none"
        BY <1>2 DEF SendHeartbeat, Idle
      <4> QED
        BY <4>1
    <3> QED
      BY <1>2, <3>1 DEF JobsNameRecords, ProviderTypes
  <2>2. PICK answer \in Answers :
          /\ ServeHeartbeat(tick.id, answer)
          /\ tick' = [tick EXCEPT !.step = "heartbeat", !.answer = answer]
    BY <1>2 DEF SendHeartbeat
  <2>3. server' \in Servers
    BY <2>1, <2>2, ServerTypes
  <2>4. tick' \in Jobs /\ tick'.id \in Ids
    BY <2>1, <2>2 DEF Jobs, Steps
  <2> QED
    BY <1>2, <2>3, <2>4 DEF SendHeartbeat, ProviderTypes, JobsNameRecords, Answered, Servers
<1>3. CASE SendHeartbeat /\ ~tick.fresh
  BY <1>3, JobTypes DEF SendHeartbeat, ProviderTypes, JobsNameRecords, Answered
<1>4. CASE HeartbeatAnswered
  <2>1. tick.answer.snap \in Snapshots
    BY DEF ProviderTypes, Jobs, Answers
  <2>2. /\ snapshot' \in Snapshots
        /\ seen' \in [session : 0..MaxRecords, revision : 0..MaxRevision + 1]
    BY <1>4, <2>1, ApplyTypes DEF HeartbeatAnswered
  <2>3. boot' \in Jobs /\ (Answered(boot', "lookup") => boot'.answer.snap \in Real)
    BY <1>4, BootTypes DEF HeartbeatAnswered
  <2>4. failures' \in Nat
    BY <1>4, LostAssumption DEF HeartbeatAnswered
  <2> QED
    BY <1>4, <2>2, <2>3, <2>4, JobTypes
    DEF HeartbeatAnswered, ProviderTypes, JobsNameRecords, Answered
<1>5. CASE TickFails
  <2>1. failures' \in Nat
    BY <1>5, LostAssumption DEF TickFails, OneMore, ProviderTypes
  <2> QED
    BY <1>5, <2>1, JobTypes DEF TickFails, ProviderTypes, JobsNameRecords, Answered
<1>6. CASE TickDropped
  BY <1>6, JobTypes DEF TickDropped, ProviderTypes, JobsNameRecords, Answered
<1> QED
  BY <1>1, <1>2, <1>3, <1>4, <1>5, <1>6 DEF Tick

LEMMA RefreshStep ==
  ASSUME ProviderTypes, JobsNameRecords, BeginRefresh \/ RefreshAnswered
  PROVE  ProviderTypes' /\ JobsNameRecords'
<1> USE DEF client, flags, health
<1>1. CASE BeginRefresh
  <2>1. monitoringSessionId \in Ids
    BY <1>1, BoundsAssumption DEF BeginRefresh, ProviderTypes, Ids
  <2>2. refresh' \in Jobs
    BY <1>1, <2>1, ReadTypes DEF BeginRefresh, Steps
  <2> QED
    BY <1>1, <2>2 DEF BeginRefresh, ProviderTypes, JobsNameRecords, Answered
<1>2. CASE RefreshAnswered
  <2>1. refresh.answer.snap \in Snapshots
    BY DEF ProviderTypes, Jobs, Answers
  <2>2. /\ snapshot' \in Snapshots
        /\ seen' \in [session : 0..MaxRecords, revision : 0..MaxRevision + 1]
    <3>1. CASE ApplySnapshot(refresh.answer.snap)
      BY <2>1, <3>1, ApplyTypes
    <3>2. CASE UNCHANGED <<snapshot, seen>>
      BY <3>2 DEF ProviderTypes
    <3> QED
      BY <1>2, <3>1, <3>2 DEF RefreshAnswered
  <2>3. boot' \in Jobs /\ (Answered(boot', "lookup") => boot'.answer.snap \in Real)
    BY <1>2, BootTypes DEF RefreshAnswered
  <2>4. /\ reauth' \in Jobs /\ reauth'.step # "await"
        /\ Answered(reauth', "start") => reauth'.answer.snap \in Real
    <3>1. CASE reauth.step = "await"
      <4>1. reauth' = Read("confirm", reauth.id) /\ reauth.id \in Ids
        BY <1>2, <3>1 DEF RefreshAnswered, JobsNameRecords
      <4>2. reauth'.step = "confirm"
        BY <4>1 DEF Read, Job
      <4> QED
        BY <4>1, <4>2, ReadTypes DEF Answered, Steps
    <3>2. CASE reauth.step # "await"
      BY <1>2, <3>2 DEF RefreshAnswered, JobsNameRecords, ProviderTypes
    <3> QED
      BY <3>1, <3>2
  <2> QED
    BY <1>2, <2>2, <2>3, <2>4, JobTypes
    DEF RefreshAnswered, ProviderTypes, JobsNameRecords, Answered
<1> QED
  BY <1>1, <1>2

LEMMA BeginStartTypes ==
  ASSUME ProviderTypes, JobsNameRecords, BeginStart
  PROVE  /\ start' \in Jobs /\ tick' \in Jobs /\ refresh' \in Jobs
         /\ tick' = Idle \/ ~tick'.fresh
         /\ failures' \in Nat /\ connection' = "connected"
<1>1. start' \in Jobs
  BY JobTypes, AnswerTypes, Constants DEF BeginStart, Steps
<1>2. /\ tick' \in Jobs /\ refresh' \in Jobs
      /\ tick' = Idle \/ ~tick'.fresh
  BY JobTypes DEF BeginStart, ProviderTypes
<1>3. failures' \in Nat /\ connection' = "connected"
  BY LostAssumption DEF BeginStart
<1> QED
  BY <1>1, <1>2, <1>3

LEMMA StartStep ==
  ASSUME ProviderTypes, JobsNameRecords, Start \/ ReturningVerified
  PROVE  ProviderTypes' /\ JobsNameRecords'
<1> USE DEF client, flags, health
<1>1. CASE SessionRefreshed
  <2>1. server' \in Servers /\ start' \in Jobs
    <3>1. CASE startInFlight
      BY <1>1, <3>1, JobTypes DEF SessionRefreshed, ProviderTypes, Servers
    <3>2. CASE ~startInFlight
      <4>1. PICK answer \in Answers : ServeStart(answer) /\ start' = Job("start", 0, answer)
        BY <1>1, <3>2 DEF SessionRefreshed
      <4> QED
        BY <4>1, ServerTypes, JobTypes, Constants DEF Steps
    <3> QED
      BY <3>1, <3>2
  <2>2. startInFlight' \in BOOLEAN /\ reauthRequired' \in BOOLEAN
    BY <1>1 DEF SessionRefreshed, ProviderTypes
  <2> QED
    BY <1>1, <2>1, <2>2 DEF SessionRefreshed, ProviderTypes, JobsNameRecords, Answered, Servers
<1>2. CASE Started
  <2>1. start.answer.snap \in Snapshots
    BY DEF ProviderTypes, Jobs, Answers
  <2>2. start.answer.snap.id \in 0..MaxRecords
    <3>1. CASE start.answer.snap = NoSnapshot
      BY <3>1, Constants DEF NoSnapshot
    <3>2. CASE start.answer.snap \in Real
      <4>1. start.answer.snap.id \in Ids
        BY <3>2 DEF Real
      <4> QED
        BY <4>1, Constants
    <3> QED
      BY <2>1, <3>1, <3>2 DEF Snapshots, Real
  <2>3. /\ snapshot' \in Snapshots
        /\ seen' \in [session : 0..MaxRecords, revision : 0..MaxRevision + 1]
    BY <1>2, <2>1, ApplyTypes DEF Started
  <2>4. boot' \in Jobs /\ (Answered(boot', "lookup") => boot'.answer.snap \in Real)
    BY <1>2, BootTypes DEF Started
  <2> QED
    BY <1>2, <2>2, <2>3, <2>4, JobTypes DEF Started, ProviderTypes, JobsNameRecords, Answered
<1>3. CASE StartFails
  <2>1. reauthRequired' \in BOOLEAN /\ startInFlight' \in BOOLEAN
    BY <1>3 DEF StartFails, ProviderTypes
  <2> QED
    BY <1>3, <2>1, JobTypes DEF StartFails, ProviderTypes, JobsNameRecords, Answered
<1>4. CASE ReturningVerified
  BY <1>4, BeginStartTypes DEF ReturningVerified, ProviderTypes, JobsNameRecords, Answered
<1> QED
  BY <1>1, <1>2, <1>3, <1>4 DEF Start

LEMMA BootstrapStep ==
  ASSUME ProviderTypes, JobsNameRecords,
         Recover \/ StartPending \/ NothingToStart \/ OpenCamera
  PROVE  ProviderTypes' /\ JobsNameRecords'
<1> USE DEF client, flags, health
<1>1. CASE Recover
  <2> DEFINE s == boot.answer.snap
  <2>1. s \in Real /\ s \in Snapshots
    BY <1>1, AnswerTypes DEF Recover, JobsNameRecords
  <2>2. s.id \in Ids /\ s.id \in 0..MaxRecords
    <3>1. s.id \in Ids
      BY <2>1 DEF Real
    <3> QED
      BY <3>1, Constants
  <2>3. /\ snapshot' \in Snapshots
        /\ seen' \in [session : 0..MaxRecords, revision : 0..MaxRevision + 1]
    BY <1>1, <2>1, ApplyTypes DEF Recover
  <2>4. /\ monitoringSessionId' = s.id
        /\ boot' = Idle /\ tick' = Stale(tick)
        /\ refresh' \in {Read("get", s.id), Stale(refresh)}
    BY <1>1 DEF Recover
  <2>5. refresh' \in Jobs /\ tick' \in Jobs /\ (tick' = Idle \/ ~tick'.fresh)
    BY <2>2, <2>4, ReadTypes, JobTypes DEF ProviderTypes, Steps
  <2>6. reauthRequired' \in BOOLEAN
    BY <1>1 DEF Recover
  <2>7. ~Answered(Idle, "lookup") /\ Idle \in Jobs
    BY JobTypes DEF Answered, Idle
  <2> HIDE DEF s
  <2> QED
    BY <1>1, <2>2, <2>3, <2>4, <2>5, <2>6, <2>7
    DEF Recover, ProviderTypes, JobsNameRecords, Answered
<1>2. CASE StartPending
  <2>1. ~Answered(Idle, "lookup") /\ Idle \in Jobs
    BY JobTypes DEF Answered, Idle
  <2> QED
    BY <1>2, <2>1, BeginStartTypes DEF StartPending, ProviderTypes, JobsNameRecords, Answered
<1>3. CASE NothingToStart
  <2>1. ~Answered(Idle, "lookup") /\ Idle \in Jobs
    BY JobTypes DEF Answered, Idle
  <2>2. opening' \in BOOLEAN
    BY <1>3 DEF NothingToStart, ProviderTypes
  <2> QED
    BY <1>3, <2>1, <2>2 DEF NothingToStart, ProviderTypes, JobsNameRecords, Answered
<1>4. CASE OpenCamera
  BY <1>4 DEF OpenCamera, ProviderTypes, JobsNameRecords, Answered
<1> QED
  BY <1>1, <1>2, <1>3, <1>4

LEMMA ReauthStep ==
  ASSUME ProviderTypes, JobsNameRecords,
         BeginReauth \/ Reauthenticated \/ Restarted \/ Confirmed \/ ReauthFails
  PROVE  ProviderTypes' /\ JobsNameRecords'
<1> USE DEF client, flags, health
<1>1. CASE BeginReauth
  <2>1. PICK answer \in {Ok(NoSnapshot), Refused, Lost} :
          /\ reauth' = Job("reauthenticate", 0, answer)
          /\ server' = IF answer.kind = "ok" THEN [server EXCEPT !.revoked = FALSE]
                       ELSE server
    BY <1>1 DEF BeginReauth
  <2>2. reauth' \in Jobs /\ reauth'.step = "reauthenticate"
    BY <2>1, JobTypes, AnswerTypes, Constants DEF Steps, Job
  <2>3. server' \in Servers
    BY <2>1 DEF ProviderTypes, Servers
  <2>4. tick' \in Jobs /\ refresh' \in Jobs /\ (tick' = Idle \/ ~tick'.fresh)
    BY <1>1, JobTypes DEF BeginReauth, ProviderTypes
  <2> QED
    BY <1>1, <2>2, <2>3, <2>4 DEF BeginReauth, ProviderTypes, JobsNameRecords, Answered, Servers
<1>2. CASE Reauthenticated
  <2>1. PICK answer \in Answers : ServeStart(answer) /\ reauth' = Job("start", 0, answer)
    BY <1>2 DEF Reauthenticated
  <2>2. server' \in Servers /\ reauth' \in Jobs /\ reauth'.step = "start"
        /\ (Answered(reauth', "start") => reauth'.answer.snap \in Real)
    BY <2>1, ServerTypes, JobTypes, Constants DEF Steps, Job, Answered
  <2>3. boot' \in Jobs /\ (Answered(boot', "lookup") => boot'.answer.snap \in Real)
    BY <1>2, BootTypes DEF Reauthenticated
  <2>4. /\ failures' \in Nat /\ monitoringSessionId' \in 0..MaxRecords
        /\ seen' \in [session : 0..MaxRecords, revision : 0..MaxRevision + 1]
    BY <1>2, LostAssumption, BoundsAssumption DEF Reauthenticated
  <2>5. snapshot' \in Snapshots /\ startInFlight' \in BOOLEAN
    BY <1>2 DEF Reauthenticated, Snapshots
  <2> QED
    BY <1>2, <2>2, <2>3, <2>4, <2>5
    DEF Reauthenticated, ProviderTypes, JobsNameRecords, Answered, Servers
<1>3. CASE Restarted
  <2> DEFINE s == reauth.answer.snap
  <2>1. s \in Real /\ s \in Snapshots
    BY <1>3, AnswerTypes DEF Restarted, JobsNameRecords
  <2>2. s.id \in Ids /\ s.id \in 0..MaxRecords
    <3>1. s.id \in Ids
      BY <2>1 DEF Real
    <3> QED
      BY <3>1, Constants
  <2>3. /\ snapshot' \in Snapshots
        /\ seen' \in [session : 0..MaxRecords, revision : 0..MaxRevision + 1]
    BY <1>3, <2>1, ApplyTypes DEF Restarted
  <2>4. boot' \in Jobs /\ (Answered(boot', "lookup") => boot'.answer.snap \in Real)
    BY <1>3, BootTypes DEF Restarted
  <2>5. /\ monitoringSessionId' = s.id
        /\ refresh' \in {Read("get", s.id), refresh}
        /\ reauth' \in {Job("await", s.id, Lost), Read("confirm", s.id)}
    BY <1>3 DEF Restarted
  <2>6. refresh' \in Jobs /\ reauth' \in Jobs
    BY <2>2, <2>5, ReadTypes, JobTypes, AnswerTypes DEF ProviderTypes, Steps
  <2>7. reauth'.step # "start" /\ reauth'.id = s.id
    BY <2>5 DEF Read, Job
  <2> HIDE DEF s
  <2> QED
    BY <1>3, <2>2, <2>3, <2>4, <2>5, <2>6, <2>7
    DEF Restarted, ProviderTypes, JobsNameRecords, Answered
<1>4. CASE Confirmed
  <2>1. reauth.answer.snap \in Snapshots
    BY DEF ProviderTypes, Jobs, Answers
  <2>2. /\ snapshot' \in Snapshots
        /\ seen' \in [session : 0..MaxRecords, revision : 0..MaxRevision + 1]
    <3>1. CASE ApplySnapshot(reauth.answer.snap)
      BY <2>1, <3>1, ApplyTypes
    <3>2. CASE UNCHANGED <<snapshot, seen>>
      BY <3>2 DEF ProviderTypes
    <3> QED
      BY <1>4, <3>1, <3>2 DEF Confirmed
  <2>3. boot' \in Jobs /\ (Answered(boot', "lookup") => boot'.answer.snap \in Real)
    BY <1>4, BootTypes DEF Confirmed
  <2>4. reauthRequired' \in BOOLEAN
    BY <1>4 DEF Confirmed
  <2>5. reauth' = Idle /\ Idle.step = "none" /\ Idle \in Jobs
    BY <1>4, JobTypes DEF Confirmed, Idle
  <2> QED
    BY <1>4, <2>2, <2>3, <2>4, <2>5 DEF Confirmed, ProviderTypes, JobsNameRecords, Answered
<1>5. CASE ReauthFails
  <2>1. reauth' = Idle /\ Idle.step = "none" /\ Idle \in Jobs
    BY <1>5, JobTypes DEF ReauthFails, Idle
  <2> QED
    BY <1>5, <2>1 DEF ReauthFails, ProviderTypes, JobsNameRecords, Answered
<1> QED
  BY <1>1, <1>2, <1>3, <1>4, <1>5

\* The server revokes, and the page is reloaded, at any time.
LEMMA ResetStep ==
  ASSUME ProviderTypes, JobsNameRecords, Revoke \/ Reload \/ UNCHANGED vars
  PROVE  ProviderTypes' /\ JobsNameRecords'
<1> USE DEF client, flags, health
<1>1. CASE Revoke
  <2>1. server' \in Servers
    BY <1>1 DEF Revoke, ProviderTypes, Servers
  <2> QED
    BY <1>1, <2>1 DEF Revoke, ProviderTypes, JobsNameRecords, Answered, Servers
<1>2. CASE Reload
  <2>1. boot' \in Jobs /\ (Answered(boot', "lookup") => boot'.answer.snap \in Real)
    BY <1>2, LookupTypes DEF Reload
  <2>2. /\ failures' \in Nat /\ monitoringSessionId' \in 0..MaxRecords
        /\ seen' \in [session : 0..MaxRecords, revision : 0..MaxRevision + 1]
    BY <1>2, LostAssumption, BoundsAssumption DEF Reload
  <2>3. snapshot' \in Snapshots
    BY <1>2 DEF Reload, Snapshots
  <2>4. reauthRequired' \in BOOLEAN /\ opening' \in BOOLEAN /\ returning' \in BOOLEAN
        /\ startInFlight' \in BOOLEAN
    BY <1>2 DEF Reload
  <2>5. Idle \in Jobs /\ Idle.step = "none"
    BY JobTypes DEF Idle
  <2> QED
    BY <1>2, <2>1, <2>2, <2>3, <2>4, <2>5 DEF Reload, ProviderTypes, JobsNameRecords, Answered
<1>3. CASE UNCHANGED vars
  BY <1>3 DEF vars, ProviderTypes, JobsNameRecords, Answered
<1> QED
  BY <1>1, <1>2, <1>3

\* A tick that is superseded becomes one that is not fresh.
LEMMA Superseded ==
  ASSUME ProviderTypes, MissesCounted, tick' = Stale(tick), Supersede
  PROVE  /\ tick' # Idle => tick'.step # "none" /\ (late' <=> ~tick'.fresh)
         /\ tick' = Idle => ~late'
         /\ late' \in BOOLEAN
<1>1. CASE tick = Idle
  <2>1. tick' = Idle
    BY <1>1 DEF Stale
  <2>2. late' = FALSE
    BY <1>1, Zenon DEF Supersede
  <2> QED
    BY <2>1, <2>2
<1>2. CASE tick # Idle
  <2>1. tick' = [tick EXCEPT !.fresh = FALSE, !.id = 0, !.answer = Lost]
    BY <1>2 DEF Stale
  <2>2. tick'.step = tick.step /\ tick'.fresh = FALSE
    BY <2>1 DEF ProviderTypes, Jobs
  <2>3. tick' # Idle /\ tick'.step # "none"
    BY <1>2, <2>2 DEF MissesCounted, Idle
  <2>4. late' = TRUE
    BY <1>2, Zenon DEF Supersede
  <2> QED
    BY <2>2, <2>3, <2>4
<1> QED
  BY <1>1, <1>2

\* Only a failed tick in time adds to the failures and only it may call the connection
\* lost; whatever resets the one resets the other.
LEMMA MissesStep ==
  ASSUME ProviderTypes, MissesCounted, LostOnlyAfterMisses, [Next]_<<vars, history>>
  PROVE  MissesCounted' /\ LostOnlyAfterMisses'
<1> USE DEF health
<1>0. 0 \in Counts /\ Counts \subseteq Nat
  BY CountsAssumption, LostAssumption
<1>1. CASE UNCHANGED <<vars, history>>
  BY <1>1 DEF vars, history, MissesCounted, LostOnlyAfterMisses
<1>2. CASE (Recover \/ BeginReauth) /\ Supersede /\ UNCHANGED misses
  <2>1. tick' = Stale(tick) /\ UNCHANGED health
    BY <1>2 DEF Recover, BeginReauth
  <2> QED
    BY <1>2, <2>1, Superseded DEF MissesCounted, LostOnlyAfterMisses
<1>3. CASE (StartPending \/ ReturningVerified) /\ Supersede /\ misses' = 0
  <2>1. tick' = Stale(tick) /\ failures' = 0 /\ connection' = "connected"
    BY <1>3 DEF StartPending, ReturningVerified, BeginStart
  <2> QED
    BY <1>0, <1>3, <2>1, Superseded DEF MissesCounted, LostOnlyAfterMisses
<1>4. CASE TickFails /\ GoOn /\ misses' = IF late THEN misses ELSE OneMore(misses)
  <2>1. ~late /\ tick' = Idle /\ ~late'
    BY <1>4 DEF TickFails, GoOn, MissesCounted
  <2>2. failures' = OneMore(failures) /\ misses' = failures'
    BY <1>4, <2>1 DEF TickFails, MissesCounted
  <2>3. failures \in Counts /\ failures \in Nat /\ failures' \in Counts
    BY <1>0, <2>2 DEF MissesCounted, OneMore
  <2>4. failures + 1 >= LostAfter => failures' >= LostAfter
    <3> SUFFICES ASSUME failures + 1 >= LostAfter, failures + 1 \notin Counts
                 PROVE  failures >= LostAfter
      BY <2>2 DEF OneMore
    <3>1. failures + 1 \notin 0..LostAfter
      BY CountsAssumption
    <3> QED
      BY <2>3, <3>1, LostAssumption
  <2>5. failures >= LostAfter => failures + 1 >= LostAfter
    BY <2>3, LostAssumption
  <2>6. connection' = "lost" => failures' >= LostAfter
    BY <1>4, <2>4, <2>5 DEF TickFails, LostOnlyAfterMisses, MissesCounted
  <2> QED
    BY <1>4, <2>1, <2>2, <2>3, <2>6 DEF MissesCounted, LostOnlyAfterMisses, GoOn
<1>5. CASE (HeartbeatAnswered \/ Reload) /\ GoOn /\ misses' = 0
  <2>1. tick' = Idle /\ ~late' /\ failures' = 0 /\ connection' = "connected"
    BY <1>5 DEF HeartbeatAnswered, Reload, GoOn
  <2> QED
    BY <1>0, <1>5, <2>1 DEF MissesCounted, LostOnlyAfterMisses, GoOn
<1>6. CASE Reauthenticated /\ GoOn /\ misses' = 0
  <2>1. tick' = tick /\ late' = late /\ failures' = 0 /\ connection' = "connected"
    BY <1>6 DEF Reauthenticated, GoOn, MissesCounted
  <2> QED
    BY <1>0, <1>6, <2>1 DEF MissesCounted, LostOnlyAfterMisses
<1>7. CASE BeginTick /\ GoOn /\ UNCHANGED misses
  <2>1. ~late /\ ~late' /\ UNCHANGED health
    BY <1>7 DEF BeginTick, GoOn, MissesCounted
  <2>2. tick'.step = "camera" /\ tick'.fresh
    BY <1>7 DEF BeginTick, Job
  <2>3. tick' # Idle
    BY <2>2 DEF Idle
  <2> QED
    BY <1>7, <2>1, <2>2, <2>3 DEF MissesCounted, LostOnlyAfterMisses, GoOn
<1>8. CASE SendHeartbeat /\ tick.fresh /\ GoOn /\ UNCHANGED misses
  <2>1. PICK answer \in Answers :
          tick' = [tick EXCEPT !.step = "heartbeat", !.answer = answer]
    BY <1>8 DEF SendHeartbeat
  <2>2. tick'.step = "heartbeat" /\ tick'.fresh /\ UNCHANGED health
    BY <1>8, <2>1 DEF SendHeartbeat, ProviderTypes, Jobs
  <2>3. tick' # Idle
    BY <2>2 DEF Idle
  <2>4. tick # Idle
    <3>1. tick.step = "camera"
      BY <1>8 DEF SendHeartbeat
    <3> QED
      BY <3>1 DEF Idle
  <2> QED
    BY <1>8, <2>2, <2>3, <2>4 DEF MissesCounted, LostOnlyAfterMisses, GoOn
<1>9. CASE ((SendHeartbeat /\ ~tick.fresh) \/ TickDropped) /\ GoOn /\ UNCHANGED misses
  <2>1. tick' = Idle /\ ~late' /\ UNCHANGED health
    BY <1>9 DEF SendHeartbeat, TickDropped, GoOn
  <2> QED
    BY <1>9, <2>1 DEF MissesCounted, LostOnlyAfterMisses, GoOn
<1>10. CASE /\ \/ Revoke \/ BeginRefresh \/ RefreshAnswered \/ Start \/ NothingToStart
               \/ OpenCamera \/ Restarted \/ Confirmed \/ ReauthFails
            /\ GoOn /\ UNCHANGED misses
  <2>1. UNCHANGED tick /\ UNCHANGED health
    BY <1>10 DEF Revoke, BeginRefresh, RefreshAnswered, Start, SessionRefreshed, Started,
                StartFails, NothingToStart, OpenCamera, Restarted, Confirmed, ReauthFails
  <2>2. late' = late
    BY <1>10, <2>1 DEF GoOn, MissesCounted
  <2> QED
    BY <1>10, <2>1, <2>2 DEF MissesCounted, LostOnlyAfterMisses
<1> QED
  BY <1>1, <1>2, <1>3, <1>4, <1>5, <1>6, <1>7, <1>8, <1>9, <1>10 DEF Next

-----------------------------------------------------------------------------
(***************************************************************************)
(* The theorems.                                                           *)
(***************************************************************************)
LEMMA ClientInvInit == Init => ClientInv
<1> SUFFICES ASSUME Init PROVE ClientInv
  OBVIOUS
<1>1. PICK running \in {0, 1}, revoked \in BOOLEAN :
        server = [issued |-> running, running |-> running, revoked |-> revoked,
                  revision |-> [i \in Ids |-> 1]]
  BY DEF Init
<1>2. running \in 0..MaxRecords
  BY BoundsAssumption
<1>3. server \in Servers
  BY <1>1, <1>2, Constants DEF Servers
<1>4. /\ failures \in Nat /\ monitoringSessionId \in 0..MaxRecords
      /\ seen \in [session : 0..MaxRecords, revision : 0..MaxRevision + 1]
  BY LostAssumption, BoundsAssumption DEF Init
<1>5. /\ snapshot \in Snapshots /\ connection = "connected"
      /\ tick = Idle /\ refresh = Idle /\ start = Idle /\ reauth = Idle /\ boot = Lookup
  BY DEF Init, Snapshots
<1>6. reauthRequired \in BOOLEAN /\ pending \in BOOLEAN /\ opening \in BOOLEAN
      /\ returning \in BOOLEAN /\ startInFlight \in BOOLEAN
  BY DEF Init
<1>7. Lookup \in Jobs /\ (Answered(Lookup, "lookup") => Lookup.answer.snap \in Real)
  <2> DEFINE answer == IF server.running = 0 THEN Lost ELSE Ok(SnapshotOf(server.running))
  <2>1. server.running = 0 \/ server.running \in Ids
    BY <1>1, Constants DEF Ids
  <2>2. server.running \in Ids => SnapshotOf(server.running) \in Real
    BY <1>3 DEF Servers, SnapshotOf, Real
  <2>3. answer \in Answers /\ (answer.kind = "ok" => answer.snap \in Real)
    BY <2>1, <2>2, AnswerTypes DEF Lost, Ok
  <2> HIDE DEF answer
  <2>4. Lookup = Job("lookup", 0, answer)
    BY DEF Lookup, answer
  <2>5. "lookup" \in Steps
    BY DEF Steps
  <2> QED
    BY <2>3, <2>4, <2>5, JobTypes, Constants DEF Answered, Job
<1>8. ProviderTypes
  BY <1>3, <1>4, <1>5, <1>6, <1>7, JobTypes DEF ProviderTypes, Servers
<1>9. Idle.step = "none"
  BY DEF Idle
<1>10. 0 \in Counts /\ failures = 0 /\ misses = 0 /\ late = FALSE
  BY CountsAssumption, LostAssumption DEF Init
<1> QED
  BY <1>5, <1>7, <1>8, <1>9, <1>10 DEF ClientInv, JobsNameRecords, MissesCounted, LostOnlyAfterMisses, Answered

LEMMA ClientInvStep == ClientInv /\ [Next]_<<vars, history>> => ClientInv'
<1> SUFFICES ASSUME ClientInv, [Next]_<<vars, history>> PROVE ClientInv'
  OBVIOUS
<1>1. ProviderTypes /\ JobsNameRecords /\ MissesCounted /\ LostOnlyAfterMisses
  BY DEF ClientInv
<1>2. ProviderTypes' /\ JobsNameRecords'
  BY <1>1, TickStep, RefreshStep, StartStep, BootstrapStep, ReauthStep, ResetStep
  DEF Next, Tick
<1>3. MissesCounted' /\ LostOnlyAfterMisses'
  BY <1>1, MissesStep
<1> QED
  BY <1>2, <1>3 DEF ClientInv

\* The invariant holds in every reachable state.
THEOREM ClientInvariant == Spec => []ClientInv
<1> QED
  BY ClientInvInit, ClientInvStep, PTL DEF Spec

\* Types are kept (MonitoringProvider's state, refs and callbacks).
THEOREM ClientTypes == Spec => []TypeOK
<1>1. ClientInv => TypeOK
  BY CountsAssumption DEF ClientInv, MissesCounted, TypeOK
<1> QED
  BY <1>1, ClientInvariant, PTL

\* CONNECTION LOST is shown only after CONNECTION_LOST_AFTER_FAILURES failures in a row,
\* none of a tick that a start, a recovery or a request to reauthenticate had made late
\* when it failed (tick's comparison of generations, startSession, reauthenticate).
THEOREM LostAfterMisses == Spec => []LostOnlyAfterMisses
<1>1. ClientInv => LostOnlyAfterMisses
  BY DEF ClientInv
<1> QED
  BY <1>1, ClientInvariant, PTL
=============================================================================
