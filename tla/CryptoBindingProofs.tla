------------------------ MODULE CryptoBindingProofs ------------------------
(***************************************************************************)
(* For any workers, updaters, intents, records, descriptors and keys, over *)
(* a store whose updates are atomic: types are kept; a ciphertext opens    *)
(* only under the authorization it was sealed under, and is not refused    *)
(* while that lasts; and it is closed unless an intent with its very       *)
(* descriptor could back cryptography.                                     *)
(*                                                                         *)
(* The argument: a binding is the pair of the session version hashed and   *)
(* of the moment it was hashed at.  Every binding of the present version   *)
(* dates from the last change of the session, unless that change revoked   *)
(* it, and then nothing is bound until the version has moved on.  Hence    *)
(* two bindings of one version are of one moment, and Opens compares       *)
(* versions.  Conversely two bindings of one moment are of one version,    *)
(* and neither eligible state of the intent makes a difference to them.    *)
(***************************************************************************)
EXTENDS CryptoBinding, TLAPS

Step(w) ==
  \/ Authorize(w) \/ Bind(w) \/ Use(w) \/ Save(w) \/ Open(w) \/ Release(w) \/ Abort(w)

\* Once authorized, a request has its binding; and a decryption is about a
\* record that exists, for records are never deleted.
BoundSteps == {"use", "save", "open", "release"}

Sound(j) ==
  /\ j.step \in BoundSteps => j.bound \in Hashes
  /\ j.op = "decrypt" => j.record \in Records /\ records[j.record] # Absent
  /\ j.step \in {"open", "release"} => j.op = "decrypt"

WorkInv == \A w \in Workers : job[w] # Idle => Sound(job[w])


LEMMA Distinct ==
  /\ Absent \notin RecordDocs
  /\ Idle \notin Jobs
  /\ Idle \notin Updates
<1>1. Absent \notin RecordDocs
  BY DEF Absent, RecordDocs
<1>2. Idle \notin Jobs
  BY DEF Idle, Jobs
<1>3. Idle \notin Updates
  BY DEF Idle, Updates
<1> QED
  BY <1>1, <1>2, <1>3

LEMMA UpdatedType ==
  ASSUME NEW op \in {"refresh", "reauthorize", "revoke"}, NEW doc \in SessionDocs
  PROVE  Updated(op, doc) \in SessionDocs
<1>1. CASE op = "revoke"
  BY <1>1 DEF Updated, SessionDocs
<1>2. CASE op # "revoke"
  <2>1. doc.version + 1 \in Nat
    BY DEF SessionDocs
  <2> QED
    BY <1>2, <2>1 DEF Updated, SessionDocs
<1> QED
  BY <1>1, <1>2

LEMMA HashType ==
  ASSUME NEW d \in Descriptors, NEW s \in CryptoEligible, NEW v \in Nat
  PROVE  /\ StateHash(d, s, v) \in Hashes
         /\ StateHash(d, s, v).version = v
  BY DEF StateHash, Hashes

\* What a worker in the middle of a request has.
LEMMA Working ==
  ASSUME TypeOK, NEW w \in Workers,
         job[w] # Idle \/ job[w].step # "idle"
  PROVE  job[w] \in Jobs /\ job[w] # Idle
  BY DEF TypeOK, Idle

LEMMA BeginType ==
  ASSUME TypeOK, NEW w \in Workers, NEW i \in Intents,
         NEW op \in {"encrypt", "decrypt"}, NEW r \in Records \cup {Absent},
         NEW descriptor \in Descriptors, NEW key \in Keys,
         Begin(w, op, i, r, descriptor, key)
  PROVE  TypeOK'
<1> DEFINE j == [op |-> op, step |-> "authorize", intent |-> i, record |-> r,
                 descriptor |-> descriptor, key |-> key, row |-> lifecycle[i],
                 backing |-> Eligible, copy |-> NoCopy, bound |-> Unbound, at |-> 0]
<1>1. lifecycle[i] \in LifecycleStates /\ Eligible \in SUBSET Intents
  BY DEF TypeOK, Eligible
<1>2. j \in Jobs
  BY <1>1 DEF Jobs
<1>3. job' = [job EXCEPT ![w] = j]
  BY DEF Begin
<1> HIDE DEF j
<1>4. job' \in [Workers -> Jobs \cup {Idle}]
  BY <1>2, <1>3 DEF TypeOK
<1> QED
  BY <1>4 DEF TypeOK, Begin, World

LEMMA StepType ==
  ASSUME TypeOK, WorkInv, AtomicUpdates, NEW w \in Workers, Step(w)
  PROVE  TypeOK'
<1> DEFINE j == job[w]
<1>1. j \in Jobs
  BY Working DEF Step, Authorize, Bind, Use, Save, Open, Release, Abort, At
<1>2. ASSUME NEW step \in {"bind", "use", "save", "open", "release"}
      PROVE  [j EXCEPT !.step = step] \in Jobs
  BY <1>1, <1>2 DEF Jobs
<1>3. CASE job' = [job EXCEPT ![w] = Idle] /\ UNCHANGED <<World, lifecycle, records>>
  BY <1>3 DEF TypeOK, World
<1>4. CASE Authorize(w)
  <2>1. CASE posture
    <3>1. [j EXCEPT !.step = "bind", !.copy = NoCopy] \in Jobs
      BY <1>1 DEF Jobs
    <3>2. job' = [job EXCEPT ![w] = [j EXCEPT !.step = "bind", !.copy = NoCopy]]
      BY <1>4, <2>1 DEF Authorize, Loaded, TypeOK
    <3> QED
      BY <1>4, <3>1, <3>2 DEF Authorize, TypeOK, World
  <2> QED
    BY <1>3, <1>4, <2>1 DEF Authorize, Reply
<1>5. CASE Bind(w)
  <2>1. session' = session
    BY <1>5 DEF Bind, Seen
  <2>2. CASE posture /\ ~session.revoked /\ ~session.expired /\ j.row \in CryptoEligible
    <3> DEFINE b == StateHash(j.descriptor, j.row, session.version)
               step == IF j.op = "encrypt" THEN "use" ELSE "open"
    <3>1. b \in Hashes
      <4>1. j.descriptor \in Descriptors /\ session.version \in Nat
        BY <1>1 DEF TypeOK, Jobs, SessionDocs
      <4> QED
        BY <2>2, <4>1, HashType
    <3>2. step \in {"use", "open"} /\ changes \in Nat
      BY DEF TypeOK
    <3>3. job' = [job EXCEPT ![w] = [j EXCEPT !.bound = b, !.copy = NoCopy, !.at = changes,
                                              !.step = step]]
      BY <1>5, <2>2 DEF Bind, Seen
    <3> HIDE DEF b, step
    <3>4. [j EXCEPT !.bound = b, !.copy = NoCopy, !.at = changes, !.step = step] \in Jobs
      BY <1>1, <3>1, <3>2 DEF Jobs
    <3> QED
      BY <1>5, <2>1, <3>3, <3>4 DEF Bind, TypeOK
  <2>3. CASE ~(posture /\ ~session.revoked /\ ~session.expired /\ j.row \in CryptoEligible)
    BY <1>3, <1>5, <2>1, <2>3 DEF Bind, Seen, Reply, World
  <2> QED
    BY <2>2, <2>3
<1>6. CASE Use(w)
  <2>1. "used" \in LifecycleStates
    BY DEF LifecycleStates
  <2> QED
    BY <1>2, <1>6, <2>1 DEF Use, Continue, TypeOK, World
<1>7. CASE Save(w)
  <2>1. PICK r \in Records :
          /\ records[r] = Absent
          /\ records' = [records EXCEPT ![r] =
               [intent |-> j.intent, descriptor |-> j.descriptor, key |-> j.key,
                bound |-> j.bound, at |-> j.at]]
    BY <1>7 DEF Save
  <2>2. j.bound \in Hashes
    BY <1>7, Working DEF Save, At, WorkInv, Sound, BoundSteps
  <2> DEFINE rec == [intent |-> j.intent, descriptor |-> j.descriptor, key |-> j.key,
                     bound |-> j.bound, at |-> j.at]
  <2>3. rec \in RecordDocs
    BY <1>1, <2>2 DEF Jobs, RecordDocs
  <2>4. records' = [records EXCEPT ![r] = rec]
    BY <2>1
  <2> HIDE DEF rec
  <2>5. records' \in [Records -> RecordDocs \cup {Absent}]
    BY <2>3, <2>4 DEF TypeOK
  <2> QED
    BY <1>7, <2>5 DEF Save, Reply, World, TypeOK
<1>8. CASE Open(w)
  BY <1>2, <1>3, <1>8 DEF Open, Continue, Reply, TypeOK, World
<1>9. CASE Release(w) \/ Abort(w)
  BY <1>3, <1>9 DEF Release, Abort, Reply
<1> QED
  BY <1>4, <1>5, <1>6, <1>7, <1>8, <1>9 DEF Step

\* The steps no worker takes.
Elsewhere ==
  \/ \E u \in Updaters :
       \/ \E op \in {"refresh", "reauthorize", "revoke"} : BeginUpdate(u, op)
       \/ Update(u) \/ Forget(u)
  \/ \E i \in Intents, target \in LifecycleStates : Transition(i, target)
  \/ Expire \/ PostureChanges

LEMMA ElsewhereType ==
  ASSUME TypeOK, AtomicUpdates, Elsewhere
  PROVE  TypeOK'
<1>1. ASSUME NEW u \in Updaters, NEW op \in {"refresh", "reauthorize", "revoke"},
             BeginUpdate(u, op)
      PROVE  TypeOK'
  <2>1. [op |-> op, copy |-> NoCopy] \in Updates
    BY DEF Updates
  <2> QED
    BY <1>1, <2>1 DEF BeginUpdate, Loaded, Handlers, TypeOK
<1>2. ASSUME NEW u \in Updaters, Update(u)
      PROVE  TypeOK'
  <2>1. update[u].op \in {"refresh", "reauthorize", "revoke"}
    BY <1>2 DEF Update, TypeOK, Updates
  <2>2. Updated(update[u].op, session) \in SessionDocs
    BY <2>1, UpdatedType DEF TypeOK
  <2>3. session' \in SessionDocs /\ changes' \in Nat
    BY <1>2, <2>2 DEF Update, Seen, TypeOK
  <2> QED
    BY <1>2, <2>3 DEF Update, Handlers, TypeOK
<1>3. ASSUME NEW u \in Updaters, Forget(u)
      PROVE  TypeOK'
  BY <1>3 DEF Forget, Handlers, TypeOK
<1>4. ASSUME NEW i \in Intents, NEW target \in LifecycleStates, Transition(i, target)
      PROVE  TypeOK'
  BY <1>4 DEF Transition, Handlers, TypeOK
<1>5. CASE Expire
  BY <1>5 DEF Expire, Handlers, TypeOK, SessionDocs
<1>6. CASE PostureChanges
  BY <1>6 DEF PostureChanges, Handlers, TypeOK
<1> QED
  BY <1>1, <1>2, <1>3, <1>4, <1>5, <1>6 DEF Elsewhere

-----------------------------------------------------------------------------
(***************************************************************************)
(* Requests keep their bindings and their records.                         *)
(***************************************************************************)

\* No record changes once it is there.
RecordsKept == \A r \in Records : records[r] # Absent => records'[r] = records[r]

LEMMA BeginWork ==
  ASSUME TypeOK, WorkInv, NEW w \in Workers, NEW i \in Intents,
         NEW op \in {"encrypt", "decrypt"}, NEW r \in Records \cup {Absent},
         op = "decrypt" => r \in Records /\ records[r] # Absent,
         NEW descriptor, NEW key, Begin(w, op, i, r, descriptor, key)
  PROVE  WorkInv'
<1> DEFINE j == [op |-> op, step |-> "authorize", intent |-> i, record |-> r,
                 descriptor |-> descriptor, key |-> key, row |-> lifecycle[i],
                 backing |-> Eligible, copy |-> NoCopy, bound |-> Unbound, at |-> 0]
<1>1. job' = [job EXCEPT ![w] = j] /\ records' = records
  BY DEF Begin
<1>2. /\ j.step \notin BoundSteps /\ j.step \notin {"open", "release"}
      /\ j.op = op /\ j.record = r
  BY DEF BoundSteps
<1> HIDE DEF j
<1>3. job'[w] = j /\ \A v \in Workers : v # w => job'[v] = job[v]
  BY <1>1 DEF TypeOK
<1> QED
  BY <1>1, <1>2, <1>3 DEF WorkInv, Sound

LEMMA StepWork ==
  ASSUME TypeOK, WorkInv, AtomicUpdates, NEW w \in Workers, Step(w)
  PROVE  WorkInv' /\ RecordsKept
<1> DEFINE j == job[w]
<1>1. j \in Jobs /\ Sound(j)
  BY Working DEF Step, Authorize, Bind, Use, Save, Open, Release, Abort, At, WorkInv
<1>2. RecordsKept
  <2>1. CASE Save(w)
    BY <2>1 DEF Save, TypeOK, RecordsKept
  <2>2. CASE ~Save(w)
    <3>1. records' = records
      BY <2>2 DEF Step, Authorize, Bind, Use, Open, Release, Abort, World
    <3> QED
      BY <3>1 DEF RecordsKept
  <2> QED
    BY <2>1, <2>2
<1>3. \A v \in Workers : v # w => job'[v] = job[v]
  BY DEF Step, Authorize, Bind, Use, Save, Open, Release, Abort, Continue, Reply, TypeOK
<1>4. job'[w] # Idle => Sound(job'[w])
  <2>1. CASE Authorize(w)
    <3>1. job'[w] # Idle =>
            /\ job'[w].step = "bind" /\ job'[w].op = j.op /\ job'[w].record = j.record
      BY <1>1, <2>1 DEF Authorize, Reply, TypeOK, Jobs
    <3> QED
      BY <1>1, <3>1 DEF Sound, BoundSteps
  <2>2. CASE Bind(w)
    <3> DEFINE b == StateHash(j.descriptor, j.row, session.version)
               step == IF j.op = "encrypt" THEN "use" ELSE "open"
    <3>1. CASE job'[w] # Idle
      <4>1. j.row \in CryptoEligible
        BY <2>2, <3>1 DEF Bind, Reply, TypeOK
      <4>2. b \in Hashes
        <5>1. j.descriptor \in Descriptors /\ session.version \in Nat
          BY <1>1 DEF TypeOK, Jobs, SessionDocs
        <5> QED
          BY <4>1, <5>1, HashType
      <4>3. job'[w] = [j EXCEPT !.bound = b, !.copy = NoCopy, !.at = changes, !.step = step]
        BY <2>2, <3>1 DEF Bind, Seen, Reply, TypeOK
      <4>4. step = "open" => j.op = "decrypt"
        BY <1>1 DEF Jobs
      <4> HIDE DEF b, step
      <4>5. /\ job'[w].bound = b /\ job'[w].step = step
            /\ job'[w].op = j.op /\ job'[w].record = j.record
        BY <1>1, <4>3 DEF Jobs
      <4> QED
        BY <1>1, <4>2, <4>4, <4>5 DEF Sound, step
    <3> QED
      BY <3>1
  <2>3. CASE Use(w) \/ Open(w)
    <3>1. job'[w] # Idle =>
            /\ j.step \in BoundSteps /\ job'[w].bound = j.bound
            /\ job'[w].op = j.op /\ job'[w].record = j.record
            /\ job'[w].step = IF j.step = "use" THEN "save" ELSE "release"
            /\ j.step # "use" => j.step = "open"
      BY <1>1, <2>3 DEF Use, Open, At, Continue, Reply, TypeOK, Jobs, BoundSteps
    <3> QED
      BY <1>1, <3>1 DEF Sound, BoundSteps
  <2>4. CASE Save(w) \/ Release(w) \/ Abort(w)
    BY <2>4 DEF Save, Release, Abort, Reply, TypeOK
  <2> QED
    BY <2>1, <2>2, <2>3, <2>4 DEF Step
<1>5. ASSUME NEW v \in Workers, job'[v] # Idle
      PROVE  Sound(job[v])'
  <2>1. CASE v = w
    <3>1. Sound(job'[w])
      BY <1>4, <1>5, <2>1
    <3> QED
      BY <1>2, <2>1, <3>1 DEF Sound, RecordsKept
  <2>2. CASE v # w
    BY <1>2, <1>3, <1>5, <2>2 DEF WorkInv, Sound, RecordsKept
  <2> QED
    BY <2>1, <2>2
<1> QED
  BY <1>2, <1>5 DEF WorkInv

-----------------------------------------------------------------------------
(***************************************************************************)
(* The moments bindings were computed at.                                  *)
(***************************************************************************)

JobStamps ==
  {<<job[w].bound.version, job[w].at>> :
     w \in {v \in Workers : job[v].step \in BoundSteps}}

RecordStamps ==
  {<<records[r].bound.version, records[r].at>> :
     r \in {q \in Records : records[q] # Absent}}

Stamps == JobStamps \cup RecordStamps

\* The bindings of the present version date from the last change, unless that
\* was a revocation; and a version is bound at one moment only.
StampInv ==
  /\ \A s \in Stamps :
       /\ s[1] <= session.version
       /\ s[1] = session.version /\ ~session.revoked => s[2] = changes
  /\ \A s, t \in Stamps : s[1] = t[1] => s[2] = t[2]

LEMMA StampType ==
  ASSUME TypeOK, WorkInv
  PROVE  \A s \in Stamps : s[1] \in Nat /\ s[2] \in Nat
<1>1. ASSUME NEW w \in Workers, job[w].step \in BoundSteps
      PROVE  job[w].bound.version \in Nat /\ job[w].at \in Nat
  <2>1. job[w] \in Jobs /\ job[w].bound \in Hashes
    BY <1>1, Working DEF BoundSteps, WorkInv, Sound
  <2> QED
    BY <2>1 DEF Jobs, Hashes
<1>2. ASSUME NEW r \in Records, records[r] # Absent
      PROVE  records[r].bound.version \in Nat /\ records[r].at \in Nat
  BY <1>2 DEF TypeOK, RecordDocs, Hashes
<1> QED
  BY <1>1, <1>2 DEF Stamps, JobStamps, RecordStamps

\* Only Bind makes a stamp, and it is that of the present.
LEMMA StepStamps ==
  ASSUME TypeOK, WorkInv, AtomicUpdates, NEW w \in Workers, Step(w)
  PROVE  /\ session' = session /\ changes' = changes
         /\ \/ Stamps' \subseteq Stamps
            \/ /\ ~session.revoked
               /\ Stamps' \subseteq Stamps \cup {<<session.version, changes>>}
<1> DEFINE j == job[w]
<1>1. j \in Jobs
  BY Working DEF Step, Authorize, Bind, Use, Save, Open, Release, Abort, At
<1>2. session' = session /\ changes' = changes
  BY DEF Step, Authorize, Bind, Use, Save, Open, Release, Abort, World, Seen
<1>3. \A v \in Workers : v # w => job'[v] = job[v]
  BY DEF Step, Authorize, Bind, Use, Save, Open, Release, Abort, Continue, Reply, TypeOK
<1> DEFINE made == <<job'[w].bound.version, job'[w].at>>
<1>4. /\ JobStamps' \subseteq JobStamps \cup {made}
      /\ job'[w].step \notin BoundSteps => JobStamps' \subseteq JobStamps
  BY <1>3 DEF JobStamps
<1>5. CASE Authorize(w) \/ Release(w) \/ Abort(w)
  <2>1. job'[w].step \notin BoundSteps
    BY <1>1, <1>5 DEF Authorize, Release, Abort, Reply, TypeOK, Jobs, Idle, BoundSteps
  <2>2. JobStamps' \subseteq JobStamps
    BY <1>4, <2>1
  <2>3. RecordStamps' = RecordStamps
    BY <1>5 DEF Authorize, Release, Abort, RecordStamps
  <2> QED
    BY <1>2, <2>2, <2>3 DEF Stamps
<1>6. CASE Use(w) \/ Open(w)
  <2>1. job'[w].step \in BoundSteps =>
          j.step \in BoundSteps /\ job'[w].bound = j.bound /\ job'[w].at = j.at
    BY <1>1, <1>6 DEF Use, Open, At, Continue, Reply, TypeOK, Jobs, Idle, BoundSteps
  <2>2. JobStamps' \subseteq JobStamps
    <3>1. j.step \in BoundSteps => <<j.bound.version, j.at>> \in JobStamps
      BY DEF JobStamps
    <3>2. job'[w].step \in BoundSteps => made \in JobStamps
      BY <2>1, <3>1
    <3> QED
      BY <1>4, <3>2
  <2>3. RecordStamps' = RecordStamps
    BY <1>6 DEF Use, Open, RecordStamps
  <2> QED
    BY <1>2, <2>2, <2>3 DEF Stamps
<1>7. CASE Save(w)
  <2>1. j.step \in BoundSteps /\ job'[w].step \notin BoundSteps
    BY <1>1, <1>7 DEF Save, At, Reply, TypeOK, Idle, BoundSteps
  <2>2. JobStamps' \subseteq JobStamps
    BY <1>4, <2>1
  <2>3. <<j.bound.version, j.at>> \in JobStamps
    BY <2>1 DEF JobStamps
  <2>4. PICK r \in Records :
          /\ records[r] = Absent
          /\ records' = [records EXCEPT ![r] =
               [intent |-> j.intent, descriptor |-> j.descriptor, key |-> j.key,
                bound |-> j.bound, at |-> j.at]]
    BY <1>7 DEF Save
  <2>5. /\ records'[r].bound = j.bound /\ records'[r].at = j.at
        /\ \A q \in Records : q # r => records'[q] = records[q]
    BY <2>4 DEF TypeOK
  <2>6. RecordStamps' \subseteq RecordStamps \cup {<<j.bound.version, j.at>>}
    BY <2>5 DEF RecordStamps
  <2> QED
    BY <1>2, <2>2, <2>3, <2>6 DEF Stamps
<1>8. CASE Bind(w)
  <2>1. RecordStamps' = RecordStamps
    BY <1>8 DEF Bind, RecordStamps
  <2>2. CASE posture /\ ~session.revoked /\ ~session.expired /\ j.row \in CryptoEligible
    <3> DEFINE b == StateHash(j.descriptor, j.row, session.version)
               step == IF j.op = "encrypt" THEN "use" ELSE "open"
    <3>1. b.version = session.version
      BY DEF StateHash
    <3>2. job'[w].bound = b /\ job'[w].at = changes
      <4>1. job'[w] = [j EXCEPT !.bound = b, !.copy = NoCopy, !.at = changes, !.step = step]
        BY <1>8, <2>2 DEF Bind, Seen, TypeOK
      <4> HIDE DEF b, step
      <4> QED
        BY <1>1, <4>1 DEF Jobs
    <3>3. made = <<session.version, changes>>
      BY <3>1, <3>2
    <3> HIDE DEF made
    <3>4. JobStamps' \subseteq JobStamps \cup {<<session.version, changes>>}
      BY <1>4, <3>3
    <3> QED
      BY <1>2, <2>1, <2>2, <3>4 DEF Stamps
  <2>3. CASE ~(posture /\ ~session.revoked /\ ~session.expired /\ j.row \in CryptoEligible)
    <3>1. job'[w] = Idle
      BY <1>8, <2>3 DEF Bind, Seen, Reply, TypeOK
    <3>2. JobStamps' \subseteq JobStamps
      BY <1>4, <3>1 DEF Idle, BoundSteps
    <3> QED
      BY <1>2, <2>1, <3>2 DEF Stamps
  <2> QED
    BY <2>2, <2>3
<1> QED
  BY <1>5, <1>6, <1>7, <1>8 DEF Step

\* A new request has no stamp yet.
LEMMA BeginStamps ==
  ASSUME TypeOK, NEW w \in Workers, NEW i, NEW op, NEW r, NEW descriptor, NEW key,
         Begin(w, op, i, r, descriptor, key)
  PROVE  Stamps' \subseteq Stamps /\ session' = session /\ changes' = changes
<1>1. job'[w].step \notin BoundSteps /\ \A v \in Workers : v # w => job'[v] = job[v]
  BY DEF Begin, TypeOK, BoundSteps
<1>2. JobStamps' \subseteq JobStamps
  BY <1>1 DEF JobStamps
<1> QED
  BY <1>2 DEF Begin, World, Stamps, RecordStamps

\* And the session moves on as Updated says.
LEMMA ElsewhereStamps ==
  ASSUME TypeOK, AtomicUpdates, Elsewhere
  PROVE  /\ Stamps' = Stamps
         /\ \/ /\ session'.version = session.version
               /\ session'.revoked = session.revoked /\ changes' = changes
            \/ session'.version = session.version /\ session'.revoked
            \/ session'.version = session.version + 1
<1>1. Stamps' = Stamps
  BY DEF Elsewhere, BeginUpdate, Update, Forget, Transition, Expire, PostureChanges,
         Handlers, Stamps, JobStamps, RecordStamps
<1>2. ASSUME NEW u \in Updaters, Update(u)
      PROVE  \/ session' = session /\ changes' = changes
             \/ session'.version = session.version /\ session'.revoked
             \/ session'.version = session.version + 1
  <2>1. session \in SessionDocs
    BY DEF TypeOK
  <2>2. CASE update[u].op = "revoke"
    BY <1>2, <2>1, <2>2 DEF Update, Seen, Updated, SessionDocs
  <2>3. CASE update[u].op # "revoke"
    BY <1>2, <2>1, <2>3 DEF Update, Seen, Updated, SessionDocs
  <2> QED
    BY <2>2, <2>3
<1>3. CASE Expire
  BY <1>1, <1>3 DEF Expire, Handlers, TypeOK, SessionDocs
<1>4. CASE ~Expire /\ ~\E u \in Updaters : Update(u)
  BY <1>1, <1>4 DEF Elsewhere, BeginUpdate, Forget, Transition, PostureChanges
<1> QED
  BY <1>1, <1>2, <1>3, <1>4

-----------------------------------------------------------------------------
(***************************************************************************)
(* The theorems.                                                           *)
(***************************************************************************)

\* A plaintext in hand came out of the record's own binding.
OpenInv ==
  \A w \in Workers :
    At(w, "release") => job[w].bound = records[job[w].record].bound

BindingInv == TypeOK /\ WorkInv /\ StampInv /\ OpenInv

LEMMA OpenKept ==
  ASSUME TypeOK, WorkInv, OpenInv, RecordsKept, NEW w \in Workers,
         \A v \in Workers : v # w => job'[v] = job[v],
         At(w, "release")' => job'[w].bound = records'[job'[w].record].bound
  PROVE  OpenInv'
<1>1. ASSUME NEW v \in Workers, v # w, At(v, "release")'
      PROVE  job'[v].bound = records'[job'[v].record].bound
  <2>1. job'[v] = job[v] /\ At(v, "release")
    BY <1>1 DEF At
  <2>2. job[v].record \in Records /\ records[job[v].record] # Absent
    BY <2>1, Working DEF At, WorkInv, Sound
  <2> QED
    BY <1>1, <2>1, <2>2 DEF OpenInv, RecordsKept
<1> QED
  BY <1>1 DEF OpenInv, At

LEMMA StampsKept ==
  ASSUME TypeOK, WorkInv, StampInv, Stamps' \subseteq Stamps,
         session'.version \in Nat, changes' \in Nat,
         \/ /\ session'.version = session.version
            /\ session'.revoked = session.revoked /\ changes' = changes
         \/ session'.version = session.version /\ session'.revoked
         \/ session'.version = session.version + 1
  PROVE  StampInv'
<1>1. session.version \in Nat
  BY DEF TypeOK, SessionDocs
<1>2. ASSUME NEW s \in Stamps'
      PROVE  /\ s[1] <= session'.version
             /\ s[1] = session'.version /\ ~session'.revoked => s[2] = changes'
  <2>1. /\ s[1] \in Nat /\ s[1] <= session.version
        /\ s[1] = session.version /\ ~session.revoked => s[2] = changes
    BY <1>2, StampType DEF StampInv
  <2> QED
    BY <1>1, <2>1
<1> QED
  BY <1>2 DEF StampInv

LEMMA StampMade ==
  ASSUME TypeOK, WorkInv, StampInv, session' = session, changes' = changes,
         ~session.revoked,
         Stamps' \subseteq Stamps \cup {<<session.version, changes>>}
  PROVE  StampInv'
<1>1. session.version \in Nat
  BY DEF TypeOK, SessionDocs
<1> DEFINE made == <<session.version, changes>>
<1>2. made[1] = session.version /\ made[2] = changes
  OBVIOUS
<1>3. \A s \in Stamps : s[1] <= session.version /\ (s[1] = made[1] => s[2] = made[2])
  BY <1>2 DEF StampInv
<1> HIDE DEF made
<1>4. \A s \in Stamps' : s \in Stamps \/ s = made
  BY DEF made
<1>5. \A s, t \in Stamps' : s[1] = t[1] => s[2] = t[2]
  BY <1>3, <1>4 DEF StampInv
<1>6. ASSUME NEW s \in Stamps'
      PROVE  /\ s[1] <= session'.version
             /\ s[1] = session'.version /\ ~session'.revoked => s[2] = changes'
  <2>1. CASE s \in Stamps
    BY <1>2, <1>3, <2>1
  <2>2. CASE s = made
    BY <1>1, <1>2, <2>2
  <2> QED
    BY <1>4, <1>6, <2>1, <2>2
<1> QED
  BY <1>5, <1>6 DEF StampInv

LEMMA BindingBegins ==
  ASSUME BindingInv, NEW w \in Workers, NEW i \in Intents,
         NEW op \in {"encrypt", "decrypt"}, NEW r \in Records \cup {Absent},
         op = "decrypt" => r \in Records /\ records[r] # Absent,
         NEW descriptor \in Descriptors, NEW key \in Keys,
         Begin(w, op, i, r, descriptor, key)
  PROVE  BindingInv'
<1>1. TypeOK' /\ WorkInv'
  BY BeginType, BeginWork DEF BindingInv
<1>2. StampInv'
  <2>1. Stamps' \subseteq Stamps /\ session' = session /\ changes' = changes
    BY BeginStamps DEF BindingInv
  <2>2. session'.version \in Nat /\ changes' \in Nat
    BY <1>1 DEF TypeOK, SessionDocs
  <2> QED
    BY <2>1, <2>2, StampsKept DEF BindingInv
<1>3. OpenInv'
  <2>1. /\ RecordsKept /\ ~At(w, "release")'
        /\ \A v \in Workers : v # w => job'[v] = job[v]
    BY DEF Begin, RecordsKept, At, BindingInv, TypeOK
  <2> QED
    BY <2>1, OpenKept DEF BindingInv
<1> QED
  BY <1>1, <1>2, <1>3 DEF BindingInv

LEMMA BindingSteps ==
  ASSUME BindingInv, AtomicUpdates, NEW w \in Workers, Step(w)
  PROVE  BindingInv'
<1>1. TypeOK' /\ WorkInv' /\ RecordsKept
  BY StepType, StepWork DEF BindingInv
<1>2. StampInv'
  <2>1. session'.version \in Nat /\ changes' \in Nat
    BY <1>1 DEF TypeOK, SessionDocs
  <2> QED
    BY <2>1, StepStamps, StampsKept, StampMade DEF BindingInv
<1>3. OpenInv'
  <2>1. \A v \in Workers : v # w => job'[v] = job[v]
    BY DEF Step, Authorize, Bind, Use, Save, Open, Release, Abort, Continue, Reply,
           BindingInv, TypeOK
  <2>2. At(w, "release")' => job'[w].bound = records'[job'[w].record].bound
    <3>1. CASE Open(w)
      <4>1. job[w] \in Jobs
        BY <3>1, Working DEF Open, At, BindingInv
      <4>2. At(w, "release")' =>
              /\ Opens(job[w], records[job[w].record])
              /\ job'[w].bound = job[w].bound /\ job'[w].record = job[w].record
        BY <3>1, <4>1 DEF Open, Continue, Reply, At, Idle, BindingInv, TypeOK, Jobs
      <4> QED
        BY <3>1, <4>2 DEF Open, Opens
    <3>2. CASE ~Open(w)
      <4>1. job[w] \in Jobs
        BY Working DEF Step, Authorize, Bind, Use, Save, Open, Release, Abort, At, BindingInv
      <4>2. CASE Bind(w)
        <5> DEFINE b == StateHash(job[w].descriptor, job[w].row, session.version)
                   step == IF job[w].op = "encrypt" THEN "use" ELSE "open"
                   j == [job[w] EXCEPT !.bound = b, !.copy = NoCopy, !.at = changes,
                                       !.step = step]
        <5>1. job'[w] = j \/ job'[w] = Idle
          BY <4>2 DEF Bind, Seen, Reply, BindingInv, TypeOK
        <5>2. step # "release"
          OBVIOUS
        <5> HIDE DEF b, step
        <5>3. j.step = step
          BY <4>1 DEF Jobs
        <5> HIDE DEF j
        <5> QED
          BY <5>1, <5>2, <5>3 DEF At, Idle
      <4>3. CASE Authorize(w) \/ Use(w) \/ Save(w) \/ Release(w) \/ Abort(w)
        BY <4>1, <4>3 DEF Authorize, Use, Save, Release, Abort, Continue, Reply,
               At, Idle, BindingInv, TypeOK, Jobs
      <4> QED
        BY <3>2, <4>2, <4>3 DEF Step, At
    <3> QED
      BY <3>1, <3>2
  <2> QED
    BY <1>1, <2>1, <2>2, OpenKept DEF BindingInv
<1> QED
  BY <1>1, <1>2, <1>3 DEF BindingInv

LEMMA BindingElsewhere ==
  ASSUME BindingInv, AtomicUpdates, Elsewhere
  PROVE  BindingInv'
<1>1. TypeOK'
  BY ElsewhereType DEF BindingInv
<1>2. job' = job /\ records' = records
  BY DEF Elsewhere, BeginUpdate, Update, Forget, Transition, Expire, PostureChanges, Handlers
<1>3. WorkInv' /\ OpenInv'
  BY <1>2 DEF BindingInv, WorkInv, Sound, OpenInv, At
<1>4. StampInv'
  <2>1. session'.version \in Nat /\ changes' \in Nat
    BY <1>1 DEF TypeOK, SessionDocs
  <2> QED
    BY <2>1, ElsewhereStamps, StampsKept DEF BindingInv
<1> QED
  BY <1>1, <1>3, <1>4 DEF BindingInv

\* BindingInv is inductive when updates are atomic.
LEMMA BindingHolds ==
  ASSUME AtomicUpdates
  PROVE  Spec => []BindingInv
<1>1. Init => BindingInv
  <2> SUFFICES ASSUME Init PROVE BindingInv
    OBVIOUS
  <2>1. TypeOK
    BY DEF Init, TypeOK, SessionDocs, LifecycleStates
  <2>2. Stamps = {}
    BY DEF Init, Stamps, JobStamps, RecordStamps, Idle, BoundSteps
  <2>3. WorkInv /\ OpenInv
    BY DEF Init, WorkInv, OpenInv, At, Idle
  <2> QED
    BY <2>1, <2>2, <2>3 DEF BindingInv, StampInv
<1>2. BindingInv /\ [Next]_vars => BindingInv'
  <2> SUFFICES ASSUME BindingInv, [Next]_vars PROVE BindingInv'
    OBVIOUS
  <2>1. ASSUME NEW w \in Workers, NEW descriptor \in Descriptors, NEW key \in Keys,
               NEW i \in Intents, BeginEncrypt(w, i, descriptor, key)
        PROVE  BindingInv'
    BY <2>1, BindingBegins DEF BeginEncrypt
  <2>2. ASSUME NEW w \in Workers, NEW descriptor \in Descriptors, NEW key \in Keys,
               NEW r \in Records, BeginDecrypt(w, r, descriptor, key)
        PROVE  BindingInv'
    <3>1. PICK i \in Governing(r) : Begin(w, "decrypt", i, r, descriptor, key)
      BY <2>2 DEF BeginDecrypt
    <3>2. i \in Intents /\ records[r] # Absent
      BY <2>2, <3>1 DEF Governing, BeginDecrypt
    <3> QED
      BY <3>1, <3>2, BindingBegins
  <2>3. ASSUME NEW w \in Workers, Step(w)
        PROVE  BindingInv'
    BY <2>3, BindingSteps
  <2>4. CASE Elsewhere
    BY <2>4, BindingElsewhere
  <2>5. CASE UNCHANGED vars
    BY <2>5 DEF vars, BindingInv, TypeOK, WorkInv, Sound, StampInv, Stamps, JobStamps,
           RecordStamps, OpenInv, At
  <2> QED
    BY <2>1, <2>2, <2>3, <2>4, <2>5 DEF Next, Step, Elsewhere
<1> QED
  BY <1>1, <1>2, PTL DEF Spec

\* Types are kept.
THEOREM TypeCorrect ==
  ASSUME AtomicUpdates
  PROVE  Spec => []TypeOK
<1>1. BindingInv => TypeOK
  BY DEF BindingInv
<1> QED
  BY <1>1, BindingHolds, PTL

\* POST /api/decrypt returns a plaintext only under the authorization that
\* POST /api/encrypt sealed it under: between the two authorize() calls the
\* session was not refreshed, reauthorized or revoked.
THEOREM VersionBinds ==
  ASSUME AtomicUpdates
  PROVE  Spec => []OpenedUnderSameAuthorization
<1>1. BindingInv => OpenedUnderSameAuthorization
  <2> SUFFICES ASSUME BindingInv, NEW w \in Workers, At(w, "release")
               PROVE  job[w].at = records[job[w].record].at
    BY DEF OpenedUnderSameAuthorization
  <2> DEFINE r == job[w].record
             s == <<job[w].bound.version, job[w].at>>
             t == <<records[r].bound.version, records[r].at>>
  <2>1. r \in Records /\ records[r] # Absent
    BY Working DEF BindingInv, At, WorkInv, Sound
  <2>2. job[w].bound = records[r].bound
    BY DEF BindingInv, OpenInv
  <2>3. s \in Stamps /\ t \in Stamps
    BY <2>1 DEF Stamps, JobStamps, RecordStamps, At, BoundSteps
  <2>4. s[1] = t[1]
    BY <2>2
  <2>5. s[2] = t[2]
    <3> HIDE DEF s, t
    <3> QED
      BY <2>3, <2>4 DEF BindingInv, StampInv
  <2> QED
    BY <2>5
<1> QED
  BY <1>1, BindingHolds, PTL

-----------------------------------------------------------------------------
(***************************************************************************)
(* The other way round: while the authorization lasts, the binding is the  *)
(* same.  Bindings of one moment are of one version, and every binding is  *)
(* of the request's own descriptor and of the state "authorized-active",   *)
(* whichever of the two eligible states was read.                          *)
(***************************************************************************)

\* A moment has one version.
MomentInv ==
  /\ \A s \in Stamps : s[2] <= changes /\ (s[2] = changes => s[1] = session.version)
  /\ \A s, t \in Stamps : s[2] = t[2] => s[1] = t[1]

BoundTo(x) == x.bound.descriptor = x.descriptor /\ x.bound.state = "authorized-active"

\* A request backed by its intent read it eligible; a decryption found it by the
\* descriptor of the record.
Faithful(j) ==
  /\ j.row \in CryptoEligible => j.intent \in j.backing
  /\ j.op = "decrypt" => canonical[j.intent] = records[j.record].descriptor
  /\ j.step \in BoundSteps => j.row \in CryptoEligible /\ BoundTo(j)

FaithfulRecord(rec) == rec # Absent => BoundTo(rec)

RequestInv ==
  /\ \A w \in Workers : job[w] # Idle => Faithful(job[w])
  /\ \A r \in Records : FaithfulRecord(records[r])

AuthorizedInv == BindingInv /\ MomentInv /\ RequestInv

LEMMA MomentKept ==
  ASSUME TypeOK, WorkInv, MomentInv, Stamps' \subseteq Stamps,
         \/ session'.version = session.version /\ changes' = changes
         \/ changes' = changes + 1
  PROVE  MomentInv'
<1>1. changes \in Nat
  BY DEF TypeOK
<1>2. ASSUME NEW s \in Stamps'
      PROVE  s[2] <= changes' /\ (s[2] = changes' => s[1] = session'.version)
  <2>1. s[2] \in Nat /\ s[2] <= changes /\ (s[2] = changes => s[1] = session.version)
    BY <1>2, StampType DEF MomentInv
  <2> QED
    BY <1>1, <2>1
<1> QED
  BY <1>2 DEF MomentInv

LEMMA MomentMade ==
  ASSUME TypeOK, MomentInv, session' = session, changes' = changes,
         Stamps' \subseteq Stamps \cup {<<session.version, changes>>}
  PROVE  MomentInv'
<1>1. changes \in Nat
  BY DEF TypeOK
<1> DEFINE made == <<session.version, changes>>
<1>2. made[1] = session.version /\ made[2] = changes
  OBVIOUS
<1>3. \A s \in Stamps : s[2] <= changes /\ (s[2] = made[2] => s[1] = made[1])
  BY <1>2 DEF MomentInv
<1> HIDE DEF made
<1>4. \A s \in Stamps' : s \in Stamps \/ s = made
  BY DEF made
<1>5. \A s, t \in Stamps' : s[2] = t[2] => s[1] = t[1]
  BY <1>3, <1>4 DEF MomentInv
<1>6. ASSUME NEW s \in Stamps'
      PROVE  s[2] <= changes' /\ (s[2] = changes' => s[1] = session'.version)
  BY <1>1, <1>2, <1>3, <1>4, <1>6
<1> QED
  BY <1>5, <1>6 DEF MomentInv

LEMMA MomentSteps ==
  ASSUME BindingInv, MomentInv, AtomicUpdates,
         (\E w \in Workers : Step(w)) \/ Elsewhere
  PROVE  MomentInv'
<1>1. ASSUME NEW w \in Workers, Step(w)
      PROVE  MomentInv'
  BY <1>1, StepStamps, MomentKept, MomentMade DEF BindingInv
<1>2. CASE Elsewhere
  <2>1. Stamps' = Stamps
    BY <1>2, ElsewhereStamps DEF BindingInv
  <2>2. \/ session'.version = session.version /\ changes' = changes
        \/ changes' = changes + 1
    BY <1>2 DEF Elsewhere, BeginUpdate, Update, Forget, Transition, Expire, PostureChanges,
           Handlers, BindingInv, TypeOK, SessionDocs
  <2> QED
    BY <2>1, <2>2, MomentKept DEF BindingInv
<1> QED
  BY <1>1, <1>2

LEMMA RequestBegins ==
  ASSUME TypeOK, RequestInv, NEW w \in Workers, NEW i \in Intents,
         NEW op \in {"encrypt", "decrypt"}, NEW r, NEW descriptor, NEW key,
         op = "decrypt" => canonical[i] = records[r].descriptor,
         Begin(w, op, i, r, descriptor, key)
  PROVE  RequestInv'
<1> DEFINE j == [op |-> op, step |-> "authorize", intent |-> i, record |-> r,
                 descriptor |-> descriptor, key |-> key, row |-> lifecycle[i],
                 backing |-> Eligible, copy |-> NoCopy, bound |-> Unbound, at |-> 0]
<1>1. job' = [job EXCEPT ![w] = j] /\ records' = records /\ canonical' = canonical
  BY DEF Begin, World
<1>2. Faithful(j)
  BY DEF Faithful, BoundSteps, Eligible
<1> HIDE DEF j
<1>3. job'[w] = j /\ \A v \in Workers : v # w => job'[v] = job[v]
  BY <1>1 DEF TypeOK
<1> QED
  BY <1>1, <1>2, <1>3 DEF RequestInv, Faithful, FaithfulRecord, BoundTo

LEMMA RequestSteps ==
  ASSUME BindingInv, RequestInv, AtomicUpdates, NEW w \in Workers, Step(w)
  PROVE  RequestInv'
<1> DEFINE j == job[w]
<1> USE DEF BindingInv
<1>1. j \in Jobs /\ Faithful(j)
  BY Working DEF Step, Authorize, Bind, Use, Save, Open, Release, Abort, At, RequestInv
<1>2. canonical' = canonical /\ RecordsKept
  <2>1. RecordsKept
    BY StepWork
  <2> QED
    BY <2>1 DEF Step, Authorize, Bind, Use, Save, Open, Release, Abort, World
<1>3. \A v \in Workers : v # w => job'[v] = job[v]
  BY DEF Step, Authorize, Bind, Use, Save, Open, Release, Abort, Continue, Reply, TypeOK
<1>4. job'[w] # Idle =>
        /\ Faithful(job'[w])
        /\ job'[w].op = j.op /\ job'[w].record = j.record
  <2>1. CASE Authorize(w)
    <3>1. job'[w] # Idle =>
            /\ job'[w].step = "bind" /\ job'[w].op = j.op /\ job'[w].intent = j.intent
            /\ job'[w].record = j.record /\ job'[w].backing = j.backing
            /\ job'[w].row = j.row
      BY <1>1, <2>1 DEF Authorize, Reply, TypeOK, Jobs
    <3> QED
      BY <1>1, <3>1 DEF Faithful, BoundSteps
  <2>2. CASE Bind(w)
    <3> DEFINE b == StateHash(j.descriptor, j.row, session.version)
               step == IF j.op = "encrypt" THEN "use" ELSE "open"
    <3> SUFFICES ASSUME job'[w] # Idle
                 PROVE  /\ Faithful(job'[w])
                        /\ job'[w].op = j.op /\ job'[w].record = j.record
      OBVIOUS
    <3>1. j.row \in CryptoEligible
      BY <2>2 DEF Bind, Reply, TypeOK
    <3>2. b.descriptor = j.descriptor /\ b.state = "authorized-active"
      BY <3>1 DEF StateHash
    <3>3. job'[w] = [j EXCEPT !.bound = b, !.copy = NoCopy, !.at = changes, !.step = step]
      BY <2>2 DEF Bind, Seen, Reply, TypeOK
    <3> HIDE DEF b, step
    <3>4. /\ job'[w].bound = b /\ job'[w].op = j.op /\ job'[w].intent = j.intent
          /\ job'[w].record = j.record /\ job'[w].descriptor = j.descriptor
          /\ job'[w].backing = j.backing /\ job'[w].row = j.row
      BY <1>1, <3>3 DEF Jobs
    <3> QED
      BY <1>1, <3>1, <3>2, <3>4 DEF Faithful, BoundTo
  <2>3. CASE Use(w) \/ Open(w)
    <3>1. job'[w] # Idle =>
            /\ j.step \in BoundSteps /\ job'[w].bound = j.bound
            /\ job'[w].op = j.op /\ job'[w].intent = j.intent
            /\ job'[w].record = j.record /\ job'[w].descriptor = j.descriptor
            /\ job'[w].backing = j.backing /\ job'[w].row = j.row
      BY <1>1, <2>3 DEF Use, Open, At, Continue, Reply, TypeOK, Jobs, BoundSteps
    <3> QED
      BY <1>1, <3>1 DEF Faithful, BoundTo
  <2>4. CASE Save(w) \/ Release(w) \/ Abort(w)
    BY <2>4 DEF Save, Release, Abort, Reply, TypeOK
  <2> QED
    BY <2>1, <2>2, <2>3, <2>4 DEF Step
<1>5. \A r \in Records : FaithfulRecord(records[r])'
  <2>1. CASE Save(w)
    <3>1. BoundTo(j)
      BY <1>1, <2>1 DEF Save, At, Faithful, BoundSteps
    <3> DEFINE rec == [intent |-> j.intent, descriptor |-> j.descriptor, key |-> j.key,
                       bound |-> j.bound, at |-> j.at]
    <3>2. BoundTo(rec)
      BY <3>1 DEF BoundTo
    <3>3. PICK r \in Records : records' = [records EXCEPT ![r] = rec]
      BY <2>1 DEF Save
    <3> HIDE DEF rec
    <3>4. \A q \in Records : records'[q] = IF q = r THEN rec ELSE records[q]
      BY <3>3 DEF TypeOK
    <3> QED
      BY <3>2, <3>4 DEF RequestInv, FaithfulRecord, BoundTo
  <2>2. CASE ~Save(w)
    <3>1. records' = records
      BY <2>2 DEF Step, Authorize, Bind, Use, Open, Release, Abort, World
    <3> QED
      BY <3>1 DEF RequestInv, FaithfulRecord, BoundTo
  <2> QED
    BY <2>1, <2>2
<1>6. ASSUME NEW v \in Workers, job'[v] # Idle
      PROVE  Faithful(job[v])'
  <2>1. Faithful(job'[v])
    BY <1>3, <1>4, <1>6 DEF RequestInv
  <2>2. job'[v].op = "decrypt" => records'[job'[v].record] = records[job'[v].record]
    <3>1. CASE v = w
      <4>1. job'[w].op = j.op /\ job'[w].record = j.record
        BY <1>4, <1>6, <3>1
      <4>2. j # Idle
        BY <1>1, Distinct
      <4> QED
        BY <1>2, <3>1, <4>1, <4>2 DEF RecordsKept, WorkInv, Sound
    <3>2. CASE v # w
      BY <1>2, <1>3, <1>6, <3>2 DEF RecordsKept, WorkInv, Sound
    <3> QED
      BY <3>1, <3>2
  <2> QED
    BY <1>2, <2>1, <2>2 DEF Faithful, BoundTo
<1> QED
  BY <1>5, <1>6 DEF RequestInv

\* AuthorizedInv is inductive when updates are atomic.
LEMMA AuthorizedHolds ==
  ASSUME AtomicUpdates
  PROVE  Spec => [](MomentInv /\ RequestInv)
<1>1. Init => MomentInv /\ RequestInv
  <2> SUFFICES ASSUME Init PROVE MomentInv /\ RequestInv
    OBVIOUS
  <2>1. Stamps = {}
    BY DEF Init, Stamps, JobStamps, RecordStamps, Idle, BoundSteps
  <2>2. RequestInv
    BY DEF Init, RequestInv, FaithfulRecord
  <2> QED
    BY <2>1, <2>2 DEF MomentInv
<1>2. AuthorizedInv /\ [Next]_vars => MomentInv' /\ RequestInv'
  <2> SUFFICES ASSUME AuthorizedInv, [Next]_vars PROVE MomentInv' /\ RequestInv'
    OBVIOUS
  <2> USE DEF AuthorizedInv
  <2>1. ASSUME NEW w \in Workers, NEW i \in Intents, NEW op \in {"encrypt", "decrypt"},
               NEW r, NEW descriptor, NEW key,
               op = "decrypt" => canonical[i] = records[r].descriptor,
               Begin(w, op, i, r, descriptor, key)
        PROVE  MomentInv' /\ RequestInv'
    <3>1. Stamps' \subseteq Stamps /\ session' = session /\ changes' = changes
      BY <2>1, BeginStamps DEF BindingInv
    <3>2. MomentInv'
      BY <3>1, MomentKept DEF BindingInv
    <3>3. RequestInv'
      BY <2>1, RequestBegins DEF BindingInv
    <3> QED
      BY <3>2, <3>3
  <2>2. ASSUME NEW w \in Workers, NEW descriptor \in Descriptors, NEW key \in Keys,
               NEW i \in Intents, BeginEncrypt(w, i, descriptor, key)
        PROVE  MomentInv' /\ RequestInv'
    BY <2>1, <2>2 DEF BeginEncrypt
  <2>3. ASSUME NEW w \in Workers, NEW descriptor \in Descriptors, NEW key \in Keys,
               NEW r \in Records, BeginDecrypt(w, r, descriptor, key)
        PROVE  MomentInv' /\ RequestInv'
    <3>1. PICK i \in Governing(r) : Begin(w, "decrypt", i, r, descriptor, key)
      BY <2>3 DEF BeginDecrypt
    <3>2. i \in Intents /\ canonical[i] = records[r].descriptor
      BY <3>1 DEF Governing
    <3> QED
      BY <2>1, <3>1, <3>2
  <2>4. ASSUME NEW w \in Workers, Step(w)
        PROVE  MomentInv' /\ RequestInv'
    BY <2>4, MomentSteps, RequestSteps
  <2>5. CASE Elsewhere
    <3>1. job' = job /\ records' = records /\ canonical' = canonical
      BY <2>5 DEF Elsewhere, BeginUpdate, Update, Forget, Transition, Expire,
             PostureChanges, Handlers
    <3>2. RequestInv'
      BY <3>1 DEF RequestInv, Faithful, FaithfulRecord, BoundTo
    <3> QED
      BY <2>5, <3>2, MomentSteps
  <2>6. CASE UNCHANGED vars
    BY <2>6 DEF vars, MomentInv, Stamps, JobStamps, RecordStamps, RequestInv, Faithful,
           FaithfulRecord, BoundTo
  <2> QED
    BY <2>2, <2>3, <2>4, <2>5, <2>6 DEF Next, Step, Elsewhere
<1> QED
  BY <1>1, <1>2, BindingHolds, PTL DEF Spec, AuthorizedInv

LEMMA AuthorizedTogether ==
  ASSUME AtomicUpdates
  PROVE  Spec => []AuthorizedInv
BY BindingHolds, AuthorizedHolds, PTL DEF AuthorizedInv

\* As long as the session is not refreshed, reauthorized or revoked, the holder of
\* descriptor and key is not refused for the binding: that encryption turns the intent
\* from approved to used, or that the session's record was read and written in between,
\* does not close the ciphertext.
THEOREM UseLeavesOpen ==
  ASSUME AtomicUpdates
  PROVE  Spec => []UseKeepsOpen
<1>1. AuthorizedInv => UseKeepsOpen
  <2> SUFFICES ASSUME AuthorizedInv, NEW w \in Workers, At(w, "open"),
                      job[w].at = records[job[w].record].at,
                      job[w].descriptor = records[job[w].record].descriptor,
                      job[w].key = records[job[w].record].key
               PROVE  Opens(job[w], records[job[w].record])
    BY DEF UseKeepsOpen
  <2> USE DEF AuthorizedInv
  <2> DEFINE j == job[w]
             rec == records[job[w].record]
             s == <<j.bound.version, j.at>>
             t == <<rec.bound.version, rec.at>>
  <2>1. j # Idle /\ j.step \in BoundSteps
    BY Working DEF BindingInv, At, BoundSteps
  <2>2. j.record \in Records /\ rec # Absent /\ j.bound \in Hashes
    BY <2>1 DEF BindingInv, At, WorkInv, Sound
  <2>3. rec.bound \in Hashes
    BY <2>2 DEF BindingInv, TypeOK, RecordDocs
  <2>4. s \in Stamps /\ t \in Stamps
    BY <2>1, <2>2 DEF Stamps, JobStamps, RecordStamps
  <2>5. j.bound.version = rec.bound.version
    <3>1. s[2] = t[2]
      OBVIOUS
    <3>2. s[1] = t[1]
      <4> HIDE DEF s, t
      <4> QED
        BY <2>4, <3>1 DEF MomentInv
    <3> QED
      BY <3>2
  <2>6. BoundTo(j) /\ BoundTo(rec)
    BY <2>1, <2>2 DEF RequestInv, Faithful, FaithfulRecord
  <2>7. j.bound = rec.bound
    BY <2>2, <2>3, <2>5, <2>6 DEF BoundTo, Hashes
  <2> QED
    BY <2>7 DEF Opens, Authentic, DerivedKey
<1> QED
  BY <1>1, AuthorizedTogether, PTL

\* POST /api/decrypt returns a plaintext only if, when it looked up the record's intent
\* by hash, some intent with the very descriptor the record was sealed under could back
\* cryptography: several intents may share a descriptor, but an approval for one
\* descriptor never opens what was sealed under another.
THEOREM DescriptorGoverns ==
  ASSUME AtomicUpdates
  PROVE  Spec => []ClosedWithItsDescriptor
<1>1. AuthorizedInv => ClosedWithItsDescriptor
  <2> SUFFICES ASSUME AuthorizedInv, NEW w \in Workers, At(w, "release")
               PROVE  \E i \in job[w].backing :
                        canonical[i] = records[job[w].record].descriptor
    BY DEF ClosedWithItsDescriptor
  <2> USE DEF AuthorizedInv
  <2>1. job[w] # Idle /\ job[w].step \in BoundSteps /\ job[w].op = "decrypt"
    BY Working DEF BindingInv, At, BoundSteps, WorkInv, Sound
  <2>2. /\ job[w].intent \in job[w].backing
        /\ canonical[job[w].intent] = records[job[w].record].descriptor
    BY <2>1 DEF RequestInv, Faithful
  <2> QED
    BY <2>2
<1> QED
  BY <1>1, AuthorizedTogether, PTL
=============================================================================
