-------------------------- MODULE CryptoPagesProofs --------------------------
(***************************************************************************)
(* For any number of intents, records and jobs: types are kept, and the    *)
(* record handed to the decryption page comes with its own descriptor.     *)
(***************************************************************************)
EXTENDS CryptoPages, TLAPS

-----------------------------------------------------------------------------
(***************************************************************************)
(* Types.                                                                  *)
(***************************************************************************)
LEMMA JobTypes ==
  /\ NoJob \in CryptoJobs
  /\ \A job \in CryptoJobs : Orphan(job) \in CryptoJobs /\ WithoutPanel(job) \in CryptoJobs
  /\ \A job \in CryptoJobs, record \in Records \cup {0}, answer \in CryptoAnswers :
       [WithoutPanel(job) EXCEPT !.step = "answer", !.record = record, !.answer = answer]
         \in CryptoJobs
<1>1. NoJob \in CryptoJobs
  BY DEF NoJob, CryptoJobs, CryptoAnswers
<1>2. ASSUME NEW job \in CryptoJobs
      PROVE  Orphan(job) \in CryptoJobs /\ WithoutPanel(job) \in CryptoJobs
  <2>1. Orphan(job) \in CryptoJobs
    BY <1>1 DEF Orphan, CryptoJobs
  <2>2. WithoutPanel(job) \in CryptoJobs
    BY DEF WithoutPanel, CryptoJobs
  <2> QED
    BY <2>1, <2>2
<1>3. ASSUME NEW job \in CryptoJobs, NEW record \in Records \cup {0}, NEW answer \in CryptoAnswers
      PROVE  [WithoutPanel(job) EXCEPT !.step = "answer", !.record = record, !.answer = answer]
               \in CryptoJobs
  <2> DEFINE seen == WithoutPanel(job)
  <2>1. seen \in CryptoJobs
    BY <1>2
  <2> HIDE DEF seen
  <2>2. [seen EXCEPT !.step = "answer", !.record = record, !.answer = answer] \in CryptoJobs
    BY <2>1 DEF CryptoJobs
  <2> QED
    BY <2>2 DEF seen
<1> QED
  BY <1>1, <1>2, <1>3

\* Mounting a page, with whatever is handed over.
LEMMA MountTypes ==
  ASSUME CryptoTypeOK, NEW p \in {"other", "encrypt", "decrypt"}, Mount(p),
         shared' \in [intent : Descriptors \cup {0}, record : Records \cup {0},
                      lastCid : Descriptors \cup {0}]
  PROVE  CryptoTypeOK'
<1>1. resolved' \in [id : Descriptors \cup {0}, state : IntentStates \cup {"none"}]
  BY DEF Mount, NoIntent, IntentStates
<1>2. matches' \in BOOLEAN
  BY DEF Mount
<1>3. lookup' \in [id : Descriptors \cup {0}, state : IntentStates \cup {"none"}]
  BY DEF Mount, NoIntent
<1>4. sealed' \in [record : Records \cup {0}, descriptor : Descriptors \cup {0}]
  BY DEF Mount, NoSeal
<1>5. jobs' \in [Slots -> CryptoJobs]
  BY JobTypes DEF Mount, CryptoTypeOK
<1>6. /\ at' \in {"other", "encrypt", "decrypt"} /\ gate' \in Phases
      /\ outcome' \in CryptoAnswers
  BY DEF Mount, Phases, CryptoAnswers
<1>7. pendingCid' \in BOOLEAN /\ busy' \in BOOLEAN
  BY DEF Mount
<1>8. approval' = approval /\ stored' = stored
  BY DEF Mount, serverSide
<1> QED
  BY <1>1, <1>2, <1>3, <1>4, <1>5, <1>6, <1>7, <1>8 DEF CryptoTypeOK

LEMMA ServedTypes ==
  ASSUME CryptoTypeOK, NEW d \in Descriptors \cup {0}, NEW record, NEW answer,
         ServeEncrypt(d, record, answer)
  PROVE  approval' \in [Descriptors -> IntentStates] /\ stored' \in [Records -> Descriptors \cup {0}]
BY DEF CryptoTypeOK, ServeEncrypt, serverSide, IntentStates

LEMMA SendTypes ==
  ASSUME CryptoTypeOK, NEW s \in Slots, NEW record \in Records \cup {0},
         NEW answer \in CryptoAnswers, Send(s, record, answer),
         approval' \in [Descriptors -> IntentStates], stored' \in [Records -> Descriptors \cup {0}]
  PROVE  CryptoTypeOK'
<1>1. jobs' \in [Slots -> CryptoJobs]
  BY JobTypes DEF Send, CryptoTypeOK
<1>2. gate' \in Phases
  BY DEF Send, CryptoTypeOK, Phases
<1>3. busy' \in BOOLEAN
  BY DEF Send, CryptoTypeOK
<1> QED
  BY <1>1, <1>2, <1>3 DEF Send, CryptoTypeOK, encryption, decryption

\* No page but the two has a gate or a panel.
GateOnItsPage == at = "other" => gate = "closed" /\ \A s \in Slots : jobs[s].sees # "panel"

LEMMA StartCaptureTypes ==
  ASSUME CryptoTypeOK, GateOnItsPage, NEW s \in Slots, StartCapture(s)
  PROVE  CryptoTypeOK'
<1> DEFINE new == [NoJob EXCEPT !.step = "capture", !.sees = "panel", !.for = at,
                                !.descriptor = resolved.id, !.opens = pendingCid]
<1>1. at \in {"encrypt", "decrypt"} /\ resolved.id \in Descriptors \cup {0}
  BY DEF CryptoTypeOK, GateOnItsPage, StartCapture
<1>2. pendingCid \in BOOLEAN
  BY DEF CryptoTypeOK
<1>3. new \in CryptoJobs
  BY <1>1, <1>2 DEF NoJob, CryptoJobs, CryptoAnswers
<1> HIDE DEF new
<1>4. jobs' = [jobs EXCEPT ![s] = new]
  BY DEF StartCapture, new
<1>5. jobs' \in [Slots -> CryptoJobs]
  BY <1>3, <1>4 DEF CryptoTypeOK
<1> QED
  BY <1>5 DEF StartCapture, CryptoTypeOK, serverSide, encryption, decryption, Phases

LEMMA JobStepTypes ==
  ASSUME CryptoTypeOK, GateOnItsPage, NEW s \in Slots, JobStep(s)
  PROVE  CryptoTypeOK'
<1>1. jobs[s] \in CryptoJobs /\ jobs \in [Slots -> CryptoJobs]
  BY DEF CryptoTypeOK
<1>2. /\ jobs[s].descriptor \in Descriptors \cup {0} /\ jobs[s].record \in Records \cup {0}
      /\ jobs[s].answer \in CryptoAnswers
  BY <1>1 DEF CryptoJobs
<1>3. [jobs[s] EXCEPT !.step = "verify"] \in CryptoJobs /\ NoJob \in CryptoJobs
  BY <1>1, JobTypes DEF CryptoJobs
<1>4. [jobs EXCEPT ![s] = NoJob] \in [Slots -> CryptoJobs]
  BY <1>1, <1>3
<1>5. CASE StartCapture(s)
  BY <1>5, StartCaptureTypes
<1>6. CASE FaceCaptured(s)
  <2>1. jobs' = [jobs EXCEPT ![s] = [jobs[s] EXCEPT !.step = "verify"]]
    BY <1>6 DEF FaceCaptured
  <2>2. jobs' \in [Slots -> CryptoJobs]
    BY <1>1, <1>3, <2>1
  <2> QED
    BY <1>6, <2>2 DEF FaceCaptured, CryptoTypeOK, serverSide, encryption, decryption, Phases
<1>7. CASE CaptureFails(s)
  BY <1>4, <1>7 DEF CaptureFails, CryptoTypeOK, serverSide, encryption, decryption, Phases
<1>8. CASE RunEncrypt(s)
  <2>1. PICK record \in Records \cup {0}, answer \in {"success", "refused"} :
          ServeEncrypt(jobs[s].descriptor, record, answer) /\ Send(s, record, answer)
    BY <1>8 DEF RunEncrypt
  <2>2. answer \in CryptoAnswers
    BY DEF CryptoAnswers
  <2> QED
    BY <1>2, <2>1, <2>2, ServedTypes, SendTypes
<1>9. CASE RunDecrypt(s)
  <2>1. PICK answer \in {"success", "refused", "stepup"} :
          ServeDecrypt(jobs[s].opens, answer) /\ Send(s, 0, answer)
    BY <1>9 DEF RunDecrypt
  <2>2. answer \in CryptoAnswers /\ approval' = approval /\ stored' = stored
    BY <2>1 DEF CryptoAnswers, ServeDecrypt, serverSide
  <2>3. approval \in [Descriptors -> IntentStates] /\ stored \in [Records -> Descriptors \cup {0}]
    BY DEF CryptoTypeOK
  <2> QED
    BY <2>1, <2>2, <2>3, SendTypes
<1>10. CASE EncryptAnswered(s)
  <2>1. sealed' \in [record : Records \cup {0}, descriptor : Descriptors \cup {0}]
    BY <1>2, <1>10 DEF EncryptAnswered, CryptoTypeOK
  <2>2. busy' \in BOOLEAN
    BY <1>10 DEF EncryptAnswered
  <2> QED
    BY <1>4, <1>10, <2>1, <2>2 DEF EncryptAnswered, CryptoTypeOK, serverSide, decryption
<1>11. CASE DecryptAnswered(s)
  <2>1. busy' \in BOOLEAN
    BY <1>11 DEF DecryptAnswered
  <2> QED
    BY <1>2, <1>4, <1>11, <2>1 DEF DecryptAnswered, CryptoTypeOK, serverSide, encryption
<1> QED
  BY <1>5, <1>6, <1>7, <1>8, <1>9, <1>10, <1>11 DEF JobStep

LEMMA TypesKept ==
  CryptoTypeOK /\ GateOnItsPage /\ [CryptoNext]_cryptoVars => CryptoTypeOK'
<1> SUFFICES ASSUME CryptoTypeOK, GateOnItsPage, [CryptoNext]_cryptoVars PROVE CryptoTypeOK'
  OBVIOUS
<1> USE DEF serverSide, encryption, decryption
<1>1. ASSUME NEW p \in {"other", "encrypt", "decrypt"}, Visit(p) PROVE CryptoTypeOK'
  BY <1>1, MountTypes DEF Visit, CryptoTypeOK
<1>2. ASSUME NEW d \in Descriptors, ResolveIntent(d) PROVE CryptoTypeOK'
  <2>1. /\ lookup' \in [id : Descriptors \cup {0}, state : IntentStates \cup {"none"}]
        /\ resolved' \in [id : Descriptors \cup {0}, state : IntentStates \cup {"none"}]
    BY <1>2 DEF ResolveIntent, CryptoTypeOK, NoIntent
  <2> QED
    BY <1>2, <2>1 DEF ResolveIntent, CryptoTypeOK
<1>3. CASE IntentResolved
  <2>1. /\ lookup' \in [id : Descriptors \cup {0}, state : IntentStates \cup {"none"}]
        /\ resolved' \in [id : Descriptors \cup {0}, state : IntentStates \cup {"none"}]
    BY <1>3 DEF IntentResolved, CryptoTypeOK, NoIntent
  <2> QED
    BY <1>3, <2>1 DEF IntentResolved, CryptoTypeOK
<1>4. CASE TypeDescriptor \/ ApplyTamper
  <2>1. matches' \in BOOLEAN
    BY <1>4 DEF TypeDescriptor, ApplyTamper, CryptoTypeOK
  <2>2. outcome' \in CryptoAnswers
    BY <1>4 DEF TypeDescriptor, ApplyTamper, CryptoTypeOK, CryptoAnswers
  <2> QED
    BY <1>4, <2>1, <2>2 DEF TypeDescriptor, ApplyTamper, CryptoTypeOK
<1>5. CASE OpenEncryptGate \/ OpenDecryptGate
  <2>1. pendingCid' \in BOOLEAN
    BY <1>5 DEF OpenEncryptGate, OpenDecryptGate, CryptoTypeOK
  <2>2. outcome' \in CryptoAnswers /\ gate' \in Phases
    BY <1>5 DEF OpenEncryptGate, OpenDecryptGate, CryptoTypeOK, CryptoAnswers, Phases
  <2> QED
    BY <1>5, <2>1, <2>2 DEF OpenEncryptGate, OpenDecryptGate, CryptoTypeOK
<1>6. CASE CancelCapture
  <2>1. jobs' \in [Slots -> CryptoJobs]
    BY <1>6, JobTypes DEF CancelCapture, CryptoTypeOK
  <2> QED
    BY <1>6, <2>1 DEF CancelCapture, CryptoTypeOK, Phases
<1>7. ASSUME NEW s \in Slots, JobStep(s) PROVE CryptoTypeOK'
  BY <1>7, JobStepTypes
<1>8. CASE TryDecrypting
  <2>1. shared' \in [intent : Descriptors \cup {0}, record : Records \cup {0},
                     lastCid : Descriptors \cup {0}]
    BY <1>8 DEF TryDecrypting, CryptoTypeOK
  <2> QED
    BY <1>8, <2>1, MountTypes DEF TryDecrypting
<1>9. CASE UNCHANGED cryptoVars
  BY <1>9 DEF cryptoVars, CryptoTypeOK
<1> QED
  BY <1>1, <1>2, <1>3, <1>4, <1>5, <1>6, <1>7, <1>8, <1>9 DEF CryptoNext

LEMMA GateKept ==
  CryptoTypeOK /\ GateOnItsPage /\ [CryptoNext]_cryptoVars => GateOnItsPage'
<1> SUFFICES ASSUME CryptoTypeOK, GateOnItsPage, [CryptoNext]_cryptoVars, at' = "other"
             PROVE  gate' = "closed" /\ \A s \in Slots : jobs'[s].sees # "panel"
  BY DEF GateOnItsPage
<1>1. jobs \in [Slots -> CryptoJobs]
  BY DEF CryptoTypeOK
<1>2. \A s \in Slots : jobs[s] \in CryptoJobs
  BY <1>1
<1>3. CASE \E p \in {"other", "encrypt", "decrypt"} : Mount(p)
  <2>1. gate' = "closed" /\ jobs' = [s \in Slots |-> Orphan(jobs[s])]
    BY <1>3 DEF Mount
  <2>2. ASSUME NEW s \in Slots PROVE jobs'[s].sees # "panel"
    <3>1. jobs'[s] = Orphan(jobs[s]) /\ jobs[s] \in CryptoJobs
      BY <1>2, <2>1
    <3> QED
      BY <3>1 DEF Orphan, NoJob, CryptoJobs
  <2> QED
    BY <2>1, <2>2
<1>4. CASE at' = at
  <2>1. gate = "closed" /\ \A s \in Slots : jobs[s].sees # "panel"
    BY <1>4 DEF GateOnItsPage
  <2>2. \A s \in Slots : WithoutPanel(jobs[s]) = jobs[s]
    BY <2>1 DEF WithoutPanel
  <2>3. CASE UNCHANGED <<gate, jobs>>
    BY <2>1, <2>3
  <2>4. CASE CancelCapture \/ \E s \in Slots : StartCapture(s)
    BY <2>1, <2>4 DEF CancelCapture, StartCapture
  <2>5. CASE OpenEncryptGate \/ OpenDecryptGate
    BY <1>4, <2>5 DEF OpenEncryptGate, OpenDecryptGate
  <2>6. ASSUME NEW s \in Slots, FaceCaptured(s) \/ CaptureFails(s)
        PROVE  gate' = "closed" /\ \A t \in Slots : jobs'[t].sees # "panel"
    <3>1. gate' = "closed"
      BY <2>1, <2>6 DEF FaceCaptured, CaptureFails
    <3>2. jobs' = [jobs EXCEPT ![s] = [jobs[s] EXCEPT !.step = "verify"]]
          \/ jobs' = [jobs EXCEPT ![s] = NoJob]
      BY <2>6 DEF FaceCaptured, CaptureFails
    <3>3. ASSUME NEW t \in Slots PROVE jobs'[t].sees # "panel"
      <4>1. CASE t = s
        BY <1>1, <1>2, <2>1, <3>2, <4>1 DEF CryptoJobs, NoJob
      <4>2. CASE t # s
        BY <1>1, <2>1, <3>2, <4>2
      <4> QED
        BY <4>1, <4>2
    <3> QED
      BY <3>1, <3>3
  <2>7. ASSUME NEW s \in Slots, RunEncrypt(s) \/ RunDecrypt(s)
        PROVE  gate' = "closed" /\ \A t \in Slots : jobs'[t].sees # "panel"
    <3>1. PICK record, answer : Send(s, record, answer)
      BY <2>7 DEF RunEncrypt, RunDecrypt
    <3>2. gate' = "closed"
      BY <2>1, <3>1 DEF Send
    <3>3. ASSUME NEW t \in Slots PROVE jobs'[t].sees # "panel"
      <4> DEFINE sent == [jobs[s] EXCEPT !.step = "answer", !.record = record,
                                         !.answer = answer]
      <4>1. jobs'[t] \in {jobs[t], NoJob, sent}
        BY <2>2, <3>1 DEF Send
      <4>2. sent.sees = jobs[s].sees /\ NoJob.sees = "none"
        BY <1>2 DEF CryptoJobs, NoJob
      <4> HIDE DEF sent
      <4> QED
        BY <2>1, <4>1, <4>2
    <3> QED
      BY <3>2, <3>3
  <2>8. ASSUME NEW s \in Slots, EncryptAnswered(s) \/ DecryptAnswered(s)
        PROVE  gate' = "closed" /\ \A t \in Slots : jobs'[t].sees # "panel"
    <3>1. gate' = gate /\ jobs' = [jobs EXCEPT ![s] = NoJob]
      BY <2>8 DEF EncryptAnswered, DecryptAnswered
    <3> QED
      BY <1>1, <2>1, <3>1 DEF NoJob
  <2>9. CASE TypeDescriptor \/ ApplyTamper \/ IntentResolved
             \/ (\E d \in Descriptors : ResolveIntent(d)) \/ UNCHANGED cryptoVars
    BY <2>3, <2>9 DEF TypeDescriptor, ApplyTamper, IntentResolved, ResolveIntent, cryptoVars
  <2> QED
    BY <1>3, <2>4, <2>5, <2>6, <2>7, <2>8, <2>9
    DEF CryptoNext, JobStep, Visit, TryDecrypting
<1>5. (\E p \in {"other", "encrypt", "decrypt"} : Mount(p)) \/ at' = at
  BY DEF CryptoNext, JobStep, Visit, TryDecrypting, ResolveIntent, IntentResolved, TypeDescriptor,
         ApplyTamper, OpenEncryptGate, OpenDecryptGate, CancelCapture, StartCapture,
         FaceCaptured, CaptureFails, RunEncrypt, RunDecrypt, Send, EncryptAnswered,
         DecryptAnswered, cryptoVars
<1> QED
  BY <1>3, <1>4, <1>5

-----------------------------------------------------------------------------
(***************************************************************************)
(* A result keeps the descriptor of its record on its way from the answer  *)
(* to the encryption page and from there to the decryption page.           *)
(***************************************************************************)
SealedUnder(record, d) == record \in Records /\ d # 0 /\ stored[record] = d

JobSealed(job) ==
  job.for = "encrypt" /\ job.step = "answer" /\ job.answer = "success"
    => SealedUnder(job.record, job.descriptor)

Handed ==
  /\ shared.record # 0 => SealedUnder(shared.record, shared.lastCid)
  /\ sealed.record # 0 => SealedUnder(sealed.record, sealed.descriptor)
  /\ \A s \in Slots : JobSealed(jobs[s])

CryptoInv == CryptoTypeOK /\ GateOnItsPage /\ Handed

\* A stored record keeps its descriptor.
LEMMA SealedStays ==
  ASSUME CryptoTypeOK, NEW d, NEW record, NEW answer, ServeEncrypt(d, record, answer)
  PROVE  /\ \A r \in Records : stored[r] # 0 => stored'[r] = stored[r]
         /\ answer = "success" => record \in Records /\ d # 0 /\ stored'[record] = d
BY DEF CryptoTypeOK, ServeEncrypt, serverSide, SealedUnder

\* A step that stores nothing, and takes neither job nor result from elsewhere.
LEMMA HandedStays ==
  ASSUME Handed, stored' = stored, UNCHANGED <<shared, sealed>>,
         \A s \in Slots : JobSealed(jobs[s]) => JobSealed(jobs'[s])
  PROVE  Handed'
<1>1. ASSUME NEW s \in Slots, JobSealed(jobs'[s]) PROVE JobSealed(jobs[s])'
  BY <1>1 DEF JobSealed, SealedUnder
<1> QED
  BY <1>1 DEF Handed, SealedUnder

LEMMA MountHanded ==
  ASSUME Handed, CryptoTypeOK, NEW p, Mount(p),
         shared'.record # 0 => SealedUnder(shared'.record, shared'.lastCid)
  PROVE  Handed'
<1>1. stored' = stored /\ sealed' = NoSeal /\ jobs' = [s \in Slots |-> Orphan(jobs[s])]
  BY DEF Mount, serverSide
<1>2. ASSUME NEW s \in Slots PROVE JobSealed(jobs[s])'
  <2>1. jobs[s] \in CryptoJobs /\ jobs'[s] = Orphan(jobs[s])
    BY <1>1 DEF CryptoTypeOK
  <2>2. ~(jobs'[s].for = "encrypt" /\ jobs'[s].step = "answer")
    BY <2>1 DEF Orphan, NoJob, CryptoJobs
  <2> QED
    BY <2>2 DEF JobSealed
<1> QED
  BY <1>1, <1>2 DEF Handed, NoSeal, SealedUnder

LEMMA RunEncryptHanded ==
  ASSUME Handed, CryptoTypeOK, NEW s \in Slots, RunEncrypt(s)
  PROVE  Handed'
<1>1. PICK record \in Records \cup {0}, answer \in {"success", "refused"} :
        ServeEncrypt(jobs[s].descriptor, record, answer) /\ Send(s, record, answer)
  BY DEF RunEncrypt
<1>2. /\ \A r \in Records : stored[r] # 0 => stored'[r] = stored[r]
      /\ answer = "success" => /\ record \in Records /\ jobs[s].descriptor # 0
                               /\ stored'[record] = jobs[s].descriptor
  BY <1>1, SealedStays
<1>3. UNCHANGED <<shared, sealed>>
  BY <1>1 DEF Send, encryption
<1>4. ASSUME NEW t \in Slots PROVE JobSealed(jobs[t])'
  <2>1. jobs[t] \in CryptoJobs /\ jobs[s] \in CryptoJobs
    BY DEF CryptoTypeOK
  <2> DEFINE seen == WithoutPanel(jobs[s])
             sent == [seen EXCEPT !.step = "answer", !.record = record, !.answer = answer]
  <2>2. CASE jobs'[t] \in {jobs[t], WithoutPanel(jobs[t])}
    <3>1. /\ jobs'[t].for = jobs[t].for /\ jobs'[t].step = jobs[t].step
          /\ jobs'[t].answer = jobs[t].answer /\ jobs'[t].record = jobs[t].record
          /\ jobs'[t].descriptor = jobs[t].descriptor
      BY <2>1, <2>2 DEF WithoutPanel, CryptoJobs
    <3>2. JobSealed(jobs[t])
      BY DEF Handed
    <3> QED
      BY <1>2, <3>1, <3>2 DEF JobSealed, SealedUnder
  <2>3. CASE jobs'[t] = NoJob
    BY <2>3 DEF NoJob, JobSealed
  <2>4. CASE jobs'[t] = sent
    <3>1. seen \in CryptoJobs
      BY <2>1, JobTypes
    <3>2. seen.descriptor = jobs[s].descriptor
      BY <2>1 DEF WithoutPanel, CryptoJobs
    <3> HIDE DEF seen
    <3>3. jobs'[t].record = record /\ jobs'[t].answer = answer
          /\ jobs'[t].descriptor = jobs[s].descriptor
      BY <2>4, <3>1, <3>2 DEF CryptoJobs
    <3> QED
      BY <1>2, <3>3 DEF JobSealed, SealedUnder
  <2>5. jobs'[t] \in {jobs[t], WithoutPanel(jobs[t]), NoJob, sent}
    BY <1>1 DEF Send
  <2> QED
    BY <2>2, <2>3, <2>4, <2>5
<1> QED
  BY <1>2, <1>3, <1>4 DEF Handed, SealedUnder

LEMMA HandedKept == Handed /\ CryptoTypeOK /\ [CryptoNext]_cryptoVars => Handed'
<1> SUFFICES ASSUME Handed, CryptoTypeOK, [CryptoNext]_cryptoVars PROVE Handed'
  OBVIOUS
<1>1. jobs \in [Slots -> CryptoJobs] /\ \A s \in Slots : jobs[s] \in CryptoJobs
  BY DEF CryptoTypeOK
<1>2. CASE UNCHANGED <<stored, shared, sealed, jobs>>
  BY <1>2, HandedStays
<1>3. ASSUME NEW p, Visit(p) PROVE Handed'
  BY <1>3, MountHanded DEF Visit, Handed
<1>4. CASE TryDecrypting
  BY <1>4, MountHanded DEF TryDecrypting, Handed, CryptoTypeOK
<1>5. CASE CancelCapture
  <2>1. UNCHANGED <<stored, shared, sealed>>
    BY <1>5 DEF CancelCapture, serverSide, encryption
  <2>2. ASSUME NEW s \in Slots, JobSealed(jobs[s]) PROVE JobSealed(jobs'[s])
    <3>1. jobs'[s] = WithoutPanel(jobs[s])
      BY <1>5 DEF CancelCapture
    <3> QED
      BY <1>1, <2>2, <3>1 DEF JobSealed, WithoutPanel, CryptoJobs
  <2> QED
    BY <2>1, <2>2, HandedStays
\* A job that is not waiting for an answer.
<1>6. ASSUME NEW s \in Slots, StartCapture(s) \/ FaceCaptured(s) \/ CaptureFails(s)
      PROVE  Handed'
  <2>1. UNCHANGED <<stored, shared, sealed>>
    BY <1>6 DEF StartCapture, FaceCaptured, CaptureFails, serverSide, encryption
  <2>2. ASSUME NEW t \in Slots PROVE jobs'[t] = jobs[t] \/ jobs'[t].step # "answer"
    <3>1. t # s => jobs'[t] = jobs[t]
      BY <1>1, <1>6 DEF StartCapture, FaceCaptured, CaptureFails
    <3>2. jobs'[s].step # "answer"
      <4>1. CASE StartCapture(s)
        <5> DEFINE new == [NoJob EXCEPT !.step = "capture", !.sees = "panel", !.for = at,
                                        !.descriptor = resolved.id, !.opens = pendingCid]
        <5>1. new.step = "capture"
          BY DEF NoJob
        <5> HIDE DEF new
        <5>2. jobs' = [jobs EXCEPT ![s] = new]
          BY <4>1 DEF StartCapture, new
        <5> QED
          BY <1>1, <5>1, <5>2
      <4>2. CASE FaceCaptured(s)
        BY <1>1, <4>2 DEF FaceCaptured, CryptoJobs
      <4>3. CASE CaptureFails(s)
        BY <1>1, <4>3 DEF CaptureFails, NoJob
      <4> QED
        BY <1>6, <4>1, <4>2, <4>3
    <3> QED
      BY <3>1, <3>2
  <2>3. \A t \in Slots : JobSealed(jobs[t]) => JobSealed(jobs'[t])
    BY <2>2 DEF JobSealed
  <2> QED
    BY <2>1, <2>3, HandedStays
<1>7. ASSUME NEW s \in Slots, RunEncrypt(s) PROVE Handed'
  BY <1>7, RunEncryptHanded
<1>8. ASSUME NEW s \in Slots, RunDecrypt(s) PROVE Handed'
  <2>1. PICK answer : ServeDecrypt(jobs[s].opens, answer) /\ Send(s, 0, answer)
    BY <1>8 DEF RunDecrypt
  <2>2. UNCHANGED <<stored, shared, sealed>>
    BY <2>1 DEF ServeDecrypt, Send, serverSide, encryption
  <2>3. ASSUME NEW t \in Slots PROVE JobSealed(jobs[t]) => JobSealed(jobs'[t])
    <3>1. jobs[s].for = "decrypt" /\ jobs[s] \in CryptoJobs /\ jobs[t] \in CryptoJobs
      BY <1>1, <1>8 DEF RunDecrypt
    <3>2. CASE t # s
      <4>1. jobs'[t] \in {jobs[t], WithoutPanel(jobs[t])}
        BY <2>1, <3>2 DEF Send
      <4> QED
        BY <3>1, <4>1 DEF WithoutPanel, JobSealed, CryptoJobs
    <3>3. CASE t = s
      <4> DEFINE seen == WithoutPanel(jobs[s])
                 sent == [seen EXCEPT !.step = "answer", !.record = 0, !.answer = answer]
      <4>1. jobs'[s] \in {NoJob, sent}
        BY <2>1 DEF Send
      <4>2. seen \in CryptoJobs
        BY <3>1, JobTypes
      <4>3. seen.for = "decrypt"
        BY <3>1 DEF WithoutPanel, CryptoJobs
      <4> HIDE DEF seen
      <4>4. sent.for = "decrypt" /\ NoJob.for = "none"
        BY <4>2, <4>3 DEF CryptoJobs, NoJob
      <4> HIDE DEF sent
      <4> QED
        BY <3>3, <4>1, <4>4 DEF JobSealed
    <3> QED
      BY <3>2, <3>3
  <2> QED
    BY <2>2, <2>3, HandedStays
\* The answer brings its own descriptor to the page.
<1>9. ASSUME NEW s \in Slots, EncryptAnswered(s) \/ DecryptAnswered(s) PROVE Handed'
  <2>1. stored' = stored /\ shared' = shared /\ jobs' = [jobs EXCEPT ![s] = NoJob]
    BY <1>9 DEF EncryptAnswered, DecryptAnswered, serverSide
  <2>2. sealed'.record # 0 => SealedUnder(sealed'.record, sealed'.descriptor)
    BY <1>9 DEF EncryptAnswered, DecryptAnswered, Handed, JobSealed, encryption
  <2>3. \A t \in Slots : jobs'[t] = jobs[t] \/ jobs'[t] = NoJob
    BY <1>1, <2>1
  <2>4. \A t \in Slots : JobSealed(jobs'[t])
    BY <2>3 DEF Handed, JobSealed, NoJob
  <2> QED
    BY <2>1, <2>2, <2>4 DEF Handed, JobSealed, SealedUnder
<1> QED
  BY <1>2, <1>3, <1>4, <1>5, <1>6, <1>7, <1>8, <1>9
  DEF CryptoNext, JobStep, ResolveIntent, IntentResolved, TypeDescriptor, ApplyTamper,
      OpenEncryptGate, OpenDecryptGate, cryptoVars, serverSide, encryption, decryption

-----------------------------------------------------------------------------
(***************************************************************************)
(* The theorems.                                                           *)
(***************************************************************************)
LEMMA CryptoInvInit == CryptoInit => CryptoInv
<1> SUFFICES ASSUME CryptoInit PROVE CryptoInv
  OBVIOUS
<1>1. CryptoTypeOK
  <2>1. jobs \in [Slots -> CryptoJobs] /\ stored \in [Records -> Descriptors \cup {0}]
    BY JobTypes DEF CryptoInit
  <2>2. approval \in [Descriptors -> IntentStates]
    BY DEF CryptoInit, IntentStates
  <2>3. shared \in [intent : Descriptors \cup {0}, record : Records \cup {0},
                    lastCid : Descriptors \cup {0}]
    BY DEF CryptoInit
  <2>4. /\ resolved \in [id : Descriptors \cup {0}, state : IntentStates \cup {"none"}]
        /\ lookup \in [id : Descriptors \cup {0}, state : IntentStates \cup {"none"}]
        /\ sealed \in [record : Records \cup {0}, descriptor : Descriptors \cup {0}]
    BY DEF CryptoInit, NoIntent, NoSeal
  <2>5. at = "other" /\ outcome \in CryptoAnswers /\ gate \in Phases
    BY DEF CryptoInit, CryptoAnswers, Phases
  <2>6. matches \in BOOLEAN /\ pendingCid \in BOOLEAN /\ busy \in BOOLEAN
    BY DEF CryptoInit
  <2> QED
    BY <2>1, <2>2, <2>3, <2>4, <2>5, <2>6 DEF CryptoTypeOK
<1>2. GateOnItsPage
  BY DEF CryptoInit, GateOnItsPage, NoJob
<1>3. shared.record = 0 /\ sealed.record = 0 /\ \A s \in Slots : jobs[s] = NoJob
  BY DEF CryptoInit, NoSeal
<1>4. Handed
  BY <1>3 DEF Handed, JobSealed, NoJob
<1> QED
  BY <1>1, <1>2, <1>4 DEF CryptoInv

\* The invariant holds in every reachable state.
THEOREM CryptoInvariant == CryptoSpec => []CryptoInv
<1>1. CryptoInv /\ [CryptoNext]_cryptoVars => CryptoInv'
  BY TypesKept, GateKept, HandedKept DEF CryptoInv
<1> QED
  BY <1>1, CryptoInvInit, PTL DEF CryptoSpec

\* Types are kept (React state of EncryptionPage and DecryptionPage, App's scratch).
THEOREM CryptoPagesTypes == CryptoSpec => []CryptoTypeOK
<1>1. CryptoInv => CryptoTypeOK
  BY DEF CryptoInv
<1> QED
  BY <1>1, CryptoInvariant, PTL

\* The record handed from the encryption page to the decryption page comes with the
\* descriptor it was sealed under, whichever intents are resolved, gates cancelled and
\* answers late in between (runEncrypt, onTryDecrypt).
THEOREM HandedWithItsCid == CryptoSpec => []RecordHandedWithItsCid
<1>1. CryptoInv => RecordHandedWithItsCid
  BY DEF CryptoInv, Handed, SealedUnder, RecordHandedWithItsCid
<1> QED
  BY <1>1, CryptoInvariant, PTL
=============================================================================
