----------------------------- MODULE CryptoPages -----------------------------
(***************************************************************************)
(* The encryption and decryption pages (src/frontend/src/pages/            *)
(* EncryptionPage.jsx, DecryptionPage.jsx), the face check in front of     *)
(* them (components/face/FaceAuthPanel.jsx), and the values App hands from *)
(* one page to the next.                                                   *)
(*                                                                         *)
(* A capture of the face panel and the request behind it form one job.     *)
(* Nothing cancels it: it keeps the values of the render in which it was   *)
(* started, and runs on when its panel or its page is gone.  The server    *)
(* serves a request when it is sent.  The quantum key is left out; a wrong *)
(* one is an error answer.                                                 *)
(***************************************************************************)
EXTENDS Naturals

CONSTANTS
  Descriptors,   \* bound: intents, 1..n, each with its descriptor
  WholeMinutes,  \* those whose validity begins and ends on a minute
  MaxStored,     \* bound: encryption records created
  MaxJobs        \* bound: jobs that run at a time

ASSUME DescriptorsAssumption ==
  Descriptors \subseteq Nat \ {0} /\ WholeMinutes \subseteq Descriptors
ASSUME StoredAssumption == MaxStored \in Nat /\ MaxJobs \in Nat

VARIABLES
  approval,      \* the server: "draft", "approved" or "used" for each descriptor
  stored,        \* the server: the descriptor each record was sealed under
  shared,        \* App's scratch: the intent, and lastCid for recordId
  at,            \* the page
  resolved,      \* the intent the encryption page shows, and the state shown
  lookup,        \* handleResolve: the answer it waits for
  sealed,        \* Encryption: the result, a record and its descriptor
  matches,       \* Decryption: the form says what its record was sealed under
  pendingCid,    \* Decryption: the same of the descriptor submitted last
  outcome,       \* Decryption: what the last answer said
  gate,          \* the face panel: closed, or its phase
  busy,          \* loading
  jobs

serverSide == <<approval, stored>>
encryption == <<resolved, lookup, sealed>>
decryption == <<matches, pendingCid, outcome>>
cryptoVars == <<serverSide, shared, at, encryption, decryption, gate, busy, jobs>>

Records == 1..MaxStored
Slots == 1..MaxJobs
NoIntent == [id |-> 0, state |-> "none"]
NoSeal == [record |-> 0, descriptor |-> 0]

\* `sees': what is left of the screen the job was started from.
NoJob == [step |-> "none", sees |-> "none", for |-> "none",
          descriptor |-> 0, record |-> 0, opens |-> FALSE, answer |-> "none"]

(***************************************************************************)
(* Mounting a page: useState's initial values, from what was handed over   *)
(***************************************************************************)
\* Everything the page before kept is gone.  Of its jobs only an encryption that is
\* not sent yet still does something.
Orphan(job) ==
  IF job.for = "encrypt" /\ job.step # "answer" THEN [job EXCEPT !.sees = "nothing"]
  ELSE NoJob

\* The decryption form shows the validity to the minute (toIsoOrEmpty).
Mount(page) ==
  /\ at' = page
  /\ resolved' = IF page = "encrypt" /\ shared'.intent # 0
                 THEN [id |-> shared'.intent, state |-> "approved"] ELSE NoIntent
  /\ matches' = (/\ page = "decrypt" /\ shared'.record # 0
                 /\ stored[shared'.record] = shared'.lastCid
                 /\ shared'.lastCid \in WholeMinutes)
  /\ lookup' = NoIntent /\ sealed' = NoSeal
  /\ pendingCid' = FALSE /\ outcome' = "none"
  /\ gate' = "closed" /\ busy' = FALSE
  /\ jobs' = [s \in Slots |-> Orphan(jobs[s])]
  /\ UNCHANGED serverSide

\* The sidebar.
Visit(page) == page # at /\ UNCHANGED shared /\ Mount(page)

(***************************************************************************)
(* EncryptionPage: the intent                                              *)
(***************************************************************************)
ResolveIntent(d) ==
  /\ at = "encrypt" /\ lookup = NoIntent
  /\ resolved' = NoIntent
  /\ lookup' = [id |-> d, state |-> approval[d]]
  /\ UNCHANGED <<serverSide, shared, at, sealed, decryption, gate, busy, jobs>>

IntentResolved ==
  /\ lookup # NoIntent
  /\ resolved' \in {lookup, NoIntent}
  /\ lookup' = NoIntent
  /\ UNCHANGED <<serverSide, shared, at, sealed, decryption, gate, busy, jobs>>

(***************************************************************************)
(* DecryptionPage: the form.  Device and session cannot be typed.          *)
(***************************************************************************)
TypeDescriptor ==
  /\ at = "decrypt"
  /\ matches' = ~matches
  /\ UNCHANGED <<serverSide, shared, at, encryption, pendingCid, outcome, gate, busy, jobs>>

\* A one-click scenario; a request on its way is not called off.
ApplyTamper ==
  /\ at = "decrypt"
  /\ matches' = FALSE /\ outcome' = "none"
  /\ UNCHANGED <<serverSide, shared, at, encryption, pendingCid, gate, busy, jobs>>

(***************************************************************************)
(* The gate and the face panel                                             *)
(***************************************************************************)
\* "Encrypt" needs an approved intent; the form around the gate stays usable.  While a
\* request runs there is no button, and Enter in the form asks for the gate even so.
OpenEncryptGate ==
  /\ at = "encrypt" /\ gate = "closed"
  /\ busy \/ resolved.state = "approved"
  /\ gate' = "idle"
  /\ UNCHANGED <<serverSide, shared, at, encryption, decryption, busy, jobs>>

\* "Decrypt" takes the descriptor of this moment.
OpenDecryptGate ==
  /\ at = "decrypt" /\ gate = "closed" /\ ~busy
  /\ pendingCid' = matches /\ outcome' = "none"
  /\ gate' = "idle"
  /\ UNCHANGED <<serverSide, shared, at, encryption, matches, busy, jobs>>

\* handleStart and handleRetry; onSuccess is the callback of this render.
StartCapture(s) ==
  /\ gate \in {"idle", "fail"}
  /\ jobs[s] = NoJob /\ \A t \in Slots : t < s => jobs[t] # NoJob
  /\ gate' = "capturing"
  /\ jobs' = [jobs EXCEPT ![s] =
       [NoJob EXCEPT !.step = "capture", !.sees = "panel", !.for = at,
          !.descriptor = resolved.id, !.opens = pendingCid]]
  /\ UNCHANGED <<serverSide, shared, at, encryption, decryption, busy>>

\* A gate that closes takes its panel away; the page is still there.
WithoutPanel(job) == IF job.sees = "panel" THEN [job EXCEPT !.sees = "page"] ELSE job

\* Cancel removes the panel, and with it the camera, but not the job.
CancelCapture ==
  /\ gate \in {"idle", "fail", "capturing"}
  /\ gate' = "closed"
  /\ jobs' = [s \in Slots |-> WithoutPanel(jobs[s])]
  /\ UNCHANGED <<serverSide, shared, at, encryption, decryption, busy>>

\* Enough frames for a descriptor, also those taken before the panel was removed.
FaceCaptured(s) ==
  /\ jobs[s].step = "capture"
  /\ jobs' = [jobs EXCEPT ![s].step = "verify"]
  /\ gate' = IF jobs[s].sees = "panel" THEN "processing" ELSE gate
  /\ UNCHANGED <<serverSide, shared, at, encryption, decryption, busy>>

\* No clear face in time, no match, or the request failed.
CaptureFails(s) ==
  /\ jobs[s].step \in {"capture", "verify"}
  /\ jobs' = [jobs EXCEPT ![s] = NoJob]
  /\ gate' = IF jobs[s].sees = "panel" THEN "fail" ELSE gate
  /\ UNCHANGED <<serverSide, shared, at, encryption, decryption, busy>>

(***************************************************************************)
(* onSuccess: runEncrypt or runDecrypt close whatever gate their page      *)
(* shows and send the request.                                             *)
(***************************************************************************)
\* The server seals under an approved intent, which is then used; it refuses
\* otherwise, or its answer is lost.  Without an intent nothing is sent.
ServeEncrypt(d, record, answer) ==
  \/ answer = "refused" /\ record = 0 /\ UNCHANGED serverSide
  \/ /\ d # 0 /\ approval[d] = "approved"
     /\ record \in Records /\ stored[record] = 0
     /\ \A r \in Records : r < record => stored[r] # 0
     /\ approval' = [approval EXCEPT ![d] = "used"]
     /\ stored' = [stored EXCEPT ![record] = d]
     /\ answer \in {"success", "refused"}

\* The server compares the descriptor, then opens the record.
ServeDecrypt(opens, answer) ==
  /\ answer \in {"refused", "stepup"} \cup (IF opens THEN {"success"} ELSE {})
  /\ UNCHANGED serverSide

Send(s, record, answer) ==
  /\ gate' = IF jobs[s].sees = "nothing" THEN gate ELSE "closed"
  /\ busy' = (busy \/ jobs[s].sees # "nothing")
  /\ jobs' = [t \in Slots |->
       IF t # s THEN (IF jobs[s].sees = "nothing" THEN jobs[t] ELSE WithoutPanel(jobs[t]))
       ELSE IF jobs[s].sees = "nothing" THEN NoJob
       ELSE [WithoutPanel(jobs[s]) EXCEPT !.step = "answer", !.record = record,
                                          !.answer = answer]]
  /\ UNCHANGED <<shared, at, encryption, decryption>>

RunEncrypt(s) ==
  /\ jobs[s].step = "verify" /\ jobs[s].for = "encrypt"
  /\ \E record \in Records \cup {0}, answer \in {"success", "refused"} :
       ServeEncrypt(jobs[s].descriptor, record, answer) /\ Send(s, record, answer)

RunDecrypt(s) ==
  /\ jobs[s].step = "verify" /\ jobs[s].for = "decrypt"
  /\ \E answer \in {"success", "refused", "stepup"} :
       ServeDecrypt(jobs[s].opens, answer) /\ Send(s, 0, answer)

\* Fault: the result is shown with the intent the page shows by now.
EncryptAnswered_Shown(s) ==
  /\ jobs[s].step = "answer" /\ jobs[s].for = "encrypt"
  /\ busy' = FALSE
  /\ sealed' = IF jobs[s].answer = "success"
               THEN [record |-> jobs[s].record, descriptor |-> resolved.id]
               ELSE sealed
  /\ jobs' = [jobs EXCEPT ![s] = NoJob]
  /\ UNCHANGED <<serverSide, shared, at, resolved, lookup, decryption, gate>>

\* The result carries the descriptor it was sealed under.
EncryptAnswered(s) ==
  /\ jobs[s].step = "answer" /\ jobs[s].for = "encrypt"
  /\ busy' = FALSE
  /\ sealed' = IF jobs[s].answer = "success"
               THEN [record |-> jobs[s].record, descriptor |-> jobs[s].descriptor]
               ELSE sealed
  /\ jobs' = [jobs EXCEPT ![s] = NoJob]
  /\ UNCHANGED <<serverSide, shared, at, resolved, lookup, decryption, gate>>

DecryptAnswered(s) ==
  /\ jobs[s].step = "answer" /\ jobs[s].for = "decrypt"
  /\ busy' = FALSE
  /\ outcome' = jobs[s].answer
  /\ jobs' = [jobs EXCEPT ![s] = NoJob]
  /\ UNCHANGED <<serverSide, shared, at, encryption, matches, pendingCid, gate>>

\* "Try decrypting this record".
TryDecrypting ==
  /\ sealed.record # 0
  /\ shared' = [shared EXCEPT !.record = sealed.record, !.lastCid = sealed.descriptor]
  /\ Mount("decrypt")

(***************************************************************************)
(* Specification                                                           *)
(***************************************************************************)
\* An intent may have been handed over by the page that created it.
CryptoInit ==
  /\ \E d \in Descriptors \cup {0} : shared = [intent |-> d, record |-> 0, lastCid |-> 0]
  /\ approval \in [Descriptors -> {"draft", "approved"}]
  /\ shared.intent # 0 => approval[shared.intent] = "approved"
  /\ stored = [r \in Records |-> 0]
  /\ at = "other"
  /\ resolved = NoIntent /\ lookup = NoIntent /\ sealed = NoSeal
  /\ matches = FALSE /\ pendingCid = FALSE /\ outcome = "none"
  /\ gate = "closed" /\ busy = FALSE
  /\ jobs = [s \in Slots |-> NoJob]

JobStep(s) ==
  \/ StartCapture(s) \/ FaceCaptured(s) \/ CaptureFails(s)
  \/ RunEncrypt(s) \/ EncryptAnswered(s) \/ RunDecrypt(s) \/ DecryptAnswered(s)

CryptoNext ==
  \/ \E p \in {"other", "encrypt", "decrypt"} : Visit(p)
  \/ \E d \in Descriptors : ResolveIntent(d)
  \/ IntentResolved \/ TypeDescriptor \/ ApplyTamper
  \/ OpenEncryptGate \/ OpenDecryptGate \/ CancelCapture
  \/ \E s \in Slots : JobStep(s)
  \/ TryDecrypting

CryptoSpec == CryptoInit /\ [][CryptoNext]_cryptoVars

(***************************************************************************)
(* Properties                                                              *)
(***************************************************************************)
IntentStates == {"draft", "approved", "used"}
Phases == {"closed", "idle", "capturing", "processing", "fail"}
CryptoAnswers == {"none", "success", "refused", "stepup"}
CryptoJobs == [step : {"none", "capture", "verify", "answer"},
               sees : {"none", "panel", "page", "nothing"},
               for : {"none", "encrypt", "decrypt"},
               descriptor : Descriptors \cup {0}, record : Records \cup {0},
               opens : BOOLEAN, answer : CryptoAnswers]

\* Every variable keeps its type.
CryptoTypeOK ==
  /\ approval \in [Descriptors -> IntentStates]
  /\ stored \in [Records -> Descriptors \cup {0}]
  /\ shared \in [intent : Descriptors \cup {0}, record : Records \cup {0},
                 lastCid : Descriptors \cup {0}]
  /\ at \in {"other", "encrypt", "decrypt"}
  /\ resolved \in [id : Descriptors \cup {0}, state : IntentStates \cup {"none"}]
  /\ lookup \in [id : Descriptors \cup {0}, state : IntentStates \cup {"none"}]
  /\ sealed \in [record : Records \cup {0}, descriptor : Descriptors \cup {0}]
  /\ matches \in BOOLEAN /\ pendingCid \in BOOLEAN /\ outcome \in CryptoAnswers
  /\ gate \in Phases /\ busy \in BOOLEAN
  /\ jobs \in [Slots -> CryptoJobs]

\* The record the decryption page is handed comes with the descriptor it was sealed
\* under, however many encryptions ran, were cancelled or were answered late, and
\* whatever intent the encryption page shows by now.
RecordHandedWithItsCid ==
  shared.record # 0 => stored[shared.record] = shared.lastCid
=============================================================================
