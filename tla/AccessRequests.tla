--------------------------- MODULE AccessRequests ---------------------------
(***************************************************************************)
(* Getting a revoked session back (src/frontend/src): the request panel of *)
(* a user who is no administrator (components/monitoring/                  *)
(* AccessRequestPanel.jsx, shown by MonitoringBadge.jsx), and the          *)
(* administrator's list of requests (ReauthRequestsPanel of                *)
(* pages/AdminDashboard.jsx).  One user, one device, one session.          *)
(*                                                                         *)
(* A request to the server is served when it is sent; its answer arrives   *)
(* later, in any order, or never.                                          *)
(***************************************************************************)
EXTENDS Naturals, FiniteSets

CONSTANTS
  AccessIds,   \* bound: access requests ever filed, 1..n
  MaxReads     \* bound: refreshes of the panel that overlap

ASSUME AccessAssumption == AccessIds \subseteq Nat \ {0} /\ MaxReads \in Nat \ {0}

VARIABLES
  requestStatus,   \* the server: the status of each request
  offered,         \* the badge says revoked, or has not heard of the restoration
  phase,           \* the panel's phase, "closed" when the badge does not show it
  lastRequest,     \* the request the panel shows, 0 for none
  reads,           \* answers of refresh() on their way
  filing,          \* submit(): the created request, 0 when it was refused, or None
  faceCheck,       \* the panel's face check: none, running for a request, or over
  pendingRows,     \* the administrator's list: requests shown with the two buttons
  listing,         \* answers of its load() on their way
  decisions        \* handleDecision() calls on their way

panel == <<phase, lastRequest, reads, filing, faceCheck>>
adminList == <<pendingRows, listing, decisions>>
accessVars == <<requestStatus, offered, panel, adminList>>

None == "none"
Issued == {r \in AccessIds : requestStatus[r] # None}
Pending == {r \in AccessIds : requestStatus[r] = "pending"}

\* rows[0] of listMyReauthRequests for this device and session: the newest.
MostRecent ==
  IF Issued = {} THEN [id |-> 0, status |-> None]
  ELSE LET r == CHOOSE i \in Issued : \A j \in Issued : j <= i
       IN  [id |-> r, status |-> requestStatus[r]]

Readings == [id : AccessIds \cup {0}, status : {None, "pending", "approved",
                                                "rejected", "consumed"}]
NoFiling == [step |-> "none", id |-> 0]
NoFaceCheck == [step |-> "none", id |-> 0]

(***************************************************************************)
(* The badge: it shows the panel from a revocation to a reauthentication   *)
(* that it was told of                                                     *)
(***************************************************************************)
\* Mounting the panel refreshes it.
OpenPanel ==
  /\ offered /\ phase = "closed"
  /\ phase' = "loading" /\ lastRequest' = 0
  /\ reads' = {MostRecent} /\ filing' = NoFiling /\ faceCheck' = NoFaceCheck
  /\ UNCHANGED <<requestStatus, offered, adminList>>

Unmounted ==
  /\ phase' = "closed" /\ lastRequest' = 0
  /\ reads' = {} /\ filing' = NoFiling

\* A click outside, or monitoring starting again.  A face check goes on.
ClosePanel ==
  /\ phase # "closed"
  /\ Unmounted
  /\ UNCHANGED <<requestStatus, offered, faceCheck, adminList>>

\* Monitoring or an administrator revokes the session.
LockSession ==
  /\ ~offered
  /\ offered' = TRUE
  /\ UNCHANGED <<requestStatus, panel, adminList>>

(***************************************************************************)
(* refresh(), once, and every 5 seconds while the phase is "pending"       *)
(***************************************************************************)
\* Fault: the panel is refreshed only when it is opened.
PollRequests_Never ==
  /\ phase = "loading"
  /\ Cardinality(reads) < MaxReads
  /\ reads' = reads \cup {MostRecent}
  /\ UNCHANGED <<requestStatus, offered, phase, lastRequest, filing, faceCheck, adminList>>

PollRequests ==
  /\ phase = "pending"
  /\ Cardinality(reads) < MaxReads
  /\ reads' = reads \cup {MostRecent}
  /\ UNCHANGED <<requestStatus, offered, phase, lastRequest, filing, faceCheck, adminList>>

PhaseOf(reading) ==
  IF reading.status \in {"pending", "approved", "rejected"} THEN reading.status
  ELSE "form"

\* The face panel is there only in the phase "approved".
FaceCheckAfter(next) ==
  IF phase = "approved" /\ next # "approved" /\ faceCheck.step = "over"
  THEN NoFaceCheck ELSE faceCheck

\* Whenever it was read, it is shown now.
RequestsRead(reading) ==
  /\ reading \in reads
  /\ reads' = reads \ {reading}
  /\ lastRequest' = reading.id
  /\ phase' = PhaseOf(reading)
  /\ faceCheck' = FaceCheckAfter(phase')
  /\ UNCHANGED <<requestStatus, offered, filing, adminList>>

\* "Leave whatever phase was last known".
ReadLost(reading) ==
  /\ reading \in reads
  /\ reads' = reads \ {reading}
  /\ UNCHANGED <<requestStatus, offered, phase, lastRequest, filing, faceCheck, adminList>>

(***************************************************************************)
(* submit()                                                                *)
(***************************************************************************)
AnotherRequest ==
  /\ phase = "rejected"
  /\ phase' = "form"
  /\ UNCHANGED <<requestStatus, offered, lastRequest, reads, filing, faceCheck, adminList>>

\* The server takes one unless another is pending; the answer may be lost.
SubmitRequest ==
  /\ phase = "form" /\ filing = NoFiling
  /\ \/ filing' = [step |-> "sent", id |-> 0] /\ UNCHANGED requestStatus
     \/ \E r \in AccessIds, lost \in BOOLEAN :
          /\ Pending = {}
          /\ r \notin Issued /\ \A q \in AccessIds : q < r => q \in Issued
          /\ requestStatus' = [requestStatus EXCEPT ![r] = "pending"]
          /\ filing' = [step |-> "sent", id |-> IF lost THEN 0 ELSE r]
  /\ UNCHANGED <<offered, phase, lastRequest, reads, faceCheck, adminList>>

RequestFiled ==
  /\ filing.step = "sent"
  /\ IF filing.id # 0
     THEN phase' = "pending" /\ lastRequest' = filing.id
     ELSE UNCHANGED <<phase, lastRequest>>
  /\ filing' = NoFiling
  /\ faceCheck' = FaceCheckAfter(phase')
  /\ UNCHANGED <<requestStatus, offered, reads, adminList>>

(***************************************************************************)
(* The face check of the phase "approved", and the reauthentication        *)
(***************************************************************************)
\* The request it names is the one shown when it is started.
StartFaceCheck ==
  /\ phase = "approved" /\ faceCheck = NoFaceCheck
  /\ faceCheck' = [step |-> "running", id |-> lastRequest]
  /\ UNCHANGED <<requestStatus, offered, phase, lastRequest, reads, filing, adminList>>

FaceCheckFails ==
  /\ faceCheck.step = "running"
  /\ faceCheck' = NoFaceCheck
  /\ UNCHANGED <<requestStatus, offered, phase, lastRequest, reads, filing, adminList>>

\* The server restores the session once for an approved request.
UsesApproval ==
  /\ requestStatus[faceCheck.id] = "approved"
  /\ requestStatus' = [requestStatus EXCEPT ![faceCheck.id] = "consumed"]

Reauthenticates ==
  /\ faceCheck.step = "running" /\ UsesApproval
  /\ offered' = FALSE
  /\ faceCheck' = NoFaceCheck
  /\ Unmounted
  /\ UNCHANGED adminList

\* Refused; or served, but the answer is lost or monitoring is not started.  The panel
\* keeps "Identity verified", without a button.
ReauthenticationFails ==
  /\ faceCheck.step = "running"
  /\ UsesApproval \/ UNCHANGED requestStatus
  /\ faceCheck' = IF phase = "approved" THEN [step |-> "over", id |-> 0] ELSE NoFaceCheck
  /\ UNCHANGED <<offered, phase, lastRequest, reads, filing, adminList>>

(***************************************************************************)
(* ReauthRequestsPanel: mounted, filtered, refreshed or after a decision   *)
(***************************************************************************)
LoadRequests ==
  /\ listing' = listing \cup {Pending}
  /\ UNCHANGED <<requestStatus, offered, panel, pendingRows, decisions>>

\* The answer of any load replaces the list; one that failed leaves it.
RequestsLoaded(rows) ==
  /\ rows \in listing
  /\ pendingRows' \in {rows, pendingRows}
  /\ listing' = listing \ {rows}
  /\ UNCHANGED <<requestStatus, offered, panel, decisions>>

\* Only the row of the last decision is busy.  A request is decided once.
HandleDecision(r, status) ==
  /\ r \in pendingRows
  /\ decisions' = decisions \cup {r}
  /\ requestStatus' = IF r \in Pending THEN [requestStatus EXCEPT ![r] = status]
                      ELSE requestStatus
  /\ UNCHANGED <<offered, panel, pendingRows, listing>>

\* It succeeded, and the list is loaded again; or it was refused or lost.
DecisionAnswered(r) ==
  /\ r \in decisions
  /\ decisions' = decisions \ {r}
  /\ listing' \in {listing, listing \cup {Pending}}
  /\ UNCHANGED <<requestStatus, offered, panel, pendingRows>>

(***************************************************************************)
(* Specification                                                           *)
(***************************************************************************)
AccessInit ==
  /\ requestStatus = [r \in AccessIds |-> None]
  /\ offered = TRUE
  /\ phase = "closed" /\ lastRequest = 0 /\ reads = {} /\ filing = NoFiling
  /\ faceCheck = NoFaceCheck
  /\ pendingRows = {} /\ listing = {} /\ decisions = {}

ReadStep == \E reading \in reads : RequestsRead(reading) \/ ReadLost(reading)

AccessNext ==
  \/ OpenPanel \/ ClosePanel \/ LockSession
  \/ PollRequests \/ ReadStep \/ AnotherRequest \/ SubmitRequest \/ RequestFiled
  \/ StartFaceCheck \/ FaceCheckFails \/ Reauthenticates \/ ReauthenticationFails
  \/ LoadRequests \/ \E rows \in listing : RequestsLoaded(rows)
  \/ \E r \in AccessIds : \/ \E d \in {"approved", "rejected"} : HandleDecision(r, d)
                          \/ DecisionAnswered(r)

AccessSpec == AccessInit /\ [][AccessNext]_accessVars

(***************************************************************************)
(* Properties                                                              *)
(***************************************************************************)
\* Every variable keeps its type.
AccessTypeOK ==
  /\ requestStatus \in [AccessIds -> {None, "pending", "approved", "rejected", "consumed"}]
  /\ offered \in BOOLEAN
  /\ phase \in {"closed", "loading", "form", "pending", "approved", "rejected"}
  /\ lastRequest \in AccessIds \cup {0}
  /\ reads \subseteq Readings
  /\ filing \in [step : {"none", "sent"}, id : AccessIds \cup {0}]
  /\ faceCheck \in [step : {"none", "running", "over"}, id : AccessIds \cup {0}]
  /\ pendingRows \subseteq AccessIds /\ listing \subseteq SUBSET AccessIds
  /\ decisions \subseteq AccessIds

\* What the panel calls approved was approved, and is the request it will name when the
\* face is checked, whatever refreshes and submissions were answered late.
ApprovedRequestShown ==
  phase = "approved" =>
    /\ lastRequest # 0
    /\ requestStatus[lastRequest] \in {"approved", "consumed"}

\* A panel that waits for the administrator stops waiting once the newest request is
\* decided ("this panel updates on its own without the user needing to do anything").
AccessDecisionNoticed ==
  (phase = "pending" /\ MostRecent.status # "pending") ~> phase # "pending"
=============================================================================
