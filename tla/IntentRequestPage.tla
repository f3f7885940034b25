-------------------------- MODULE IntentRequestPage --------------------------
(***************************************************************************)
(* Requesting an intent (src/frontend/src/pages/CreateIntentPage.jsx): the *)
(* form with its attached file, the creation, the poll for the decision,   *)
(* and the hand-over to the encryption page.                               *)
(*                                                                         *)
(* A file is a number; the descriptor of an intent is reduced to the file  *)
(* it names, 0 for none.  The creation is served when it is sent.          *)
(***************************************************************************)
EXTENDS Naturals

CONSTANTS
  RequestIds,    \* bound: intents the page ever creates, 1..n
  FileIds        \* files the user may attach, not 0

ASSUME RequestAssumption == RequestIds \subseteq Nat \ {0}
ASSUME FileAssumption == FileIds \subseteq Nat \ {0}

VARIABLES
  intentAt,      \* the server: state of each intent
  namedFile,     \* the server: the file each intent's descriptor names
  inputMode,     \* "plaintext" or "file"
  attachment,    \* the attached file, 0 for none
  beingHashed,   \* files whose digest is being computed
  hashing,       \* hashingAttachment
  creation,      \* handleSubmit: the await it is at, and what it waits for
  shown,         \* result: the intent of the card, and the state shown for it
  poll,          \* pollApproval: off, its timer, or the state it will read
  handedOver     \* what navigate() gave to the encryption page

server_ == <<intentAt, namedFile>>
form == <<inputMode, attachment, beingHashed, hashing>>
requestVars == <<server_, form, creation, shown, poll, handedOver>>

NoFile == 0
States == {"none", "draft", "approved", "rejected", "revoked"}
NoCard == [id |-> 0, state |-> "none"]
NotCreating == [step |-> "none", id |-> 0, state |-> "none"]
Loading == creation # NotCreating

(***************************************************************************)
(* The attached file                                                       *)
(***************************************************************************)
\* A file that is no supported type or too large is refused at once.
ChooseFile(f) ==
  /\ inputMode = "file"
  /\ \/ attachment' = NoFile /\ UNCHANGED <<beingHashed, hashing>>
     \/ /\ beingHashed' = beingHashed \cup {f}
        /\ hashing' = TRUE
        /\ UNCHANGED attachment
  /\ UNCHANGED <<server_, inputMode, creation, shown, poll, handedOver>>

\* Whichever digest ends last wins, and the first one ends the reading.
FileHashed(f) ==
  /\ f \in beingHashed
  /\ attachment' \in {f, NoFile}
  /\ beingHashed' = beingHashed \ {f}
  /\ hashing' = FALSE
  /\ UNCHANGED <<server_, inputMode, creation, shown, poll, handedOver>>

ClearAttachment ==
  /\ inputMode = "file" /\ attachment # NoFile
  /\ attachment' = NoFile
  /\ UNCHANGED <<server_, inputMode, beingHashed, hashing, creation, shown, poll,
                 handedOver>>

TextMode ==
  /\ inputMode = "file"
  /\ inputMode' = "plaintext" /\ attachment' = NoFile
  /\ UNCHANGED <<server_, beingHashed, hashing, creation, shown, poll, handedOver>>

FileMode ==
  /\ inputMode = "plaintext"
  /\ inputMode' = "file"
  /\ UNCHANGED <<server_, attachment, beingHashed, hashing, creation, shown, poll,
                 handedOver>>

(***************************************************************************)
(* handleSubmit                                                            *)
(***************************************************************************)
\* The file the descriptor names is the one attached at this moment.
DescriptorFile == IF inputMode = "file" THEN attachment ELSE NoFile

\* The monitoring state that would block it is not modelled here: when it blocks, the
\* form is not shown.  An administrator's intent may be approved at once.
SubmitIntent ==
  /\ ~Loading
  /\ inputMode = "file" => attachment # NoFile /\ ~hashing
  /\ \/ /\ creation' = [step |-> "create", id |-> 0, state |-> "none"]
        /\ UNCHANGED server_
     \/ \E i \in RequestIds, s \in {"draft", "approved"}, lost \in BOOLEAN :
          /\ intentAt[i] = "none"
          /\ \A j \in RequestIds : j < i => intentAt[j] # "none"
          /\ intentAt' = [intentAt EXCEPT ![i] = s]
          /\ namedFile' = [namedFile EXCEPT ![i] = DescriptorFile]
          /\ creation' = [step |-> "create", id |-> IF lost THEN 0 ELSE i, state |-> s]
  /\ UNCHANGED <<form, shown, poll, handedOver>>

\* Show the intent; for a draft, check the eligibility and start polling.
IntentCreated ==
  /\ creation.step = "create" /\ creation.id # 0
  /\ shown' = [id |-> creation.id, state |-> creation.state]
  /\ poll' = IF creation.state = "draft" THEN "timer" ELSE "off"
  /\ creation' = IF creation.state = "draft" THEN [creation EXCEPT !.step = "check"]
                 ELSE NotCreating
  /\ UNCHANGED <<server_, form, handedOver>>

\* The creation failed or its answer was lost, or the eligibility check is over.
SubmitOver ==
  /\ creation.step = "check" \/ creation.id = 0
  /\ Loading
  /\ creation' = NotCreating
  /\ UNCHANGED <<server_, form, shown, poll, handedOver>>

(***************************************************************************)
(* pollApproval: once a second after the creation, then every 3 seconds    *)
(***************************************************************************)
AskDecision ==
  /\ poll = "timer"
  /\ poll' = intentAt[shown.id]
  /\ UNCHANGED <<server_, form, creation, shown, handedOver>>

\* A decision changes the card, which ends the poll; else the timer starts again.
DecisionRead ==
  /\ poll \notin {"off", "timer"}
  /\ IF poll = "draft" THEN poll' = "timer" /\ UNCHANGED shown
     ELSE poll' = "off" /\ shown' = [shown EXCEPT !.state = poll]
  /\ UNCHANGED <<server_, form, creation, handedOver>>

\* Fault: a request that fails ends the poll.
DecisionLost_Stops ==
  /\ poll \notin {"off", "timer"}
  /\ poll' = "off"
  /\ UNCHANGED <<server_, form, creation, shown, handedOver>>

\* A request that failed is repeated all the same.
DecisionLost ==
  /\ poll \notin {"off", "timer"}
  /\ poll' = "timer"
  /\ UNCHANGED <<server_, form, creation, shown, handedOver>>

(***************************************************************************)
(* The card's button, and leaving the page, which unmounts all of it       *)
(***************************************************************************)
Unmount ==
  /\ inputMode' = "plaintext" /\ attachment' = NoFile
  /\ beingHashed' = {} /\ hashing' = FALSE
  /\ creation' = NotCreating /\ shown' = NoCard /\ poll' = "off"

\* The attachment handed over is the one of the form, which may have changed since.
AccessEncryption ==
  /\ shown.state = "approved"
  /\ handedOver' = [id |-> shown.id, file |-> DescriptorFile]
  /\ Unmount
  /\ UNCHANGED server_

LeaveRequest == Unmount /\ UNCHANGED <<server_, handedOver>>

(***************************************************************************)
(* Others, at the server                                                   *)
(***************************************************************************)
\* An approver decides; later the intent may be revoked or expire.
DecideIntent(i) ==
  /\ \/ intentAt[i] = "draft"
        /\ \E s \in {"approved", "rejected"} : intentAt' = [intentAt EXCEPT ![i] = s]
     \/ intentAt[i] = "approved" /\ intentAt' = [intentAt EXCEPT ![i] = "revoked"]
  /\ UNCHANGED <<namedFile, form, creation, shown, poll, handedOver>>

(***************************************************************************)
(* Specification                                                           *)
(***************************************************************************)
RequestInit ==
  /\ intentAt = [i \in RequestIds |-> "none"]
  /\ namedFile = [i \in RequestIds |-> NoFile]
  /\ inputMode = "plaintext" /\ attachment = NoFile
  /\ beingHashed = {} /\ hashing = FALSE
  /\ creation = NotCreating /\ shown = NoCard /\ poll = "off"
  /\ handedOver = [id |-> 0, file |-> NoFile]

RequestNext ==
  \/ \E f \in FileIds : ChooseFile(f) \/ FileHashed(f)
  \/ ClearAttachment \/ TextMode \/ FileMode
  \/ SubmitIntent \/ IntentCreated \/ SubmitOver
  \/ AskDecision \/ DecisionRead \/ DecisionLost
  \/ AccessEncryption \/ LeaveRequest
  \/ \E i \in RequestIds : DecideIntent(i)

RequestSpec == RequestInit /\ [][RequestNext]_requestVars

(***************************************************************************)
(* Properties                                                              *)
(***************************************************************************)
\* Every variable keeps its type.
RequestTypeOK ==
  /\ intentAt \in [RequestIds -> States]
  /\ namedFile \in [RequestIds -> FileIds \cup {NoFile}]
  /\ inputMode \in {"plaintext", "file"}
  /\ attachment \in FileIds \cup {NoFile}
  /\ beingHashed \subseteq FileIds /\ hashing \in BOOLEAN
  /\ creation \in [step : {"none", "create", "check"}, id : RequestIds \cup {0},
                   state : States]
  /\ shown \in [id : RequestIds \cup {0}, state : States]
  /\ poll \in States \cup {"off", "timer"}
  /\ handedOver \in [id : RequestIds \cup {0}, file : FileIds \cup {NoFile}]

\* The card offers the encryption only of an intent that was approved, whatever
\* intents were created, decided and polled for meanwhile.
ApprovedCardWasApproved ==
  shown.state = "approved" => intentAt[shown.id] \in {"approved", "revoked"}

\* A card that shows a decided intent as a draft changes ("This page will update
\* automatically when the administrator approves or rejects it").
DecisionShown ==
  \A i \in RequestIds :
    (shown = [id |-> i, state |-> "draft"] /\ intentAt[i] # "draft")
      ~> shown # [id |-> i, state |-> "draft"]
=============================================================================
