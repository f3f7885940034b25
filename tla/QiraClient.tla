----------------------------- MODULE QiraClient -----------------------------
(***************************************************************************)
(* The assessment every surface shares (src/frontend/src/context/          *)
(* QiraContext.jsx) and the widget that shows it, answers questions and    *)
(* offers a reauthentication (components/qira/QiraWidget.jsx).             *)
(*                                                                         *)
(* The monitoring context is the environment: it watches a record and      *)
(* shows a snapshot, reduced here to its significantKey.  A refresh() is a *)
(* job; it keeps the record of the closure it was called in, and `fresh'   *)
(* says whether its generation is still the current one.  The comparison   *)
(* of the requested session is left out: both sides are the closure's.     *)
(* lastKeyRef and latestKeyRef always agree after the effects, and         *)
(* pendingKeyRef is read only when there is no latest key, when nothing    *)
(* can have been put there; one variable stands for the three.             *)
(***************************************************************************)
EXTENDS Naturals, FiniteSets

CONSTANTS
  MaxWatched,      \* bound: monitoring records ever watched
  MaxAssessments   \* bound: assessments on their way

ASSUME QiraAssumption == MaxWatched \in Nat /\ MaxAssessments \in Nat \ {0}

VARIABLES
  watched,       \* monitoringSessionId, 0 for null
  newest,        \* the newest record watched so far
  latest,        \* latestKeyRef, NoKey for null
  assessed,      \* lastAssessedKeyRef
  inFlight,      \* inFlightSessionRef, 0 for null
  decision,      \* the decision every surface shows, and what it was asked for
  assessing,
  assessments,   \* jobs
  question,        \* the record a question waits for an answer about, or 0
  reauthing      \* the record of the render the widget's face panel was used in

qiraVars == <<watched, newest, latest, assessed, inFlight, decision, assessing,
              assessments, question, reauthing>>

NoKey == "none"
Keys == {"active", "reauth_required"}
Watched == 0..MaxWatched
NoDecision == [record |-> 0, key |-> NoKey]
Assessment == [record : Watched \ {0}, key : Keys \cup {NoKey}, fresh : BOOLEAN]

(***************************************************************************)
(* refresh(key) of the closure of a record, up to its await, over the      *)
(* flags it finds                                                          *)
(***************************************************************************)
Refresh_(record, key, busyRecord, done, jobs, spinning) ==
  IF record = 0 \/ key = NoKey \/ busyRecord = record \/ key = done
  THEN inFlight' = busyRecord /\ assessing' = spinning /\ assessments' = jobs
  ELSE /\ inFlight' = record
       /\ assessing' = TRUE
       /\ assessments' = jobs \cup {[record |-> record, key |-> key, fresh |-> TRUE]}
       /\ Cardinality(assessments') <= MaxAssessments

(***************************************************************************)
(* The two effects                                                         *)
(***************************************************************************)
\* Another record: a new generation, and nothing is known of it.
Outdated(jobs) == {[j EXCEPT !.fresh = FALSE, !.key = NoKey] : j \in jobs}

WatchRecord(record, key) ==
  /\ record # watched
  /\ watched' = record
  /\ newest' = IF record > newest THEN record ELSE newest
  /\ latest' = IF record = 0 THEN NoKey ELSE key
  /\ assessed' = NoKey /\ decision' = NoDecision
  /\ Refresh_(record, key, inFlight, NoKey, Outdated(assessments), FALSE)
  /\ UNCHANGED <<question, reauthing>>

\* The snapshot changed in a way that matters.
KeyChanges(key) ==
  /\ watched # 0 /\ key # latest
  /\ latest' = key
  /\ Refresh_(watched, key, inFlight, assessed, assessments, assessing)
  /\ UNCHANGED <<watched, newest, assessed, decision, question, reauthing>>

(***************************************************************************)
(* refresh() after its await: accept the answer, then follow up            *)
(***************************************************************************)
\* Fault: no follow-up.
AssessmentEnds_NoFollowUp(job, done) ==
  /\ inFlight' = IF inFlight = job.record THEN 0 ELSE inFlight
  /\ assessments' = assessments \ {job}
  /\ assessing' = (assessing /\ ~job.fresh)

\* The follow-up is a refresh of the same closure, for the latest key.
AssessmentEnds(job, done) ==
  LET released == IF inFlight = job.record THEN 0 ELSE inFlight
      others == assessments \ {job}
  IN  IF job.fresh
      THEN Refresh_(job.record, latest, released, done, others, FALSE)
      ELSE /\ inFlight' = released /\ assessments' = others
           /\ UNCHANGED assessing

AssessmentAnswered(job) ==
  /\ job \in assessments
  /\ IF job.fresh /\ job.key = latest
     THEN /\ decision' = [record |-> job.record, key |-> job.key]
          /\ assessed' = job.key
     ELSE UNCHANGED <<decision, assessed>>
  /\ AssessmentEnds(job, assessed')
  /\ UNCHANGED <<watched, newest, latest, question, reauthing>>

AssessmentFails(job) ==
  /\ job \in assessments
  /\ AssessmentEnds(job, assessed)
  /\ UNCHANGED <<watched, newest, latest, assessed, decision, question, reauthing>>

(***************************************************************************)
(* The widget                                                              *)
(***************************************************************************)
\* One question at a time, about the record of the moment.
SubmitQuestion ==
  /\ watched # 0 /\ question = 0
  /\ question' = watched
  /\ UNCHANGED <<watched, newest, latest, assessed, inFlight, decision, assessing,
                 assessments, reauthing>>

\* The answer, or an apology, is appended whatever is watched by now.
QuestionAnswered ==
  /\ question # 0
  /\ question' = 0
  /\ UNCHANGED <<watched, newest, latest, assessed, inFlight, decision, assessing,
                 assessments, reauthing>>

\* The recovery panel of a record that requires a reauthentication.
WidgetReauth ==
  /\ reauthing = 0 /\ watched # 0 /\ latest = "reauth_required"
  /\ reauthing' = watched
  /\ UNCHANGED <<watched, newest, latest, assessed, inFlight, decision, assessing,
                 assessments, question>>

\* reauthenticate() has put another record in its place; runAssessment() is still the
\* one of the panel's render.
WidgetReauthenticated ==
  /\ reauthing # 0 /\ watched \notin {0, reauthing}
  /\ reauthing' = 0
  /\ Refresh_(reauthing, latest, inFlight, assessed, assessments, assessing)
  /\ UNCHANGED <<watched, newest, latest, assessed, decision, question>>

WidgetReauthFails ==
  /\ reauthing # 0
  /\ reauthing' = 0
  /\ UNCHANGED <<watched, newest, latest, assessed, inFlight, decision, assessing,
                 assessments, question>>

(***************************************************************************)
(* Specification                                                           *)
(***************************************************************************)
QiraInit ==
  /\ watched = 0 /\ newest = 0 /\ latest = NoKey /\ assessed = NoKey
  /\ inFlight = 0 /\ decision = NoDecision /\ assessing = FALSE
  /\ assessments = {} /\ question = 0 /\ reauthing = 0

\* The monitoring context goes on to the next record, loses it, or recovers it.
MonitoringMoves ==
  \/ \E record \in {0, newest, newest + 1} \cap Watched, key \in Keys :
       WatchRecord(record, key)
  \/ \E key \in Keys : KeyChanges(key)

QiraNext ==
  \/ MonitoringMoves
  \/ \E job \in assessments : AssessmentAnswered(job) \/ AssessmentFails(job)
  \/ SubmitQuestion \/ QuestionAnswered
  \/ WidgetReauth \/ WidgetReauthenticated \/ WidgetReauthFails

QiraSpec == QiraInit /\ [][QiraNext]_qiraVars

LatestAnswered ==
  \E job \in assessments : job.fresh /\ job.key = latest /\ AssessmentAnswered(job)
EarlierEnds ==
  \E job \in assessments :
    ~(job.fresh /\ job.key = latest) /\ (AssessmentAnswered(job) \/ AssessmentFails(job))

\* A request ends in an answer or an error, and does not fail for ever.
QiraFairness == WF_qiraVars(EarlierEnds) /\ SF_qiraVars(LatestAnswered)

(***************************************************************************)
(* Properties                                                              *)
(***************************************************************************)
\* Every variable keeps its type.
QiraTypeOK ==
  /\ watched \in Watched /\ newest \in Watched
  /\ latest \in Keys \cup {NoKey} /\ assessed \in Keys \cup {NoKey}
  /\ inFlight \in Watched
  /\ decision \in [record : Watched, key : Keys \cup {NoKey}]
  /\ assessing \in BOOLEAN /\ assessments \subseteq Assessment
  /\ question \in Watched /\ reauthing \in Watched

\* Once the monitoring state stops changing, a decision on the screen is one asked for
\* that state ("closes the WARNING -> SECURE race where an older response could be
\* accepted after the monitoring snapshot had already recovered").
DecisionCatchesUp ==
  <>[][UNCHANGED <<watched, latest>>]_qiraVars
    => <>[](decision = NoDecision \/ decision.key = latest)

\* The decision on the screen is one about the record that is watched ("so a stale
\* decision from the PREVIOUS session never lingers on screen").
DecisionOfThisRecord == decision # NoDecision => decision.record = watched
=============================================================================
