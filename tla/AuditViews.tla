------------------------------ MODULE AuditViews ------------------------------
(***************************************************************************)
(* The pages that tell whether the audit chain is intact                   *)
(* (src/frontend/src/pages): the dashboard (Dashboard.jsx) and the risk    *)
(* analysis (VisualizationPage.jsx), which ask again and again, and the    *)
(* audit trail (AuditLogsPage.jsx), which asks when it is told to.  Qira's *)
(* decision, which outlives the pages, carries the verdict of its moment.  *)
(*                                                                         *)
(* One page is open at a time.  A request carries the verdict of the       *)
(* moment it was served; answers may overtake one another.                 *)
(***************************************************************************)
EXTENDS AuditChain

VARIABLES
  mayRead,     \* is the user an ADMIN or a USER_LEVEL_2
  underWatch,  \* isMonitoring: does the monitoring provider watch a record
  open,        \* the page that is open
  verdict,     \* its copy of the verdict, "none" for null
  verifying,   \* the requests of the open page: what they read, and was it its first
  qiraVerdict  \* audit_chain_intact of Qira's decision, "none" before one

viewVars == <<mayRead, underWatch, open, verdict, verifying, qiraVerdict>>
auditVars == <<chainVars, viewVars>>

Pages == {"dashboard", "risk", "audit"}
ChainVerdict == IF Verifies THEN "intact" ELSE "broken"

\* GET /audit/verify, which is refused to an ordinary employee.
Served == IF mayRead THEN ChainVerdict ELSE "refused"

\* Opening a page forgets what the last one showed and cancels what it asked.
OpenPage(page) ==
  /\ page # open
  /\ open' = page /\ verdict' = "none"
  /\ verifying' = {[says |-> Served, first |-> TRUE]}
  /\ UNCHANGED <<mayRead, underWatch, qiraVerdict>>

AskVerdict ==
  /\ verifying' = verifying \cup {[says |-> Served, first |-> FALSE]}
  /\ UNCHANGED <<mayRead, underWatch, open, verdict, qiraVerdict>>

PollChain == open \in {"dashboard", "risk"} /\ AskVerdict

\* Refresh, on the audit trail.
RefreshTrail == open = "audit" /\ AskVerdict

VerdictRead(read) ==
  /\ read \in verifying /\ read.says # "refused"
  /\ verdict' = read.says /\ verifying' = verifying \ {read}
  /\ UNCHANGED <<mayRead, underWatch, open, qiraVerdict>>

\* Fault: a failed request forgets the verdict on the risk analysis, too.
VerdictLost_Forgets(read) ==
  /\ read \in verifying
  /\ verdict' = IF open = "audit" THEN verdict ELSE "none"
  /\ verifying' = verifying \ {read}
  /\ UNCHANGED <<mayRead, underWatch, open, qiraVerdict>>

\* The dashboard takes an error for "no verdict", the risk analysis only that of its
\* first request; the audit trail shows the error and keeps what it has.
VerdictLost(read) ==
  /\ read \in verifying
  /\ verdict' = IF open = "dashboard" \/ (open = "risk" /\ read.first) THEN "none" ELSE verdict
  /\ verifying' = verifying \ {read}
  /\ UNCHANGED <<mayRead, underWatch, open, qiraVerdict>>

\* Qira assesses on the server, whoever the user is, while a record is watched.
QiraAssesses ==
  /\ underWatch /\ qiraVerdict' = ChainVerdict
  /\ UNCHANGED <<mayRead, underWatch, open, verdict, verifying>>

\* Monitoring starts, ends or goes on with another record; a decision about the one
\* before is not kept.
WatchAnother ==
  /\ underWatch' \in BOOLEAN /\ (underWatch \/ underWatch')
  /\ qiraVerdict' = "none"
  /\ UNCHANGED <<mayRead, open, verdict, verifying>>

\* "System Integrity" and "Audit Chain" of the dashboard.
Compromised == open = "dashboard" /\ verdict = "broken"

\* The system integrity alert of the risk analysis, which without monitoring shows
\* nothing but that Qira waits for it.
AuditTampered ==
  /\ open = "risk" /\ underWatch
  /\ IF verdict # "none" THEN verdict = "broken" ELSE qiraVerdict = "broken"

ViewsInit ==
  /\ ChainInit
  /\ mayRead \in BOOLEAN /\ underWatch = FALSE
  /\ open = "dashboard" /\ verdict = "none" /\ qiraVerdict = "none"
  /\ verifying = {[says |-> Served, first |-> TRUE]}

AnyVerdictRead == \E read \in verifying : VerdictRead(read)
AnyReadEnds == \E read \in verifying : VerdictRead(read) \/ VerdictLost(read)

ViewsNext ==
  \/ \E page \in Pages : OpenPage(page)
  \/ PollChain \/ RefreshTrail \/ AnyReadEnds
  \/ QiraAssesses \/ WatchAnother

AuditNext ==
  \/ ChainNext /\ UNCHANGED viewVars
  \/ ViewsNext /\ UNCHANGED chainVars

AuditSpec == ViewsInit /\ [][AuditNext]_auditVars

(***************************************************************************)
(* Properties                                                              *)
(***************************************************************************)
\* Every variable keeps its type.
AuditTypeOK ==
  /\ \A e \in log : e.id \in 1 .. counter /\ e.user \in Recorders
                    /\ e.timestamp \in 0 .. clock
  /\ \A e, f \in log : e.id = f.id => e = f
  /\ counter \in 0 .. MaxEntries /\ clock \in 0 .. MaxTime /\ overlapped \in BOOLEAN
  /\ \A w \in InProgress : recording[w].step \in {"begun", "linked", "numbered"}
  /\ mayRead \in BOOLEAN /\ underWatch \in BOOLEAN /\ open \in Pages
  /\ verdict \in {"none", "intact", "broken"} /\ qiraVerdict \in {"none", "intact", "broken"}
  /\ verifying \subseteq [says : {"intact", "broken", "refused"}, first : BOOLEAN]

\* Whoever is told that the chain is broken, by a page, by Qira or by an answer still on
\* its way, is told so of a chain that does not verify and never will again, and without a
\* change of a stored entry only recordings that overlapped can have broken it.
AlarmOnlyAfterOverlap ==
  (\/ verdict = "broken" \/ qiraVerdict = "broken"
   \/ \E read \in verifying : read.says = "broken") => ~Verifies /\ overlapped

\* Who may read the log and keeps the risk analysis open while monitored gets the alert of
\* a broken chain in the end and for good, although requests fail, older answers arrive
\* later, and the watched record, with it Qira's decision, is replaced; on the dashboard
\* a failed request takes it away, but it comes back every time.
BreakShown ==
  mayRead =>
    /\ <>[](~Verifies /\ open = "risk" /\ underWatch) => <>[]AuditTampered
    /\ <>[](~Verifies /\ open = "dashboard") => []<>Compromised
=============================================================================
