--------------------------- MODULE MonitoringViews ---------------------------
(***************************************************************************)
(* What the surfaces of the browser make of the monitoring provider's      *)
(* state (src/frontend/src/components/monitoring: monitoringState.js,      *)
(* SecurityMonitoringCard, LiveMonitoringPanel, MonitoringBadge; the       *)
(* administrator's live monitor in pages/AdminDashboard.jsx).              *)
(*                                                                         *)
(* A surface is a function of that state; "active" is the only value that  *)
(* is shown as SECURE.                                                     *)
(***************************************************************************)
EXTENDS MonitoringClient

\* deriveMonitoringState
DeriveMonitoringState(required) ==
  IF ~Watching THEN IF required THEN "reauth_required" ELSE "off"
  ELSE IF connection = "lost" THEN "warning" ELSE snapshot.status

Card == DeriveMonitoringState(reauthRequired)

\* The panel does not pass reauthRequired on.
Panel == DeriveMonitoringState(FALSE)

Badge == IF Watching /\ connection = "lost" THEN "connection lost"
         ELSE DeriveMonitoringState(reauthRequired)

\* The administrator's monitor has a label of its own, which does not ask for the
\* connection; with a confirmed face, "active" is SECURE there too.
AdminLabel ==
  IF ~Watching /\ reauthRequired THEN "reauth_required"
  ELSE IF snapshot = NoSnapshot THEN "starting" ELSE snapshot.status

\* The camera is open while a record is watched or a returning user is verified.
CameraOpen == monitoringSessionId # 0 \/ returning

(***************************************************************************)
(* Properties                                                              *)
(***************************************************************************)
\* A revocation that stays reaches the page: the pages end up blocked, or the
\* connection is reported lost, and card, panel and badge stop showing SECURE for good,
\* whatever late answer to an earlier request arrives.
RevocationSticks ==
  (<>[]server.revoked)
    => <>[](/\ Blocked \/ connection = "lost"
            /\ "active" \notin {Card, Panel, Badge})

(***************************************************************************)
(* What a comment says and the code does not do.                           *)
(***************************************************************************)
\* "Every monitoring surface must use this function": the administrator's label is
\* SECURE only while the function says so.
AdminLabelDerived == AdminLabel = "active" => Card = "active"
=============================================================================
