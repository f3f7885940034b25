--------------------------- MODULE MonitoringCards ---------------------------
(***************************************************************************)
(* The monitoring surfaces with a life of their own                        *)
(* (src/frontend/src/components/monitoring): the location card             *)
(* (LiveLocationCard.jsx), the check of the stored token                   *)
(* (CookieSessionIntegrityCard.jsx), and the badge's menu with what it     *)
(* fetches when it is opened (MonitoringBadge.jsx).                        *)
(*                                                                         *)
(* The provider is the environment: it watches a record or not, and says   *)
(* whether the session is known to be revoked.  A token is a number, and   *)
(* so is its digest.                                                       *)
(***************************************************************************)
EXTENDS Naturals, FiniteSets

CONSTANTS
  Tokens,      \* tokens the storage may hold, not 0
  MaxDigests   \* bound: checks whose digest is being computed

ASSUME CardsAssumption == Tokens \subseteq Nat \ {0} /\ MaxDigests \in Nat \ {0}

VARIABLES
  monitored,      \* isMonitoring
  sessionGone,    \* sessionStatus.revoked
  permission,     \* LiveLocationCard: as it is shown
  locating,       \* a watchPosition runs
  requested,      \* requestedRef
  located,        \* coords
  token,          \* localStorage ibqc_token, 0 for none
  lastDigest,     \* CookieSessionIntegrityCard: lastDigestRef, 0 for null
  sawToken, suspicious,
  digests,        \* tokens of the checks at their await
  integrity,      \* localState
  trust,          \* the server: is the device trusted
  menu,           \* MonitoringBadge: open
  fetches,        \* answers of getDeviceTrust on their way: value, and not cancelled
  trustShown      \* deviceTrust, "none" before an answer

location == <<permission, locating, requested, located>>
cookie == <<token, lastDigest, sawToken, suspicious, digests, integrity>>
badgeMenu == <<trust, menu, fetches, trustShown>>
cardVars == <<monitored, sessionGone, location, cookie, badgeMenu>>

Trust == {"trusted", "revoked"}

(***************************************************************************)
(* LiveLocationCard                                                        *)
(***************************************************************************)
\* The effects of a change of isMonitoring: one watch while monitoring runs, and asked
\* for again only by the next monitoring.
MonitoringChanges ==
  /\ monitored' = ~monitored
  /\ locating' = (~monitored /\ ~requested)
  /\ requested' = ~monitored
  /\ UNCHANGED <<sessionGone, permission, located, cookie, badgeMenu>>

\* The browser reports a permission, without being asked and when it changes.
PermissionReported(p) ==
  /\ permission' = p
  /\ UNCHANGED <<monitored, sessionGone, locating, requested, located, cookie, badgeMenu>>

PositionReported ==
  /\ locating
  /\ permission' = "granted" /\ located' = TRUE
  /\ UNCHANGED <<monitored, sessionGone, locating, requested, cookie, badgeMenu>>

PositionRefused ==
  /\ locating
  /\ permission' \in {"denied", permission}
  /\ UNCHANGED <<monitored, sessionGone, locating, requested, located, cookie, badgeMenu>>

\* A position of an earlier monitoring counts.
LocationActive == monitored /\ permission = "granted" /\ located

(***************************************************************************)
(* CookieSessionIntegrityCard                                              *)
(***************************************************************************)
\* Signing in, out, or again in this tab; another tab's change is an event here.
TokenChanges(t) ==
  /\ t # token
  /\ token' = t
  /\ UNCHANGED <<monitored, sessionGone, location, lastDigest, sawToken, suspicious,
                 digests, integrity, badgeMenu>>

OtherTabChanges(t) ==
  /\ t # token
  /\ token' = t /\ suspicious' = TRUE
  /\ UNCHANGED <<monitored, sessionGone, location, lastDigest, sawToken, digests,
                 integrity, badgeMenu>>

\* Fault: the token is checked once, when the card is mounted.
IntegrityCheck_Once ==
  /\ ~sawToken /\ Cardinality(digests) < MaxDigests
  /\ IF token = 0 THEN UNCHANGED <<sawToken, digests, integrity>>
     ELSE /\ sawToken' = TRUE /\ digests' = digests \cup {token}
          /\ UNCHANGED integrity
  /\ UNCHANGED <<monitored, sessionGone, location, token, lastDigest, suspicious,
                 badgeMenu>>

\* check(), every 6 seconds, up to its await.
IntegrityCheck ==
  /\ Cardinality(digests) < MaxDigests
  /\ IF token = 0
     THEN /\ integrity' = IF sawToken THEN "CHANGED" ELSE integrity
          /\ UNCHANGED <<sawToken, digests>>
     ELSE /\ sawToken' = TRUE
          /\ digests' = digests \cup {token}
          /\ UNCHANGED integrity
  /\ UNCHANGED <<monitored, sessionGone, location, token, lastDigest, suspicious,
                 badgeMenu>>

\* The rest of it: the flag and the last digest are those of now.
TokenDigested(t) ==
  /\ t \in digests
  /\ digests' = digests \ {t}
  /\ lastDigest' = t
  /\ integrity' = IF suspicious THEN "SUSPICIOUS"
                  ELSE IF lastDigest \notin {0, t} THEN "CHANGED" ELSE "NORMAL"
  /\ UNCHANGED <<monitored, sessionGone, location, token, sawToken, suspicious, badgeMenu>>

SessionReported ==
  /\ sessionGone' = ~sessionGone
  /\ UNCHANGED <<monitored, location, cookie, badgeMenu>>

IntegrityShown == IF sessionGone THEN "INVALIDATED" ELSE integrity

\* The cards are on the dashboard only: leaving it forgets what they knew.
RemountCards ==
  /\ permission' = "not_requested" /\ located' = FALSE
  /\ locating' = monitored /\ requested' = monitored
  /\ lastDigest' = 0 /\ sawToken' = FALSE /\ suspicious' = FALSE
  /\ digests' = {} /\ integrity' = "NORMAL"
  /\ UNCHANGED <<monitored, sessionGone, token, badgeMenu>>

(***************************************************************************)
(* MonitoringBadge                                                         *)
(***************************************************************************)
\* Opening fetches; closing, by the button or a click outside, cancels the fetches.
ToggleMenu ==
  /\ menu' = ~menu
  /\ fetches' = {[f EXCEPT !.live = FALSE] : f \in fetches}
                \cup (IF menu THEN {} ELSE {[value |-> trust, live |-> TRUE]})
  /\ UNCHANGED <<monitored, sessionGone, location, cookie, trust, trustShown>>

\* An answer, or an error, of a fetch that was not cancelled is shown.
TrustFetched(f) ==
  /\ f \in fetches
  /\ fetches' = fetches \ {f}
  /\ trustShown' \in IF f.live THEN {f.value, "none"} ELSE {trustShown}
  /\ UNCHANGED <<monitored, sessionGone, location, cookie, trust, menu>>

TrustChanges ==
  /\ trust' \in Trust \ {trust}
  /\ UNCHANGED <<monitored, sessionGone, location, cookie, menu, fetches, trustShown>>

(***************************************************************************)
(* Specification                                                           *)
(***************************************************************************)
CardsInit ==
  /\ monitored = FALSE /\ sessionGone = FALSE
  /\ permission = "not_requested" /\ locating = FALSE /\ requested = FALSE
  /\ located = FALSE
  /\ token = 0 /\ lastDigest = 0 /\ sawToken = FALSE /\ suspicious = FALSE
  /\ digests = {} /\ integrity = "NORMAL"
  /\ trust = "trusted" /\ menu = FALSE /\ fetches = {} /\ trustShown = "none"

AnyDigested == \E t \in digests : TokenDigested(t)

\* The three have nothing in common but the page they are on.
LocationNext ==
  \/ MonitoringChanges \/ PositionReported \/ PositionRefused \/ RemountCards
  \/ \E p \in {"granted", "denied"} : PermissionReported(p)
IntegrityNext ==
  \/ \E t \in Tokens \cup {0} : TokenChanges(t) \/ OtherTabChanges(t)
  \/ IntegrityCheck \/ AnyDigested \/ SessionReported \/ RemountCards
MenuNext ==
  \/ ToggleMenu \/ TrustChanges
  \/ \E f \in fetches : TrustFetched(f)

CardsNext == LocationNext \/ IntegrityNext \/ MenuNext

CardsSpec == CardsInit /\ [][CardsNext]_cardVars

(***************************************************************************)
(* Properties                                                              *)
(***************************************************************************)
\* Every variable keeps its type; a position is watched only while monitoring runs, and
\* only the fetch of an open menu may still be shown.
CardsTypeOK ==
  /\ monitored \in BOOLEAN /\ sessionGone \in BOOLEAN
  /\ permission \in {"not_requested", "granted", "denied"}
  /\ locating \in BOOLEAN /\ requested \in BOOLEAN /\ located \in BOOLEAN
  /\ locating => monitored
  /\ token \in Tokens \cup {0} /\ lastDigest \in Tokens \cup {0}
  /\ sawToken \in BOOLEAN /\ suspicious \in BOOLEAN /\ digests \subseteq Tokens
  /\ integrity \in {"NORMAL", "CHANGED", "SUSPICIOUS"}
  /\ trust \in Trust /\ menu \in BOOLEAN
  /\ fetches \subseteq [value : Trust, live : BOOLEAN]
  /\ \A f \in fetches : f.live => menu
  /\ trustShown \in Trust \cup {"none"}

\* A token changed by another tab is reported as such in the end and for good, although
\* digests of earlier checks are still being computed when it changes and although the
\* token may rotate again ("specifically flags the token being touched from elsewhere").
TamperShown ==
  <>[](suspicious /\ token # 0) => <>[](integrity = "SUSPICIOUS")
=============================================================================
