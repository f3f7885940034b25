----------------------------- MODULE AdminLists -----------------------------
(***************************************************************************)
(* The lists an administrator works on (src/frontend/src/pages): users,    *)
(* intents, devices and incidents in AdminDashboard.jsx, and the pages     *)
(* IntentHistoryPage.jsx, PolicyManagementPage.jsx and AuditLogsPage.jsx.  *)
(*                                                                         *)
(* A list is what the server answered for a filter at one of its versions; *)
(* a version is a change to the data behind the list.  A request is served *)
(* when it is sent.  No answer is called off when the filter changes, and  *)
(* answers arrive in any order; equal answers on their way count as one.   *)
(***************************************************************************)
EXTENDS Naturals, FiniteSets

CONSTANTS
  MaxVersion,   \* bound: changes to the data behind a list
  MaxLoads      \* bound: answers of a list on their way

ASSUME ListsAssumption == MaxVersion \in Nat \ {0} /\ MaxLoads \in Nat \ {0}

VARIABLES
  tab,          \* the panel or page that is mounted
  filter,       \* its filter
  version,      \* the server: changes so far
  rows,         \* the list shown, version 0 before the first answer
  spinner,      \* `loading': the list is hidden
  loads,        \* answers of load() on their way
  changes,      \* filters of the renders whose change waits for its answer
  lookedUp,     \* DevicesPanel: the status card, "none" without one
  lookups,      \* DevicesPanel: answers of checkDevice() on their way
  deviceGone    \* the server: the device of the form is revoked

lists == <<filter, rows, spinner, loads, changes>>
devices == <<lookedUp, lookups, deviceGone>>
listVars == <<tab, version, lists, devices>>

Tabs == {"users", "intents", "incidents", "devices", "history", "policies", "audit"}
Filters(t) == IF t = "intents" THEN {"draft", "all"}
              ELSE IF t = "incidents" THEN {"unresolved", "all"} ELSE {"all"}
FirstFilter(t) == IF t = "intents" THEN "draft"
                  ELSE IF t = "incidents" THEN "unresolved" ELSE "all"
AllFilters == UNION {Filters(t) : t \in Tabs}

\* What an answer shows; `spins' when its load hid the list.
Reads(f, spins) == [filter |-> f, version |-> version, spins |-> spins]
NoRows == [filter |-> "all", version |-> 0]

\* The panels whose load() hides the list, those that repeat it, and those whose
\* reload after a change hides the list as well.
Spinning == {"users", "intents", "history", "policies", "audit"}
Polled == {"intents", "history"}
ReloadSpins == {"users", "intents", "policies"}

(***************************************************************************)
(* Mounting a panel loads its list; what the one before kept is gone.      *)
(***************************************************************************)
\* Fault: the filter of the panel before is kept.
SelectTab_KeepsFilter(t) ==
  /\ t # tab
  /\ tab' = t
  /\ UNCHANGED filter
  /\ rows' = NoRows /\ changes' = {}
  /\ spinner' = (t \in Spinning)
  /\ loads' = IF t = "devices" THEN {} ELSE {Reads(filter, t \in Spinning)}
  /\ lookedUp' = "none" /\ lookups' = {}
  /\ UNCHANGED <<version, deviceGone>>

SelectTab(t) ==
  /\ t # tab
  /\ tab' = t
  /\ filter' = FirstFilter(t)
  /\ rows' = NoRows /\ changes' = {}
  /\ spinner' = (t \in Spinning)
  /\ loads' = IF t = "devices" THEN {} ELSE {Reads(FirstFilter(t), t \in Spinning)}
  /\ lookedUp' = "none" /\ lookups' = {}
  /\ UNCHANGED <<version, deviceGone>>

(***************************************************************************)
(* load()                                                                  *)
(***************************************************************************)
Load(f, spins) ==
  /\ Cardinality(loads) < MaxLoads
  /\ loads' = loads \cup {Reads(f, spins)}
  /\ spinner' = (spinner \/ spins)

\* "Refresh", which the policies do not have; the users' button is hidden with the list.
Refresh ==
  /\ tab \notin {"devices", "policies"}
  /\ tab = "users" => ~spinner
  /\ Load(filter, tab \in Spinning)
  /\ UNCHANGED <<tab, version, filter, rows, changes, devices>>

\* Another filter loads its list at once.
SelectFilter(f) ==
  /\ f \in Filters(tab) /\ f # filter
  /\ filter' = f
  /\ Load(f, tab \in Spinning)
  /\ UNCHANGED <<tab, version, rows, changes, devices>>

\* Fault: the interval ends with the first answer.
Poll_Once ==
  /\ tab \in Polled /\ rows.version = 0
  /\ Load(filter, FALSE)
  /\ UNCHANGED <<tab, version, filter, rows, changes, devices>>

\* The intervals of the approval queue and of the history.
Poll ==
  /\ tab \in Polled
  /\ Load(filter, FALSE)
  /\ UNCHANGED <<tab, version, filter, rows, changes, devices>>

\* The last answer wins, and any load that hid the list shows it again.
Loaded(l) ==
  /\ l \in loads
  /\ loads' = loads \ {l}
  /\ rows' = [filter |-> l.filter, version |-> l.version]
  /\ spinner' = (spinner /\ ~l.spins)
  /\ UNCHANGED <<tab, version, filter, changes, devices>>

LoadFails(l) ==
  /\ l \in loads
  /\ loads' = loads \ {l}
  /\ spinner' = (spinner /\ ~l.spins)
  /\ UNCHANGED <<tab, version, filter, rows, changes, devices>>

(***************************************************************************)
(* Changes.  The row may have been changed by somebody else: the server    *)
(* then refuses, and the list is not loaded again.                         *)
(***************************************************************************)
Change ==
  /\ \/ version < MaxVersion /\ version' = version + 1
     \/ UNCHANGED version
  /\ changes' = changes \cup {filter}
  /\ UNCHANGED <<tab, filter, rows, spinner, loads, devices>>

\* A role other than ADMIN, in a table that is shown.
ChangeRole == tab = "users" /\ ~spinner /\ rows.version # 0 /\ Change

\* Approve or reject a draft.
TransitionIntent == tab = "intents" /\ ~spinner /\ rows.version # 0 /\ Change

\* With a resolution note.
ResolveIncident == tab = "incidents" /\ rows.version # 0 /\ Change

\* The form of the history page; it does not depend on the list.
ApplyTransition == tab = "history" /\ changes = {} /\ Change

CreatePolicy == tab = "policies" /\ Change
DeletePolicy == tab = "policies" /\ ~spinner /\ rows.version # 0 /\ Change

\* It succeeded: load the list of the filter of the render it was pressed in.
ChangeAnswered(f) ==
  /\ f \in changes
  /\ changes' = changes \ {f}
  /\ \/ Load(f, tab \in ReloadSpins)
     \/ UNCHANGED <<loads, spinner>>
  /\ UNCHANGED <<tab, version, filter, rows, devices>>

\* Other users, and other administrators.
OthersChange ==
  /\ version < MaxVersion
  /\ version' = version + 1
  /\ UNCHANGED <<tab, lists, devices>>

(***************************************************************************)
(* DevicesPanel, for a device that is not the administrator's own          *)
(***************************************************************************)
CheckDevice ==
  /\ tab = "devices"
  /\ Cardinality(lookups) < MaxLoads
  /\ lookups' = lookups \cup {IF deviceGone THEN "revoked" ELSE "active"}
  /\ UNCHANGED <<tab, version, lists, lookedUp, deviceGone>>

\* A lookup that failed takes the card away.
DeviceChecked(status) ==
  /\ status \in lookups
  /\ lookups' = lookups \ {status}
  /\ lookedUp' \in {status, "none"}
  /\ UNCHANGED <<tab, version, lists, deviceGone>>

\* A revocation is followed by a lookup; taking it back is not.
RevokeDevice ==
  /\ tab = "devices"
  /\ deviceGone' = TRUE
  /\ lookups' \in {lookups, lookups \cup {"revoked"}}
  /\ UNCHANGED <<tab, version, lists, lookedUp>>

UnrevokeDevice ==
  /\ tab = "devices"
  /\ deviceGone' = FALSE
  /\ UNCHANGED <<tab, version, lists, lookedUp, lookups>>

(***************************************************************************)
(* Specification                                                           *)
(***************************************************************************)
ListsInit ==
  /\ tab = "users" /\ filter = "all" /\ version = 1
  /\ rows = NoRows /\ spinner = TRUE
  /\ loads = {Reads("all", TRUE)} /\ changes = {}
  /\ lookedUp = "none" /\ lookups = {} /\ deviceGone = FALSE

Current(l) == l.filter = filter /\ l.version = version
CurrentLoaded == \E l \in loads : Current(l) /\ Loaded(l)
OutdatedAnswer == \E l \in loads : ~Current(l) /\ (Loaded(l) \/ LoadFails(l))

ListsNext ==
  \/ \E t \in Tabs : SelectTab(t)
  \/ Refresh \/ Poll \/ \E f \in AllFilters : SelectFilter(f)
  \/ \E l \in loads : Loaded(l) \/ LoadFails(l)
  \/ ChangeRole \/ TransitionIntent \/ ResolveIncident \/ ApplyTransition
  \/ CreatePolicy \/ DeletePolicy \/ \E f \in changes : ChangeAnswered(f)
  \/ OthersChange
  \/ CheckDevice \/ \E s \in lookups : DeviceChecked(s)
  \/ RevokeDevice \/ UnrevokeDevice

ListsSpec == ListsInit /\ [][ListsNext]_listVars

\* The interval keeps firing, a request ends in an answer or an error, and the reads of
\* the list as it is do not fail for ever.
ListsFairness ==
  /\ WF_listVars(Poll)
  /\ WF_listVars(OutdatedAnswer) /\ SF_listVars(CurrentLoaded)

(***************************************************************************)
(* Properties                                                              *)
(***************************************************************************)
\* Every variable keeps its type.
ListsTypeOK ==
  /\ tab \in Tabs /\ filter \in Filters(tab) /\ version \in 1..MaxVersion
  /\ rows \in [filter : AllFilters, version : 0..MaxVersion]
  /\ spinner \in BOOLEAN /\ changes \subseteq AllFilters
  /\ loads \subseteq [filter : AllFilters, version : 1..MaxVersion, spins : BOOLEAN]
  /\ lookedUp \in {"none", "active", "revoked"}
  /\ lookups \subseteq {"active", "revoked"} /\ deviceGone \in BOOLEAN

\* The approval queue and the history come to show the list of their filter as it is
\* ("Keep the admin approval queue synchronized with intents created by other users"),
\* also after a late answer for another filter, or an older one, replaced the rows.
RowsHeal ==
  (/\ <>[](tab \in Polled)
   /\ <>[][UNCHANGED <<tab, filter, version>>]_listVars)
    => <>[](rows = [filter |-> filter, version |-> version])
=============================================================================
