-------------------------- MODULE RevocableSessions --------------------------
(***************************************************************************)
(* What session authority promises, without handlers, copies or failures:  *)
(* a session that was revoked comes back only to an ADMIN who owns it, or  *)
(* for a grant, under a new version; a grant pays for one restoration; no  *)
(* session changes hands, and a device has one owner for good.             *)
(* SessionAuthority implements it when requests do not overlap.            *)
(***************************************************************************)
EXTENDS Naturals

CONSTANTS Sessions, Devices, Requests, Users, Admins, NoSession, NoUser

VARIABLES
  session,  \* the document of each session, or NoSession
  owner,    \* the owner of each device, or NoUser
  grant,    \* the session each approved request is for, or NoSession
  spent     \* the requests that have restored their session

vars == <<session, owner, grant, spent>>

Init ==
  /\ session = [s \in Sessions |-> NoSession]
  /\ owner   = [d \in Devices |-> NoUser]
  /\ grant   = [r \in Requests |-> NoSession]
  /\ spent   = {}

Exists(s) == session[s] # NoSession

Open(s, u, d) ==
  /\ ~Exists(s)
  /\ session' = [session EXCEPT ![s] =
                   [user |-> u, device |-> d, revoked |-> FALSE, version |-> 1]]
  /\ UNCHANGED <<owner, grant, spent>>

\* The document goes on as one that is not revoked, under the next version.
Renewed(document) == [document EXCEPT !.revoked = FALSE, !.version = @ + 1]

NextVersion(s) ==
  /\ session' = [session EXCEPT ![s] = Renewed(session[s])]
  /\ UNCHANGED <<owner, grant>>

Renew(s) ==
  Exists(s) /\ ~session[s].revoked /\ NextVersion(s) /\ UNCHANGED spent

RestoreOwn(s) ==
  Exists(s) /\ session[s].user \in Admins /\ NextVersion(s) /\ UNCHANGED spent

RestoreByGrant(s, r) ==
  /\ Exists(s) /\ grant[r] = s /\ r \notin spent
  /\ NextVersion(s)
  /\ spent' = spent \cup {r}

Revoke(s) ==
  /\ Exists(s)
  /\ session' = [session EXCEPT ![s].revoked = TRUE]
  /\ UNCHANGED <<owner, grant, spent>>

Grant(r, s) ==
  /\ grant[r] = NoSession
  /\ grant' = [grant EXCEPT ![r] = s]
  /\ UNCHANGED <<session, owner, spent>>

Claim(d, u) ==
  /\ owner[d] = NoUser
  /\ owner' = [owner EXCEPT ![d] = u]
  /\ UNCHANGED <<session, grant, spent>>

Next ==
  \/ \E s \in Sessions :
       \/ \E u \in Users, d \in Devices : Open(s, u, d)
       \/ Renew(s) \/ RestoreOwn(s) \/ Revoke(s)
       \/ \E r \in Requests : RestoreByGrant(s, r) \/ Grant(r, s)
  \/ \E d \in Devices, u \in Users : Claim(d, u)

Spec == Init /\ [][Next]_vars
=============================================================================
