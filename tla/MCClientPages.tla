--------------------------- MODULE MCClientPages ---------------------------
(***************************************************************************)
(* Small instances of the components of the browser for TLC.               *)
(*                                                                         *)
(* The components share no variable, so a behaviour of all of them is one  *)
(* of each, and each is explored alone: `mounted' names the one that runs, *)
(* and the others stay in their initial states.  The first intent of the   *)
(* cipher pages is approved, and the one handed over, if any; the second   *)
(* may be a draft.                                                         *)
(***************************************************************************)
EXTENDS SignIn, IntentRequestPage, CryptoPages, AccessRequests, AdminLists, QiraClient,
        MonitoringCards, FaceCapture, AuditViews

VARIABLE mounted

vars == <<mounted, signInVars, requestVars, cryptoVars, accessVars, listVars, qiraVars,
          cardVars, faceVars, auditVars>>

Init ==
  /\ mounted \in {"sign-in", "request", "crypto", "access", "lists", "qira",
                  "location", "integrity", "menu", "face", "audit"}
  /\ SignInInit /\ (mounted = "sign-in" \/ ~enrolled)
  /\ RequestInit
  /\ CryptoInit /\ shared.intent \in {0, 1} /\ approval[1] = "approved"
  /\ mounted = "crypto" \/ (shared.intent = 0 /\ \A d \in Descriptors : approval[d] = "approved")
  /\ AccessInit /\ ListsInit /\ QiraInit /\ CardsInit /\ FaceInit
  /\ ViewsInit /\ (mounted = "audit" \/ mayRead)

Next ==
  /\ UNCHANGED mounted
  /\ \/ /\ mounted = "sign-in" /\ SignInNext
        /\ UNCHANGED <<requestVars, cryptoVars, accessVars, listVars, qiraVars, cardVars,
                       faceVars, auditVars>>
     \/ /\ mounted = "request" /\ RequestNext
        /\ UNCHANGED <<signInVars, cryptoVars, accessVars, listVars, qiraVars, cardVars,
                       faceVars, auditVars>>
     \/ /\ mounted = "crypto" /\ CryptoNext
        /\ UNCHANGED <<signInVars, requestVars, accessVars, listVars, qiraVars, cardVars,
                       faceVars, auditVars>>
     \/ /\ mounted = "access" /\ AccessNext
        /\ UNCHANGED <<signInVars, requestVars, cryptoVars, listVars, qiraVars, cardVars,
                       faceVars, auditVars>>
     \/ /\ mounted = "lists" /\ ListsNext
        /\ UNCHANGED <<signInVars, requestVars, cryptoVars, accessVars, qiraVars, cardVars,
                       faceVars, auditVars>>
     \/ /\ mounted = "qira" /\ QiraNext
        /\ UNCHANGED <<signInVars, requestVars, cryptoVars, accessVars, listVars, cardVars,
                       faceVars, auditVars>>
     \/ /\ \/ mounted = "location" /\ LocationNext
           \/ mounted = "integrity" /\ IntegrityNext
           \/ mounted = "menu" /\ MenuNext
        /\ UNCHANGED <<signInVars, requestVars, cryptoVars, accessVars, listVars, qiraVars,
                       faceVars, auditVars>>
     \/ /\ mounted = "face" /\ FaceNext
        /\ UNCHANGED <<signInVars, requestVars, cryptoVars, accessVars, listVars, qiraVars,
                       cardVars, auditVars>>
     \/ /\ mounted = "audit" /\ AuditNext
        /\ UNCHANGED <<signInVars, requestVars, cryptoVars, accessVars, listVars, qiraVars,
                       cardVars, faceVars>>

\* A step of one component leaves the others alone.
InRequest(A) ==
  mounted = "request" /\ A
  /\ UNCHANGED <<accessVars, listVars, qiraVars, cardVars, auditVars>>
InAccess(A) ==
  mounted = "access" /\ A
  /\ UNCHANGED <<requestVars, listVars, qiraVars, cardVars, auditVars>>
InLists(A) ==
  mounted = "lists" /\ A
  /\ UNCHANGED <<requestVars, accessVars, qiraVars, cardVars, auditVars>>
InQira(A) ==
  mounted = "qira" /\ A
  /\ UNCHANGED <<requestVars, accessVars, listVars, cardVars, auditVars>>
InCards(A) ==
  mounted = "integrity" /\ A
  /\ UNCHANGED <<requestVars, accessVars, listVars, qiraVars, auditVars>>
InAudit(A) ==
  mounted = "audit" /\ A
  /\ UNCHANGED <<chainVars, requestVars, accessVars, listVars, qiraVars, cardVars>>

\* The intervals of the pages keep firing, a request ends in an answer or an error, and
\* the requests of a poll do not fail for ever.
IntervalFires == InRequest(AskDecision) \/ InAccess(PollRequests) \/ InLists(Poll)
                 \/ InCards(IntegrityCheck) \/ InAudit(PollChain)
RequestEnds ==
  \/ InRequest(DecisionRead \/ DecisionLost) \/ InAccess(ReadStep)
  \/ InLists(OutdatedAnswer) \/ InQira(EarlierEnds) \/ InCards(AnyDigested)
  \/ InAudit(AnyReadEnds)
RequestSucceeds ==
  \/ InRequest(DecisionRead) \/ InAccess(\E reading \in reads : RequestsRead(reading))
  \/ InLists(CurrentLoaded) \/ InQira(LatestAnswered) \/ InAudit(AnyVerdictRead)

pages == <<requestVars, accessVars, listVars, qiraVars, cardVars, auditVars>>
Spec ==
  /\ Init /\ [][Next]_vars
  /\ WF_pages(IntervalFires) /\ WF_pages(RequestEnds) /\ SF_pages(RequestSucceeds)

\* Every variable of every component keeps its type.
ClientTypeOK ==
  /\ SignInTypeOK /\ RequestTypeOK /\ CryptoTypeOK
  /\ AccessTypeOK /\ ListsTypeOK /\ QiraTypeOK /\ CardsTypeOK
  /\ FaceTypeOK /\ AuditTypeOK
=============================================================================
