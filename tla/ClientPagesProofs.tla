------------------------- MODULE ClientPagesProofs -------------------------
(***************************************************************************)
(* The pages of the browser, for any bounds: LoginPage waits on one screen *)
(* at a time and the shell is shown only with the permissions granted;     *)
(* what a face panel sends is made of its own attempt's frames, and its    *)
(* success is reported once; what a card or the request panel calls        *)
(* approved was approved; and the types of all of them.                    *)
(*                                                                         *)
(* CryptoPagesProofs and AuditViewsProofs prove the two larger components. *)
(* A step of the instance is a step of one component that leaves the       *)
(* others alone, so what is proved of each holds of the instance.          *)
(***************************************************************************)
EXTENDS MCClientPages, CryptoPagesProofs, AuditViewsProofs

-----------------------------------------------------------------------------
(***************************************************************************)
(* Signing in: the inductive invariant.                                    *)
(***************************************************************************)
\* At most one of LoginPage's flags is set, and none on another page.
OneScreen ==
  /\ awaiting \in {{}, {"permissions"}, {"enroll"}, {"verify"}}
  /\ page # "login" => awaiting = {}

\* A callback of LoginPage runs only on the screen that began it.
CallbacksOnTheirScreen ==
  /\ submit # "none" => page = "login" /\ awaiting = {}
  /\ face # 0 => page = "login" /\ awaiting = {"verify"}
  /\ asking # "no" => page = "app" \/ (page = "login" /\ awaiting = {"permissions"})

\* Away from LoginPage a tab that is signed in and past the gate has its consent stored.
ReadyWithConsent == page # "login" /\ login # 0 /\ accessReady => consent = "allow"

\* The bound on the logins leaves one for the form that is being submitted.
LoginLeft == submit \in {"credentials", "device"} => logins < MaxLogins

SignInInv ==
  /\ SignInTypeOK /\ LoginLeft
  /\ OneScreen /\ CallbacksOnTheirScreen /\ ReadyWithConsent

-----------------------------------------------------------------------------
(***************************************************************************)
(* Types.                                                                  *)
(***************************************************************************)
LEMMA LogoutTypes ==
  ASSUME SignInTypeOK, NEW left \in {"none", "allow"}, BeginLogout(left)
  PROVE  /\ login' \in 0..MaxLogins /\ consent' \in {"none", "allow"}
         /\ confidence' \in 0..MaxLogins /\ storedId' \in 0..MaxLogins
         /\ leaving' \subseteq 0..MaxLogins /\ running' \subseteq Logins
<1>1. 0 \in 0..MaxLogins
  BY LoginsAssumption
<1>2. CASE storedId = 0
  BY <1>1, <1>2 DEF SignInTypeOK, BeginLogout, ClearStorage
<1>3. CASE storedId # 0
  BY <1>3 DEF SignInTypeOK, BeginLogout
<1> QED
  BY <1>2, <1>3

LEMMA SignInTypesKept == SignInTypeOK /\ LoginLeft /\ [SignInNext]_signInVars => SignInTypeOK'
<1> SUFFICES ASSUME SignInTypeOK, LoginLeft, [SignInNext]_signInVars PROVE SignInTypeOK'
  OBVIOUS
<1>0. 0 \in 0..MaxLogins
  BY LoginsAssumption
<1> USE <1>0
<1>a. \A l \in 0..MaxLogins : l # 0 => l \in Logins
  BY DEF Logins
<1>b. Logins \subseteq 0..MaxLogins
  BY DEF Logins
<1>1. CASE SignOut
  BY <1>1, LogoutTypes DEF SignInTypeOK, SignOut, screens
<1>2. ASSUME NEW l \in leaving, LogoutDone(l) PROVE SignInTypeOK'
  BY <1>2 DEF SignInTypeOK, LogoutDone, ClearStorage, screens
<1>3. CASE GoToLogin
  BY <1>3 DEF SignInTypeOK, GoToLogin, storage, callbacks
<1>4. CASE GoToDashboard
  BY <1>4 DEF SignInTypeOK, GoToDashboard, storage, callbacks
<1>5. CASE Submit
  BY <1>5 DEF SignInTypeOK, Submit, screens
<1>6. CASE CredentialsAnswered
  BY <1>6 DEF SignInTypeOK, CredentialsAnswered, storage, screens
<1>7. CASE SaveAuth
  <2>1. logins + 1 \in 0..MaxLogins
    <3>1. logins < MaxLogins /\ logins \in 0..MaxLogins
      BY <1>7 DEF SignInTypeOK, LoginLeft, SaveAuth
    <3> QED
      BY <3>1, LoginsAssumption
  <2> QED
    BY <1>7, <2>1 DEF SignInTypeOK, SaveAuth, screens
<1>8. CASE FaceStatusAnswered
  BY <1>8 DEF SignInTypeOK, FaceStatusAnswered, storage
<1>9. CASE Enrolled
  BY <1>9 DEF SignInTypeOK, Enrolled, storage, callbacks
<1>10. CASE ReturnToSignIn
  BY <1>10, LogoutTypes DEF SignInTypeOK, ReturnToSignIn, screens
<1>11. CASE VerifyFace
  BY <1>11 DEF SignInTypeOK, VerifyFace, storage, screens
<1>12. CASE FaceVerified
  BY <1>12, <1>a DEF SignInTypeOK, FaceVerified
<1>13. CASE FaceFails
  BY <1>13 DEF SignInTypeOK, FaceFails, storage, screens
<1>14. CASE Ask
  BY <1>14 DEF SignInTypeOK, Ask, storage, screens
<1>15. CASE Granted
  BY <1>15 DEF SignInTypeOK, Granted
<1>16. CASE Denied
  BY <1>16, LogoutTypes DEF SignInTypeOK, Denied
<1>17. CASE StartWithConfidence
  BY <1>17, <1>a DEF SignInTypeOK, StartWithConfidence, Start, Provider, Shell, screens
<1>18. CASE StartVerified
  BY <1>18, <1>a DEF SignInTypeOK, StartVerified, Start, Provider, Shell, storage, screens
<1>19. ASSUME NEW l \in starting, StartAnswered(l) PROVE SignInTypeOK'
  BY <1>19, <1>b DEF SignInTypeOK, StartAnswered, screens
<1>20. CASE RecoverRecord
  BY <1>20 DEF SignInTypeOK, RecoverRecord, screens
<1>21. CASE ReloadTab
  BY <1>21 DEF SignInTypeOK, ReloadTab, storage
<1>22. CASE UNCHANGED signInVars
  BY <1>22 DEF SignInTypeOK, signInVars, storage, screens, callbacks
<1> QED
  BY <1>1, <1>2, <1>3, <1>4, <1>5, <1>6, <1>7, <1>8, <1>9, <1>10, <1>11, <1>12, <1>13,
     <1>14, <1>15, <1>16, <1>17, <1>18, <1>19, <1>20, <1>21, <1>22 DEF SignInNext

LEMMA LoginLeftKept == SignInTypeOK /\ LoginLeft /\ [SignInNext]_signInVars => LoginLeft'
<1> SUFFICES ASSUME SignInTypeOK, LoginLeft, [SignInNext]_signInVars PROVE LoginLeft'
  OBVIOUS
<1>1. CASE Submit
  BY <1>1 DEF LoginLeft, Submit
<1>2. CASE CredentialsAnswered
  BY <1>2 DEF LoginLeft, CredentialsAnswered
<1>3. CASE SaveAuth
  BY <1>3 DEF LoginLeft, SaveAuth
<1>4. CASE FaceStatusAnswered
  BY <1>4 DEF LoginLeft, FaceStatusAnswered
<1>5. CASE ReloadTab
  BY <1>5 DEF LoginLeft, ReloadTab
<1>6. CASE UNCHANGED <<submit, logins>>
  BY <1>6 DEF LoginLeft
<1> QED
  BY <1>1, <1>2, <1>3, <1>4, <1>5, <1>6
  DEF SignInNext, SignOut, LogoutDone, GoToLogin, GoToDashboard, Enrolled, ReturnToSignIn,
      VerifyFace, FaceVerified, FaceFails, Ask, Granted, Denied, StartWithConfidence,
      StartVerified, Start, StartAnswered, RecoverRecord, signInVars, callbacks

-----------------------------------------------------------------------------
(***************************************************************************)
(* The screens.                                                            *)
(***************************************************************************)
ScreenVars == <<page, awaiting, submit, face, asking>>

Screens == OneScreen /\ CallbacksOnTheirScreen

LEMMA ScreensKept == SignInTypeOK /\ Screens /\ [SignInNext]_signInVars => Screens'
<1> SUFFICES ASSUME SignInTypeOK, Screens, [SignInNext]_signInVars PROVE Screens'
  OBVIOUS
<1> USE DEF Screens, OneScreen, CallbacksOnTheirScreen
<1>1. CASE UNCHANGED ScreenVars
  BY <1>1 DEF ScreenVars
<1>2. CASE GoToLogin \/ GoToDashboard
  BY <1>2 DEF GoToLogin, GoToDashboard, callbacks
<1>3. CASE Submit
  BY <1>3 DEF Submit, Screen, screens
<1>4. CASE CredentialsAnswered
  BY <1>4 DEF CredentialsAnswered, screens
<1>5. CASE SaveAuth
  BY <1>5 DEF SaveAuth, screens
<1>6. CASE FaceStatusAnswered
  BY <1>6 DEF FaceStatusAnswered
<1>7. CASE Enrolled
  BY <1>7 DEF Enrolled, Screen, callbacks
<1>8. CASE VerifyFace
  BY <1>8 DEF VerifyFace, Screen, screens
<1>9. CASE FaceVerified
  BY <1>9 DEF FaceVerified
<1>10. CASE FaceFails
  BY <1>10 DEF FaceFails, screens
<1>11. CASE Ask
  BY <1>11 DEF Ask, AskedHere, Screen, Gate, Shell, screens
<1>12. CASE Granted
  BY <1>12 DEF Granted, AskedHere, Screen, Gate, Shell
<1>13. CASE Denied
  BY <1>13 DEF Denied, AskedHere, Screen, Gate, Shell
<1>14. CASE ReloadTab
  BY <1>14 DEF ReloadTab
<1> QED
  BY <1>1, <1>2, <1>3, <1>4, <1>5, <1>6, <1>7, <1>8, <1>9, <1>10, <1>11, <1>12, <1>13, <1>14
  DEF SignInNext, SignOut, LogoutDone, ReturnToSignIn, StartWithConfidence, StartVerified,
      Start, StartAnswered, RecoverRecord, signInVars, callbacks, screens, ScreenVars

-----------------------------------------------------------------------------
(***************************************************************************)
(* The consent.                                                            *)
(***************************************************************************)
\* A logout either forgets the login at once or changes nothing the gate depends on.
LEMMA LogoutKeepsConsent ==
  ASSUME ReadyWithConsent, BeginLogout(consent), UNCHANGED screens
  PROVE  ReadyWithConsent'
BY DEF ReadyWithConsent, BeginLogout, ClearStorage, screens

ConsentVars == <<page, login, accessReady, consent>>

LEMMA ConsentKept ==
  SignInTypeOK /\ Screens /\ ReadyWithConsent /\ [SignInNext]_signInVars => ReadyWithConsent'
<1> SUFFICES ASSUME SignInTypeOK, Screens, ReadyWithConsent, [SignInNext]_signInVars
             PROVE  ReadyWithConsent'
  OBVIOUS
<1>1. CASE UNCHANGED ConsentVars
  BY <1>1 DEF ReadyWithConsent, ConsentVars
<1>2. CASE SignOut \/ ReturnToSignIn
  BY <1>2, LogoutKeepsConsent DEF SignOut, ReturnToSignIn
<1>3. ASSUME NEW l \in leaving, LogoutDone(l) PROVE ReadyWithConsent'
  BY <1>3 DEF ReadyWithConsent, LogoutDone, ClearStorage
<1>4. CASE GoToLogin \/ GoToDashboard
  BY <1>4 DEF ReadyWithConsent, GoToLogin, GoToDashboard, storage
\* The form and the login it makes are on LoginPage.
<1>5. CASE Submit \/ SaveAuth
  BY <1>5 DEF ReadyWithConsent, Submit, SaveAuth, Screen, screens, Screens,
              CallbacksOnTheirScreen
<1>6. CASE FaceVerified
  BY <1>6 DEF ReadyWithConsent, FaceVerified
<1>7. CASE Granted
  BY <1>7 DEF ReadyWithConsent, Granted
<1>8. CASE Denied
  BY <1>8 DEF ReadyWithConsent, Denied
<1>9. CASE ReloadTab
  BY <1>9 DEF ReadyWithConsent, ReloadTab, storage
<1> QED
  BY <1>1, <1>2, <1>3, <1>4, <1>5, <1>6, <1>7, <1>8, <1>9
  DEF SignInNext, CredentialsAnswered, FaceStatusAnswered, Enrolled, VerifyFace, FaceFails,
      Ask, StartWithConfidence, StartVerified, Start, StartAnswered, RecoverRecord,
      signInVars, storage, screens, ConsentVars

-----------------------------------------------------------------------------
(***************************************************************************)
(* The theorems.                                                           *)
(***************************************************************************)
LEMMA SignInInvInit == SignInInit => SignInInv
<1> SUFFICES ASSUME SignInInit PROVE SignInInv
  OBVIOUS
<1>1. 0 \in 0..MaxLogins
  BY LoginsAssumption
<1>2. SignInTypeOK
  BY <1>1 DEF SignInInit, SignInTypeOK
<1>3. LoginLeft
  BY DEF SignInInit, LoginLeft
<1> QED
  BY <1>2, <1>3 DEF SignInInit, SignInInv, OneScreen, CallbacksOnTheirScreen,
              ReadyWithConsent

LEMMA SignInInvStep == SignInInv /\ [SignInNext]_signInVars => SignInInv'
BY SignInTypesKept, LoginLeftKept, ScreensKept, ConsentKept DEF SignInInv, Screens

\* The invariant holds in every reachable state.
THEOREM SignInInvariant == SignInSpec => []SignInInv
<1> QED
  BY SignInInvInit, SignInInvStep, PTL DEF SignInSpec

\* Types are kept (React state and browser storage of the sign-in).
THEOREM SignInTypes == SignInSpec => []SignInTypeOK
<1>1. SignInInv => SignInTypeOK
  BY DEF SignInInv
<1> QED
  BY <1>1, SignInInvariant, PTL

\* The shell, and the monitoring in it, is shown only with the permissions of this login
\* granted: no logout that is late, no reload and no second login opens it without
\* (App.jsx, LoginPage.jsx, SecurityTelemetryConsent.jsx).
THEOREM ShellNeedsConsent == SignInSpec => []ShellOnlyWithConsent
<1>1. SignInInv => ShellOnlyWithConsent
  BY DEF SignInInv, ReadyWithConsent, ShellOnlyWithConsent, Provider, Shell
<1> QED
  BY <1>1, SignInInvariant, PTL

-----------------------------------------------------------------------------
(***************************************************************************)
(* The face panel: the inductive invariant, panel by panel.                *)
(***************************************************************************)
Capturing(p) == panels[p].run \in {"waiting", "looking"}

\* An enrolment that is under way has one frame of every pose before the present one,
\* and a verification fewer frames than it wants.
FramesSoFar(p) ==
  Capturing(p) =>
    IF panels[p].mode = "enroll" THEN panels[p].frames = [i \in 1..panels[p].pose - 1 |-> i]
    ELSE Len(panels[p].frames) < FrameTarget

Asked(p) ==
  panels[p].run = "asking" =>
    IF panels[p].mode = "enroll" THEN panels[p].frames = [i \in 1..Poses |-> i]
    ELSE Len(panels[p].frames) \in 1..FrameTarget

\* The mounted panel offers neither Start nor Retry while its capture runs or after it
\* has reported.
ReportedThenDone(p) ==
  /\ reported[p] \in {0, 1}
  /\ reported[p] = 1 => panels[p].run = "none" /\ (current = p => panels[p].phase = "success")
  /\ current = p /\ panels[p].run # "none" => panels[p].phase \in {"capturing", "processing"}

PanelInv(p) == FramesSoFar(p) /\ Asked(p) /\ ReportedThenDone(p)

FaceInv == FaceTypeOK /\ \A p \in PanelIds : PanelInv(p)

PanelStates == [mode : {"enroll", "verify"}, phase : PanelPhases,
                run : {"none", "waiting", "looking", "asking"},
                pose : 1..Poses, frames : Seq(1..Poses)]

-----------------------------------------------------------------------------
\* The frames of all poses, from those of the poses before the last.
LEMMA NextFrame ==
  ASSUME NEW k \in 1..Poses
  PROVE  /\ Append([i \in 1..k - 1 |-> i], k) = [i \in 1..k |-> i]
         /\ [i \in 1..k |-> i] \in Seq(1..Poses)
<1>1. Poses \in Nat
  BY CaptureAssumption
<1>2. [i \in 1..k - 1 |-> i] \in Seq(1..Poses) /\ Len([i \in 1..k - 1 |-> i]) = k - 1
  BY <1>1
<1>3. [i \in 1..k |-> i] \in Seq(1..Poses) /\ Len([i \in 1..k |-> i]) = k
  BY <1>1
<1>4. Append([i \in 1..k - 1 |-> i], k) = [i \in 1..k |-> i]
  BY <1>1, <1>2, <1>3
<1> QED
  BY <1>3, <1>4

\* A step that changes one panel's state, and reports of no other, keeps what is known
\* of the other panels.
LEMMA OthersKept ==
  ASSUME NEW p \in PanelIds, NEW q \in PanelIds \ {p}, PanelInv(q),
         panels'[q] = panels[q], reported'[q] = reported[q], current' \in {current, p}
  PROVE  PanelInv(q)'
<1>1. FramesSoFar(q)' /\ Asked(q)'
  BY DEF PanelInv, FramesSoFar, Asked, Capturing
<1>2. current' = q => current = q
  OBVIOUS
<1>3. ReportedThenDone(q)'
  BY <1>2 DEF PanelInv, ReportedThenDone
<1> QED
  BY <1>1, <1>3 DEF PanelInv

\* A panel's step gives it the state s.
LEMMA PanelStep ==
  ASSUME FaceInv, NEW p \in PanelIds, NEW s \in PanelStates,
         panels' = [panels EXCEPT ![p] = s], current' = current, camera' = camera,
         reported' = reported \/ reported' = [reported EXCEPT ![p] = @ + 1],
         PanelInv(p)'
  PROVE  FaceInv'
<1>1. panels \in [PanelIds -> PanelStates] /\ reported \in [PanelIds -> Nat]
  BY DEF FaceInv, FaceTypeOK, PanelStates
<1>2. panels' \in [PanelIds -> PanelStates] /\ reported' \in [PanelIds -> Nat]
  BY <1>1
<1>3. FaceTypeOK'
  BY <1>2 DEF FaceInv, FaceTypeOK, PanelStates
<1>4. ASSUME NEW q \in PanelIds \ {p}  PROVE PanelInv(q)'
  <2>1. panels'[q] = panels[q] /\ reported'[q] = reported[q]
    BY <1>1, <1>2
  <2>2. PanelInv(q)
    BY DEF FaceInv
  <2> QED
    BY <2>1, <2>2, OthersKept
<1> QED
  BY <1>3, <1>4 DEF FaceInv

\* What is known of a panel before its step, by the field.
LEMMA PanelFields ==
  ASSUME FaceInv, NEW p \in PanelIds
  PROVE  /\ panels[p] \in PanelStates /\ reported[p] \in {0, 1} /\ PanelInv(p)
         /\ panels[p].frames \in Seq(1..Poses) /\ Len(panels[p].frames) \in Nat
         /\ \A s \in PanelStates : [panels EXCEPT ![p] = s][p] = s
         /\ p \in DOMAIN panels /\ p \in DOMAIN reported
<1>1. panels \in [PanelIds -> PanelStates] /\ reported \in [PanelIds -> Nat]
  BY DEF FaceInv, FaceTypeOK, PanelStates
<1>2. PanelInv(p)
  BY DEF FaceInv
<1>3. panels[p] \in PanelStates
  BY <1>1
<1>4. panels[p].frames \in Seq(1..Poses)
  BY <1>3 DEF PanelStates
<1> QED
  BY <1>1, <1>2, <1>3, <1>4 DEF PanelInv, ReportedThenDone

-----------------------------------------------------------------------------
(***************************************************************************)
(* One lemma per action.                                                   *)
(***************************************************************************)
LEMMA InitInv == FaceInit => FaceInv
<1> SUFFICES ASSUME FaceInit PROVE FaceInv
  OBVIOUS
<1>1. NewPanel("verify") \in PanelStates
  BY CaptureAssumption DEF NewPanel, PanelStates, PanelPhases
<1>2. FaceTypeOK
  <2>1. current \in 0..MaxPanels /\ reported \in [PanelIds -> Nat]
    BY CaptureAssumption DEF FaceInit
  <2>2. panels \in [PanelIds -> PanelStates]
    BY <1>1 DEF FaceInit
  <2>3. camera \in BOOLEAN
    BY DEF FaceInit
  <2> QED
    BY <2>1, <2>2, <2>3 DEF FaceTypeOK, PanelStates
<1>3. ASSUME NEW p \in PanelIds PROVE PanelInv(p)
  <2>1. panels[p].run = "none" /\ reported[p] = 0
    BY DEF FaceInit, NewPanel
  <2> QED
    BY <2>1 DEF PanelInv, FramesSoFar, Asked, ReportedThenDone, Capturing
<1> QED
  BY <1>2, <1>3 DEF FaceInv

LEMMA MountInv ==
  ASSUME FaceInv, NEW p \in PanelIds, NEW mode \in {"enroll", "verify"}, MountPanel(p, mode)
  PROVE  FaceInv'
<1>1. panels \in [PanelIds -> PanelStates] /\ reported \in [PanelIds -> Nat]
  BY DEF FaceInv, FaceTypeOK, PanelStates
<1>2. NewPanel(mode) \in PanelStates
  BY CaptureAssumption DEF NewPanel, PanelStates, PanelPhases
<1>3. FaceTypeOK'
  <2>1. current' \in 0..MaxPanels /\ reported' \in [PanelIds -> Nat]
    BY <1>1, CaptureAssumption DEF MountPanel, PanelIds
  <2>2. panels' \in [PanelIds -> PanelStates]
    BY <1>1, <1>2 DEF MountPanel
  <2>3. camera' \in BOOLEAN
    BY DEF MountPanel
  <2> QED
    BY <2>1, <2>2, <2>3 DEF FaceTypeOK, PanelStates
<1>4. ASSUME NEW q \in PanelIds \ {p}  PROVE PanelInv(q)'
  <2>1. panels'[q] = panels[q] /\ reported'[q] = reported[q] /\ current' = p
    BY <1>1 DEF MountPanel
  <2> QED
    BY <2>1, OthersKept DEF FaceInv
<1>5. panels'[p].run = "none" /\ reported'[p] = 0
  BY <1>1 DEF MountPanel, NewPanel
<1>6. PanelInv(p)'
  BY <1>5 DEF PanelInv, FramesSoFar, Asked, ReportedThenDone, Capturing
<1> QED
  BY <1>3, <1>4, <1>6 DEF FaceInv

LEMMA UnmountInv ==
  ASSUME FaceInv, CameraReady \/ UnmountPanel
  PROVE  FaceInv'
<1>1. panels' = panels /\ reported' = reported /\ current' \in {current, 0}
  BY DEF CameraReady, UnmountPanel
<1>2. FaceTypeOK'
  <2>1. panels \in [PanelIds -> PanelStates] /\ reported \in [PanelIds -> Nat]
    BY DEF FaceInv, FaceTypeOK, PanelStates
  <2>2. current' \in 0..MaxPanels
    BY <1>1, CaptureAssumption DEF FaceInv, FaceTypeOK
  <2>3. camera' \in BOOLEAN
    BY DEF FaceInv, FaceTypeOK, CameraReady, UnmountPanel
  <2>4. panels' \in [PanelIds -> PanelStates] /\ reported' \in [PanelIds -> Nat]
    BY <1>1, <2>1
  <2> QED
    BY <2>2, <2>3, <2>4 DEF FaceTypeOK, PanelStates
<1>3. ASSUME NEW p \in PanelIds PROVE PanelInv(p)'
  <2>1. PanelInv(p) /\ (current' = p => current = p)
    BY <1>1, CaptureAssumption DEF FaceInv, PanelIds
  <2> QED
    BY <1>1, <2>1 DEF PanelInv, FramesSoFar, Asked, ReportedThenDone, Capturing
<1> QED
  BY <1>2, <1>3 DEF FaceInv

LEMMA StartInv ==
  ASSUME FaceInv, NEW p \in PanelIds, HandleStart(p)
  PROVE  FaceInv'
<1> DEFINE s == [panels[p] EXCEPT !.phase = "capturing", !.run = "waiting",
                                  !.pose = 1, !.frames = <<>>]
<1>1. panels[p] \in PanelStates /\ PanelInv(p) /\ p \in DOMAIN panels
  BY PanelFields
<1>2. s \in PanelStates
  <2>1. 1 \in 1..Poses /\ <<>> \in Seq(1..Poses)
    BY CaptureAssumption
  <2> QED
    BY <1>1, <2>1 DEF PanelStates, PanelPhases
<1>3. panels' = [panels EXCEPT ![p] = s]
  BY DEF HandleStart
<1>4. panels'[p] = s
  BY <1>1, <1>3
<1>5. reported[p] = 0 /\ reported' = reported /\ current' = current
  BY <1>1 DEF HandleStart, Startable, PanelInv, ReportedThenDone
<1>6. s.run = "waiting" /\ s.phase = "capturing" /\ s.pose = 1 /\ s.frames = <<>>
  BY <1>1 DEF PanelStates
<1> HIDE DEF s
<1>7. FramesSoFar(p)'
  BY <1>4, <1>6, CaptureAssumption DEF FramesSoFar
<1>8. Asked(p)' /\ ReportedThenDone(p)'
  BY <1>4, <1>5, <1>6 DEF Asked, ReportedThenDone
<1> QED
  BY <1>2, <1>3, <1>5, <1>7, <1>8, PanelStep DEF PanelInv, HandleStart

\* The capture goes on, with another frame or without.
LEMMA GoesOnInv ==
  ASSUME FaceInv, NEW p \in PanelIds, NEW s \in PanelStates, Capturing(p),
         panels' = [panels EXCEPT ![p] = s], UNCHANGED <<current, camera, reported>>,
         s.run \in {"waiting", "looking"}, s.phase = panels[p].phase,
         IF s.mode = "enroll" THEN s.frames = [i \in 1..s.pose - 1 |-> i]
         ELSE Len(s.frames) < FrameTarget
  PROVE  FaceInv'
<1>1. PanelInv(p) /\ p \in DOMAIN panels
  BY PanelFields
<1>2. panels'[p] = s
  BY <1>1
<1>3. FramesSoFar(p)' /\ Asked(p)'
  BY <1>2 DEF FramesSoFar, Asked
<1>4. ReportedThenDone(p)'
  BY <1>1, <1>2 DEF PanelInv, ReportedThenDone, Capturing
<1> QED
  BY <1>3, <1>4, PanelStep DEF PanelInv

\* The capture ends and its frames are sent.
LEMMA AskInv ==
  ASSUME FaceInv, NEW p \in PanelIds, Capturing(p), NEW frames \in Seq(1..Poses),
         Request(p, frames), UNCHANGED <<current, camera, reported>>,
         IF panels[p].mode = "enroll" THEN frames = [i \in 1..Poses |-> i]
         ELSE Len(frames) \in 1..FrameTarget
  PROVE  FaceInv'
<1> DEFINE s == [panels[p] EXCEPT !.frames = frames, !.run = "asking",
                                  !.phase = Shown(p, "processing")]
<1>1. panels[p] \in PanelStates /\ PanelInv(p) /\ p \in DOMAIN panels
  BY PanelFields
<1>2. s \in PanelStates
  BY <1>1 DEF PanelStates, PanelPhases, Shown
<1>3. panels' = [panels EXCEPT ![p] = s]
  BY DEF Request
<1>4. panels'[p] = s
  BY <1>1, <1>3
<1>5. s.run = "asking" /\ s.frames = frames /\ s.mode = panels[p].mode
      /\ (current = p => s.phase = "processing")
  BY <1>1 DEF PanelStates, Shown
<1> HIDE DEF s
<1>6. FramesSoFar(p)' /\ Asked(p)'
  BY <1>4, <1>5 DEF FramesSoFar, Asked, Capturing
<1>7. ReportedThenDone(p)'
  BY <1>1, <1>4, <1>5 DEF PanelInv, ReportedThenDone, Capturing
<1> QED
  BY <1>2, <1>3, <1>6, <1>7, PanelStep DEF PanelInv

\* The capture, or the request, is over.
LEMMA OverInv ==
  ASSUME FaceInv, NEW p \in PanelIds, NEW last \in PanelPhases, panels[p].run # "none",
         panels' = [panels EXCEPT ![p].run = "none", ![p].phase = last],
         UNCHANGED <<current, camera>>,
         \/ reported' = reported
         \/ /\ reported' = [reported EXCEPT ![p] = @ + 1]
            /\ current = p => last = "success"
  PROVE  FaceInv'
<1> DEFINE s == [panels[p] EXCEPT !.run = "none", !.phase = last]
<1>1. /\ panels[p] \in PanelStates /\ PanelInv(p) /\ p \in DOMAIN panels
      /\ reported[p] \in {0, 1} /\ p \in DOMAIN reported
  BY PanelFields
<1>2. s \in PanelStates
  BY <1>1 DEF PanelStates
<1>3. panels' = [panels EXCEPT ![p] = s]
  OBVIOUS
<1>4. panels'[p] = s
  BY <1>1, <1>3
<1>5. s.run = "none" /\ s.phase = last
  BY <1>1 DEF PanelStates
<1> HIDE DEF s
<1>6. FramesSoFar(p)' /\ Asked(p)'
  BY <1>4, <1>5 DEF FramesSoFar, Asked, Capturing
<1>7. reported[p] = 0
  BY <1>1 DEF PanelInv, ReportedThenDone
<1>8. ReportedThenDone(p)'
  BY <1>1, <1>4, <1>5, <1>7 DEF ReportedThenDone
<1> QED
  BY <1>2, <1>3, <1>6, <1>8, PanelStep DEF PanelInv

LEMMA LookInv ==
  ASSUME FaceInv, NEW p \in PanelIds, Look(p) \/ FrameRejected(p)
  PROVE  FaceInv'
<1> DEFINE run == IF Look(p) THEN "looking" ELSE "waiting"
           s == [panels[p] EXCEPT !.run = run]
<1>1. panels[p] \in PanelStates /\ PanelInv(p) /\ Capturing(p)
  BY PanelFields DEF Look, FrameRejected, Capturing
<1>2. run \in {"waiting", "looking"} /\ panels' = [panels EXCEPT ![p].run = run]
  BY DEF Look, FrameRejected
<1> HIDE DEF run
<1>3. /\ s \in PanelStates /\ s.run = run /\ s.mode = panels[p].mode
      /\ s.frames = panels[p].frames /\ s.pose = panels[p].pose /\ s.phase = panels[p].phase
  BY <1>1, <1>2 DEF PanelStates
<1>4. panels' = [panels EXCEPT ![p] = s]
  BY <1>2
<1> HIDE DEF s
<1>5. IF s.mode = "enroll" THEN s.frames = [i \in 1..s.pose - 1 |-> i]
      ELSE Len(s.frames) < FrameTarget
  BY <1>1, <1>3 DEF PanelInv, FramesSoFar
<1>6. UNCHANGED <<current, camera, reported>>
  BY DEF Look, FrameRejected
<1> QED
  BY <1>1, <1>2, <1>3, <1>4, <1>5, <1>6, GoesOnInv

LEMMA PoseInv ==
  ASSUME FaceInv, NEW p \in PanelIds, PoseCaptured(p)
  PROVE  FaceInv'
<1> DEFINE frames == Append(panels[p].frames, panels[p].pose)
<1>1. /\ panels[p] \in PanelStates /\ PanelInv(p) /\ Capturing(p)
      /\ panels[p].mode = "enroll" /\ panels[p].pose \in 1..Poses
      /\ UNCHANGED <<current, camera, reported>>
  BY PanelFields DEF PoseCaptured, Capturing, PanelStates
<1>2. frames = [i \in 1..panels[p].pose |-> i] /\ frames \in Seq(1..Poses)
  <2>1. panels[p].frames = [i \in 1..panels[p].pose - 1 |-> i]
    BY <1>1 DEF PanelInv, FramesSoFar
  <2> QED
    BY <1>1, <2>1, NextFrame
<1> HIDE DEF frames
<1>3. CASE panels[p].pose = Poses
  <2>1. Request(p, frames)
    BY <1>3 DEF PoseCaptured, frames
  <2> QED
    BY <1>1, <1>2, <1>3, <2>1, AskInv
<1>4. CASE panels[p].pose # Poses
  <2> DEFINE next == panels[p].pose + 1
             s == [panels[p] EXCEPT !.frames = frames, !.run = "waiting", !.pose = next]
  <2>1. panels' = [panels EXCEPT ![p] = s]
    BY <1>4 DEF PoseCaptured, frames
  <2>2. next \in 1..Poses /\ next - 1 = panels[p].pose
    BY <1>1, <1>4, CaptureAssumption
  <2> HIDE DEF next
  <2>3. /\ s \in PanelStates /\ s.run = "waiting" /\ s.mode = "enroll"
        /\ s.frames = frames /\ s.pose = next /\ s.phase = panels[p].phase
    BY <1>1, <1>2, <2>2 DEF PanelStates
  <2> HIDE DEF s
  <2>4. s.frames = [i \in 1..s.pose - 1 |-> i]
    BY <1>2, <2>2, <2>3
  <2> QED
    BY <1>1, <2>1, <2>3, <2>4, GoesOnInv
<1> QED
  BY <1>3, <1>4

LEMMA CollectedInv ==
  ASSUME FaceInv, NEW p \in PanelIds, FrameCollected(p)
  PROVE  FaceInv'
<1> DEFINE frames == Append(panels[p].frames, 1)
<1>1. /\ panels[p] \in PanelStates /\ PanelInv(p) /\ Capturing(p)
      /\ panels[p].mode = "verify" /\ panels[p].frames \in Seq(1..Poses)
      /\ UNCHANGED <<current, camera, reported>>
  BY PanelFields DEF FrameCollected, Capturing
<1>2. Len(panels[p].frames) < FrameTarget /\ Len(panels[p].frames) \in Nat
  BY <1>1 DEF PanelInv, FramesSoFar
<1>3. 1 \in 1..Poses
  BY CaptureAssumption
<1>4. frames \in Seq(1..Poses) /\ Len(frames) = Len(panels[p].frames) + 1
  BY <1>1, <1>3
<1> HIDE DEF frames
<1>5. Len(frames) \in 1..FrameTarget
  BY <1>2, <1>4, CaptureAssumption
<1>6. CASE Len(frames) = FrameTarget
  <2>1. Request(p, frames)
    BY <1>6 DEF FrameCollected, frames
  <2> QED
    BY <1>1, <1>4, <1>5, <2>1, AskInv
<1>7. CASE Len(frames) # FrameTarget
  <2> DEFINE s == [panels[p] EXCEPT !.frames = frames, !.run = "waiting"]
  <2>1. panels' = [panels EXCEPT ![p] = s]
    BY <1>7 DEF FrameCollected, frames
  <2>2. /\ s \in PanelStates /\ s.run = "waiting" /\ s.mode = "verify"
        /\ s.frames = frames /\ s.phase = panels[p].phase
    BY <1>1, <1>4 DEF PanelStates
  <2> HIDE DEF s
  <2>3. Len(s.frames) < FrameTarget
    BY <1>5, <1>7, <2>2, CaptureAssumption
  <2> QED
    BY <1>1, <2>1, <2>2, <2>3, GoesOnInv
<1> QED
  BY <1>6, <1>7

LEMMA DeadlineInv ==
  ASSUME FaceInv, NEW p \in PanelIds, DeadlinePasses(p)
  PROVE  FaceInv'
<1>1. /\ PanelInv(p) /\ Capturing(p) /\ panels[p].frames \in Seq(1..Poses)
      /\ panels[p] \in PanelStates /\ UNCHANGED <<current, camera, reported>>
  BY PanelFields DEF DeadlinePasses, Capturing
<1>2. CASE panels[p].mode = "verify" /\ panels[p].frames # <<>>
  <2>1. Len(panels[p].frames) < FrameTarget /\ Len(panels[p].frames) \in Nat \ {0}
    BY <1>1, <1>2 DEF PanelInv, FramesSoFar
  <2>2. Len(panels[p].frames) \in 1..FrameTarget
    BY <2>1, CaptureAssumption
  <2>3. Request(p, panels[p].frames)
    BY <1>2 DEF DeadlinePasses
  <2> QED
    BY <1>1, <1>2, <2>2, <2>3, AskInv
<1>3. CASE ~(panels[p].mode = "verify" /\ panels[p].frames # <<>>)
  <2>1. GiveUp(p) /\ panels[p].run # "none"
    BY <1>3 DEF DeadlinePasses
  <2>2. Shown(p, "fail") \in PanelPhases
    BY <1>1 DEF Shown, PanelPhases, PanelStates
  <2> QED
    BY <1>1, <2>1, <2>2, OverInv DEF GiveUp
<1> QED
  BY <1>2, <1>3

LEMMA EndInv ==
  ASSUME FaceInv, NEW p \in PanelIds, CaptureThrows(p) \/ Accepted(p) \/ NotAccepted(p)
  PROVE  FaceInv'
<1>1. panels[p] \in PanelStates /\ p \in DOMAIN panels
  BY PanelFields
<1>2. panels[p].phase \in PanelPhases
  BY <1>1 DEF PanelStates
<1>3. CASE CaptureThrows(p)
  <2>1. panels' = [panels EXCEPT ![p].run = "none", ![p].phase = panels[p].phase]
    <3> DEFINE s == [panels[p] EXCEPT !.run = "none"]
    <3>1. s = [s EXCEPT !.phase = panels[p].phase]
      BY <1>1 DEF PanelStates
    <3> QED
      BY <1>3, <3>1 DEF CaptureThrows
  <2> QED
    BY <1>2, <1>3, <2>1, OverInv DEF CaptureThrows
<1>4. CASE Accepted(p)
  <2>1. Shown(p, "success") \in PanelPhases /\ (current = p => Shown(p, "success") = "success")
    BY <1>2 DEF Shown, PanelPhases
  <2> QED
    BY <1>4, <2>1, OverInv DEF Accepted
<1>5. CASE NotAccepted(p)
  <2>1. Shown(p, "fail") \in PanelPhases
    BY <1>2 DEF Shown, PanelPhases
  <2> QED
    BY <1>5, <2>1, OverInv DEF NotAccepted, GiveUp
<1> QED
  BY <1>3, <1>4, <1>5

-----------------------------------------------------------------------------
(***************************************************************************)
(* The theorems.                                                           *)
(***************************************************************************)
LEMMA FaceInvInductive == FaceInv /\ [FaceNext]_faceVars => FaceInv'
<1> SUFFICES ASSUME FaceInv, [FaceNext]_faceVars PROVE FaceInv'
  OBVIOUS
<1>1. CASE CameraReady \/ UnmountPanel
  BY <1>1, UnmountInv
<1>2. ASSUME NEW p \in PanelIds, NEW mode \in {"enroll", "verify"}, MountPanel(p, mode)
      PROVE  FaceInv'
  BY <1>2, MountInv
<1>3. ASSUME NEW p \in PanelIds, HandleStart(p) PROVE FaceInv'
  BY <1>3, StartInv
<1>4. ASSUME NEW p \in PanelIds, Look(p) \/ FrameRejected(p) PROVE FaceInv'
  BY <1>4, LookInv
<1>5. ASSUME NEW p \in PanelIds, PoseCaptured(p) PROVE FaceInv'
  BY <1>5, PoseInv
<1>6. ASSUME NEW p \in PanelIds, FrameCollected(p) PROVE FaceInv'
  BY <1>6, CollectedInv
<1>7. ASSUME NEW p \in PanelIds, DeadlinePasses(p) PROVE FaceInv'
  BY <1>7, DeadlineInv
<1>8. ASSUME NEW p \in PanelIds, CaptureThrows(p) \/ Accepted(p) \/ NotAccepted(p)
      PROVE  FaceInv'
  BY <1>8, EndInv
<1>9. CASE UNCHANGED faceVars
  BY <1>9 DEF faceVars, FaceInv, FaceTypeOK, PanelInv, FramesSoFar, Asked, ReportedThenDone,
              Capturing
<1> QED
  BY <1>1, <1>2, <1>3, <1>4, <1>5, <1>6, <1>7, <1>8, <1>9 DEF FaceNext

\* The invariant holds in every reachable state.
THEOREM FaceInvariant == FaceSpec => []FaceInv
<1> QED
  BY InitInv, FaceInvInductive, PTL DEF FaceSpec

\* Types are kept (React state and refs of FaceAuthPanel).
THEOREM FaceTypes == FaceSpec => []FaceTypeOK
<1>1. FaceInv => FaceTypeOK
  BY DEF FaceInv
<1> QED
  BY <1>1, FaceInvariant, PTL

\* A face is enrolled from one frame of every pose of one attempt, and verified with 1 to
\* VERIFY_FRAME_TARGET frames (runEnrollCapture, runVerifyCapture).
THEOREM FramesOfOneAttempt == FaceSpec => []AskedWithItsFrames
<1>1. FaceInv => AskedWithItsFrames
  BY DEF FaceInv, PanelInv, Asked, AskedWithItsFrames
<1> QED
  BY <1>1, FaceInvariant, PTL

\* onSuccess is called at most once for a panel, although its capture is not cancelled
\* when it is closed and may be retried when it fails.
THEOREM SuccessReportedOnce == FaceSpec => []ReportedOnce
<1>1. FaceInv => ReportedOnce
  BY DEF FaceInv, PanelInv, ReportedThenDone, ReportedOnce
<1> QED
  BY <1>1, FaceInvariant, PTL

-----------------------------------------------------------------------------
(***************************************************************************)
(* The intent request page.                                                *)
(***************************************************************************)
\* The creation holds an intent of the server in the state it was created in, the card
\* shows what was read of its intent, and the poll runs while the card shows one.  An
\* intent is never a draft again, and one that was approved stays so or is revoked.
AtLeast(i, s) ==
  /\ i \in RequestIds
  /\ s \in {"draft", "approved", "rejected", "revoked"}
  /\ intentAt[i] # "none"
  /\ s = "approved" => intentAt[i] \in {"approved", "revoked"}
  /\ s \in {"rejected", "revoked"} => intentAt[i] = s

RequestInv ==
  /\ RequestTypeOK
  /\ creation.id # 0 => AtLeast(creation.id, creation.state)
  /\ shown.id # 0 => AtLeast(shown.id, shown.state)
  /\ shown.id = 0 => shown.state = "none" /\ poll = "off"
  /\ poll \notin {"off", "timer"} => AtLeast(shown.id, poll)

LEMMA RequestInvInit == RequestInit => RequestInv
<1> SUFFICES ASSUME RequestInit PROVE RequestInv
  OBVIOUS
<1>1. RequestTypeOK
  BY DEF RequestInit, RequestTypeOK, NoFile, NotCreating, NoCard, States
<1>2. creation.id = 0 /\ shown.id = 0 /\ shown.state = "none" /\ poll = "off"
  BY DEF RequestInit, NotCreating, NoCard
<1> QED
  BY <1>1, <1>2 DEF RequestInv

LEMMA RequestInvStep == RequestInv /\ [RequestNext]_requestVars => RequestInv'
<1> SUFFICES ASSUME RequestInv, [RequestNext]_requestVars PROVE RequestInv'
  OBVIOUS
<1> USE FileAssumption, RequestAssumption
<1>0. RequestTypeOK
  BY DEF RequestInv
<1>1. CASE UNCHANGED <<server_, creation, shown, poll, handedOver>> /\
           (\/ \E f \in FileIds : ChooseFile(f) \/ FileHashed(f)
            \/ ClearAttachment \/ TextMode \/ FileMode)
  <2>1. inputMode' \in {"plaintext", "file"} /\ attachment' \in FileIds \cup {NoFile}
        /\ beingHashed' \subseteq FileIds /\ hashing' \in BOOLEAN
    BY <1>0, <1>1 DEF RequestTypeOK, ChooseFile, FileHashed, ClearAttachment, TextMode, FileMode
  <2> QED
    BY <1>1, <2>1 DEF RequestInv, RequestTypeOK, AtLeast, server_
<1>2. CASE SubmitIntent
  <2>1. UNCHANGED <<inputMode, attachment, beingHashed, hashing, shown, poll, handedOver>>
    BY <1>2 DEF SubmitIntent, form
  <2>2. CASE creation' = [step |-> "create", id |-> 0, state |-> "none"] /\ UNCHANGED server_
    BY <2>1, <2>2 DEF RequestInv, RequestTypeOK, AtLeast, server_, States
  <2>3. ASSUME NEW i \in RequestIds, NEW s \in {"draft", "approved"}, NEW lost \in BOOLEAN,
               intentAt[i] = "none",
               intentAt' = [intentAt EXCEPT ![i] = s],
               namedFile' = [namedFile EXCEPT ![i] = DescriptorFile],
               creation' = [step |-> "create", id |-> IF lost THEN 0 ELSE i, state |-> s]
        PROVE  RequestInv'
    <3>1. DescriptorFile \in FileIds \cup {NoFile}
      BY <1>0 DEF DescriptorFile, RequestTypeOK
    <3>2. RequestTypeOK'
      BY <1>0, <2>1, <2>3, <3>1 DEF RequestTypeOK, States
    <3>3. \A j \in RequestIds : j # i => intentAt'[j] = intentAt[j]
      BY <1>0, <2>3 DEF RequestTypeOK
    <3>4. intentAt'[i] = s
      BY <1>0, <2>3 DEF RequestTypeOK
    <3>5. \A j, t : AtLeast(j, t) => AtLeast(j, t)'
      BY <2>3, <3>3 DEF AtLeast
    <3>6. creation'.id # 0 => AtLeast(creation.id, creation.state)'
      BY <2>3, <3>4 DEF AtLeast
    <3> QED
      BY <2>1, <3>2, <3>5, <3>6 DEF RequestInv
  <2> QED
    BY <1>2, <2>2, <2>3 DEF SubmitIntent
<1>3. CASE IntentCreated
  <2>1. creation.id # 0 /\ AtLeast(creation.id, creation.state)
    BY <1>3 DEF IntentCreated, RequestInv
  <2>2. UNCHANGED <<server_, inputMode, attachment, beingHashed, hashing, handedOver>>
    BY <1>3 DEF IntentCreated, form
  <2>3. shown'.id = creation.id /\ shown'.state = creation.state
    BY <1>3 DEF IntentCreated
  <2>4. creation' \in [step : {"none", "create", "check"}, id : RequestIds \cup {0},
                       state : States]
        /\ (creation'.id # 0 => creation'.id = creation.id /\ creation'.state = creation.state)
    BY <1>0, <1>3 DEF IntentCreated, NotCreating, RequestTypeOK, States
  <2>5. shown' \in [id : RequestIds \cup {0}, state : States] /\ poll' \in {"timer", "off"}
    BY <1>0, <1>3 DEF IntentCreated, RequestTypeOK
  <2>6. RequestTypeOK'
    BY <1>0, <2>2, <2>4, <2>5 DEF RequestTypeOK, server_
  <2> QED
    BY <2>1, <2>2, <2>3, <2>4, <2>5, <2>6 DEF RequestInv, AtLeast, server_
<1>4. CASE SubmitOver
  BY <1>0, <1>4 DEF RequestInv, SubmitOver, NotCreating, RequestTypeOK, States, AtLeast,
                    server_, form
<1>5. CASE AskDecision
  <2>1. shown.id # 0 /\ AtLeast(shown.id, shown.state)
    BY <1>5 DEF RequestInv, AskDecision
  <2>2. intentAt[shown.id] \in States
    BY <1>0, <2>1 DEF RequestTypeOK, AtLeast
  <2>3. AtLeast(shown.id, intentAt[shown.id])
    BY <2>1, <2>2 DEF AtLeast, States
  <2> QED
    BY <1>0, <1>5, <2>1, <2>2, <2>3 DEF RequestInv, AskDecision, RequestTypeOK, AtLeast,
       server_, form
<1>6. CASE DecisionRead
  <2>1. AtLeast(shown.id, poll)
    BY <1>6 DEF RequestInv, DecisionRead
  <2>2. UNCHANGED <<server_, inputMode, attachment, beingHashed, hashing, creation, handedOver>>
    BY <1>6 DEF DecisionRead, form
  <2>3. poll' \in {"timer", "off"} /\ shown'.id = shown.id
        /\ shown'.state \in {shown.state, poll}
        /\ shown' \in [id : RequestIds \cup {0}, state : States]
    BY <1>0, <1>6 DEF DecisionRead, RequestTypeOK
  <2>4. shown.id # 0
    BY <2>1, RequestAssumption DEF AtLeast
  <2>5. RequestTypeOK'
    BY <1>0, <2>2, <2>3 DEF RequestTypeOK, server_
  <2> QED
    BY <2>1, <2>2, <2>3, <2>4, <2>5 DEF RequestInv, AtLeast, server_
<1>7. CASE DecisionLost
  BY <1>0, <1>7 DEF RequestInv, DecisionLost, RequestTypeOK, AtLeast, server_, form
<1>8. CASE AccessEncryption \/ LeaveRequest
  <2>1. DescriptorFile \in FileIds \cup {NoFile}
    BY <1>0 DEF DescriptorFile, RequestTypeOK
  <2>2. UNCHANGED server_ /\ Unmount
    BY <1>8 DEF AccessEncryption, LeaveRequest
  <2>3. handedOver' \in [id : RequestIds \cup {0}, file : FileIds \cup {NoFile}]
    BY <1>0, <1>8, <2>1 DEF AccessEncryption, LeaveRequest, RequestTypeOK
  <2>4. creation'.id = 0 /\ shown'.id = 0 /\ shown'.state = "none" /\ poll' = "off"
    BY <2>2 DEF Unmount, NotCreating, NoCard
  <2>5. RequestTypeOK'
    BY <1>0, <2>2, <2>3 DEF RequestTypeOK, Unmount, NotCreating, NoCard, NoFile, States, server_
  <2> QED
    BY <2>4, <2>5 DEF RequestInv
<1>9. ASSUME NEW i \in RequestIds, DecideIntent(i) PROVE RequestInv'
  <2>1. PICK s \in {"approved", "rejected", "revoked"} :
          /\ intentAt' = [intentAt EXCEPT ![i] = s]
          /\ \/ intentAt[i] = "draft" /\ s # "revoked"
             \/ intentAt[i] = "approved" /\ s = "revoked"
    BY <1>9 DEF DecideIntent
  <2>2. UNCHANGED <<namedFile, inputMode, attachment, beingHashed, hashing, creation, shown,
                    poll, handedOver>>
    BY <1>9 DEF DecideIntent, form
  <2>3. RequestTypeOK'
    BY <1>0, <2>1, <2>2 DEF RequestTypeOK, States
  <2>4. intentAt'[i] = s /\ \A j \in RequestIds : j # i => intentAt'[j] = intentAt[j]
    BY <1>0, <2>1 DEF RequestTypeOK
  <2>5. \A j, t : AtLeast(j, t) => AtLeast(j, t)'
    BY <2>1, <2>4 DEF AtLeast
  <2> QED
    BY <2>2, <2>3, <2>5 DEF RequestInv
<1>10. CASE UNCHANGED requestVars
  BY <1>10 DEF requestVars, server_, form, RequestInv, RequestTypeOK, AtLeast
<1> QED
  BY <1>1, <1>2, <1>3, <1>4, <1>5, <1>6, <1>7, <1>8, <1>9, <1>10
  DEF RequestNext, ChooseFile, FileHashed, ClearAttachment, TextMode, FileMode

\* The invariant holds in every reachable state.
THEOREM RequestInvariant == RequestSpec => []RequestInv
BY RequestInvInit, RequestInvStep, PTL DEF RequestSpec

\* Types are kept.
THEOREM RequestTypes == RequestSpec => []RequestTypeOK
<1>1. RequestInv => RequestTypeOK
  BY DEF RequestInv
<1> QED
  BY <1>1, RequestInvariant, PTL

\* CreateIntentPage offers the encryption only of an intent that was approved: what the
\* creation returned and what pollApproval reads can be old, but a decision is final.
THEOREM ApprovalsOnCards == RequestSpec => []ApprovedCardWasApproved
<1>1. RequestInv => ApprovedCardWasApproved
  BY DEF RequestInv, ApprovedCardWasApproved, AtLeast
<1> QED
  BY <1>1, RequestInvariant, PTL

-----------------------------------------------------------------------------
(***************************************************************************)
(* Access requests.                                                        *)
(***************************************************************************)
\* The request was approved, and is still or was used.
WasApproved(r) == r \in AccessIds /\ requestStatus[r] \in {"approved", "consumed"}

\* What an answer says was approved was approved; a face check that runs names a request.
ReadingsTrue ==
  \A reading \in reads : reading.status = "approved" => WasApproved(reading.id)
PhaseTrue ==
  /\ phase = "approved" => WasApproved(lastRequest)
  /\ faceCheck.step = "running" => WasApproved(faceCheck.id)

\* Requests are filed in order, so one of those filed is the newest.
HasNewest == Issued # {} => \E i \in Issued : \A j \in Issued : j <= i

AccessInv == AccessTypeOK /\ ReadingsTrue /\ PhaseTrue /\ HasNewest

\* What a refresh reads.
LEMMA NewestRead ==
  ASSUME AccessInv
  PROVE  /\ MostRecent \in Readings
         /\ MostRecent.status = "approved" => WasApproved(MostRecent.id)
<1>1. CASE Issued = {}
  BY <1>1 DEF MostRecent, Readings, None
<1>2. CASE Issued # {}
  <2> DEFINE r == CHOOSE i \in Issued : \A j \in Issued : j <= i
  <2>1. MostRecent = [id |-> r, status |-> requestStatus[r]]
    BY <1>2 DEF MostRecent
  <2>2. r \in Issued
    BY <1>2 DEF AccessInv, HasNewest
  <2>3. r \in AccessIds /\ requestStatus[r] \in {None, "pending", "approved", "rejected",
                                                 "consumed"}
    BY <2>2 DEF Issued, AccessInv, AccessTypeOK
  <2> HIDE DEF r
  <2> QED
    BY <2>1, <2>3 DEF Readings, WasApproved
<1> QED
  BY <1>1, <1>2

\* A step of the server that never takes an approval back or makes a request unfiled.
LEMMA ServerGoesOn ==
  ASSUME AccessInv,
         NEW r \in AccessIds, NEW s \in {"pending", "approved", "rejected", "consumed"},
         requestStatus' = [requestStatus EXCEPT ![r] = s],
         requestStatus[r] = "approved" => s = "consumed",
         requestStatus[r] # "consumed"
  PROVE  /\ \A q : WasApproved(q) => WasApproved(q)'
         /\ Issued' = Issued \cup {r}
         /\ requestStatus' \in [AccessIds -> {None, "pending", "approved", "rejected",
                                              "consumed"}]
<1>1. requestStatus \in [AccessIds -> {None, "pending", "approved", "rejected", "consumed"}]
  BY DEF AccessInv, AccessTypeOK
<1>2. requestStatus'[r] = s /\ \A q \in AccessIds : q # r => requestStatus'[q] = requestStatus[q]
  BY <1>1
<1>3. ASSUME NEW q, WasApproved(q) PROVE WasApproved(q)'
  BY <1>2, <1>3 DEF WasApproved
<1>4. Issued' = Issued \cup {r}
  BY <1>2 DEF Issued, None
<1>5. requestStatus' \in [AccessIds -> {None, "pending", "approved", "rejected", "consumed"}]
  BY <1>1
<1> QED
  BY <1>3, <1>4, <1>5

\* The steps of the badge and the panel that leave the server's requests alone.
LEMMA PanelKept ==
  ASSUME AccessInv, UNCHANGED requestStatus,
         \/ OpenPanel \/ ClosePanel \/ LockSession \/ PollRequests \/ ReadStep
         \/ AnotherRequest \/ RequestFiled \/ StartFaceCheck \/ FaceCheckFails
         \/ ReauthenticationFails
  PROVE  AccessInv'
<1>0. AccessTypeOK /\ ReadingsTrue /\ PhaseTrue /\ HasNewest
  BY DEF AccessInv
<1>1. HasNewest' /\ \A q : WasApproved(q)' <=> WasApproved(q)
  BY <1>0 DEF HasNewest, Issued, WasApproved
<1>2. UNCHANGED adminList
  BY DEF OpenPanel, ClosePanel, LockSession, PollRequests, ReadStep, RequestsRead, ReadLost,
         AnotherRequest, RequestFiled, StartFaceCheck, FaceCheckFails, ReauthenticationFails
<1> USE <1>0 DEF AccessTypeOK
<1>3. offered' \in BOOLEAN
  BY DEF OpenPanel, ClosePanel, LockSession, PollRequests, ReadStep, RequestsRead, ReadLost,
         AnotherRequest, RequestFiled, StartFaceCheck, FaceCheckFails, ReauthenticationFails
<1>4. reads' \subseteq Readings /\ ReadingsTrue'
  <2>1. reads' \subseteq reads \cup {MostRecent}
    BY DEF OpenPanel, ClosePanel, LockSession, PollRequests, ReadStep, RequestsRead, ReadLost,
           AnotherRequest, RequestFiled, StartFaceCheck, FaceCheckFails,
           ReauthenticationFails, Unmounted, panel
  <2> QED
    BY <1>1, <2>1, NewestRead DEF ReadingsTrue
<1>5. filing' \in [step : {"none", "sent"}, id : AccessIds \cup {0}]
  BY DEF OpenPanel, ClosePanel, LockSession, PollRequests, ReadStep, RequestsRead, ReadLost,
         AnotherRequest, RequestFiled, StartFaceCheck, FaceCheckFails, ReauthenticationFails,
         Unmounted, panel, NoFiling
<1>6. /\ phase' \in {"closed", "loading", "form", "pending", "approved", "rejected"}
      /\ lastRequest' \in AccessIds \cup {0}
      /\ phase' = "approved" => WasApproved(lastRequest')
  <2>1. CASE OpenPanel
    BY <2>1 DEF OpenPanel
  <2>2. CASE ClosePanel
    BY <2>2 DEF ClosePanel, Unmounted
  <2>3. ASSUME NEW reading \in reads, RequestsRead(reading) PROVE <1>6!1 /\ <1>6!2 /\ <1>6!3
    BY <2>3 DEF RequestsRead, PhaseOf, Readings, ReadingsTrue
  <2>4. CASE RequestFiled
    BY <2>4 DEF RequestFiled, PhaseTrue
  <2>5. CASE AnotherRequest
    BY <2>5 DEF AnotherRequest
  <2>6. CASE UNCHANGED <<phase, lastRequest>>
    BY <2>6 DEF PhaseTrue
  <2> QED
    BY <2>1, <2>2, <2>3, <2>4, <2>5, <2>6
    DEF LockSession, PollRequests, ReadStep, ReadLost, StartFaceCheck, FaceCheckFails,
        ReauthenticationFails, panel
<1>7. /\ faceCheck' \in [step : {"none", "running", "over"}, id : AccessIds \cup {0}]
      /\ faceCheck'.step = "running" => WasApproved(faceCheck'.id)
  <2>1. CASE StartFaceCheck
    BY <2>1 DEF StartFaceCheck, PhaseTrue
  <2>2. CASE faceCheck' = NoFaceCheck \/ faceCheck' = [step |-> "over", id |-> 0]
    BY <2>2 DEF NoFaceCheck
  <2>3. CASE UNCHANGED faceCheck
    BY <2>3 DEF PhaseTrue
  <2> QED
    BY <2>1, <2>2, <2>3
    DEF OpenPanel, ClosePanel, LockSession, PollRequests, ReadStep, RequestsRead, ReadLost,
        AnotherRequest, RequestFiled, FaceCheckFails, ReauthenticationFails, FaceCheckAfter,
        panel
<1>8. PhaseTrue'
  BY <1>1, <1>6, <1>7 DEF PhaseTrue
<1> QED
  BY <1>1, <1>2, <1>3, <1>4, <1>5, <1>6, <1>7, <1>8 DEF AccessInv, adminList

\* The step that files a request, and the one that uses an approved one.
LEMMA FiledOrUsedKept ==
  ASSUME AccessInv,
         SubmitRequest \/ Reauthenticates \/ (ReauthenticationFails /\ UsesApproval)
  PROVE  AccessInv'
<1>0. AccessTypeOK /\ ReadingsTrue /\ PhaseTrue /\ HasNewest
  BY DEF AccessInv
<1>1. CASE SubmitRequest
  <2>0. UNCHANGED <<offered, phase, lastRequest, reads, faceCheck, adminList>>
    BY <1>1 DEF SubmitRequest
  <2>1. CASE filing' = [step |-> "sent", id |-> 0] /\ UNCHANGED requestStatus
    <3>1. HasNewest' /\ \A q : WasApproved(q)' <=> WasApproved(q)
      BY <1>0, <2>1 DEF HasNewest, Issued, WasApproved
    <3> QED
      BY <1>0, <2>0, <2>1, <3>1 DEF AccessInv, AccessTypeOK, ReadingsTrue, PhaseTrue, adminList
  <2>2. ASSUME NEW r \in AccessIds, NEW lost \in BOOLEAN, r \notin Issued,
               requestStatus' = [requestStatus EXCEPT ![r] = "pending"],
               filing' = [step |-> "sent", id |-> IF lost THEN 0 ELSE r]
        PROVE  AccessInv'
    <3>1. requestStatus[r] = None
      BY <2>2 DEF Issued
    <3>2. /\ \A q : WasApproved(q) => WasApproved(q)'
          /\ Issued' = Issued \cup {r}
          /\ requestStatus' \in [AccessIds -> {None, "pending", "approved", "rejected",
                                               "consumed"}]
      BY <2>2, <3>1, ServerGoesOn DEF None
    <3>3. HasNewest'
      <4>1. Issued \subseteq Nat /\ r \in Nat
        BY AccessAssumption DEF Issued
      <4>2. CASE Issued = {}
        BY <3>2, <4>1, <4>2 DEF HasNewest
      <4>3. CASE Issued # {}
        <5>1. PICK i \in Issued : \A j \in Issued : j <= i
          BY <1>0, <4>3 DEF HasNewest
        <5>2. CASE r <= i
          BY <3>2, <4>1, <5>1, <5>2 DEF HasNewest
        <5>3. CASE ~(r <= i)
          <6>1. \A j \in Issued' : j <= r
            BY <3>2, <4>1, <5>1, <5>3
          <6> QED
            BY <3>2, <6>1 DEF HasNewest
        <5> QED
          BY <5>2, <5>3
      <4> QED
        BY <4>2, <4>3
    <3>4. filing' \in [step : {"none", "sent"}, id : AccessIds \cup {0}]
      BY <2>2
    <3>5. AccessTypeOK'
      BY <1>0, <2>0, <3>2, <3>4 DEF AccessTypeOK, adminList
    <3> QED
      BY <1>0, <2>0, <3>2, <3>3, <3>5 DEF AccessInv, ReadingsTrue, PhaseTrue
  <2> QED
    BY <1>1, <2>1, <2>2 DEF SubmitRequest
<1>2. CASE Reauthenticates \/ (ReauthenticationFails /\ UsesApproval)
  <2>1. faceCheck.id \in AccessIds /\ requestStatus[faceCheck.id] = "approved"
    BY <1>0, <1>2 DEF Reauthenticates, ReauthenticationFails, UsesApproval, PhaseTrue, WasApproved
  <2>2. requestStatus' = [requestStatus EXCEPT ![faceCheck.id] = "consumed"]
    BY <1>2 DEF Reauthenticates, UsesApproval
  <2>3. /\ \A q : WasApproved(q) => WasApproved(q)'
        /\ Issued' = Issued \cup {faceCheck.id}
        /\ requestStatus' \in [AccessIds -> {None, "pending", "approved", "rejected",
                                             "consumed"}]
    BY <2>1, <2>2, ServerGoesOn
  <2>4. HasNewest'
    BY <1>0, <2>1, <2>3 DEF HasNewest, Issued, None
  <2>5. CASE Reauthenticates
    <3>1. /\ offered' = FALSE /\ faceCheck' = NoFaceCheck /\ phase' = "closed"
          /\ lastRequest' = 0 /\ reads' = {} /\ filing' = NoFiling /\ UNCHANGED adminList
      BY <2>5 DEF Reauthenticates, Unmounted
    <3>2. AccessTypeOK'
      BY <1>0, <2>3, <3>1 DEF AccessTypeOK, NoFaceCheck, NoFiling, adminList
    <3> QED
      BY <2>4, <3>1, <3>2 DEF AccessInv, ReadingsTrue, PhaseTrue, NoFaceCheck
  <2>6. CASE ReauthenticationFails
    <3>1. /\ faceCheck' \in {[step |-> "over", id |-> 0], NoFaceCheck}
          /\ UNCHANGED <<offered, phase, lastRequest, reads, filing, adminList>>
      BY <2>6 DEF ReauthenticationFails
    <3>2. faceCheck' \in [step : {"none", "running", "over"}, id : AccessIds \cup {0}]
      BY <3>1 DEF NoFaceCheck
    <3>3. AccessTypeOK'
      BY <1>0, <2>3, <3>1, <3>2 DEF AccessTypeOK, adminList
    <3>4. faceCheck'.step # "running"
      BY <3>1 DEF NoFaceCheck
    <3> QED
      BY <1>0, <2>3, <2>4, <3>1, <3>3, <3>4 DEF AccessInv, ReadingsTrue, PhaseTrue
  <2> QED
    BY <1>2, <2>5, <2>6
<1> QED
  BY <1>1, <1>2

\* The administrator's list: a decision is taken only of a request that is pending.
LEMMA AdministratorKept ==
  ASSUME AccessInv,
         \/ LoadRequests
         \/ \E answer \in listing : RequestsLoaded(answer)
         \/ \E r \in AccessIds : \/ \E d \in {"approved", "rejected"} : HandleDecision(r, d)
                                 \/ DecisionAnswered(r)
  PROVE  AccessInv'
<1>0. AccessTypeOK /\ ReadingsTrue /\ PhaseTrue /\ HasNewest
  BY DEF AccessInv
<1>1. UNCHANGED <<offered, phase, lastRequest, reads, filing, faceCheck>>
  BY DEF LoadRequests, RequestsLoaded, HandleDecision, DecisionAnswered, panel
<1>2. Pending \subseteq AccessIds
  BY DEF Pending
<1>3. pendingRows' \subseteq AccessIds /\ listing' \subseteq SUBSET AccessIds
      /\ decisions' \subseteq AccessIds
  BY <1>0, <1>2 DEF AccessTypeOK, LoadRequests, RequestsLoaded, HandleDecision,
                    DecisionAnswered
<1>4. CASE UNCHANGED requestStatus
  <2>1. HasNewest' /\ \A q : WasApproved(q)' <=> WasApproved(q)
    BY <1>0, <1>4 DEF HasNewest, Issued, WasApproved
  <2> QED
    BY <1>0, <1>1, <1>3, <1>4, <2>1 DEF AccessInv, AccessTypeOK, ReadingsTrue, PhaseTrue
<1>5. ASSUME NEW r \in AccessIds, NEW d \in {"approved", "rejected"}, HandleDecision(r, d),
             r \in Pending
      PROVE  AccessInv'
  <2>1. requestStatus[r] = "pending" /\ requestStatus' = [requestStatus EXCEPT ![r] = d]
    BY <1>5 DEF HandleDecision, Pending
  <2>2. /\ \A q : WasApproved(q) => WasApproved(q)'
        /\ Issued' = Issued \cup {r}
        /\ requestStatus' \in [AccessIds -> {None, "pending", "approved", "rejected",
                                             "consumed"}]
    BY <1>5, <2>1, ServerGoesOn
  <2>3. HasNewest'
    BY <1>0, <2>1, <2>2 DEF HasNewest, Issued, None
  <2> QED
    BY <1>0, <1>1, <1>3, <2>2, <2>3 DEF AccessInv, AccessTypeOK, ReadingsTrue, PhaseTrue
<1> QED
  BY <1>4, <1>5 DEF LoadRequests, RequestsLoaded, HandleDecision, DecisionAnswered

LEMMA AccessInvStep == AccessInv /\ [AccessNext]_accessVars => AccessInv'
<1> SUFFICES ASSUME AccessInv, [AccessNext]_accessVars PROVE AccessInv'
  OBVIOUS
<1>1. CASE \/ OpenPanel \/ ClosePanel \/ LockSession \/ PollRequests \/ ReadStep
           \/ AnotherRequest \/ RequestFiled \/ StartFaceCheck \/ FaceCheckFails
           \/ (ReauthenticationFails /\ ~UsesApproval)
  <2>1. UNCHANGED requestStatus
    BY <1>1 DEF OpenPanel, ClosePanel, LockSession, PollRequests, ReadStep, RequestsRead,
       ReadLost, AnotherRequest, RequestFiled, StartFaceCheck, FaceCheckFails,
       ReauthenticationFails
  <2> QED
    BY <1>1, <2>1, PanelKept
<1>2. CASE SubmitRequest \/ Reauthenticates \/ (ReauthenticationFails /\ UsesApproval)
  BY <1>2, FiledOrUsedKept
<1>3. CASE \/ LoadRequests
           \/ \E answer \in listing : RequestsLoaded(answer)
           \/ \E r \in AccessIds : \/ \E d \in {"approved", "rejected"} : HandleDecision(r, d)
                                   \/ DecisionAnswered(r)
  BY <1>3, AdministratorKept
<1>4. CASE UNCHANGED accessVars
  BY <1>4 DEF accessVars, panel, adminList, AccessInv, AccessTypeOK, ReadingsTrue, PhaseTrue,
              HasNewest, Issued, WasApproved
<1> QED
  BY <1>1, <1>2, <1>3, <1>4 DEF AccessNext

LEMMA AccessInvInit == AccessInit => AccessInv
<1> SUFFICES ASSUME AccessInit PROVE AccessInv
  OBVIOUS
<1>1. AccessTypeOK
  BY DEF AccessInit, AccessTypeOK, NoFiling, NoFaceCheck, None
<1>2. Issued = {}
  BY DEF AccessInit, Issued
<1> QED
  BY <1>1, <1>2 DEF AccessInit, AccessInv, ReadingsTrue, PhaseTrue, HasNewest, NoFaceCheck

\* The invariant holds in every reachable state.
THEOREM AccessInvariant == AccessSpec => []AccessInv
BY AccessInvInit, AccessInvStep, PTL DEF AccessSpec

\* Types are kept.
THEOREM AccessTypes == AccessSpec => []AccessTypeOK
<1>1. AccessInv => AccessTypeOK
  BY DEF AccessInv
<1> QED
  BY <1>1, AccessInvariant, PTL

\* AccessRequestPanel offers the face check only for a request that was approved, and names
\* that one, in whatever order refreshes and the answer of submit() arrive.
THEOREM ApprovedRequests == AccessSpec => []ApprovedRequestShown
<1>1. AccessInv => ApprovedRequestShown
  BY AccessAssumption DEF AccessInv, PhaseTrue, WasApproved, ApprovedRequestShown
<1> QED
  BY <1>1, AccessInvariant, PTL

-----------------------------------------------------------------------------
(***************************************************************************)
(* The administrator's lists.                                              *)
(***************************************************************************)
LEMMA FiltersOfTabs ==
  /\ \A t \in Tabs : FirstFilter(t) \in Filters(t) /\ Filters(t) \subseteq AllFilters
  /\ "all" \in Filters("users")
BY DEF Tabs, FirstFilter, Filters, AllFilters

\* What a request reads now.
LEMMA ReadsNow ==
  ASSUME ListsTypeOK, NEW f \in AllFilters, NEW spins \in BOOLEAN
  PROVE  Reads(f, spins) \in [filter : AllFilters, version : 1..MaxVersion, spins : BOOLEAN]
BY DEF ListsTypeOK, Reads

\* A request on its way adds one answer.
LEMMA LoadTypes ==
  ASSUME ListsTypeOK, NEW f \in AllFilters, NEW spins \in BOOLEAN, Load(f, spins)
  PROVE  /\ loads' \subseteq [filter : AllFilters, version : 1..MaxVersion, spins : BOOLEAN]
         /\ spinner' \in BOOLEAN
<1>1. Reads(f, spins) \in [filter : AllFilters, version : 1..MaxVersion, spins : BOOLEAN]
  BY ReadsNow
<1>2. loads' = loads \cup {Reads(f, spins)} /\ spinner' = (spinner \/ spins)
  BY DEF Load
<1> QED
  BY <1>1, <1>2 DEF ListsTypeOK

LEMMA ListsTypesKept == ListsTypeOK /\ [ListsNext]_listVars => ListsTypeOK'
<1> SUFFICES ASSUME ListsTypeOK, [ListsNext]_listVars PROVE ListsTypeOK'
  OBVIOUS
<1> USE DEF ListsTypeOK
<1>a. filter \in AllFilters /\ \A t : (t \in Spinning) \in BOOLEAN
  BY FiltersOfTabs
<1>b. \A t : (t \in ReloadSpins) \in BOOLEAN
  OBVIOUS
<1>1. ASSUME NEW t \in Tabs, SelectTab(t) PROVE ListsTypeOK'
  <2>1. FirstFilter(t) \in Filters(t) /\ FirstFilter(t) \in AllFilters
    BY FiltersOfTabs
  <2>2. Reads(FirstFilter(t), t \in Spinning)
          \in [filter : AllFilters, version : 1..MaxVersion, spins : BOOLEAN]
    BY <1>a, <2>1, ReadsNow
  <2>3. NoRows \in [filter : AllFilters, version : 0..MaxVersion]
    BY FiltersOfTabs, ListsAssumption DEF NoRows, Tabs
  <2> QED
    BY <1>1, <2>1, <2>2, <2>3 DEF SelectTab
<1>2. CASE Refresh \/ Poll
  <2>1. \E spins \in BOOLEAN : Load(filter, spins)
    BY <1>2, <1>a DEF Refresh, Poll
  <2>2. UNCHANGED <<tab, version, filter, rows, changes, lookedUp, lookups, deviceGone>>
    BY <1>2 DEF Refresh, Poll, devices
  <2> QED
    BY <1>a, <2>1, <2>2, LoadTypes
<1>3. ASSUME NEW f \in AllFilters, SelectFilter(f) PROVE ListsTypeOK'
  <2>1. \E spins \in BOOLEAN : Load(f, spins)
    BY <1>3, <1>a DEF SelectFilter
  <2>2. UNCHANGED <<tab, version, rows, changes, lookedUp, lookups, deviceGone>>
        /\ filter' = f /\ f \in Filters(tab)
    BY <1>3 DEF SelectFilter, devices
  <2> QED
    BY <2>1, <2>2, LoadTypes
<1>4. ASSUME NEW l \in loads, Loaded(l) \/ LoadFails(l) PROVE ListsTypeOK'
  <2>1. l.filter \in AllFilters /\ l.version \in 0..MaxVersion
    BY ListsAssumption
  <2>2. rows' \in [filter : AllFilters, version : 0..MaxVersion]
    BY <1>4, <2>1 DEF Loaded, LoadFails
  <2>3. loads' \subseteq loads /\ spinner' \in BOOLEAN
    BY <1>4 DEF Loaded, LoadFails
  <2>4. UNCHANGED <<tab, version, filter, changes, lookedUp, lookups, deviceGone>>
    BY <1>4 DEF Loaded, LoadFails, devices
  <2> QED
    BY <2>2, <2>3, <2>4
<1>5. CASE Change /\ UNCHANGED tab
  <2>1. version' \in 1..MaxVersion
    BY <1>5, ListsAssumption DEF Change
  <2> QED
    BY <1>5, <1>a, <2>1 DEF Change, devices
<1>6. ASSUME NEW f \in changes, ChangeAnswered(f) PROVE ListsTypeOK'
  <2>1. CASE Load(f, tab \in ReloadSpins)
    BY <1>6, <1>b, <2>1, LoadTypes DEF ChangeAnswered, devices
  <2>2. CASE UNCHANGED <<loads, spinner>>
    BY <1>6, <2>2 DEF ChangeAnswered, devices
  <2> QED
    BY <1>6, <2>1, <2>2 DEF ChangeAnswered
<1>7. CASE OthersChange
  BY <1>7, ListsAssumption DEF OthersChange, lists, devices
<1>8. CASE CheckDevice \/ RevokeDevice \/ UnrevokeDevice
  BY <1>8 DEF CheckDevice, RevokeDevice, UnrevokeDevice, lists
<1>9. ASSUME NEW s \in lookups, DeviceChecked(s) PROVE ListsTypeOK'
  BY <1>9 DEF DeviceChecked, lists
<1>10. CASE UNCHANGED listVars
  BY <1>10 DEF listVars, lists, devices
<1> QED
  BY <1>1, <1>2, <1>3, <1>4, <1>5, <1>6, <1>7, <1>8, <1>9, <1>10
  DEF ListsNext, ChangeRole, TransitionIntent, ResolveIncident, ApplyTransition,
      CreatePolicy, DeletePolicy, Change

\* The filter is one of the panel's, and what is shown or on its way is of a version the
\* server has had or will have.
THEOREM ListsTypes == ListsSpec => []ListsTypeOK
<1>1. ListsInit => ListsTypeOK
  <2> SUFFICES ASSUME ListsInit PROVE ListsTypeOK
    OBVIOUS
  <2>1. 1 \in 1..MaxVersion /\ 0 \in 0..MaxVersion
    BY ListsAssumption
  <2>2. "all" \in AllFilters /\ "users" \in Tabs
    BY FiltersOfTabs DEF Tabs
  <2>3. Reads("all", TRUE) \in [filter : AllFilters, version : 1..MaxVersion, spins : BOOLEAN]
    BY <2>1, <2>2 DEF ListsInit, Reads
  <2>4. NoRows \in [filter : AllFilters, version : 0..MaxVersion]
    BY <2>1, <2>2 DEF NoRows
  <2> QED
    BY <2>1, <2>2, <2>3, <2>4, FiltersOfTabs DEF ListsInit, ListsTypeOK
<1> QED
  BY <1>1, ListsTypesKept, PTL DEF ListsSpec

-----------------------------------------------------------------------------
(***************************************************************************)
(* Qira in the browser.                                                    *)
(***************************************************************************)
\* A refresh for a record that is watched keeps the types of what it may start.
LEMMA RefreshTypes ==
  ASSUME NEW record \in Watched, NEW key \in Keys \cup {NoKey}, NEW busyRecord \in Watched,
         NEW done, NEW going \in SUBSET Assessment, NEW spinning \in BOOLEAN,
         Refresh_(record, key, busyRecord, done, going, spinning)
  PROVE  inFlight' \in Watched /\ assessing' \in BOOLEAN /\ assessments' \subseteq Assessment
<1>1. CASE record = 0 \/ key = NoKey \/ busyRecord = record \/ key = done
  BY <1>1 DEF Refresh_
<1>2. CASE ~(record = 0 \/ key = NoKey \/ busyRecord = record \/ key = done)
  <2>1. [record |-> record, key |-> key, fresh |-> TRUE] \in Assessment
    BY <1>2 DEF Assessment
  <2> QED
    BY <1>2, <2>1 DEF Refresh_
<1> QED
  BY <1>1, <1>2

\* So does the end of an assessment.
LEMMA EndTypes ==
  ASSUME QiraTypeOK, NEW job \in assessments, NEW done, AssessmentEnds(job, done)
  PROVE  inFlight' \in Watched /\ assessing' \in BOOLEAN /\ assessments' \subseteq Assessment
<1> DEFINE released == IF inFlight = job.record THEN 0 ELSE inFlight
<1>1. released \in Watched /\ assessments \ {job} \in SUBSET Assessment
  BY QiraAssumption DEF QiraTypeOK, Watched
<1>2. job.record \in Watched
  BY DEF QiraTypeOK, Assessment
<1>3. CASE job.fresh
  <2>1. Refresh_(job.record, latest, released, done, assessments \ {job}, FALSE)
    BY <1>3 DEF AssessmentEnds
  <2>2. latest \in Keys \cup {NoKey}
    BY DEF QiraTypeOK
  <2> HIDE DEF released
  <2> QED
    BY <1>1, <1>2, <2>1, <2>2, RefreshTypes
<1>4. CASE ~job.fresh
  BY <1>1, <1>4 DEF AssessmentEnds, QiraTypeOK
<1> QED
  BY <1>3, <1>4

LEMMA QiraTypesKept == QiraTypeOK /\ [QiraNext]_qiraVars => QiraTypeOK'
<1> SUFFICES ASSUME QiraTypeOK, [QiraNext]_qiraVars PROVE QiraTypeOK'
  OBVIOUS
<1>0. 0 \in Watched /\ NoDecision \in [record : Watched, key : Keys \cup {NoKey}]
  BY QiraAssumption DEF Watched, NoDecision
<1>1. ASSUME NEW record \in Watched, NEW key \in Keys, WatchRecord(record, key)
      PROVE  QiraTypeOK'
  <2>1. Outdated(assessments) \in SUBSET Assessment
    <3>1. \A j \in assessments : [j EXCEPT !.fresh = FALSE, !.key = NoKey] \in Assessment
      BY DEF QiraTypeOK, Assessment
    <3> QED
      BY <3>1 DEF Outdated
  <2>2. inFlight' \in Watched /\ assessing' \in BOOLEAN /\ assessments' \subseteq Assessment
    BY <1>1, <2>1, RefreshTypes DEF WatchRecord, QiraTypeOK
  <2> QED
    BY <1>0, <1>1, <2>2 DEF WatchRecord, QiraTypeOK
<1>2. ASSUME NEW key \in Keys, KeyChanges(key) PROVE QiraTypeOK'
  <2>1. inFlight' \in Watched /\ assessing' \in BOOLEAN /\ assessments' \subseteq Assessment
    BY <1>2, RefreshTypes DEF KeyChanges, QiraTypeOK
  <2> QED
    BY <1>2, <2>1 DEF KeyChanges, QiraTypeOK
<1>3. ASSUME NEW job \in assessments, AssessmentAnswered(job) \/ AssessmentFails(job)
      PROVE  QiraTypeOK'
  <2>1. \E done : AssessmentEnds(job, done)
    BY <1>3 DEF AssessmentAnswered, AssessmentFails
  <2>2. inFlight' \in Watched /\ assessing' \in BOOLEAN /\ assessments' \subseteq Assessment
    BY <2>1, EndTypes
  <2>3. job.record \in Watched /\ job.key \in Keys \cup {NoKey}
    BY DEF QiraTypeOK, Assessment
  <2>4. decision' \in [record : Watched, key : Keys \cup {NoKey}]
        /\ assessed' \in Keys \cup {NoKey}
    BY <1>3, <2>3 DEF AssessmentAnswered, AssessmentFails, QiraTypeOK
  <2>5. UNCHANGED <<watched, newest, latest, question, reauthing>>
    BY <1>3 DEF AssessmentAnswered, AssessmentFails
  <2> QED
    BY <2>2, <2>4, <2>5 DEF QiraTypeOK
<1>4. CASE WidgetReauthenticated
  <2>1. inFlight' \in Watched /\ assessing' \in BOOLEAN /\ assessments' \subseteq Assessment
    BY <1>4, RefreshTypes DEF WidgetReauthenticated, QiraTypeOK
  <2> QED
    BY <1>0, <1>4, <2>1 DEF WidgetReauthenticated, QiraTypeOK
<1>5. CASE SubmitQuestion \/ QuestionAnswered \/ WidgetReauth \/ WidgetReauthFails
  BY <1>0, <1>5 DEF SubmitQuestion, QuestionAnswered, WidgetReauth, WidgetReauthFails,
                    QiraTypeOK
<1>6. CASE UNCHANGED qiraVars
  BY <1>6 DEF qiraVars, QiraTypeOK
<1> QED
  BY <1>1, <1>2, <1>3, <1>4, <1>5, <1>6 DEF QiraNext, MonitoringMoves

\* The records QiraContext holds on to have been watched, and its keys are those of a
\* snapshot.
THEOREM QiraTypes == QiraSpec => []QiraTypeOK
<1>1. QiraInit => QiraTypeOK
  <2>1. 0 \in Watched /\ NoDecision \in [record : Watched, key : Keys \cup {NoKey}]
    BY QiraAssumption DEF Watched, NoDecision
  <2> QED
    BY <2>1 DEF QiraInit, QiraTypeOK
<1> QED
  BY <1>1, QiraTypesKept, PTL DEF QiraSpec

-----------------------------------------------------------------------------
(***************************************************************************)
(* The monitoring surfaces.                                                *)
(***************************************************************************)
LEMMA CardsTypesKept == CardsTypeOK /\ [CardsNext]_cardVars => CardsTypeOK'
<1> SUFFICES ASSUME CardsTypeOK, [CardsNext]_cardVars PROVE CardsTypeOK'
  OBVIOUS
<1>1. CASE LocationNext
  <2>1. UNCHANGED badgeMenu /\ UNCHANGED sessionGone
    BY <1>1 DEF LocationNext, MonitoringChanges, PermissionReported, PositionReported,
                PositionRefused, RemountCards
  <2>2. /\ monitored' \in BOOLEAN /\ locating' \in BOOLEAN /\ requested' \in BOOLEAN
        /\ located' \in BOOLEAN /\ permission' \in {"not_requested", "granted", "denied"}
        /\ locating' => monitored'
    <3>1. CASE MonitoringChanges
      BY <3>1 DEF CardsTypeOK, MonitoringChanges
    <3>2. CASE RemountCards
      BY <3>2 DEF CardsTypeOK, RemountCards
    <3>3. CASE PositionReported
      BY <3>3 DEF CardsTypeOK, PositionReported
    <3>4. CASE PositionRefused
      BY <3>4 DEF CardsTypeOK, PositionRefused
    <3>5. ASSUME NEW p \in {"granted", "denied"}, PermissionReported(p) PROVE <2>2
      BY <3>5 DEF CardsTypeOK, PermissionReported
    <3> QED
      BY <1>1, <3>1, <3>2, <3>3, <3>4, <3>5 DEF LocationNext
  <2>3. /\ token' \in Tokens \cup {0} /\ lastDigest' \in Tokens \cup {0}
        /\ sawToken' \in BOOLEAN /\ suspicious' \in BOOLEAN /\ digests' \subseteq Tokens
        /\ integrity' \in {"NORMAL", "CHANGED", "SUSPICIOUS"}
    BY <1>1 DEF CardsTypeOK, LocationNext, MonitoringChanges, PermissionReported,
                PositionReported, PositionRefused, RemountCards, cookie
  <2> QED
    BY <2>1, <2>2, <2>3 DEF CardsTypeOK, badgeMenu
<1>2. CASE IntegrityNext
  <2>1. UNCHANGED badgeMenu /\ UNCHANGED monitored /\ sessionGone' \in BOOLEAN
    BY <1>2 DEF CardsTypeOK, IntegrityNext, TokenChanges, OtherTabChanges, IntegrityCheck,
                AnyDigested, TokenDigested, SessionReported, RemountCards
  <2>2. /\ locating' \in BOOLEAN /\ requested' \in BOOLEAN
        /\ located' \in BOOLEAN /\ permission' \in {"not_requested", "granted", "denied"}
        /\ locating' => monitored'
    <3>1. CASE RemountCards
      BY <3>1 DEF CardsTypeOK, RemountCards
    <3>2. CASE UNCHANGED <<monitored, location>>
      BY <3>2 DEF CardsTypeOK, location
    <3> QED
      BY <1>2, <3>1, <3>2 DEF IntegrityNext, TokenChanges, OtherTabChanges, IntegrityCheck,
         AnyDigested, TokenDigested, SessionReported
  <2>3. /\ token' \in Tokens \cup {0} /\ lastDigest' \in Tokens \cup {0}
        /\ sawToken' \in BOOLEAN /\ suspicious' \in BOOLEAN /\ digests' \subseteq Tokens
        /\ integrity' \in {"NORMAL", "CHANGED", "SUSPICIOUS"}
    BY <1>2 DEF CardsTypeOK, IntegrityNext, TokenChanges, OtherTabChanges, IntegrityCheck,
                AnyDigested, TokenDigested, SessionReported, RemountCards, cookie
  <2> QED
    BY <2>1, <2>2, <2>3 DEF CardsTypeOK, badgeMenu
<1>3. CASE MenuNext
  <2>1. UNCHANGED <<monitored, sessionGone, location, cookie>>
    BY <1>3 DEF MenuNext, ToggleMenu, TrustChanges, TrustFetched
  <2>2. /\ trust' \in Trust /\ menu' \in BOOLEAN
        /\ fetches' \subseteq [value : Trust, live : BOOLEAN]
        /\ \A f \in fetches' : f.live => menu'
        /\ trustShown' \in Trust \cup {"none"}
    <3>1. CASE ToggleMenu
      <4>1. \A f \in fetches : /\ [f EXCEPT !.live = FALSE] \in [value : Trust, live : BOOLEAN]
                               /\ ~[f EXCEPT !.live = FALSE].live
        BY DEF CardsTypeOK
      <4>2. [value |-> trust, live |-> TRUE] \in [value : Trust, live : BOOLEAN]
        BY DEF CardsTypeOK
      <4> QED
        BY <3>1, <4>1, <4>2 DEF ToggleMenu, CardsTypeOK
    <3>2. CASE TrustChanges
      BY <3>2 DEF TrustChanges, CardsTypeOK
    <3>3. ASSUME NEW f \in fetches, TrustFetched(f) PROVE <2>2
      BY <3>3 DEF TrustFetched, CardsTypeOK
    <3> QED
      BY <1>3, <3>1, <3>2, <3>3 DEF MenuNext
  <2> QED
    BY <2>1, <2>2 DEF CardsTypeOK, location, cookie
<1>4. CASE UNCHANGED cardVars
  BY <1>4 DEF cardVars, location, cookie, badgeMenu, CardsTypeOK
<1> QED
  BY <1>1, <1>2, <1>3, <1>4 DEF CardsNext

\* LiveLocationCard watches the position only while monitoring runs, and only a fetch of
\* the open menu may still be shown by MonitoringBadge.
THEOREM CardsTypes == CardsSpec => []CardsTypeOK
<1>1. CardsInit => CardsTypeOK
  BY CardsAssumption DEF CardsInit, CardsTypeOK, Trust
<1> QED
  BY <1>1, CardsTypesKept, PTL DEF CardsSpec

-----------------------------------------------------------------------------
(***************************************************************************)
(* The components side by side.                                            *)
(***************************************************************************)
\* A behaviour of the instance is a behaviour of every component.
THEOREM EachComponent ==
  Spec => /\ SignInSpec /\ RequestSpec /\ CryptoSpec /\ AccessSpec /\ ListsSpec
          /\ QiraSpec /\ CardsSpec /\ FaceSpec /\ AuditSpec
<1>1. Init => /\ SignInInit /\ RequestInit /\ CryptoInit /\ AccessInit /\ ListsInit
              /\ QiraInit /\ CardsInit /\ FaceInit /\ ViewsInit
  BY DEF Init
<1>2. [Next]_vars => /\ [SignInNext]_signInVars /\ [RequestNext]_requestVars
                     /\ [CryptoNext]_cryptoVars /\ [AccessNext]_accessVars
                     /\ [ListsNext]_listVars /\ [QiraNext]_qiraVars
                     /\ [CardsNext]_cardVars /\ [FaceNext]_faceVars
                     /\ [AuditNext]_auditVars
  BY DEF Next, vars, CardsNext
<1> QED
  BY <1>1, <1>2, PTL
  DEF Spec, SignInSpec, RequestSpec, CryptoSpec, AccessSpec, ListsSpec, QiraSpec, CardsSpec,
      FaceSpec, AuditSpec

\* Types are kept by every component of the browser.
THEOREM ClientTypes == Spec => []ClientTypeOK
<1>1. (/\ SignInTypeOK /\ RequestTypeOK /\ CryptoTypeOK /\ AccessTypeOK /\ ListsTypeOK
       /\ QiraTypeOK /\ CardsTypeOK /\ FaceTypeOK /\ AuditTypeOK) => ClientTypeOK
  BY DEF ClientTypeOK
<1> QED
  BY <1>1, EachComponent, SignInTypes, RequestTypes, CryptoPagesTypes, AccessTypes,
     ListsTypes, QiraTypes, CardsTypes, FaceTypes, AuditTypes, PTL

\* What the run checks of single components holds of the instance: the permissions of the
\* shell, the records handed over, the frames sent, and the alarms about the audit chain.
THEOREM ClientSafety ==
  Spec => [](/\ ShellOnlyWithConsent /\ RecordHandedWithItsCid /\ AskedWithItsFrames
             /\ AlarmOnlyAfterOverlap)
BY EachComponent, ShellNeedsConsent, HandedWithItsCid, FramesOfOneAttempt, AlarmsAreTrue, PTL
=============================================================================
