------------------------------- MODULE SignIn -------------------------------
(***************************************************************************)
(* Signing in and out in one browser tab: App.jsx, hooks/useAuth.js,       *)
(* pages/LoginPage.jsx and SecurityTelemetryConsent.jsx                    *)
(* (src/frontend/src).                                                     *)
(*                                                                         *)
(* A login is the number of the saveAuth() that made it.  What survives a  *)
(* reload is in the browser's storage (login, consent, confidence,         *)
(* storedId); the rest is React state or a callback between two awaits.    *)
(* The page names "app" every page inside the shell.                       *)
(***************************************************************************)
EXTENDS Naturals, FiniteSets

CONSTANT MaxLogins     \* bound: logins made in the tab

ASSUME LoginsAssumption == MaxLogins \in Nat \ {0}

VARIABLES
  login,        \* localStorage ibqc_token, ibqc_user, ibqc_session_id; 0 for none
  consent,      \* sessionStorage ibqc_security_access_consent
  confidence,   \* the login whose verification left the pending confidence, or 0
  storedId,     \* the login whose record ibqc_monitoring_session_id names, or 0
  page, accessReady,   \* App's state
  awaiting,     \* the screens LoginPage waits on
  submit,       \* handleSubmit: the await it is at
  face,         \* the login whose face is being verified, or 0
  asking,       \* allow() waits for the prompts: "no", or the `isAuthenticated' it has
  leaving,      \* logins in which a logout() was called that waits for its stop
  starting,     \* logins whose startSession waits for its answer
  booted,       \* the login for which the provider has run its bootstrap, or 0
  logins,       \* logins made so far
  enrolled,     \* the account has an enrolled face
  running,      \* logins whose monitoring record runs at the server
  verified      \* history: logins during which the user's face was verified

storage == <<login, consent, confidence, storedId>>
screens == <<page, accessReady, awaiting>>
callbacks == <<submit, face, asking, leaving, starting, booted>>
signInVars == <<storage, screens, callbacks, logins, enrolled, running, verified>>

Logins == 1..MaxLogins

(***************************************************************************)
(* What is on the screen.                                                  *)
(***************************************************************************)
Shell == page = "app" /\ login # 0
Provider == Shell /\ accessReady
Gate == Shell /\ ~accessReady

\* LoginPage tests its flags in this order.
Screen == IF page # "login" THEN "none"
          ELSE IF "permissions" \in awaiting THEN "permissions"
          ELSE IF "enroll" \in awaiting THEN "enroll"
          ELSE IF "verify" \in awaiting THEN "verify"
          ELSE "form"

(***************************************************************************)
(* logout() of useAuth                                                     *)
(***************************************************************************)
\* Fault: the token outlives the logout.
ClearStorage_KeepsToken ==
  consent' = "none" /\ confidence' = 0 /\ storedId' = 0 /\ UNCHANGED login

ClearStorage == login' = 0 /\ consent' = "none" /\ confidence' = 0 /\ storedId' = 0

\* Stop the record first when one is known, and clear the rest afterwards; `left' is
\* the consent stored meanwhile.
BeginLogout(left) ==
  IF storedId = 0
  THEN ClearStorage /\ UNCHANGED <<leaving, running>>
  ELSE /\ leaving' = leaving \cup {login}
       /\ running' \in {running, running \ {storedId}}
       /\ consent' = left
       /\ UNCHANGED <<login, confidence, storedId>>

\* The stop was answered or lost; whoever is signed in by now is signed out.
LogoutDone(l) ==
  /\ l \in leaving
  /\ leaving' = leaving \ {l}
  /\ ClearStorage
  /\ UNCHANGED <<screens, submit, face, asking, starting, booted,
                 logins, enrolled, running, verified>>

\* Topbar's "Sign out" does not navigate.
SignOut ==
  /\ Provider
  /\ BeginLogout(consent)
  /\ UNCHANGED <<screens, submit, face, asking, starting, booted,
                 logins, enrolled, verified>>

(***************************************************************************)
(* App: landing page and consent gate                                      *)
(***************************************************************************)
\* navigate() takes over a consent given before.
GoToLogin ==
  /\ page = "landing" /\ login = 0
  /\ page' = "login" /\ awaiting' = {}
  /\ accessReady' = (accessReady \/ consent = "allow")
  /\ UNCHANGED <<storage, callbacks, logins, enrolled, running, verified>>

GoToDashboard ==
  /\ page = "landing" /\ login # 0
  /\ page' = "app"
  /\ accessReady' = (accessReady \/ consent = "allow")
  /\ UNCHANGED <<storage, awaiting, callbacks, logins, enrolled, running, verified>>

(***************************************************************************)
(* LoginPage                                                               *)
(***************************************************************************)
Submit ==
  /\ Screen = "form" /\ submit = "none" /\ logins < MaxLogins
  /\ consent' = "none"
  /\ submit' = "credentials"
  /\ UNCHANGED <<login, confidence, storedId, screens, face, asking, leaving, starting,
                 booted, logins, enrolled, running, verified>>

CredentialsAnswered ==
  /\ submit = "credentials"
  /\ submit' \in {"none", "device"}
  /\ UNCHANGED <<storage, screens, face, asking, leaving, starting, booted,
                 logins, enrolled, running, verified>>

\* The device's identifier is known: store the token, the user and a new session id.
SaveAuth ==
  /\ submit = "device"
  /\ logins' = logins + 1
  /\ login' = logins + 1
  /\ submit' = "status"
  /\ UNCHANGED <<consent, confidence, storedId, screens, face, asking, leaving, starting,
                 booted, enrolled, running, verified>>

\* A status that could not be read counts as "not enrolled".
FaceStatusAnswered ==
  /\ submit = "status"
  /\ \/ enrolled /\ awaiting' = awaiting \cup {"verify"}
     \/ awaiting' = awaiting \cup {"enroll"}
  /\ submit' = "none"
  /\ UNCHANGED <<storage, page, accessReady, face, asking, leaving, starting, booted,
                 logins, enrolled, running, verified>>

Enrolled ==
  /\ Screen = "enroll" /\ login # 0
  /\ enrolled' = TRUE
  /\ awaiting' = (awaiting \ {"enroll"}) \cup {"verify"}
  /\ UNCHANGED <<storage, page, accessReady, callbacks, logins, running, verified>>

\* "Having camera trouble? Return to sign in."  The screen it is on stays.
ReturnToSignIn ==
  /\ Screen = "enroll" /\ login # 0
  /\ BeginLogout(consent)
  /\ UNCHANGED <<screens, submit, face, asking, starting, booted,
                 logins, enrolled, verified>>

VerifyFace ==
  /\ Screen = "verify" /\ login # 0 /\ enrolled /\ face = 0
  /\ face' = login
  /\ UNCHANGED <<storage, screens, submit, asking, leaving, starting, booted,
                 logins, enrolled, running, verified>>

\* Nobody asks whether that login is still signed in.
FaceVerified ==
  /\ face # 0
  /\ face' = 0
  /\ confidence' = face
  /\ verified' = verified \cup {face}
  /\ awaiting' = (awaiting \ {"verify"}) \cup {"permissions"}
  /\ UNCHANGED <<login, consent, storedId, page, accessReady, submit, asking, leaving,
                 starting, booted, logins, enrolled, running>>

FaceFails ==
  /\ face # 0
  /\ face' = 0
  /\ UNCHANGED <<storage, screens, submit, asking, leaving, starting, booted,
                 logins, enrolled, running, verified>>

(***************************************************************************)
(* SecurityTelemetryConsent, on LoginPage and as App's gate                *)
(***************************************************************************)
AskedHere == Screen = "permissions" \/ Gate

Ask ==
  /\ AskedHere /\ asking = "no"
  /\ asking' = IF login # 0 THEN "signed in" ELSE "signed out"
  /\ UNCHANGED <<storage, screens, submit, face, leaving, starting, booted,
                 logins, enrolled, running, verified>>

\* Both prompts were granted, or the consent is there already: the gate opens, or
\* LoginPage navigates to the dashboard, which sends a tab to the landing page when
\* neither the render that asked nor the storage has a token.
Granted ==
  /\ asking # "no" \/ (AskedHere /\ consent = "allow")
  /\ asking' = "no"
  /\ consent' = "allow"
  /\ LET known == page = "app" \/ asking = "signed in" \/ login # 0
     IN  /\ accessReady' = (accessReady \/ known)
         /\ page' = IF known THEN "app" ELSE "landing"
  /\ awaiting' = {}
  /\ UNCHANGED <<login, confidence, storedId, submit, face, leaving, starting, booted,
                 logins, enrolled, running, verified>>

\* A prompt was refused, or "Deny & Exit" was pressed.
Denied ==
  /\ AskedHere \/ asking # "no"
  /\ BeginLogout("none")
  /\ asking' = "no"
  /\ accessReady' = (accessReady /\ page = "login")
  /\ awaiting' = IF page = "login" THEN awaiting \ {"permissions"} ELSE {}
  /\ page' = "login"
  /\ UNCHANGED <<submit, face, starting, booted, logins, enrolled, verified>>

(***************************************************************************)
(* The monitoring provider, as far as the sign-in needs it                 *)
(***************************************************************************)
\* Its bootstrap finds no record of this login; the start may be refused or lost.
Start ==
  /\ Provider /\ booted # login /\ login \notin running
  /\ booted' = login
  /\ starting' = starting \cup {login}
  /\ running' \in {running, running \cup {login}}

\* Start with the pending confidence.
StartWithConfidence ==
  /\ confidence # 0
  /\ Start
  /\ confidence' = 0
  /\ UNCHANGED <<login, consent, storedId, screens, submit, face, asking, leaving,
                 logins, enrolled, verified>>

\* Without one, verify the returning user's face first.
StartVerified ==
  /\ confidence = 0 /\ enrolled
  /\ Start
  /\ verified' = verified \cup {login}
  /\ UNCHANGED <<storage, screens, submit, face, asking, leaving, logins, enrolled>>

\* The answer is stored whether or not the provider is still mounted.
StartAnswered(l) ==
  /\ l \in starting
  /\ starting' = starting \ {l}
  /\ storedId' \in {l, storedId}
  /\ UNCHANGED <<login, consent, confidence, screens, submit, face, asking, leaving,
                 booted, logins, enrolled, running, verified>>

RecoverRecord ==
  /\ Provider /\ booted # login /\ login \in running
  /\ booted' = login
  /\ storedId' = login
  /\ UNCHANGED <<login, consent, confidence, screens, submit, face, asking, leaving,
                 starting, logins, enrolled, running, verified>>

(***************************************************************************)
(* Specification                                                           *)
(***************************************************************************)
SignInInit ==
  /\ login = 0 /\ consent = "none" /\ confidence = 0 /\ storedId = 0
  /\ page = "landing" /\ accessReady = FALSE /\ awaiting = {}
  /\ submit = "none" /\ face = 0 /\ asking = "no"
  /\ leaving = {} /\ starting = {} /\ booted = 0
  /\ logins = 0 /\ enrolled \in BOOLEAN /\ running = {} /\ verified = {}

\* Only the storage and the server survive.
ReloadTab ==
  /\ page' = "landing" /\ awaiting' = {}
  /\ accessReady' = (consent = "allow")
  /\ submit' = "none" /\ face' = 0 /\ asking' = "no"
  /\ leaving' = {} /\ starting' = {} /\ booted' = 0
  /\ UNCHANGED <<storage, logins, enrolled, running, verified>>

SignInNext ==
  \/ SignOut \/ \E l \in leaving : LogoutDone(l)
  \/ GoToLogin \/ GoToDashboard
  \/ Submit \/ CredentialsAnswered \/ SaveAuth \/ FaceStatusAnswered
  \/ Enrolled \/ ReturnToSignIn \/ VerifyFace \/ FaceVerified \/ FaceFails
  \/ Ask \/ Granted \/ Denied
  \/ StartWithConfidence \/ StartVerified \/ \E l \in starting : StartAnswered(l)
  \/ RecoverRecord \/ ReloadTab

SignInSpec == SignInInit /\ [][SignInNext]_signInVars

(***************************************************************************)
(* Properties                                                              *)
(***************************************************************************)
\* Every variable keeps its type.
SignInTypeOK ==
  /\ login \in 0..MaxLogins /\ consent \in {"none", "allow"}
  /\ confidence \in 0..MaxLogins /\ storedId \in 0..MaxLogins
  /\ page \in {"landing", "login", "app"} /\ accessReady \in BOOLEAN
  /\ awaiting \subseteq {"permissions", "enroll", "verify"}
  /\ submit \in {"none", "credentials", "device", "status"}
  /\ face \in 0..MaxLogins /\ asking \in {"no", "signed in", "signed out"}
  /\ leaving \subseteq 0..MaxLogins /\ starting \subseteq Logins
  /\ booted \in 0..MaxLogins
  /\ logins \in 0..MaxLogins /\ enrolled \in BOOLEAN
  /\ running \subseteq Logins /\ verified \subseteq Logins

\* The shell with its monitoring is shown only while the permissions of this login are
\* granted, in the storage too.
ShellOnlyWithConsent == Provider => consent = "allow"

(***************************************************************************)
(* What a comment says and the code does not do.                           *)
(***************************************************************************)
\* "Start the continuous-monitoring session with the confidence from THIS login's
\* verification": a record runs only for a login during which the face was verified.
MonitoredLoginsVerified == running \subseteq verified
=============================================================================
