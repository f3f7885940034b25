----------------------------- MODULE FaceCapture -----------------------------
(***************************************************************************)
(* The face panel (src/frontend/src/components/face/FaceAuthPanel.jsx), in *)
(* both of its modes: enrolment takes one frame per pose and sends their   *)
(* average, verification takes what frames it gets in its window and sends *)
(* the best one.                                                           *)
(*                                                                         *)
(* A panel is closed at any time by the page that shows it, but nothing    *)
(* cancels its capture: the loop goes on without a camera, and what it had *)
(* is still sent and reported.  A frame is the number of the pose it was   *)
(* taken for.  The detector and the comparison of faces are external.      *)
(***************************************************************************)
EXTENDS Naturals, Sequences

CONSTANTS
  Poses,        \* ENROLL_POSES.length
  FrameTarget,  \* VERIFY_FRAME_TARGET
  MaxPanels     \* bound: panels whose capture runs, and the mounted one

ASSUME CaptureAssumption ==
  /\ Poses \in Nat \ {0} /\ FrameTarget \in Nat \ {0} /\ MaxPanels \in Nat \ {0}

VARIABLES
  current,   \* the one that is mounted, 0 for none
  camera,    \* cameraReady of that one
  panels,    \* state and refs of each panel, and where its capture is
  reported   \* how often each panel has called onSuccess

faceVars == <<current, camera, panels, reported>>

PanelIds == 1..MaxPanels
PanelPhases == {"idle", "capturing", "processing", "success", "fail"}

\* A panel as it is mounted; `run' is the capture: between two frames, at a frame, at
\* the request, or not running; `pose' is the loop's index.
NewPanel(mode) ==
  [mode |-> mode, phase |-> "idle", run |-> "none", pose |-> 1, frames |-> <<>>]

\* What a closed panel is told to show is dropped.
Shown(p, phase) == IF current = p THEN phase ELSE panels[p].phase

\* The capture ends in a request, or without one.
Request(p, frames) ==
  panels' = [panels EXCEPT ![p].frames = frames, ![p].run = "asking",
                           ![p].phase = Shown(p, "processing")]
GiveUp(p) ==
  panels' = [panels EXCEPT ![p].run = "none", ![p].phase = Shown(p, "fail")]

MountPanel(p, mode) ==
  /\ current = 0 /\ panels[p].run = "none"
  /\ current' = p /\ camera' = FALSE
  /\ panels' = [panels EXCEPT ![p] = NewPanel(mode)]
  /\ reported' = [reported EXCEPT ![p] = 0]

CameraReady ==
  /\ current # 0
  /\ camera' = TRUE
  /\ UNCHANGED <<current, panels, reported>>

\* Start, when the camera is ready, or Retry.
Startable(p) ==
  current = p /\ (panels[p].phase = "fail" \/ (panels[p].phase = "idle" /\ camera))

\* Fault: Retry does not forget the frames of the attempt that failed.
HandleStart_KeepsFrames(p) ==
  /\ Startable(p)
  /\ panels' = [panels EXCEPT ![p].phase = "capturing", ![p].run = "waiting",
                              ![p].pose = 1]
  /\ UNCHANGED <<current, camera, reported>>

HandleStart(p) ==
  /\ Startable(p)
  /\ panels' = [panels EXCEPT ![p].phase = "capturing", ![p].run = "waiting",
                              ![p].pose = 1, ![p].frames = <<>>]
  /\ UNCHANGED <<current, camera, reported>>

\* The webcam is there only while the panel is mounted.
Look(p) ==
  /\ panels[p].run = "waiting" /\ current = p
  /\ panels' = [panels EXCEPT ![p].run = "looking"]
  /\ UNCHANGED <<current, camera, reported>>

\* No face, or assessQuality finds the frame too poor.
FrameRejected(p) ==
  /\ panels[p].run = "looking"
  /\ panels' = [panels EXCEPT ![p].run = "waiting"]
  /\ UNCHANGED <<current, camera, reported>>

\* One turn of the loop over the poses; after the last one the average is sent.
PoseCaptured(p) ==
  /\ panels[p].run = "looking" /\ panels[p].mode = "enroll"
  /\ LET frames == Append(panels[p].frames, panels[p].pose)
     IN  IF panels[p].pose = Poses THEN Request(p, frames)
         ELSE panels' = [panels EXCEPT ![p].frames = frames, ![p].run = "waiting",
                                       ![p].pose = panels[p].pose + 1]
  /\ UNCHANGED <<current, camera, reported>>

FrameCollected(p) ==
  /\ panels[p].run = "looking" /\ panels[p].mode = "verify"
  /\ LET frames == Append(panels[p].frames, 1)
     IN  IF Len(frames) = FrameTarget THEN Request(p, frames)
         ELSE panels' = [panels EXCEPT ![p].frames = frames, ![p].run = "waiting"]
  /\ UNCHANGED <<current, camera, reported>>

\* A pose is given up after its four seconds; a verification goes on with any frame.
DeadlinePasses(p) ==
  /\ panels[p].run = "waiting"
  /\ IF panels[p].mode = "verify" /\ panels[p].frames # <<>>
     THEN Request(p, panels[p].frames) ELSE GiveUp(p)
  /\ UNCHANGED <<current, camera, reported>>

\* The models do not load, or the detector throws: nothing catches it, and the panel
\* goes on showing that it captures.
CaptureThrows(p) ==
  /\ panels[p].run = "looking"
  /\ panels' = [panels EXCEPT ![p].run = "none"]
  /\ UNCHANGED <<current, camera, reported>>

\* The server has enrolled the average, or confirmed the face.
Accepted(p) ==
  /\ panels[p].run = "asking"
  /\ panels' = [panels EXCEPT ![p].run = "none", ![p].phase = Shown(p, "success")]
  /\ reported' = [reported EXCEPT ![p] = @ + 1]
  /\ UNCHANGED <<current, camera>>

\* The face does not match, or the request fails.
NotAccepted(p) ==
  /\ panels[p].run = "asking"
  /\ GiveUp(p)
  /\ UNCHANGED <<current, camera, reported>>

\* Cancel, or the page goes elsewhere.
UnmountPanel ==
  /\ current # 0
  /\ current' = 0
  /\ UNCHANGED <<camera, panels, reported>>

FaceInit ==
  /\ current = 0 /\ camera = FALSE
  /\ panels = [p \in PanelIds |-> NewPanel("verify")]
  /\ reported = [p \in PanelIds |-> 0]

FaceNext ==
  \/ CameraReady \/ UnmountPanel
  \/ \E p \in PanelIds :
       \/ \E mode \in {"enroll", "verify"} : MountPanel(p, mode)
       \/ HandleStart(p) \/ Look(p) \/ FrameRejected(p) \/ PoseCaptured(p)
       \/ FrameCollected(p) \/ DeadlinePasses(p) \/ CaptureThrows(p)
       \/ Accepted(p) \/ NotAccepted(p)

FaceSpec == FaceInit /\ [][FaceNext]_faceVars

(***************************************************************************)
(* Properties                                                              *)
(***************************************************************************)
\* Every variable keeps its type.
FaceTypeOK ==
  /\ current \in 0..MaxPanels /\ camera \in BOOLEAN
  /\ panels \in [PanelIds -> [mode : {"enroll", "verify"}, phase : PanelPhases,
                              run : {"none", "waiting", "looking", "asking"},
                              pose : 1..Poses, frames : Seq(1..Poses)]]
  /\ reported \in [PanelIds -> Nat]

\* A face is enrolled from one frame of every pose and of one attempt only, whatever
\* attempts failed before, and verified with at least one and at most the wanted frames.
AskedWithItsFrames ==
  \A p \in PanelIds : panels[p].run = "asking" =>
    IF panels[p].mode = "enroll" THEN panels[p].frames = [i \in 1..Poses |-> i]
    ELSE Len(panels[p].frames) \in 1..FrameTarget

\* The page that opened a panel is told of a success once, although a panel may fail
\* and be retried, and may be closed while its request is on its way.
ReportedOnce == \A p \in PanelIds : reported[p] <= 1
=============================================================================
