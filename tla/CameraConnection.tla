-------------------------- MODULE CameraConnection --------------------------
(***************************************************************************)
(* The camera life cycle of CameraConnectionFragment.java.                 *)
(*                                                                         *)
(* The UI thread runs onResume, openCamera and onPause; the background     *)
(* thread (a HandlerThread) runs the callbacks the camera service posts to *)
(* it: onOpened, onDisconnected, onError, onConfigured.  The threads share *)
(* the fields cameraDevice, captureSession and previewReader and the       *)
(* semaphore cameraOpenCloseLock.                                          *)
(*                                                                         *)
(* One life of a fragment: CameraActivity.onPause finishes the activity,   *)
(* so a fragment is resumed and paused once.  The camera service is        *)
(* external: it answers an open with onOpened, onDisconnected or onError,  *)
(* may lose an open camera, and drops callbacks for a thread that is gone. *)
(***************************************************************************)
EXTENDS Naturals, Sequences

VARIABLES
  cameraOpenCloseLock,  \* permits of the semaphore
  cameraDevice,         \* the field: "null" or "cd"
  captureSession,       \* the field: "null" or "session"
  previewReader,        \* the field: "null" or "reader"
  finishing,            \* activity.finish() was called
  uiPc,                 \* where the UI thread is
  bgPc,                 \* where the background thread is
  messages,             \* callbacks posted to the background thread
  device,               \* the camera itself, as its service sees it
  openFailed,           \* manager.openCamera threw CameraAccessException
  crashed               \* an exception left a callback: the process ends

fields == <<cameraDevice, captureSession, previewReader>>
vars == <<cameraOpenCloseLock, cameraDevice, captureSession, previewReader, finishing, uiPc,
          bgPc, messages, device, openFailed, crashed>>

ClosingSteps == {"closeSession", "testDevice", "closeDevice", "forgetDevice", "closeReader",
                 "unlock"}
UiSteps == {"created", "resumed", "opened", "pausing", "quitting", "joining", "paused"}
             \cup ClosingSteps
BgSteps == {"none", "loop", "setDevice", "createRequest", "createReader", "createSession",
            "setSession", "startPreview", "closeLost", "closeFailed", "stopped"}
Callbacks == {"onOpened", "onDisconnected", "onError", "onConfigured"}
DeviceStates == {"closed", "opening", "open", "lost"}

Init ==
  /\ cameraOpenCloseLock = 1
  /\ cameraDevice = "null" /\ captureSession = "null" /\ previewReader = "null"
  /\ finishing = FALSE
  /\ uiPc = "created" /\ bgPc = "none"
  /\ messages = <<>>
  /\ device = "closed"
  /\ openFailed = FALSE /\ crashed = FALSE

-----------------------------------------------------------------------------
(* The UI thread *)

UiAt(from, to) == ~crashed /\ uiPc = from /\ uiPc' = to

\* onResume: startBackgroundThread, then openCamera or wait for the surface.
OnResume ==
  /\ UiAt("created", "resumed")
  /\ bgPc' = "loop"
  /\ UNCHANGED <<cameraOpenCloseLock, fields, finishing, messages, device, openFailed, crashed>>

\* openCamera, from onResume or onSurfaceTextureAvailable: the lock is kept for the callback
\* to release, also when openCamera throws CameraAccessException and none will come.
OpenCamera ==
  /\ UiAt("resumed", "opened")
  /\ cameraOpenCloseLock > 0
  /\ cameraOpenCloseLock' = cameraOpenCloseLock - 1
  /\ \/ device' = "opening" /\ UNCHANGED openFailed
     \/ openFailed' = TRUE /\ UNCHANGED device
  /\ UNCHANGED <<fields, finishing, bgPc, messages, crashed>>

\* onPause is called: the user leaves, or the activity finishes.
OnPause ==
  /\ uiPc \in {"resumed", "opened"}
  /\ UiAt(uiPc, "pausing")
  /\ UNCHANGED <<cameraOpenCloseLock, fields, finishing, bgPc, messages, device, openFailed,
                 crashed>>

\* closeCamera: cameraOpenCloseLock.acquire().
AcquireToClose ==
  /\ UiAt("pausing", "closeSession")
  /\ cameraOpenCloseLock > 0
  /\ cameraOpenCloseLock' = cameraOpenCloseLock - 1
  /\ UNCHANGED <<fields, finishing, bgPc, messages, device, openFailed, crashed>>

\* closeCamera: the session.
CloseSession ==
  /\ UiAt("closeSession", "testDevice")
  /\ captureSession' = "null"
  /\ UNCHANGED <<cameraOpenCloseLock, cameraDevice, previewReader, finishing, bgPc, messages,
                 device, openFailed, crashed>>

\* closeCamera: if (null != cameraDevice) ...
TestDevice ==
  /\ UiAt("testDevice", IF cameraDevice = "null" THEN "closeReader" ELSE "closeDevice")
  /\ UNCHANGED <<cameraOpenCloseLock, fields, finishing, bgPc, messages, device, openFailed,
                 crashed>>

\* closeCamera: ... cameraDevice.close(), on the field as it is now.
CloseDevice ==
  \/ /\ cameraDevice # "null"
     /\ UiAt("closeDevice", "forgetDevice")
     /\ device' = "closed"
     /\ UNCHANGED <<cameraOpenCloseLock, fields, finishing, bgPc, messages, openFailed, crashed>>
  \/ /\ cameraDevice = "null"
     /\ UiAt("closeDevice", "closeDevice")
     /\ crashed' = TRUE
     /\ UNCHANGED <<cameraOpenCloseLock, fields, finishing, bgPc, messages, device, openFailed>>

\* closeCamera: cameraDevice = null.
ForgetDevice ==
  /\ UiAt("forgetDevice", "closeReader")
  /\ cameraDevice' = "null"
  /\ UNCHANGED <<cameraOpenCloseLock, captureSession, previewReader, finishing, bgPc,
                 messages, device, openFailed, crashed>>

\* closeCamera: the reader.
CloseReader ==
  /\ UiAt("closeReader", "unlock")
  /\ previewReader' = "null"
  /\ UNCHANGED <<cameraOpenCloseLock, cameraDevice, captureSession, finishing, bgPc,
                 messages, device, openFailed, crashed>>

\* closeCamera: finally release().
ReleaseAfterClose ==
  /\ UiAt("unlock", "quitting")
  /\ cameraOpenCloseLock' = cameraOpenCloseLock + 1
  /\ UNCHANGED <<fields, finishing, bgPc, messages, device, openFailed, crashed>>

\* stopBackgroundThread: quitSafely lets the posted callbacks run and takes no new ones.
QuitSafely ==
  /\ UiAt("quitting", "joining")
  /\ UNCHANGED <<cameraOpenCloseLock, fields, finishing, bgPc, messages, device, openFailed,
                 crashed>>

\* stopBackgroundThread: backgroundThread.join().
JoinBackground ==
  /\ UiAt("joining", "paused")
  /\ bgPc = "stopped"
  /\ UNCHANGED <<cameraOpenCloseLock, fields, finishing, bgPc, messages, device, openFailed,
                 crashed>>

Ui ==
  \/ OnResume \/ OpenCamera \/ OnPause \/ AcquireToClose \/ CloseSession \/ TestDevice
  \/ CloseDevice \/ ForgetDevice \/ CloseReader \/ ReleaseAfterClose \/ QuitSafely
  \/ JoinBackground

-----------------------------------------------------------------------------
(* The background thread *)

BgAt(from, to) == ~crashed /\ bgPc = from /\ bgPc' = to

\* The service posts a callback; after quitSafely it is dropped.
Post(callback) ==
  messages' = IF uiPc \in {"joining", "paused"} THEN messages ELSE Append(messages, callback)

Handle(callback, to) ==
  /\ BgAt("loop", to)
  /\ messages # <<>>
  /\ Head(messages) = callback
  /\ messages' = Tail(messages)

\* An exception leaves the callback.
Crash(at) ==
  /\ BgAt(at, at)
  /\ crashed' = TRUE
  /\ UNCHANGED <<cameraOpenCloseLock, fields, finishing, uiPc, messages, device, openFailed>>

\* onOpened releases the lock first ...
OnOpened ==
  /\ Handle("onOpened", "setDevice")
  /\ cameraOpenCloseLock' = cameraOpenCloseLock + 1
  /\ UNCHANGED <<fields, finishing, uiPc, device, openFailed, crashed>>

\* ... and then stores the camera it was given.
SetDevice ==
  /\ BgAt("setDevice", "createRequest")
  /\ cameraDevice' = "cd"
  /\ UNCHANGED <<cameraOpenCloseLock, captureSession, previewReader, finishing, uiPc,
                 messages, device, openFailed, crashed>>

\* createCameraPreviewSession: cameraDevice.createCaptureRequest.  A camera that is gone
\* throws CameraAccessException, which is caught.
CreateRequest ==
  \/ /\ cameraDevice # "null" /\ device # "closed"
     /\ BgAt("createRequest", IF device = "open" THEN "createReader" ELSE "loop")
     /\ UNCHANGED <<cameraOpenCloseLock, fields, finishing, uiPc, messages, device,
                    openFailed, crashed>>
  \/ /\ cameraDevice = "null" \/ device = "closed"
     /\ Crash("createRequest")

\* createCameraPreviewSession: previewReader = ImageReader.newInstance(...).
CreateReader ==
  /\ BgAt("createReader", "createSession")
  /\ previewReader' = "reader"
  /\ UNCHANGED <<cameraOpenCloseLock, cameraDevice, captureSession, finishing, uiPc,
                 messages, device, openFailed, crashed>>

\* createCameraPreviewSession: the reader's surface, cameraDevice.createCaptureSession.  The
\* service answers with onConfigured, or not at all (onConfigureFailed shows a message).
CreateSession ==
  \/ /\ cameraDevice # "null" /\ previewReader # "null" /\ device # "closed"
     /\ BgAt("createSession", "loop")
     /\ \/ device = "open" /\ Post("onConfigured")
        \/ UNCHANGED messages
     /\ UNCHANGED <<cameraOpenCloseLock, fields, finishing, uiPc, device, openFailed, crashed>>
  \/ /\ cameraDevice = "null" \/ previewReader = "null" \/ device = "closed"
     /\ Crash("createSession")

\* onConfigured: "The camera is already closed".
OnConfigured ==
  /\ Handle("onConfigured", IF cameraDevice = "null" THEN "loop" ELSE "setSession")
  /\ UNCHANGED <<cameraOpenCloseLock, fields, finishing, uiPc, device, openFailed, crashed>>

\* onConfigured: captureSession = cameraCaptureSession.
SetSession ==
  /\ BgAt("setSession", "startPreview")
  /\ captureSession' = "session"
  /\ UNCHANGED <<cameraOpenCloseLock, cameraDevice, previewReader, finishing, uiPc, messages,
                 device, openFailed, crashed>>

\* onConfigured: captureSession.setRepeatingRequest.
StartPreview ==
  \/ /\ captureSession # "null" /\ device # "closed"
     /\ BgAt("startPreview", "loop")
     /\ UNCHANGED <<cameraOpenCloseLock, fields, finishing, uiPc, messages, device,
                    openFailed, crashed>>
  \/ /\ captureSession = "null" \/ device = "closed"
     /\ Crash("startPreview")

\* onDisconnected and onError release the lock ...
OnDisconnected ==
  /\ Handle("onDisconnected", "closeLost")
  /\ cameraOpenCloseLock' = cameraOpenCloseLock + 1
  /\ UNCHANGED <<fields, finishing, uiPc, device, openFailed, crashed>>

\* Mutant of OnError: the lock is not released.
OnErrorKeepsLock ==
  /\ Handle("onError", "closeFailed")
  /\ UNCHANGED <<cameraOpenCloseLock, fields, finishing, uiPc, device, openFailed, crashed>>

OnError ==
  /\ Handle("onError", "closeFailed")
  /\ cameraOpenCloseLock' = cameraOpenCloseLock + 1
  /\ UNCHANGED <<fields, finishing, uiPc, device, openFailed, crashed>>

\* Mutant of CloseLost: the camera is forgotten and stays open.
CloseLostForgets ==
  /\ BgAt("closeLost", "loop") \/ BgAt("closeFailed", "loop")
  /\ cameraDevice' = "null"
  /\ finishing' = (finishing \/ bgPc = "closeFailed")
  /\ UNCHANGED <<cameraOpenCloseLock, captureSession, previewReader, uiPc, messages, device,
                 openFailed, crashed>>

\* ... and then close the camera and forget it; onError also calls activity.finish().
CloseLost ==
  /\ BgAt("closeLost", "loop") \/ BgAt("closeFailed", "loop")
  /\ device' = "closed"
  /\ cameraDevice' = "null"
  /\ finishing' = (finishing \/ bgPc = "closeFailed")
  /\ UNCHANGED <<cameraOpenCloseLock, captureSession, previewReader, uiPc, messages,
                 openFailed, crashed>>

\* The looper ends once quitSafely was called and the posted callbacks have run.
Quit ==
  /\ BgAt("loop", "stopped")
  /\ uiPc = "joining" /\ messages = <<>>
  /\ UNCHANGED <<cameraOpenCloseLock, fields, finishing, uiPc, messages, device, openFailed,
                 crashed>>

Background ==
  \/ OnOpened \/ SetDevice \/ CreateRequest \/ CreateReader \/ CreateSession \/ OnConfigured
  \/ SetSession \/ StartPreview \/ OnDisconnected \/ OnError \/ CloseLost \/ Quit

-----------------------------------------------------------------------------
(* The camera service, external *)

\* The open succeeds or fails.
AnswerOpen ==
  /\ ~crashed /\ device = "opening"
  /\ \/ device' = "open" /\ Post("onOpened")
     \/ device' = "lost" /\ Post("onDisconnected")
     \/ device' = "lost" /\ Post("onError")
  /\ UNCHANGED <<cameraOpenCloseLock, fields, finishing, uiPc, bgPc, openFailed, crashed>>

\* An open camera is taken by another client, or fails.
LoseCamera ==
  /\ ~crashed /\ device = "open"
  /\ device' = "lost"
  /\ Post("onDisconnected") \/ Post("onError")
  /\ UNCHANGED <<cameraOpenCloseLock, fields, finishing, uiPc, bgPc, openFailed, crashed>>

CameraService == AnswerOpen \/ LoseCamera

Next == Ui \/ Background \/ CameraService

Spec == Init /\ [][Next]_vars

\* Runnable threads run and the service answers an open; nothing obliges the user to leave,
\* but Android pauses an activity that called finish().
Fairness ==
  /\ WF_vars(Ui /\ ~OnPause) /\ WF_vars(finishing /\ OnPause)
  /\ WF_vars(Background)
  /\ WF_vars(AnswerOpen)

LiveSpec == Spec /\ Fairness

-----------------------------------------------------------------------------
(* Properties *)

\* cameraOpenCloseLock keeps closeCamera out from manager.openCamera until the service has
\* answered and the answer is being handled, or the open has thrown and pause never ends.
CloseWaitsForOpen ==
  uiPc \in ClosingSteps => device # "opening" /\ ~openFailed

\* A fragment that was paused and holds no camera has left none open: every path that drops
\* the reference closes the camera.
ForgottenIsClosed ==
  uiPc = "paused" /\ ~crashed /\ cameraDevice = "null" => device = "closed"

\* onPause returns, so that the activity can exit, when openCamera did not throw: whatever
\* callback comes, and however late, the lock is released for closeCamera.  And a camera
\* that fails after it was asked for ends the activity, as onError asks for it.
PauseReturns ==
  /\ uiPc = "pausing" /\ ~openFailed ~> uiPc = "paused" \/ crashed
  /\ finishing ~> uiPc = "paused" \/ crashed

\* "A Semaphore to prevent the app from exiting before closing the camera": when onPause
\* has returned the camera is closed.  It does not hold: see section 4 of the README.
ClosedBeforeExit == uiPc = "paused" /\ ~crashed => device # "open"

=============================================================================
