---------------------- MODULE CameraConnection_proofs ----------------------
(***************************************************************************)
(* cameraOpenCloseLock keeps closeCamera out while an open is pending, for *)
(* every interleaving of the UI thread, the callbacks and the service; and *)
(* no path of the fragment drops a camera without closing it.              *)
(***************************************************************************)
EXTENDS CameraConnection, TLAPS

\* Before openCamera nothing has happened: the lock is free and the service is idle.
BeforeOpen ==
  uiPc \in {"created", "resumed"} =>
    /\ cameraOpenCloseLock = 1 /\ device = "closed" /\ ~openFailed
    /\ messages = <<>> /\ bgPc \in {"none", "loop"}
    /\ uiPc = "resumed" => bgPc = "loop"

\* From manager.openCamera to the service's answer the lock has no permit, and nothing is
\* under way or queued on the background thread that would release it.
LockIsTaken ==
  device = "opening" \/ openFailed =>
    /\ cameraOpenCloseLock = 0
    /\ uiPc \in {"opened", "pausing"}
    /\ messages = <<>> /\ bgPc = "loop"

\* The inductive invariant.
OpenInv ==
  /\ cameraOpenCloseLock \in Nat
  /\ ~(device = "opening" /\ openFailed)
  /\ openFailed => device = "closed"
  /\ BeforeOpen /\ LockIsTaken

\* It holds before onResume.
LEMMA InitOpenInv == Init => OpenInv
  BY DEF Init, OpenInv, BeforeOpen, LockIsTaken

\* The steps of the UI thread keep it: openCamera takes the only permit, closeCamera needs
\* one.
LEMMA UiOpenInv == OpenInv /\ Ui => OpenInv'
  <1> SUFFICES ASSUME OpenInv, Ui PROVE OpenInv'
    OBVIOUS
  <1> USE DEF OpenInv, BeforeOpen, LockIsTaken, UiAt, fields
  <1>1. CASE OnResume
    BY <1>1 DEF OnResume
  <1>2. CASE OpenCamera
    BY <1>2 DEF OpenCamera
  <1>3. CASE OnPause
    BY <1>3 DEF OnPause
  <1>4. CASE AcquireToClose
    BY <1>4 DEF AcquireToClose
  <1>5. CASE CloseSession \/ TestDevice \/ ForgetDevice \/ CloseReader
    BY <1>5 DEF CloseSession, TestDevice, ForgetDevice, CloseReader
  <1>6. CASE CloseDevice
    BY <1>6 DEF CloseDevice
  <1>7. CASE ReleaseAfterClose
    BY <1>7 DEF ReleaseAfterClose
  <1>8. CASE QuitSafely \/ JoinBackground
    BY <1>8 DEF QuitSafely, JoinBackground
  <1> QED BY <1>1, <1>2, <1>3, <1>4, <1>5, <1>6, <1>7, <1>8 DEF Ui

\* A callback runs only when one was posted, and none is posted while the open is pending.
LEMMA BackgroundOpenInv == OpenInv /\ Background => OpenInv'
  <1> SUFFICES ASSUME OpenInv, Background PROVE OpenInv'
    OBVIOUS
  <1> USE DEF OpenInv, BeforeOpen, LockIsTaken, BgAt, fields
  <1>1. CASE OnOpened \/ OnDisconnected \/ OnError
    BY <1>1 DEF OnOpened, OnDisconnected, OnError, Handle
  <1>2. CASE OnConfigured
    BY <1>2 DEF OnConfigured, Handle
  <1>3. CASE SetDevice \/ CreateReader \/ SetSession
    BY <1>3 DEF SetDevice, CreateReader, SetSession
  <1>4. CASE CreateRequest \/ StartPreview
    BY <1>4 DEF CreateRequest, StartPreview, Crash
  <1>5. CASE CreateSession
    BY <1>5 DEF CreateSession, Crash
  <1>6. CASE CloseLost
    BY <1>6 DEF CloseLost
  <1>7. CASE Quit
    BY <1>7 DEF Quit
  <1> QED BY <1>1, <1>2, <1>3, <1>4, <1>5, <1>6, <1>7 DEF Background

\* The service's answer ends the pending open.
LEMMA ServiceOpenInv == OpenInv /\ CameraService => OpenInv'
  <1> SUFFICES ASSUME OpenInv, CameraService PROVE OpenInv'
    OBVIOUS
  <1> USE DEF OpenInv, BeforeOpen, LockIsTaken, fields
  <1>1. CASE AnswerOpen
    BY <1>1 DEF AnswerOpen
  <1>2. CASE LoseCamera
    BY <1>2 DEF LoseCamera
  <1> QED BY <1>1, <1>2 DEF CameraService

\* closeCamera never works on the camera while manager.openCamera has not been answered, and
\* never after it threw.
THEOREM CloseIsExcluded == Spec => []CloseWaitsForOpen
  <1>1. OpenInv /\ [Next]_vars => OpenInv'
    <2> SUFFICES ASSUME OpenInv, [Next]_vars PROVE OpenInv'
      OBVIOUS
    <2>1. CASE UNCHANGED vars
      BY <2>1 DEF vars, OpenInv, BeforeOpen, LockIsTaken
    <2> QED BY <2>1, UiOpenInv, BackgroundOpenInv, ServiceOpenInv DEF Next
  <1>2. OpenInv => CloseWaitsForOpen
    BY DEF OpenInv, LockIsTaken, CloseWaitsForOpen, ClosingSteps
  <1> QED BY InitOpenInv, <1>1, <1>2, PTL DEF Spec

-----------------------------------------------------------------------------
(* No camera is dropped open *)

\* The service's answer is queued or being handled.
AnswerInFlight ==
  \/ bgPc \in {"setDevice", "closeLost", "closeFailed"}
  \/ \E n \in 1 .. Len(messages) : messages[n] # "onConfigured"

\* A camera that is open, or was lost, is known to the fragment, or its callback is on the
\* way; once the background thread has ended nothing is queued.
KnownOrAnswered ==
  /\ messages \in Seq(Callbacks)
  /\ bgPc = "stopped" => messages = <<>> /\ uiPc \in {"joining", "paused"}
  /\ uiPc = "paused" => bgPc = "stopped"
  /\ uiPc = "forgetDevice" => device = "closed"
  /\ device \in DeviceStates
  /\ cameraDevice = "null" /\ device \in {"open", "lost"} => AnswerInFlight

\* Appending a callback keeps what is queued, and queues it last.
LEMMA AppendKeeps ==
  ASSUME NEW s \in Seq(Callbacks), NEW e \in Callbacks
  PROVE  /\ Append(s, e) \in Seq(Callbacks)
         /\ Len(Append(s, e)) = Len(s) + 1
         /\ Append(s, e)[Len(s) + 1] = e
         /\ \A n \in 1 .. Len(s) : Append(s, e)[n] = s[n]
  OBVIOUS

\* Taking onConfigured from the queue keeps every other callback.
LEMMA TailKeeps ==
  ASSUME NEW s \in Seq(Callbacks), s # <<>>
  PROVE  /\ Tail(s) \in Seq(Callbacks)
         /\ Head(s) = "onConfigured" =>
              ((\E n \in 1 .. Len(s) : s[n] # "onConfigured")
                 => \E n \in 1 .. Len(Tail(s)) : Tail(s)[n] # "onConfigured")
  <1>1. Tail(s) \in Seq(Callbacks) /\ Len(Tail(s)) = Len(s) - 1 /\ Len(s) \in Nat
        /\ Head(s) = s[1] /\ \A n \in 1 .. Len(s) - 1 : Tail(s)[n] = s[n + 1]
    OBVIOUS
  <1>2. ASSUME Head(s) = "onConfigured", NEW n \in 1 .. Len(s), s[n] # "onConfigured"
        PROVE  \E k \in 1 .. Len(Tail(s)) : Tail(s)[k] # "onConfigured"
    <2>1. n - 1 \in 1 .. Len(s) - 1 /\ (n - 1) + 1 = n
      BY <1>1, <1>2
    <2> QED BY <1>1, <1>2, <2>1
  <1> QED BY <1>1, <1>2

\* A callback that the service posts is queued, or dropped after quitSafely.
LEMMA PostKeeps ==
  ASSUME messages \in Seq(Callbacks), NEW e \in Callbacks, Post(e)
  PROVE  /\ messages' \in Seq(Callbacks)
         /\ \A n \in 1 .. Len(messages) : n \in 1 .. Len(messages') /\ messages'[n] = messages[n]
         /\ uiPc \notin {"joining", "paused"} =>
              Len(messages') \in 1 .. Len(messages') /\ messages'[Len(messages')] = e
         /\ uiPc \in {"joining", "paused"} => messages' = messages
  BY AppendKeeps DEF Post

\* It holds before onResume.
LEMMA InitKnown == Init => KnownOrAnswered
  BY DEF Init, KnownOrAnswered, DeviceStates

\* The UI thread forgets a camera only after it has closed it.
LEMMA UiKnown == OpenInv /\ KnownOrAnswered /\ Ui => KnownOrAnswered'
  <1> SUFFICES ASSUME OpenInv, KnownOrAnswered, Ui PROVE KnownOrAnswered'
    OBVIOUS
  <1> USE DEF KnownOrAnswered, AnswerInFlight, UiAt, fields, DeviceStates
  <1>0. CASE OnResume
    BY <1>0 DEF OnResume, OpenInv, BeforeOpen
  <1>1. CASE OnPause \/ AcquireToClose
    BY <1>1 DEF OnPause, AcquireToClose
  <1>2. CASE OpenCamera
    BY <1>2 DEF OpenCamera
  <1>3. CASE CloseSession \/ TestDevice \/ CloseReader \/ ReleaseAfterClose
    BY <1>3 DEF CloseSession, TestDevice, CloseReader, ReleaseAfterClose
  <1>4. CASE CloseDevice
    BY <1>4 DEF CloseDevice
  <1>5. CASE ForgetDevice
    BY <1>5 DEF ForgetDevice
  <1>6. CASE QuitSafely \/ JoinBackground
    BY <1>6 DEF QuitSafely, JoinBackground
  <1> QED BY <1>0, <1>1, <1>2, <1>3, <1>4, <1>5, <1>6 DEF Ui

\* A callback stores the camera it was given or closes it.
LEMMA BackgroundKnown == KnownOrAnswered /\ Background => KnownOrAnswered'
  <1> SUFFICES ASSUME KnownOrAnswered, Background PROVE KnownOrAnswered'
    OBVIOUS
  <1> USE DEF KnownOrAnswered, AnswerInFlight, BgAt, fields, DeviceStates
  <1>1. CASE OnOpened \/ OnDisconnected \/ OnError
    BY <1>1, TailKeeps DEF OnOpened, OnDisconnected, OnError, Handle
  <1>2. CASE OnConfigured
    BY <1>2, TailKeeps DEF OnConfigured, Handle
  <1>3. CASE SetDevice \/ CreateReader \/ SetSession
    BY <1>3 DEF SetDevice, CreateReader, SetSession
  <1>4. CASE CreateRequest \/ StartPreview
    BY <1>4 DEF CreateRequest, StartPreview, Crash
  <1>5. CASE CreateSession
    <2>1. CASE UNCHANGED messages
      BY <1>5, <2>1 DEF CreateSession, Crash
    <2>2. CASE Post("onConfigured") /\ cameraDevice # "null"
      BY <1>5, <2>2, PostKeeps DEF CreateSession, Crash, Callbacks
    <2> QED BY <1>5, <2>1, <2>2 DEF CreateSession, Crash
  <1>6. CASE CloseLost
    BY <1>6 DEF CloseLost
  <1>7. CASE Quit
    BY <1>7 DEF Quit
  <1> QED BY <1>1, <1>2, <1>3, <1>4, <1>5, <1>6, <1>7 DEF Background

\* The answer to an open is always queued: closeCamera, and so quitSafely, waits for it.
LEMMA ServiceKnown == OpenInv /\ KnownOrAnswered /\ CameraService => KnownOrAnswered'
  <1> SUFFICES ASSUME OpenInv, KnownOrAnswered, CameraService PROVE KnownOrAnswered'
    OBVIOUS
  <1>1. PICK e \in Callbacks : Post(e) /\ e # "onConfigured"
    BY DEF CameraService, AnswerOpen, LoseCamera, Callbacks
  <1>2. /\ device' \in {"open", "lost"} /\ device \in {"opening", "open"}
        /\ UNCHANGED <<cameraDevice, uiPc, bgPc>>
    BY DEF CameraService, AnswerOpen, LoseCamera, fields
  <1>3. messages \in Seq(Callbacks)
    BY DEF KnownOrAnswered
  <1>4. CASE device = "opening"
    BY <1>1, <1>2, <1>3, <1>4, PostKeeps
    DEF OpenInv, LockIsTaken, KnownOrAnswered, AnswerInFlight, DeviceStates
  <1>5. CASE device = "open"
    BY <1>1, <1>2, <1>3, <1>5, PostKeeps DEF KnownOrAnswered, AnswerInFlight, DeviceStates
  <1> QED BY <1>2, <1>4, <1>5

\* A fragment that was paused and holds no camera has left none open.
THEOREM NoCameraIsDropped == Spec => []ForgottenIsClosed
  <1> DEFINE Inv == OpenInv /\ KnownOrAnswered
  <1>1. Inv /\ [Next]_vars => Inv'
    <2> SUFFICES ASSUME Inv, [Next]_vars PROVE Inv'
      OBVIOUS
    <2>1. CASE UNCHANGED vars
      BY <2>1 DEF vars, OpenInv, BeforeOpen, LockIsTaken, KnownOrAnswered, AnswerInFlight
    <2> QED BY <2>1, UiOpenInv, BackgroundOpenInv, ServiceOpenInv, UiKnown, BackgroundKnown,
               ServiceKnown DEF Next
  <1>2. Inv => ForgottenIsClosed
    <2> SUFFICES ASSUME Inv, uiPc = "paused", cameraDevice = "null" PROVE device = "closed"
      BY DEF ForgottenIsClosed
    <2>1. ~AnswerInFlight
      BY DEF KnownOrAnswered, AnswerInFlight
    <2>2. device # "opening"
      BY DEF OpenInv, LockIsTaken
    <2> QED BY <2>1, <2>2 DEF KnownOrAnswered, DeviceStates
  <1>3. Init => Inv
    BY InitOpenInv, InitKnown
  <1> QED BY <1>1, <1>2, <1>3, PTL DEF Spec

=============================================================================
