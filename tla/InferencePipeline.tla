------------------------- MODULE InferencePipeline -------------------------
(***************************************************************************)
(* From a camera frame to tracked detections: DetectorActivity.java, with  *)
(* the threads of CameraActivity.java and the two buttons of               *)
(* CameraConnectionFragment.java.                                          *)
(*                                                                         *)
(* The camera thread runs onImageAvailable for every frame; the inference  *)
(* thread runs the Runnable onImageAvailable posts to it; the UI thread    *)
(* runs the buttons, the debug key and onPause.  They share the flag       *)
(* computing, the statics changed, size and big, and the bitmaps and       *)
(* arrays of the frame, without a lock.                                    *)
(*                                                                         *)
(* One activity from onResume, where its threads run, to the end of        *)
(* onPause, after which it is finished.  Android pauses the fragment       *)
(* before the activity.  CameraConnectionFragment.CA is never set, so the  *)
(* branch for CA == 1 is left out.                                         *)
(***************************************************************************)
EXTENDS Naturals, Sequences

CONSTANTS
  SizeCount,   \* the image sizes the button goes through, 7 in the code
  FrameMod     \* timestamp is a long; frames are told apart modulo FrameMod

ASSUME SizeCountAssumption == SizeCount \in Nat \ {0}
ASSUME FrameModAssumption == FrameMod \in Nat \ {0, 1}

VARIABLES
  changed, size, big,   \* the statics of CameraConnectionFragment
  computing,            \* "a frame is being processed"
  timestamp,            \* the frame onImageAvailable was last called for
  yuvBytes,             \* the frame in the plane arrays
  bitmapFrame,          \* the frame drawn into croppedBitmap, or Blank
  bitmapSize,           \* the size of croppedBitmap
  luminance,            \* the frame in the copied luminance plane
  YOLO_INPUT_SIZE,      \* the size the detector is created for
  detector,             \* the size and model loaded, or NoDetector
  posted,               \* timestamps of the Runnables in the inference thread's queue
  currTimestamp,        \* of the Runnable that runs
  uiPc, camPc, infPc,   \* where the three threads are
  failed,               \* an exception left a frame after computing was set
  crashed               \* a NullPointerException ended the process

choice == <<changed, size, big>>
frameData == <<timestamp, yuvBytes, bitmapFrame, luminance>>
model == <<bitmapSize, YOLO_INPUT_SIZE, detector>>
ends == <<failed, crashed>>
vars == <<changed, size, big, computing, timestamp, yuvBytes, bitmapFrame, bitmapSize,
          luminance, YOLO_INPUT_SIZE, detector, posted, currTimestamp, uiPc, camPc, infPc,
          failed, crashed>>

Sizes == 0 .. SizeCount - 1
Frames == 0 .. FrameMod - 1
Blank == FrameMod
NoDetector == [size |-> SizeCount, big |-> FALSE]
Detectors == [size : Sizes, big : BOOLEAN]

NextFrame(f) == IF f + 1 >= FrameMod THEN 0 ELSE f + 1

\* size = (size + 1) % 7
NextSize(s) == IF s + 1 >= SizeCount THEN 0 ELSE s + 1

\* The sizes the detector may have when no change is waiting: the current choice, or the one
\* before it when a click was overtaken by the inference thread.
OneClickBehind(s) == s = size \/ NextSize(s) = size

\* After onPreviewSizeChosen; the statics are what an earlier activity left.  Nothing sends
\* the intent extra "Detector": the size is the one the field had, the model the small one.
Init ==
  /\ changed \in BOOLEAN /\ size \in Sizes /\ big \in BOOLEAN
  /\ YOLO_INPUT_SIZE \in Sizes
  /\ ~changed => OneClickBehind(YOLO_INPUT_SIZE)
  /\ bitmapSize = YOLO_INPUT_SIZE
  /\ detector = [size |-> YOLO_INPUT_SIZE, big |-> FALSE]
  /\ computing = FALSE
  /\ timestamp = 0 /\ yuvBytes = 0 /\ luminance = 0 /\ bitmapFrame = Blank
  /\ posted = <<>> /\ currTimestamp = 0
  /\ uiPc = "free" /\ camPc = "idle" /\ infPc = "idle"
  /\ failed = FALSE /\ crashed = FALSE

-----------------------------------------------------------------------------
(* The camera thread: onImageAvailable *)

CamAt(from, to) == ~crashed /\ camPc = from /\ camPc' = to

\* A frame arrives: ++timestamp, fillBytes, tracker.onFrame.
FrameArrives ==
  /\ CamAt("idle", "filled")
  /\ timestamp' = NextFrame(timestamp)
  /\ yuvBytes' = timestamp'
  /\ UNCHANGED <<choice, computing, bitmapFrame, luminance, model, posted, currTimestamp, uiPc,
                 infPc, ends>>

\* acquireLatestImage returns null, or something throws before computing is looked at.
NoImage ==
  /\ CamAt("idle", "idle")
  /\ timestamp' = NextFrame(timestamp)
  /\ UNCHANGED <<choice, computing, yuvBytes, bitmapFrame, luminance, model, posted,
                 currTimestamp, uiPc, infPc, ends>>

\* if (computing) return; computing = true.
Claim ==
  /\ \/ computing /\ CamAt("filled", "idle") /\ UNCHANGED computing
     \/ ~computing /\ CamAt("filled", "convert") /\ computing' = TRUE
  /\ UNCHANGED <<choice, frameData, model, posted, currTimestamp, uiPc, infPc, ends>>

\* The conversion, or the image closed meanwhile, throws: computing stays set.
ConvertFails ==
  /\ CamAt("convert", "idle")
  /\ failed' = TRUE
  /\ UNCHANGED <<choice, computing, frameData, model, posted, currTimestamp, uiPc, infPc, crashed>>

\* Mutant of Convert: the luminance is copied only when its array is allocated.
ConvertCopiesOnce ==
  /\ CamAt("convert", "post")
  /\ bitmapFrame' = yuvBytes
  /\ UNCHANGED <<choice, computing, timestamp, yuvBytes, luminance, model, posted,
                 currTimestamp, uiPc, infPc, ends>>

\* Convert, draw into croppedBitmap, copy the luminance.
Convert ==
  /\ CamAt("convert", "post")
  /\ bitmapFrame' = yuvBytes
  /\ luminance' = yuvBytes
  /\ UNCHANGED <<choice, computing, timestamp, yuvBytes, model, posted, currTimestamp, uiPc,
                 infPc, ends>>

\* runInBackground: synchronized with onPause, and nothing is posted once the handler is null.
RunInBackground ==
  /\ CamAt("post", "idle")
  /\ uiPc # "joinInference"
  /\ posted' = IF uiPc = "paused" THEN posted ELSE Append(posted, timestamp)
  /\ UNCHANGED <<choice, computing, frameData, model, currTimestamp, uiPc, infPc, ends>>

\* The fragment's stopBackgroundThread, called by onPause, ends the thread between callbacks.
CameraStops ==
  /\ CamAt("idle", "stopped")
  /\ uiPc = "joinCamera"
  /\ UNCHANGED <<choice, computing, frameData, model, posted, currTimestamp, uiPc, infPc, ends>>

Camera ==
  \/ FrameArrives \/ NoImage \/ Claim \/ ConvertFails \/ Convert \/ RunInBackground
  \/ CameraStops

-----------------------------------------------------------------------------
(* The inference thread: the Runnable *)

InfAt(from, to) == ~crashed /\ infPc = from /\ infPc' = to

TakeRunnable ==
  /\ InfAt("idle", "test")
  /\ posted # <<>>
  /\ currTimestamp' = Head(posted)
  /\ posted' = Tail(posted)
  /\ UNCHANGED <<choice, computing, frameData, model, uiPc, camPc, ends>>

\* if (changed) { changed = false; ...
TestChanged ==
  /\ InfAt("test", IF changed THEN "resize" ELSE "recognize")
  /\ changed' = FALSE
  /\ UNCHANGED <<size, big, computing, frameData, model, posted, currTimestamp, uiPc, camPc, ends>>

\* Mutant of Resize: croppedBitmap keeps its size.
ResizeKeepsBitmap ==
  /\ InfAt("resize", "forget")
  /\ YOLO_INPUT_SIZE' = size
  /\ UNCHANGED <<choice, computing, timestamp, yuvBytes, luminance, bitmapSize, bitmapFrame,
                 detector, posted, currTimestamp, uiPc, camPc, ends>>

\* ... the new size is read, croppedBitmap is replaced by an empty one ...
Resize ==
  /\ InfAt("resize", "forget")
  /\ YOLO_INPUT_SIZE' = size
  /\ bitmapSize' = size
  /\ bitmapFrame' = Blank
  /\ UNCHANGED <<choice, computing, timestamp, yuvBytes, luminance, detector, posted,
                 currTimestamp, uiPc, camPc, ends>>

\* ... big is read, detector = null ...
Forget ==
  /\ InfAt("forget", IF big THEN "loadBig" ELSE "loadSmall")
  /\ detector' = NoDetector
  /\ UNCHANGED <<choice, computing, frameData, bitmapSize, YOLO_INPUT_SIZE, posted,
                 currTimestamp, uiPc, camPc, ends>>

\* Mutant of Load: changed is cleared when the new detector is there, not before.
LoadClears ==
  /\ \E b \in BOOLEAN :
       /\ InfAt(IF b THEN "loadBig" ELSE "loadSmall", "recognize")
       /\ detector' = [size |-> YOLO_INPUT_SIZE, big |-> b]
  /\ changed' = FALSE
  /\ UNCHANGED <<size, big, computing, frameData, bitmapSize, YOLO_INPUT_SIZE, posted,
                 currTimestamp, uiPc, camPc, ends>>

\* ... detector = TensorFlowYoloDetector.create(...) }
Load ==
  /\ \E b \in BOOLEAN :
       /\ InfAt(IF b THEN "loadBig" ELSE "loadSmall", "recognize")
       /\ detector' = [size |-> YOLO_INPUT_SIZE, big |-> b]
  /\ UNCHANGED <<choice, computing, frameData, bitmapSize, YOLO_INPUT_SIZE, posted,
                 currTimestamp, uiPc, camPc, ends>>

\* if (h == YOLO_INPUT_SIZE) detector.recognizeImage(croppedBitmap); otherwise the Runnable
\* ends with computing still set.
Recognize ==
  /\ InfAt("recognize", IF bitmapSize = YOLO_INPUT_SIZE THEN "track" ELSE "idle")
  /\ UNCHANGED <<choice, computing, frameData, model, posted, currTimestamp, uiPc, camPc, ends>>

\* tracker.trackResults(mappedRecognitions, luminance, currTimestamp); computing = false.
Track ==
  /\ InfAt("track", "idle")
  /\ computing' = FALSE
  /\ UNCHANGED <<choice, frameData, model, posted, currTimestamp, uiPc, camPc, ends>>

\* handlerThread.quitSafely, called by onPause, lets what was posted run first.
InferenceStops ==
  /\ InfAt("idle", "stopped")
  /\ uiPc = "joinInference" /\ posted = <<>>
  /\ UNCHANGED <<choice, computing, frameData, model, posted, currTimestamp, uiPc, camPc, ends>>

Inference ==
  \/ TakeRunnable \/ TestChanged \/ Resize \/ Forget \/ Load \/ Recognize \/ Track
  \/ InferenceStops

-----------------------------------------------------------------------------
(* The UI thread *)

UiAt(from, to) == ~crashed /\ uiPc = from /\ uiPc' = to

\* Either button: changed = true ...
Click ==
  /\ UiAt("free", "changeRes") \/ UiAt("free", "changeMode")
  /\ changed' = TRUE
  /\ UNCHANGED <<size, big, computing, frameData, model, posted, currTimestamp, camPc, infPc, ends>>

\* ... and only then the choice itself: size = (size + 1) % 7, or big = !big.
Choose ==
  /\ \/ UiAt("changeRes", "free") /\ size' = NextSize(size) /\ UNCHANGED big
     \/ UiAt("changeMode", "free") /\ big' = ~big /\ UNCHANGED size
  /\ UNCHANGED <<changed, computing, frameData, model, posted, currTimestamp, camPc, infPc, ends>>

\* The debug key: onSetDebug calls detector.enableStatLogging.
OnSetDebug ==
  /\ UiAt("free", "free")
  /\ detector = NoDetector
  /\ crashed' = TRUE
  /\ UNCHANGED <<choice, computing, frameData, model, posted, currTimestamp, camPc, infPc, failed>>

\* Mutant of PauseFragment: the activity's onPause runs before the fragment's.
PauseActivityFirst ==
  /\ UiAt("free", "joinInference")
  /\ UNCHANGED <<choice, computing, frameData, model, posted, currTimestamp, camPc, infPc, ends>>

\* The activity is paused, its fragment first: closeCamera, then stopBackgroundThread.
PauseFragment ==
  /\ UiAt("free", "joinCamera")
  /\ UNCHANGED <<choice, computing, frameData, model, posted, currTimestamp, camPc, infPc, ends>>

\* CameraActivity.onPause, which takes the activity's monitor: finish, quitSafely, join ...
OnPause ==
  /\ UiAt("joinCamera", "joinInference")
  /\ camPc = "stopped"
  /\ UNCHANGED <<choice, computing, frameData, model, posted, currTimestamp, camPc, infPc, ends>>

\* ... handler = null.
Paused ==
  /\ UiAt("joinInference", "paused")
  /\ infPc = "stopped"
  /\ UNCHANGED <<choice, computing, frameData, model, posted, currTimestamp, camPc, infPc, ends>>

Ui == Click \/ Choose \/ OnSetDebug \/ PauseFragment \/ OnPause \/ Paused

Next == Camera \/ Inference \/ Ui

Spec == Init /\ [][Next]_vars

\* The threads run, the camera keeps delivering frames, and its thread ends once quitSafely
\* keeps new ones out; nobody has to press a button or leave.
Fairness ==
  /\ WF_vars(Camera) /\ SF_vars(FrameArrives) /\ SF_vars(CameraStops)
  /\ WF_vars(Inference)
  /\ WF_vars(Choose \/ OnPause \/ Paused)

LiveSpec == Spec /\ Fairness

-----------------------------------------------------------------------------
(* Properties *)

\* Every variable has its type, and at most one Runnable is queued.
TypeOK ==
  /\ changed \in BOOLEAN /\ size \in Sizes /\ big \in BOOLEAN /\ computing \in BOOLEAN
  /\ timestamp \in Frames /\ yuvBytes \in Frames /\ luminance \in Frames
  /\ bitmapFrame \in Frames \cup {Blank}
  /\ bitmapSize \in Sizes /\ YOLO_INPUT_SIZE \in Sizes
  /\ detector \in Detectors \cup {NoDetector}
  /\ posted = <<>> \/ (Len(posted) = 1 /\ posted[1] \in Frames)
  /\ currTimestamp \in Frames
  /\ uiPc \in {"free", "changeRes", "changeMode", "joinCamera", "joinInference", "paused"}
  /\ camPc \in {"idle", "filled", "convert", "post", "stopped"}
  /\ infPc \in {"idle", "test", "resize", "forget", "loadBig", "loadSmall", "recognize",
                "track", "stopped"}
  /\ failed \in BOOLEAN /\ crashed \in BOOLEAN

\* "No mutex needed as this method is not reentrant": the unguarded flag computing is enough
\* to keep onImageAvailable from converting and drawing a frame while a Runnable that uses
\* the same bitmaps is queued or runs.
NoMutexNeeded ==
  camPc \in {"convert", "post"} => computing /\ posted = <<>> /\ infPc \in {"idle", "stopped"}

\* trackResults is given one frame: the luminance and the image that was recognized are those
\* of the Runnable's timestamp, although frames kept arriving meanwhile; the image may only
\* be the empty one that a change of size put in its place.
OneFrameTracked ==
  infPc = "track"
    => luminance = currTimestamp /\ bitmapFrame \in {currTimestamp, Blank}

\* The detector, its input size and the bitmap agree whenever a frame is recognized, however
\* clicks fall between the reads of size and big; so h == YOLO_INPUT_SIZE always holds and
\* computing is always reset.
DetectorFitsImage ==
  infPc = "recognize"
    => detector.size = YOLO_INPUT_SIZE /\ bitmapSize = YOLO_INPUT_SIZE

\* A click sets changed before the choice, so the inference thread may serve it with the old
\* choice; the detector is then one click behind, and never more, whatever follows.
AtMostOneClickBehind ==
  ~changed /\ infPc \notin {"resize"} => OneClickBehind(YOLO_INPUT_SIZE)

\* A frame that was claimed is processed to the end, also when the activity is paused
\* meanwhile: nothing that was posted is dropped, and computing does not stay set.  And
\* onPause, which waits for the inference thread inside the activity's monitor while
\* runInBackground needs that monitor, returns.
ClaimedFrameIsFinished ==
  /\ computing /\ ~failed ~> ~computing \/ failed \/ crashed
  /\ uiPc = "joinCamera" ~> uiPc = "paused" \/ crashed

\* A click whose choice is written before the inference thread takes the flag is applied:
\* the detector that is loaded has the size and the model chosen, unless the next click, the
\* end of the activity or a failed frame comes first.  (A click that is overtaken between
\* its two assignments waits for the next one: AtMostOneClickBehind, and section 4 of the
\* README.)
ClickIsApplied ==
  changed /\ uiPc = "free"
    ~> detector = [size |-> size, big |-> big] \/ uiPc # "free" \/ failed \/ crashed

=============================================================================
