---------------------- MODULE InferencePipeline_proofs ----------------------
(***************************************************************************)
(* Three threads without a lock: why the flag computing is enough, why the *)
(* tracker is given one frame, and why the detector fits its image.        *)
(***************************************************************************)
EXTENDS InferencePipeline, TLAPS

Running == {"test", "resize", "forget", "loadBig", "loadSmall", "recognize", "track"}

\* A frame that was claimed is in one place: converted by the camera thread, queued, or
\* processed by the inference thread; computing is set all the while.
ClaimedOnce ==
  /\ camPc \in {"convert", "post"} => computing /\ posted = <<>> /\ infPc \notin Running
  /\ posted # <<>> => computing /\ infPc \notin Running
  /\ infPc \in Running => computing

\* The buffers hold the frame that is in that place.
BuffersHoldFrame ==
  /\ camPc \in {"filled", "convert", "post"} => yuvBytes = timestamp
  /\ camPc = "post" => luminance = timestamp /\ bitmapFrame = timestamp
  /\ posted # <<>> => luminance = posted[1] /\ bitmapFrame = posted[1]
  /\ infPc \in Running => luminance = currTimestamp /\ bitmapFrame \in {currTimestamp, Blank}

\* Bitmap and input size change together; the detector follows before it is used.
SizesAgree ==
  /\ bitmapSize = YOLO_INPUT_SIZE
  /\ infPc \notin {"forget", "loadBig", "loadSmall"} => detector.size = YOLO_INPUT_SIZE

\* A click served between "changed = true" and the choice has been served with the old size.
ServedEarly ==
  ~changed /\ infPc # "resize"
    => IF uiPc = "changeRes" THEN YOLO_INPUT_SIZE = size ELSE OneClickBehind(YOLO_INPUT_SIZE)

\* The inductive invariant.
PipelineInv == TypeOK /\ ClaimedOnce /\ BuffersHoldFrame /\ SizesAgree /\ ServedEarly

\* The successor of a frame number, and of a size, is one.
LEMMA Successors ==
  /\ \A f \in Frames : NextFrame(f) \in Frames
  /\ \A s \in Sizes : NextSize(s) \in Sizes
  BY SizeCountAssumption, FrameModAssumption DEF Frames, Sizes, NextFrame, NextSize

\* It holds when the activity's threads start.
LEMMA InitPipelineInv == Init => PipelineInv
  <1> SUFFICES ASSUME Init PROVE PipelineInv
    OBVIOUS
  <1>1. 0 \in Frames
    BY FrameModAssumption DEF Frames
  <1>2. detector \in Detectors
    BY DEF Init, Detectors
  <1>3. /\ computing \in BOOLEAN /\ ~computing
        /\ failed \in BOOLEAN /\ crashed \in BOOLEAN
    BY DEF Init
  <1>4. TypeOK
    BY <1>1, <1>2, <1>3 DEF Init, TypeOK
  <1>5. ClaimedOnce /\ BuffersHoldFrame /\ SizesAgree /\ ServedEarly
    BY DEF Init, ClaimedOnce, BuffersHoldFrame, SizesAgree, ServedEarly, Running
  <1> QED BY <1>4, <1>5 DEF PipelineInv

\* A queue of one is its first element.
LEMMA OneQueued ==
  ASSUME NEW s, NEW f \in Frames, s = <<>>
  PROVE  Len(Append(s, f)) = 1 /\ Append(s, f)[1] = f /\ Append(s, f) # <<>>
  OBVIOUS

\* onImageAvailable: a frame is claimed only when the inference thread has none.
LEMMA CameraKeepsInv == PipelineInv /\ Camera => PipelineInv'
  <1> SUFFICES ASSUME PipelineInv, Camera PROVE PipelineInv'
    OBVIOUS
  <1> USE DEF PipelineInv, TypeOK, ClaimedOnce, BuffersHoldFrame, SizesAgree, ServedEarly,
              OneClickBehind, CamAt, choice, frameData, model, ends, Running
  <1>1. CASE FrameArrives
    BY <1>1, Successors DEF FrameArrives
  <1>2. CASE NoImage
    BY <1>2, Successors DEF NoImage
  <1>3. CASE Claim
    <2>1. computing' \in BOOLEAN
      BY <1>3 DEF Claim
    <2>2. CASE computing
      BY <1>3, <2>1, <2>2 DEF Claim
    <2>3. CASE ~computing
      BY <1>3, <2>1, <2>3 DEF Claim
    <2> QED BY <2>2, <2>3
  <1>4. CASE ConvertFails
    BY <1>4 DEF ConvertFails
  <1>5. CASE Convert
    BY <1>5 DEF Convert
  <1>6. CASE RunInBackground
    BY <1>6, OneQueued DEF RunInBackground
  <1>7. CASE CameraStops
    BY <1>7 DEF CameraStops
  <1> QED BY <1>1, <1>2, <1>3, <1>4, <1>5, <1>6, <1>7 DEF Camera

\* The Runnable: it takes the only queued frame, and gives computing back last.
LEMMA InferenceKeepsInv == PipelineInv /\ Inference => PipelineInv'
  <1> SUFFICES ASSUME PipelineInv, Inference PROVE PipelineInv'
    OBVIOUS
  <1> USE DEF PipelineInv, TypeOK, ClaimedOnce, BuffersHoldFrame, SizesAgree, ServedEarly,
              OneClickBehind, InfAt, choice, frameData, model, ends, Running
  <1>1. CASE TakeRunnable
    BY <1>1 DEF TakeRunnable
  <1>2. CASE TestChanged
    <2>1. changed' \in BOOLEAN
      BY <1>2 DEF TestChanged
    <2>2. CASE changed
      BY <1>2, <2>1, <2>2 DEF TestChanged
    <2>3. CASE ~changed
      BY <1>2, <2>1, <2>3 DEF TestChanged
    <2> QED BY <2>2, <2>3
  <1>3. CASE Resize
    BY <1>3 DEF Resize
  <1>4. CASE Forget
    BY <1>4 DEF Forget
  <1>5. CASE Load
    BY <1>5 DEF Load, Detectors
  <1>6. CASE Recognize
    BY <1>6 DEF Recognize
  <1>7. CASE Track
    <2>1. computing' \in BOOLEAN /\ ~computing'
      BY <1>7 DEF Track
    <2> QED BY <1>7, <2>1 DEF Track
  <1>8. CASE InferenceStops
    BY <1>8 DEF InferenceStops
  <1> QED BY <1>1, <1>2, <1>3, <1>4, <1>5, <1>6, <1>7, <1>8 DEF Inference

\* The UI thread: the size moves on once per click.
LEMMA UiKeepsInv == PipelineInv /\ Ui => PipelineInv'
  <1> SUFFICES ASSUME PipelineInv, Ui PROVE PipelineInv'
    OBVIOUS
  <1> USE DEF PipelineInv, TypeOK, ClaimedOnce, BuffersHoldFrame, SizesAgree, ServedEarly,
              OneClickBehind, UiAt, choice, frameData, model, ends, Running
  <1>1. CASE Click
    BY <1>1 DEF Click
  <1>2. CASE Choose
    <2>1. size' \in Sizes /\ big' \in BOOLEAN
      BY <1>2, Successors DEF Choose
    <2>2. CASE uiPc = "changeRes"
      BY <1>2, <2>1, <2>2 DEF Choose
    <2>3. CASE uiPc = "changeMode"
      BY <1>2, <2>1, <2>3 DEF Choose
    <2> QED BY <1>2, <2>2, <2>3 DEF Choose
  <1>3. CASE OnSetDebug
    BY <1>3 DEF OnSetDebug
  <1>4. CASE PauseFragment \/ OnPause \/ Paused
    BY <1>4 DEF PauseFragment, OnPause, Paused
  <1> QED BY <1>1, <1>2, <1>3, <1>4 DEF Ui

\* Whatever the order of frames, inference, clicks and pausing, the pipeline is consistent.
THEOREM PipelineCorrect == Spec => []PipelineInv
  <1>1. PipelineInv /\ [Next]_vars => PipelineInv'
    <2> SUFFICES ASSUME PipelineInv, [Next]_vars PROVE PipelineInv'
      OBVIOUS
    <2>1. CASE UNCHANGED vars
      BY <2>1 DEF vars, PipelineInv, TypeOK, ClaimedOnce, BuffersHoldFrame, SizesAgree,
                  ServedEarly, OneClickBehind
    <2> QED BY <2>1, CameraKeepsInv, InferenceKeepsInv, UiKeepsInv DEF Next
  <1> QED BY InitPipelineInv, <1>1, PTL DEF Spec

\* "No mutex needed": onImageAvailable never converts a frame while a Runnable is queued or
\* runs on the same bitmaps.
THEOREM FlagIsAMutex == Spec => []NoMutexNeeded
  <1>1. PipelineInv => NoMutexNeeded
    BY DEF PipelineInv, TypeOK, ClaimedOnce, NoMutexNeeded, Running
  <1> QED BY <1>1, PipelineCorrect, PTL

\* The image recognized and the luminance tracked are of the Runnable's own frame.
THEOREM TrackedFrameIsOne == Spec => []OneFrameTracked
  <1>1. PipelineInv => OneFrameTracked
    BY DEF PipelineInv, BuffersHoldFrame, OneFrameTracked, Running
  <1> QED BY <1>1, PipelineCorrect, PTL

\* The detector is used only with a bitmap of its size.
THEOREM DetectorFits == Spec => []DetectorFitsImage
  <1>1. PipelineInv => DetectorFitsImage
    BY DEF PipelineInv, SizesAgree, DetectorFitsImage
  <1> QED BY <1>1, PipelineCorrect, PTL

\* The detector is never more than one click behind the choice.
THEOREM OneClickAtMost == Spec => []AtMostOneClickBehind
  <1>1. PipelineInv => AtMostOneClickBehind
    BY DEF PipelineInv, ServedEarly, AtMostOneClickBehind, OneClickBehind
  <1> QED BY <1>1, PipelineCorrect, PTL

=============================================================================
