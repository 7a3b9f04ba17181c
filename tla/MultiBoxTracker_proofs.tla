----------------------- MODULE MultiBoxTracker_proofs -----------------------
(* Proofs about MultiBoxTracker, for every number of colours and objects.  *)
EXTENDS MultiBoxTracker, FiniteSetTheorems, TLAPS

USE ColorCountAssumption, ConfidencesAssumption, MaxResultsAssumption

\* Objects of distinct colours return each colour at most once.
LEMMA ReturnedOnce ==
  ASSUME NEW gone, NEW c,
         \A r, s \in gone : color[r] = color[s] => r = s
  PROVE  Cardinality({r \in gone : color[r] = c})
           = IF \E r \in gone : color[r] = c THEN 1 ELSE 0
  <1>1. CASE \E r \in gone : color[r] = c
    <2> PICK r \in gone : color[r] = c
      BY <1>1
    <2>1. {s \in gone : color[s] = c} = {r}
      OBVIOUS
    <2> QED BY <2>1, <1>1, FS_Singleton
  <1>2. CASE ~ \E r \in gone : color[r] = c
    <2>1. {s \in gone : color[s] = c} = {}
      BY <1>2
    <2> QED BY <2>1, <1>2, FS_EmptySet
  <1> QED BY <1>1, <1>2

\* Removing objects and returning their colours, except the donor's, leaves every colour
\* with one owner: the queue, a tracked object or the donor.
LEMMA ReturnConserves ==
  ASSUME TypeOK, DistinctColors, ColorsConserved, objectTracker # "none",
         NEW gone \in SUBSET trackedObjects, NEW kept \in SUBSET gone
  PROVE  Returned(gone \ kept) =
           [c \in Colors |-> IF \E r \in (trackedObjects \ gone) \cup kept : color[r] = c
                               THEN 0 ELSE 1]
  <1> DEFINE Back(c) == availableColors[c] + Cardinality({r \in gone \ kept : color[r] = c})
             Free(c) == IF \E r \in (trackedObjects \ gone) \cup kept : color[r] = c
                          THEN 0 ELSE 1
  <1> SUFFICES ASSUME NEW c \in Colors PROVE Back(c) = Free(c)
    <2>1. Returned(gone \ kept) = [c \in Colors |-> Back(c)]
      BY DEF Returned
    <2>2. \A c \in Colors : Back(c) = Free(c)
      OBVIOUS
    <2> HIDE DEF Back, Free
    <2>3. [c \in Colors |-> Back(c)] = [c \in Colors |-> Free(c)]
      BY <2>2
    <2> QED BY <2>1, <2>3 DEF Free
  <1>1. Cardinality({r \in gone \ kept : color[r] = c})
          = IF \E r \in gone \ kept : color[r] = c THEN 1 ELSE 0
    <2>1. \A r, s \in gone \ kept : color[r] = color[s] => r = s
      BY DEF DistinctColors
    <2> HIDE DEF Back, Free
    <2> QED BY ONLY <2>1, ReturnedOnce, Zenon
  <1>2. availableColors[c] = IF \E r \in trackedObjects : color[r] = c THEN 0 ELSE 1
    BY DEF ColorsConserved
  <1>3. CASE \E r \in gone \ kept : color[r] = c
    <2>1. ~ \E r \in (trackedObjects \ gone) \cup kept : color[r] = c
      BY <1>3 DEF DistinctColors
    <2> QED BY <1>1, <1>2, <1>3, <2>1
  <1>4. CASE ~ \E r \in gone \ kept : color[r] = c
    BY <1>1, <1>2, <1>4
  <1> QED BY <1>3, <1>4

\* onFrame keeps colours and native objects in step with the list.
LEMMA OnFrameInv == TypeOK /\ TrackerInv /\ OnFrame => TypeOK' /\ TrackerInv'
  <1> SUFFICES ASSUME TypeOK, TrackerInv, OnFrame PROVE TypeOK' /\ TrackerInv'
    OBVIOUS
  <1>t. objectTracker' \in {"none", "native"} /\ (objectTracker' = "none" => pending = 0)
    BY DEF OnFrame, TypeOK
  <1>1. CASE objectTracker' = "none"
    <2>1. UNCHANGED <<availableColors, trackedObjects, correlation, registered, color,
                      detectionConfidence, pending>>
      BY <1>1 DEF OnFrame
    <2>2. objectTracker = "unset" \/ objectTracker = "none"
      BY <1>1 DEF OnFrame, TypeOK
    <2> QED BY <1>1, <1>t, <2>1, <2>2 DEF TypeOK, TrackerInv, DistinctColors, ColorsConserved,
                                         NoNativeLeak
  <1>2. CASE objectTracker' = "native"
    <2>1. PICK now \in [trackedObjects -> Correlations] :
            LET gone == {r \in trackedObjects : now[r] = Lost} IN
            /\ registered' = registered \ gone
            /\ trackedObjects' = trackedObjects \ gone
            /\ availableColors' = Returned(gone)
            /\ correlation' = [r \in Recognitions |->
                                 IF r \in trackedObjects' THEN now[r] ELSE Lost]
      BY <1>2 DEF OnFrame
    <2> DEFINE gone == {r \in trackedObjects : now[r] = Lost}
    <2>2. objectTracker # "none"
      BY <1>2 DEF OnFrame, TypeOK
    <2>3. Returned(gone \ {}) =
            [c \in Colors |-> IF \E r \in (trackedObjects \ gone) \cup {} : color[r] = c
                                THEN 0 ELSE 1]
      <3>1. gone \in SUBSET trackedObjects /\ {} \in SUBSET gone
        OBVIOUS
      <3>2. DistinctColors /\ ColorsConserved
        BY DEF TrackerInv
      <3> HIDE DEF gone
      <3> QED BY ONLY <2>2, <3>1, <3>2, TypeOK, ReturnConserves, Zenon
    <2>4. gone \ {} = gone /\ (trackedObjects \ gone) \cup {} = trackedObjects'
      BY <2>1
    <2>5. availableColors' = [c \in Colors |-> IF \E r \in trackedObjects' : color[r] = c
                                                THEN 0 ELSE 1]
      BY <2>1, <2>3, <2>4
    <2>6. UNCHANGED <<color, detectionConfidence, pending>>
      BY DEF OnFrame
    <2>7. correlation' \in [Recognitions -> Correlations]
      BY <2>1 DEF Correlations, Lost
    <2>8. TypeOK'
      <3>1. availableColors' \in [Colors -> Nat]
        BY <2>5
      <3> QED BY <1>2, <2>1, <2>6, <2>7, <3>1 DEF TypeOK
    <2>9. ColorsConserved'
      BY <2>5, <2>6 DEF ColorsConserved
    <2>10. DistinctColors'
      BY <2>1, <2>6 DEF TrackerInv, DistinctColors
    <2>11. NoNativeLeak'
      BY <1>2, <2>1, <2>2 DEF TrackerInv, NoNativeLeak
    <2> QED BY <1>2, <2>8, <2>9, <2>10, <2>11 DEF TrackerInv
  <1> QED BY <1>t, <1>1, <1>2

\* trackResults without the native library gives its boxes distinct colours; with it, only
\* the number of detections to handle changes.
LEMMA TrackResultsInv ==
  ASSUME TypeOK, TrackerInv, NEW n \in 0 .. MaxResults, TrackResults(n)
  PROVE  TypeOK' /\ TrackerInv'
  <1>1. CASE objectTracker = "native" \/ n = 0
    BY <1>1 DEF TrackResults, TypeOK, TrackerInv, DistinctColors, ColorsConserved, NoNativeLeak
  <1>2. CASE objectTracker # "native" /\ n # 0
    <2>1. PICK list \in SUBSET Recognitions :
            /\ trackedObjects' = list
            /\ \E order \in [list -> Colors] :
                   /\ \A r, s \in list : order[r] = order[s] => r = s
                   /\ color' = [r \in Recognitions |-> IF r \in list THEN order[r] ELSE 0]
            /\ detectionConfidence' \in [Recognitions -> Confidences \cup {0}]
            /\ UNCHANGED pending
      BY <1>2 DEF TrackResults
    <2>2. PICK order \in [list -> Colors] :
            /\ \A r, s \in list : order[r] = order[s] => r = s
            /\ color' = [r \in Recognitions |-> IF r \in list THEN order[r] ELSE 0]
      BY <2>1
    <2>3. color' \in [Recognitions -> Colors] /\ DistinctColors'
      BY <2>1, <2>2 DEF Colors, DistinctColors
    <2>4. objectTracker = "none"
      BY <1>2 DEF TrackResults, TypeOK
    <2>5. UNCHANGED <<objectTracker, availableColors, correlation, registered>>
      BY DEF TrackResults
    <2>6. detectionConfidence' \in [Recognitions -> Nat]
      <3>1. Confidences \cup {0} \subseteq Nat
        OBVIOUS
      <3> QED BY <2>1, <3>1
    <2> QED BY <2>1, <2>3, <2>4, <2>5, <2>6 DEF TypeOK, TrackerInv, ColorsConserved, NoNativeLeak
  <1> QED BY <1>1, <1>2

\* Removing some objects in favour of a new one that inherits the colour of one of them.
LEMMA ReplaceByInv ==
  ASSUME TypeOK, TrackerInv, objectTracker = "native", objectTracker' = objectTracker,
         pending' \in 0 .. MaxResults,
         NEW r \in Recognitions \ (trackedObjects \cup registered), NEW c \in Confidences,
         NEW k \in Correlations, NEW removeList \in SUBSET trackedObjects,
         NEW donor \in removeList, ReplaceBy(r, c, k, removeList, donor)
  PROVE  TypeOK' /\ TrackerInv'
  <1>1. Returned(removeList \ {donor}) =
          [d \in Colors |-> IF \E o \in (trackedObjects \ removeList) \cup {donor} : color[o] = d
                              THEN 0 ELSE 1]
    <2>1. {donor} \in SUBSET removeList /\ objectTracker # "none"
      OBVIOUS
    <2>2. DistinctColors /\ ColorsConserved
      BY DEF TrackerInv
    <2> QED BY ONLY <2>1, <2>2, TypeOK, removeList \in SUBSET trackedObjects, ReturnConserves,
                    Zenon
  <1>2. /\ registered' = (registered \cup {r}) \ removeList
        /\ trackedObjects' = (trackedObjects \ removeList) \cup {r}
        /\ availableColors' = Returned(removeList \ {donor})
        /\ color' = [color EXCEPT ![r] = color[donor]]
        /\ detectionConfidence' = [detectionConfidence EXCEPT ![r] = c]
    BY DEF ReplaceBy
  <1>3. correlation' \in [Recognitions -> Correlations]
    BY DEF ReplaceBy, TypeOK, Correlations, Lost
  <1>4. color'[r] = color[donor] /\ \A o \in trackedObjects : color'[o] = color[o]
    BY <1>2 DEF TypeOK
  <1>5. \A d \in Colors : (\E o \in trackedObjects' : color'[o] = d)
          <=> (\E o \in (trackedObjects \ removeList) \cup {donor} : color[o] = d)
    BY <1>2, <1>4
  <1>6. ColorsConserved'
    BY <1>1, <1>2, <1>5 DEF ColorsConserved
  <1>7. DistinctColors'
    BY <1>2, <1>4 DEF TrackerInv, DistinctColors
  <1>8. NoNativeLeak'
    BY <1>2 DEF TrackerInv, NoNativeLeak
  <1>9. TypeOK'
    <2>1. availableColors' \in [Colors -> Nat]
      <3> DEFINE Kept(d) == \E o \in (trackedObjects \ removeList) \cup {donor} : color[o] = d
      <3>1. availableColors' = [d \in Colors |-> IF Kept(d) THEN 0 ELSE 1]
        BY ONLY <1>1, <1>2
      <3> HIDE DEF Kept
      <3> QED BY ONLY <3>1
    <2>2. color' \in [Recognitions -> Colors] /\ detectionConfidence' \in [Recognitions -> Nat]
      BY <1>2 DEF TypeOK
    <2> QED BY <1>2, <1>3, <2>1, <2>2 DEF TypeOK
  <1> QED BY <1>6, <1>7, <1>8, <1>9 DEF TrackerInv

\* Every path of handleDetection keeps colours and native objects in step with the list.
LEMMA HandleDetectionInv == TypeOK /\ TrackerInv /\ HandleDetection => TypeOK' /\ TrackerInv'
  <1> SUFFICES ASSUME TypeOK, TrackerInv, HandleDetection PROVE TypeOK' /\ TrackerInv'
    OBVIOUS
  <1>1. objectTracker = "native" /\ objectTracker' = objectTracker /\ pending' \in 0 .. MaxResults
    BY DEF HandleDetection, TypeOK, TrackerInv
  <1>2. PICK r \in Recognitions \ (trackedObjects \cup registered), c \in Confidences,
             k \in Correlations, overlap \in [trackedObjects -> Overlaps] :
          \/ Reject(r, c, k, overlap) \/ ReplaceIntersected(r, c, k, overlap)
          \/ ReplaceWorst(r, c, k, overlap) \/ NoRoom(r, c, k, overlap)
          \/ TakeColor(r, c, k, overlap)
    BY DEF HandleDetection
  <1>3. CASE Reject(r, c, k, overlap) \/ NoRoom(r, c, k, overlap)
    <2>1. UNCHANGED <<objectTracker, availableColors, trackedObjects, color,
                      detectionConfidence, correlation, registered>>
      BY <1>1, <1>3 DEF Reject, NoRoom
    <2> QED BY <1>1, <2>1 DEF TypeOK, TrackerInv, DistinctColors, ColorsConserved, NoNativeLeak
  <1>4. CASE ReplaceIntersected(r, c, k, overlap)
    <2>1. PICK donor \in Intersected(overlap) :
            ReplaceBy(r, c, k, Intersected(overlap), donor)
      BY <1>4 DEF ReplaceIntersected
    <2>2. Intersected(overlap) \in SUBSET trackedObjects
      BY DEF Intersected
    <2> QED BY <1>1, <2>1, <2>2, ReplaceByInv
  <1>5. CASE ReplaceWorst(r, c, k, overlap)
    <2>1. PICK donor \in trackedObjects : ReplaceBy(r, c, k, {donor}, donor)
      BY <1>5 DEF ReplaceWorst
    <2>2. {donor} \in SUBSET trackedObjects /\ donor \in {donor}
      OBVIOUS
    <2> QED BY <1>1, <2>1, <2>2, ReplaceByInv
  <1>6. CASE TakeColor(r, c, k, overlap)
    <2>1. PICK d \in Colors :
            /\ availableColors[d] > 0
            /\ availableColors' = [availableColors EXCEPT ![d] = @ - 1]
            /\ color' = [color EXCEPT ![r] = d]
      BY <1>6 DEF TakeColor
    <2>2. /\ registered' = registered \cup {r}
          /\ trackedObjects' = trackedObjects \cup {r}
          /\ detectionConfidence' = [detectionConfidence EXCEPT ![r] = c]
          /\ correlation' = [correlation EXCEPT ![r] = k]
      BY <1>6 DEF TakeColor
    <2>3. color'[r] = d /\ \A o \in trackedObjects : color'[o] = color[o]
      BY <2>1 DEF TypeOK
    <2>4. ColorsConserved /\ DistinctColors
      BY DEF TrackerInv
    <2>5. availableColors[d] = 1 /\ \A o \in trackedObjects : color[o] # d
      BY <1>1, <2>1, <2>4 DEF ColorsConserved
    <2>6. ColorsConserved'
      BY <1>1, <2>1, <2>2, <2>3, <2>4, <2>5 DEF ColorsConserved, TypeOK
    <2>7. DistinctColors'
      BY <2>2, <2>3, <2>4, <2>5 DEF DistinctColors
    <2>8. NoNativeLeak'
      BY <1>1, <2>2 DEF TrackerInv, NoNativeLeak
    <2>9. TypeOK'
      BY <1>1, <2>1, <2>2, <2>5 DEF TypeOK
    <2> QED BY <1>1, <2>6, <2>7, <2>8, <2>9 DEF TrackerInv
  <1> QED BY <1>2, <1>3, <1>4, <1>5, <1>6

\* However many frames, detections and replacements the tracker went through, every colour
\* is in the queue once or on one box, boxes have distinct colours, and the native tracker
\* holds exactly the listed objects.
THEOREM TrackerCorrect == Spec => [](TypeOK /\ TrackerInv)
  <1>1. Init => TypeOK /\ TrackerInv
    BY DEF Init, TypeOK, TrackerInv, DistinctColors, ColorsConserved, NoNativeLeak, Colors,
           Correlations
  <1>2. TypeOK /\ TrackerInv /\ [Next]_vars => (TypeOK /\ TrackerInv)'
    <2>1. TypeOK /\ TrackerInv /\ UNCHANGED vars => (TypeOK /\ TrackerInv)'
      BY DEF TypeOK, TrackerInv, DistinctColors, ColorsConserved, NoNativeLeak, vars
    <2> QED BY <2>1, OnFrameInv, TrackResultsInv, HandleDetectionInv DEF Next
  <1> QED BY <1>1, <1>2, PTL DEF Spec

\* No colour leaks and none is duplicated.
THEOREM ColorsAreConserved == Spec => []ColorsConserved
  <1>1. TypeOK /\ TrackerInv => ColorsConserved
    BY DEF TrackerInv
  <1> QED BY <1>1, TrackerCorrect, PTL

\* Every native object the tracker creates is listed or stopped.
THEOREM NativeObjectsAreListed == Spec => []NoNativeLeak
  <1>1. TypeOK /\ TrackerInv => NoNativeLeak
    BY DEF TrackerInv
  <1> QED BY <1>1, TrackerCorrect, PTL

\* One detection displaces strong tracks only in favour of a new one at least as confident.
LEMMA ReplaceByKeepsStrong ==
  ASSUME TypeOK, NEW r \in Recognitions \ (trackedObjects \cup registered),
         NEW c \in Confidences, NEW k \in Correlations,
         NEW removeList \in SUBSET trackedObjects, NEW donor,
         ReplaceBy(r, c, k, removeList, donor),
         \A o \in removeList : c >= detectionConfidence[o] \/ correlation[o] <= Marginal
  PROVE  KeepsStrongTracks
  <1>1. trackedObjects \ trackedObjects' \subseteq removeList
    BY DEF ReplaceBy
  <1>2. r \in trackedObjects' \ trackedObjects /\ detectionConfidence'[r] = c
    BY DEF ReplaceBy, TypeOK
  <1> QED BY <1>1, <1>2 DEF KeepsStrongTracks

\* A box in good standing never disappears without a detection at least as confident being
\* tracked instead.
THEOREM StrongTracks == Spec => StrongTracksAreKept
  <1>1. TypeOK /\ [Next]_vars => [KeepsStrongTracks]_vars
    <2> SUFFICES ASSUME TypeOK, Next PROVE KeepsStrongTracks
      OBVIOUS
    <2>1. CASE pending = 0
      BY <2>1 DEF KeepsStrongTracks
    <2>2. CASE HandleDetection
      <3>1. PICK r \in Recognitions \ (trackedObjects \cup registered), c \in Confidences,
                 k \in Correlations, overlap \in [trackedObjects -> Overlaps] :
              \/ Reject(r, c, k, overlap) \/ ReplaceIntersected(r, c, k, overlap)
              \/ ReplaceWorst(r, c, k, overlap) \/ NoRoom(r, c, k, overlap)
              \/ TakeColor(r, c, k, overlap)
        BY <2>2 DEF HandleDetection
      <3>2. CASE Reject(r, c, k, overlap) \/ NoRoom(r, c, k, overlap)
                 \/ TakeColor(r, c, k, overlap)
        BY <3>2 DEF Reject, NoRoom, TakeColor, KeepsStrongTracks
      <3>3. CASE ReplaceIntersected(r, c, k, overlap)
        <4>1. PICK donor \in Intersected(overlap) :
                ReplaceBy(r, c, k, Intersected(overlap), donor)
          BY <3>3 DEF ReplaceIntersected
        <4>2. Intersected(overlap) \in SUBSET trackedObjects
          BY DEF Intersected
        <4>3. \A o \in Intersected(overlap) :
                c >= detectionConfidence[o] \/ correlation[o] <= Marginal
          BY <3>3, <4>2 DEF ReplaceIntersected, Blocks, TypeOK, Correlations, Marginal
        <4> QED BY <4>1, <4>2, <4>3, ReplaceByKeepsStrong
      <3>4. CASE ReplaceWorst(r, c, k, overlap)
        <4>1. PICK donor \in trackedObjects :
                detectionConfidence[donor] < c /\ ReplaceBy(r, c, k, {donor}, donor)
          BY <3>4 DEF ReplaceWorst
        <4>2. {donor} \in SUBSET trackedObjects /\ c >= detectionConfidence[donor]
          BY <4>1 DEF TypeOK
        <4> QED BY <4>1, <4>2, ReplaceByKeepsStrong
      <3> QED BY <3>1, <3>2, <3>3, <3>4
    <2> QED BY <2>1, <2>2 DEF Next, OnFrame, TrackResults
  <1>2. TypeOK /\ TrackerInv => TypeOK
    OBVIOUS
  <1> QED BY <1>1, <1>2, TrackerCorrect, PTL DEF Spec, StrongTracksAreKept

=============================================================================
