-------------------------- MODULE MultiBoxTracker --------------------------
(***************************************************************************)
(* tracking/MultiBoxTracker.java on top of tracking/ObjectTracker.java.    *)
(*                                                                         *)
(* onFrame (camera thread) lets the native tracker follow the boxes and    *)
(* drops those it lost; trackResults (inference thread) matches the        *)
(* detector's results with the boxes being tracked.  Both are synchronized *)
(* methods: trackResults holds the monitor until `pending`, the detections *)
(* it has yet to handle, is zero.  draw only reads.                        *)
(*                                                                         *)
(* Positions are the native tracker's: how much a new box overlaps each    *)
(* tracked one is an input of the step.  Overlap 0 is at most MAX_OVERLAP, *)
(* correlations are 0: below MIN_CORRELATION, 1: below                     *)
(* MARGINAL_CORRELATION, 2: equal to it, 3: above.                         *)
(***************************************************************************)
EXTENDS Naturals, FiniteSets

CONSTANTS
  ColorCount,     \* COLORS.length, 6 in the code
  Recognitions,   \* TrackedRecognition objects with their TrackedObject
  Confidences,    \* detection confidences
  MaxResults      \* bound on the detections of one trackResults call

ASSUME ColorCountAssumption == ColorCount \in Nat \ {0}
ASSUME ConfidencesAssumption == Confidences \subseteq Nat /\ Confidences # {}
ASSUME MaxResultsAssumption == MaxResults \in Nat

VARIABLES
  objectTracker,    \* "unset", "none" (no native library) or "native"
  availableColors,  \* how often each colour is in the queue
  trackedObjects,   \* the recognitions in the list
  color,            \* their fields
  detectionConfidence,
  correlation,      \* what the native tracker reports for them
  registered,       \* the objects the native tracker holds
  pending           \* detections the running trackResults has yet to handle

vars == <<objectTracker, availableColors, trackedObjects, color, detectionConfidence,
          correlation, registered, pending>>

Colors == 0 .. ColorCount - 1
Overlaps == 0 .. 2
Lost == 0
Marginal == 2
Correlations == 0 .. 3

Init ==
  /\ objectTracker = "unset"
  /\ availableColors = [c \in Colors |-> 1]
  /\ trackedObjects = {}
  /\ color = [r \in Recognitions |-> 0]
  /\ detectionConfidence = [r \in Recognitions |-> 0]
  /\ correlation = [r \in Recognitions |-> 0]
  /\ registered = {}
  /\ pending = 0

\* Objects leaving the list give their colours to the queue.
Returned(gone) ==
  [c \in Colors |-> availableColors[c] + Cardinality({r \in gone : color[r] = c})]

\* Mutant of OnFrame: the colour of a lost object is not returned to the queue.
OnFrameKeepsColor ==
  /\ pending = 0
  /\ objectTracker' \in IF objectTracker = "unset" THEN {"none", "native"} ELSE {objectTracker}
  /\ IF objectTracker' = "none"
       THEN UNCHANGED <<trackedObjects, correlation, registered>>
       ELSE \E now \in [trackedObjects -> Correlations] :
              LET gone == {r \in trackedObjects : now[r] = Lost} IN
              /\ registered' = registered \ gone
              /\ trackedObjects' = trackedObjects \ gone
              /\ correlation' = [r \in Recognitions |->
                                   IF r \in trackedObjects' THEN now[r] ELSE Lost]
  /\ UNCHANGED <<availableColors, color, detectionConfidence, pending>>

\* onFrame: the first call looks for the native library; after nextFrame every object whose
\* correlation fell below MIN_CORRELATION is stopped, removed, and its colour returned.
OnFrame ==
  /\ pending = 0
  /\ objectTracker' \in IF objectTracker = "unset" THEN {"none", "native"} ELSE {objectTracker}
  /\ IF objectTracker' = "none"
       THEN UNCHANGED <<availableColors, trackedObjects, correlation, registered>>
       ELSE \E now \in [trackedObjects -> Correlations] :
              LET gone == {r \in trackedObjects : now[r] = Lost} IN
              /\ registered' = registered \ gone
              /\ trackedObjects' = trackedObjects \ gone
              /\ availableColors' = Returned(gone)
              /\ correlation' = [r \in Recognitions |->
                                   IF r \in trackedObjects' THEN now[r] ELSE Lost]
  /\ UNCHANGED <<color, detectionConfidence, pending>>

\* trackResults with n results worth tracking (located, and not smaller than MIN_SIZE).
\* Without the native library the list is rebuilt from the first COLORS.length of them.
TrackResults(n) ==
  /\ pending = 0 /\ objectTracker # "unset"
  /\ IF objectTracker = "native" \/ n = 0
       THEN /\ pending' = n
            /\ UNCHANGED <<trackedObjects, color, detectionConfidence>>
       ELSE \E list \in SUBSET Recognitions :
              /\ Cardinality(list) = IF n < ColorCount THEN n ELSE ColorCount
              /\ trackedObjects' = list
              /\ \E order \in [list -> Colors] :
                   /\ \A r, s \in list : order[r] = order[s] => r = s
                   /\ \A r \in list : order[r] < Cardinality(list)
                   /\ color' = [r \in Recognitions |-> IF r \in list THEN order[r] ELSE 0]
              /\ detectionConfidence' \in
                   {f \in [Recognitions -> Confidences \cup {0}] :
                      \A r \in Recognitions \ list : f[r] = 0}
              /\ UNCHANGED pending
  /\ UNCHANGED <<objectTracker, availableColors, correlation, registered>>

-----------------------------------------------------------------------------
(* handleDetection: a new object r with confidence c and correlation k, overlapping the
   tracked ones as `overlap` says.  objectTracker.trackObject has registered it. *)

Intersected(overlap) == {o \in trackedObjects : overlap[o] > 0}

\* The existing track is going strong and its detection score was better.
Blocks(o, c) == c < detectionConfidence[o] /\ correlation[o] > Marginal

\* "Correlation too low to begin tracking", or an intersected object that blocks it.
Reject(r, c, k, overlap) ==
  /\ k < Marginal \/ \E o \in Intersected(overlap) : Blocks(o, c)
  /\ registered' = (registered \cup {r}) \ {r}
  /\ UNCHANGED <<availableColors, trackedObjects, color, detectionConfidence, correlation>>

\* Stop and remove the objects of removeList, and track r with the colour of donor.
ReplaceBy(r, c, k, removeList, donor) ==
  /\ registered' = (registered \cup {r}) \ removeList
  /\ trackedObjects' = (trackedObjects \ removeList) \cup {r}
  /\ availableColors' = Returned(removeList \ {donor})
  /\ color' = [color EXCEPT ![r] = color[donor]]
  /\ detectionConfidence' = [detectionConfidence EXCEPT ![r] = c]
  /\ correlation' = [o \in Recognitions |->
                       IF o = r THEN k ELSE IF o \in removeList THEN Lost ELSE correlation[o]]

\* Everything intersected is removed; the one with the largest intersection donates its
\* colour.
ReplaceIntersected(r, c, k, overlap) ==
  /\ k >= Marginal
  /\ Intersected(overlap) # {}
  /\ \A o \in Intersected(overlap) : ~Blocks(o, c)
  /\ \E donor \in Intersected(overlap) :
       /\ \A o \in Intersected(overlap) : overlap[o] <= overlap[donor]
       /\ ReplaceBy(r, c, k, Intersected(overlap), donor)

NoColorLeft == \A d \in Colors : availableColors[d] = 0

\* Mutant of ReplaceWorst: the least confident object goes even when it is not worse.
ReplaceWorstAlways(r, c, k, overlap) ==
  /\ k >= Marginal
  /\ Intersected(overlap) = {} /\ NoColorLeft
  /\ \E donor \in trackedObjects :
       /\ \A o \in trackedObjects : detectionConfidence[donor] <= detectionConfidence[o]
       /\ ReplaceBy(r, c, k, {donor}, donor)

\* No colour is left and nothing intersects: the least confident object, if it is less
\* confident than the new one, makes room.
ReplaceWorst(r, c, k, overlap) ==
  /\ k >= Marginal
  /\ Intersected(overlap) = {} /\ NoColorLeft
  /\ \E donor \in trackedObjects :
       /\ detectionConfidence[donor] < c
       /\ \A o \in trackedObjects : detectionConfidence[donor] <= detectionConfidence[o]
       /\ ReplaceBy(r, c, k, {donor}, donor)

\* "No room to track this object, aborting."
NoRoom(r, c, k, overlap) ==
  /\ k >= Marginal
  /\ Intersected(overlap) = {} /\ NoColorLeft
  /\ \A o \in trackedObjects : detectionConfidence[o] >= c
  /\ registered' = (registered \cup {r}) \ {r}
  /\ UNCHANGED <<availableColors, trackedObjects, color, detectionConfidence, correlation>>

\* The new object takes a colour from the queue.
TakeColor(r, c, k, overlap) ==
  /\ k >= Marginal
  /\ Intersected(overlap) = {}
  /\ \E d \in Colors :
       /\ availableColors[d] > 0
       /\ availableColors' = [availableColors EXCEPT ![d] = @ - 1]
       /\ color' = [color EXCEPT ![r] = d]
  /\ registered' = registered \cup {r}
  /\ trackedObjects' = trackedObjects \cup {r}
  /\ detectionConfidence' = [detectionConfidence EXCEPT ![r] = c]
  /\ correlation' = [correlation EXCEPT ![r] = k]

HandleDetection ==
  /\ pending > 0
  /\ pending' = pending - 1
  /\ \E r \in Recognitions \ (trackedObjects \cup registered), c \in Confidences,
        k \in Correlations, overlap \in [trackedObjects -> Overlaps] :
       \/ Reject(r, c, k, overlap)
       \/ ReplaceIntersected(r, c, k, overlap)
       \/ ReplaceWorst(r, c, k, overlap)
       \/ NoRoom(r, c, k, overlap)
       \/ TakeColor(r, c, k, overlap)
  /\ UNCHANGED objectTracker

Next == OnFrame \/ (\E n \in 0 .. MaxResults : TrackResults(n)) \/ HandleDetection

Spec == Init /\ [][Next]_vars

-----------------------------------------------------------------------------
(* Properties *)

\* Every variable has its type.
TypeOK ==
  /\ objectTracker \in {"unset", "none", "native"}
  /\ availableColors \in [Colors -> Nat]
  /\ trackedObjects \in SUBSET Recognitions
  /\ color \in [Recognitions -> Colors]
  /\ detectionConfidence \in [Recognitions -> Nat]
  /\ correlation \in [Recognitions -> Correlations]
  /\ registered \in SUBSET Recognitions
  /\ pending \in 0 .. MaxResults

\* Two boxes on the screen never have the same colour, with and without the native library.
DistinctColors ==
  \A r, s \in trackedObjects : color[r] = color[s] => r = s

\* With the native library a colour is in the queue exactly once or on exactly one tracked
\* object, whatever detections, replacements and lost objects did: none leaks, none is
\* duplicated.
ColorsConserved ==
  objectTracker # "none" =>
    \A c \in Colors :
      availableColors[c] = IF \E r \in trackedObjects : color[r] = c THEN 0 ELSE 1

\* The native tracker holds exactly the objects of the list: every path of handleDetection
\* and onFrame stops what it does not keep, and stops nothing twice.
NoNativeLeak ==
  registered = IF objectTracker = "none" THEN {} ELSE trackedObjects

\* The inductive invariant: the three above, and detections are only handled once the
\* native tracker exists.
TrackerInv ==
  /\ DistinctColors /\ ColorsConserved /\ NoNativeLeak
  /\ objectTracker # "native" => pending = 0
  /\ objectTracker = "unset" => trackedObjects = {}

KeepsStrongTracks ==
  \A o \in trackedObjects \ trackedObjects' :
    \/ objectTracker # "native"
    \/ pending = 0              \* onFrame: the native tracker lost it
    \/ correlation[o] <= Marginal
    \/ \E r \in trackedObjects' \ trackedObjects :
         detectionConfidence'[r] >= detectionConfidence[o]

\* A tracked object that is going strong is only displaced by a detection at least as
\* confident, and that detection is then tracked in its place.
StrongTracksAreKept == [][KeepsStrongTracks]_vars

=============================================================================
