----------------------------- MODULE MCOffload -----------------------------
(***************************************************************************)
(* Offload with the battery's limit on the bitrate taken from its table:   *)
(* runOptimization skips the bitrates above battery[0].inv(batteryTarget,  *)
(* networkBandwidth).                                                      *)
(*                                                                         *)
(* The tables are increasing and start with the padding 0, as those of     *)
(* CameraActivity.  Bitrate l lies in the middle between the grid points   *)
(* l and l + 1.                                                            *)
(***************************************************************************)
EXTENDS Offload, MeasureFxn

CONSTANTS
  LastPoint,   \* the last index of x1, 3 for the battery tables
  MaxY         \* the values a table may have

ASSUME LastPointAssumption == LastPoint \in Nat \ {0, 1} /\ BitrateCount <= LastPoint
ASSUME MaxYAssumption == MaxY \in Nat

VARIABLES y, y_search   \* yGivenX2 of battery[0], and batteryTarget

Tables ==
  {t \in [0 .. LastPoint -> 0 .. MaxY] :
     t[0] = 0 /\ \A l \in 1 .. LastPoint : t[l - 1] < t[l]}

BitratePoint(l) == [num |-> 2 * l + 1, den |-> 2]

\* Mutant of WithinBattery: the limit is rounded up to a grid point.
WithinBatteryRoundedUp(l) ==
  LET x == inv(y, y_search) IN AtMost(BitratePoint(l), AtGrid((x.num + x.den - 1) \div x.den))

\* Bitrate l passes the battery's part of the test; bandwidth and cost may exclude it still.
WithinBattery(l) == AtMost(BitratePoint(l), inv(y, y_search))

\* Every candidate, with a battery that excludes none (the bitrates that are affordable do not
\* matter when the phone may not offload); and every table and target.
AnyCandidates ==
  /\ y = [l \in 0 .. LastPoint |-> l] /\ y_search = LastPoint + 1
  /\ Init
  /\ mayOffload \/ affordable = 0
AnyBattery ==
  /\ y \in Tables /\ y_search \in 0 .. MaxY + 1
  /\ affordable \in 0 .. BitrateCount /\ \A l \in 0 .. affordable - 1 : WithinBattery(l)
  /\ remoteUtility = [c \in Remotes |-> 1]
  /\ localUtility = [c \in Locals |-> 1] /\ localMeets = {}
  /\ Init
MCInit == AnyCandidates \/ AnyBattery

MCSpec == MCInit /\ [][Next /\ UNCHANGED <<y, y_search>>]_<<vars, y, y_search>>

\* Below the value of the last point but one, what is returned keeps to the battery's target:
\* at the bitrate chosen the battery's table is at most batteryTarget.
BudgetRespected ==
  phase = "done" /\ decision = 0 /\ y_search < y[LastPoint - 1]
    => AtMost(interp(y, BitratePoint(bitrate)), AtGrid(y_search))

\* inv returns a point of the domain; and below the value of the last point but one, interp
\* and inv undo each other exactly, although the search goes for the closest grid point, from
\* above or below.  A greater budget never gives a smaller point.
InverseIsExact ==
  phase = "done" =>
    LET x == inv(y, y_search) IN
    /\ AtMost(AtGrid(0), x) /\ AtMost(x, AtGrid(LastPoint))
    /\ y_search < y[LastPoint - 1] => interp(y, x).num = y_search * interp(y, x).den
    /\ \A lower \in 0 .. y_search : AtMost(inv(y, lower), x)
=============================================================================
