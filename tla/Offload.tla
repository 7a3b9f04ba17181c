------------------------------ MODULE Offload ------------------------------
(***************************************************************************)
(* Offload.runOptimization: whether to send the video to the server or to  *)
(* run a neural network on the phone, with which bitrate and resolution.   *)
(*                                                                         *)
(* Two nested loops go over the remote candidates (bitrate, resolution)    *)
(* and then over the local ones (model, resolution), keeping the best      *)
(* utility so far.  The model keeps the loops, their tests and what they   *)
(* assign.  A candidate's utility f + alpha * accuracy is an integer that  *)
(* stands for its rank; whether it meets the frame rate and accuracy       *)
(* targets, and whether a bitrate is within bandwidth, battery and cost,   *)
(* are inputs.  framerate and accuracyPerFrame, assigned with decision,    *)
(* are those of the candidate that decision, bitrate and resolution name.  *)
(***************************************************************************)
EXTENDS Integers

CONSTANTS
  BitrateCount,   \* bitrateVal.length, 10 in the code
  RemoteCount,    \* resolutionValRemote.length, 3
  LocalCount,     \* resolutionValLocal.length, 6
  numModels,      \* accuracy.length: the remote model 0 and the local ones, 3
  Floor,          \* utility_max before any candidate, -100000
  Utilities       \* the utilities a candidate may have

ASSUME CountsAssumption ==
  /\ BitrateCount \in Nat \ {0} /\ RemoteCount \in Nat \ {0}
  /\ LocalCount \in Nat \ {0} /\ numModels \in Nat \ {0}
ASSUME UtilitiesAssumption == Floor \in Int /\ Utilities \subseteq {u \in Int : u > Floor}

Remotes == (0 .. BitrateCount - 1) \X (0 .. RemoteCount - 1)
Locals == (1 .. numModels - 1) \X (0 .. LocalCount - 1)

VARIABLES
  \* inputs
  mayOffload,     \* batteryTarget > 2800
  affordable,     \* the number of bitrates, which increase, up to
                  \* min(bandwidth, battery[0].inv(...), cost, 100000)
  remoteUtility, remoteMeets,   \* per remote candidate: utility; meets both targets
  localUtility, localMeets,     \* per local candidate
  \* the loops
  phase,          \* "remote", "local" or "done"
  i, j,           \* outer and inner loop variable
  \* what is assigned
  utility_max, decision, bitrate, resolution

inputs == <<mayOffload, affordable, remoteUtility, remoteMeets, localUtility, localMeets>>
best == <<utility_max, decision, bitrate, resolution>>
vars == <<mayOffload, affordable, remoteUtility, remoteMeets, localUtility, localMeets, phase,
          i, j, utility_max, decision, bitrate, resolution>>

Init ==
  /\ mayOffload \in BOOLEAN
  /\ affordable \in 0 .. BitrateCount
  /\ remoteUtility \in [Remotes -> Utilities] /\ remoteMeets \in SUBSET Remotes
  /\ localUtility \in [Locals -> Utilities] /\ localMeets \in SUBSET Locals
  /\ phase = IF mayOffload THEN "remote" ELSE "local"
  /\ i = IF mayOffload THEN 0 ELSE 1
  /\ j = 0
  /\ utility_max = Floor
  /\ decision = -1 /\ bitrate = -1 /\ resolution = -1

-----------------------------------------------------------------------------
\* for (i ...): a bitrate above the limit is skipped with all its resolutions.
SkipBitrate ==
  /\ phase = "remote" /\ i < BitrateCount /\ j = 0
  /\ i >= affordable
  /\ i' = i + 1
  /\ UNCHANGED <<inputs, phase, j, best>>

\* for (j ...): a remote candidate is taken when it is at least as good as the best so far.
TryRemote ==
  /\ phase = "remote" /\ i < BitrateCount /\ (j = 0 => i < affordable)
  /\ IF remoteUtility[<<i, j>>] >= utility_max /\ <<i, j>> \in remoteMeets
       THEN /\ utility_max' = remoteUtility[<<i, j>>]
            /\ decision' = 0 /\ bitrate' = i /\ resolution' = j
       ELSE UNCHANGED best
  /\ IF j + 1 < RemoteCount
       THEN j' = j + 1 /\ UNCHANGED i
       ELSE j' = 0 /\ i' = i + 1
  /\ UNCHANGED <<inputs, phase>>

\* The local models follow.
CheckLocal ==
  /\ phase = "remote" /\ i >= BitrateCount
  /\ phase' = "local" /\ i' = 1 /\ j' = 0
  /\ UNCHANGED <<inputs, best>>

\* Mutant of TryLocal: a local candidate is taken when it is as good, like a remote one.
TryLocalOnTie ==
  /\ phase = "local" /\ i < numModels
  /\ IF localUtility[<<i, j>>] >= utility_max /\ <<i, j>> \in localMeets
       THEN /\ utility_max' = localUtility[<<i, j>>]
            /\ decision' = i /\ bitrate' = BitrateCount - 1 /\ resolution' = j
       ELSE UNCHANGED best
  /\ IF j + 1 < LocalCount
       THEN j' = j + 1 /\ UNCHANGED i
       ELSE j' = 0 /\ i' = i + 1
  /\ UNCHANGED <<inputs, phase>>

\* A local candidate, model i at resolution j, is taken only when it is strictly better.
TryLocal ==
  /\ phase = "local" /\ i < numModels
  /\ IF localUtility[<<i, j>>] > utility_max /\ <<i, j>> \in localMeets
       THEN /\ utility_max' = localUtility[<<i, j>>]
            /\ decision' = i /\ bitrate' = BitrateCount - 1 /\ resolution' = j
       ELSE UNCHANGED best
  /\ IF j + 1 < LocalCount
       THEN j' = j + 1 /\ UNCHANGED i
       ELSE j' = 0 /\ i' = i + 1
  /\ UNCHANGED <<inputs, phase>>

\* runOptimization returns.
Return ==
  /\ phase = "local" /\ i >= numModels
  /\ phase' = "done"
  /\ UNCHANGED <<inputs, i, j, best>>

Next == SkipBitrate \/ TryRemote \/ CheckLocal \/ TryLocal \/ Return

Spec == Init /\ [][Next]_vars

-----------------------------------------------------------------------------
(* Properties *)

\* The candidates that satisfy every constraint.
FeasibleRemotes ==
  {c \in remoteMeets : mayOffload /\ c[1] < affordable}

\* Every variable has its type, and the loops stay within their arrays.
TypeOK ==
  /\ mayOffload \in BOOLEAN /\ affordable \in 0 .. BitrateCount
  /\ remoteUtility \in [Remotes -> Utilities] /\ remoteMeets \in SUBSET Remotes
  /\ localUtility \in [Locals -> Utilities] /\ localMeets \in SUBSET Locals
  /\ phase \in {"remote", "local", "done"}
  /\ phase = "remote" => i \in 0 .. BitrateCount /\ j \in 0 .. RemoteCount - 1
  /\ phase # "remote" => i \in 1 .. numModels /\ j \in 0 .. LocalCount - 1
  /\ utility_max \in Utilities \cup {Floor}
  /\ decision \in -1 .. numModels - 1
  /\ bitrate \in -1 .. BitrateCount - 1
  /\ resolution \in Int

\* What runOptimization returns satisfies the constraints: the remote choice is an affordable
\* bitrate that meets the targets, the local choice a model and resolution that meet them,
\* and -1 says that there is neither.
DecisionIsFeasible ==
  phase = "done" =>
    \/ decision = 0 /\ <<bitrate, resolution>> \in FeasibleRemotes
    \/ decision > 0 /\ <<decision, resolution>> \in localMeets
    \/ decision = -1 /\ FeasibleRemotes = {} /\ localMeets = {}

\* No candidate that satisfies the constraints has a higher utility than the one returned, and
\* a tie goes to the server: the phone computes only when that is strictly better than every
\* way to offload.
DecisionIsBest ==
  phase = "done" =>
    /\ \A c \in FeasibleRemotes : remoteUtility[c] <= utility_max
    /\ \A c \in localMeets : localUtility[c] <= utility_max
    /\ decision = 0 => utility_max = remoteUtility[<<bitrate, resolution>>]
    /\ decision > 0 => /\ utility_max = localUtility[<<decision, resolution>>]
                       /\ \A c \in FeasibleRemotes : remoteUtility[c] < utility_max

=============================================================================
