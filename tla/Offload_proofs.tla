--------------------------- MODULE Offload_proofs ---------------------------
(***************************************************************************)
(* runOptimization returns a best feasible candidate, for any number of    *)
(* bitrates, resolutions and models and any utilities.                     *)
(***************************************************************************)
EXTENDS Offload, TLAPS

\* The loops have passed the candidate c.
Passed(c) == c[1] < i \/ (c[1] = i /\ c[2] < j)
PassedRemote(c) == phase = "remote" => Passed(c)
PassedLocal(c) == phase = "done" \/ (phase = "local" /\ Passed(c))

\* The loops' variables: offloading is tried only when it may be, an affordable bitrate is
\* worked through, and the inner loop starts anew when the outer one ends.
LoopInv ==
  /\ phase = "remote" => mayOffload
  /\ phase = "remote" /\ j > 0 => i < affordable
  /\ phase = "remote" /\ i = BitrateCount => j = 0
  /\ phase # "remote" /\ i = numModels => j = 0
  /\ phase = "done" => i = numModels

\* The fields hold a feasible candidate that was passed, or nothing.
ChosenInv ==
  \/ /\ decision = -1 /\ utility_max = Floor
  \/ /\ decision = 0
     /\ <<bitrate, resolution>> \in FeasibleRemotes
     /\ utility_max = remoteUtility[<<bitrate, resolution>>]
  \/ /\ decision > 0 /\ phase # "remote"
     /\ <<decision, resolution>> \in localMeets
     /\ utility_max = localUtility[<<decision, resolution>>]
     /\ \A c \in FeasibleRemotes : remoteUtility[c] < utility_max

\* No feasible candidate that was passed is better.
BestInv ==
  /\ \A c \in FeasibleRemotes : PassedRemote(c) => remoteUtility[c] <= utility_max
  /\ \A c \in localMeets : PassedLocal(c) => localUtility[c] <= utility_max

\* The inductive invariant.
OffloadInv == TypeOK /\ LoopInv /\ ChosenInv /\ BestInv

\* It holds before the loops.
LEMMA InitOffloadInv == Init => OffloadInv
  <1> SUFFICES ASSUME Init PROVE OffloadInv
    OBVIOUS
  <1> USE CountsAssumption, UtilitiesAssumption
  <1>1. TypeOK
    BY DEF Init, TypeOK
  <1>2. LoopInv
    BY DEF Init, LoopInv
  <1>3. ChosenInv
    BY DEF Init, ChosenInv
  <1>4. BestInv
    BY DEF Init, BestInv, FeasibleRemotes, PassedRemote, PassedLocal, Passed, Remotes, Locals
  <1> QED BY <1>1, <1>2, <1>3, <1>4 DEF OffloadInv

\* A utility is an integer above the initial utility_max.
LEMMA UtilityTypes ==
  TypeOK => /\ utility_max \in Int /\ utility_max >= Floor /\ Floor \in Int
            /\ \A c \in Remotes : remoteUtility[c] \in Int /\ remoteUtility[c] > Floor
            /\ \A c \in Locals : localUtility[c] \in Int /\ localUtility[c] > Floor
  <1> SUFFICES ASSUME TypeOK
      PROVE  /\ utility_max \in Int /\ utility_max >= Floor /\ Floor \in Int
             /\ \A c \in Remotes : remoteUtility[c] \in Int /\ remoteUtility[c] > Floor
             /\ \A c \in Locals : localUtility[c] \in Int /\ localUtility[c] > Floor
    OBVIOUS
  <1>1. Floor \in Int /\ \A u \in Utilities : u \in Int /\ u > Floor
    BY UtilitiesAssumption
  <1>2. utility_max \in Int /\ utility_max >= Floor
    BY <1>1 DEF TypeOK
  <1>3. \A c \in Remotes : remoteUtility[c] \in Utilities
    BY DEF TypeOK
  <1>4. \A c \in Locals : localUtility[c] \in Utilities
    BY DEF TypeOK
  <1> QED BY <1>1, <1>2, <1>3, <1>4

\* A skipped bitrate has no feasible candidate.
LEMMA SkipKeepsInv == OffloadInv /\ SkipBitrate => OffloadInv'
  <1> SUFFICES ASSUME OffloadInv, SkipBitrate PROVE OffloadInv'
    OBVIOUS
  <1> USE CountsAssumption DEF SkipBitrate, inputs, best, OffloadInv
  <1>1. TypeOK'
    BY DEF TypeOK
  <1>2. LoopInv'
    BY DEF LoopInv, TypeOK
  <1>3. FeasibleRemotes' = FeasibleRemotes
    BY DEF FeasibleRemotes
  <1>4. ChosenInv'
    BY <1>3 DEF ChosenInv
  <1>5. BestInv'
    <2>1. \A c \in FeasibleRemotes : PassedRemote(c)' => PassedRemote(c)
      BY DEF TypeOK, FeasibleRemotes, PassedRemote, Passed, Remotes
    <2>2. \A c \in localMeets : ~PassedLocal(c)'
      BY DEF PassedLocal
    <2> QED BY <1>3, <2>1, <2>2 DEF BestInv
  <1> QED BY <1>1, <1>2, <1>4, <1>5

\* A remote candidate is passed, and taken when none before it is better.
LEMMA TryRemoteKeepsInv == OffloadInv /\ TryRemote => OffloadInv'
  <1> SUFFICES ASSUME OffloadInv, TryRemote PROVE OffloadInv'
    OBVIOUS
  <1> USE CountsAssumption DEF inputs, best, OffloadInv
  <1>1. /\ phase = "remote" /\ phase' = "remote" /\ i \in 0 .. BitrateCount - 1
        /\ j \in 0 .. RemoteCount - 1 /\ i < affordable /\ <<i, j>> \in Remotes
    BY DEF TryRemote, TypeOK, LoopInv, Remotes
  <1>2. \/ j + 1 < RemoteCount /\ j' = j + 1 /\ i' = i
        \/ j + 1 = RemoteCount /\ j' = 0 /\ i' = i + 1
    BY <1>1 DEF TryRemote
  <1>3. UNCHANGED <<mayOffload, affordable, remoteUtility, remoteMeets, localUtility, localMeets>>
    BY DEF TryRemote
  <1>4. FeasibleRemotes' = FeasibleRemotes
    BY <1>3 DEF FeasibleRemotes
  <1>5. LoopInv'
    BY <1>1, <1>2, <1>3 DEF LoopInv, TypeOK
  <1>6. \A c \in FeasibleRemotes : PassedRemote(c)' => PassedRemote(c) \/ c = <<i, j>>
    BY <1>1, <1>2 DEF TypeOK, FeasibleRemotes, PassedRemote, Passed, Remotes
  <1>7. \A c \in localMeets : ~PassedLocal(c)'
    BY <1>1 DEF PassedLocal
  <1>8. CASE remoteUtility[<<i, j>>] >= utility_max /\ <<i, j>> \in remoteMeets
    <2>1. utility_max' = remoteUtility[<<i, j>>] /\ decision' = 0 /\ bitrate' = i /\ resolution' = j
      BY <1>8 DEF TryRemote
    <2>2. TypeOK'
      BY <1>1, <1>2, <1>3, <2>1 DEF TypeOK
    <2>3. <<i, j>> \in FeasibleRemotes
      BY <1>1, <1>8 DEF FeasibleRemotes, LoopInv
    <2>4. ChosenInv'
      BY <2>1, <2>3, <1>3, <1>4 DEF ChosenInv
    <2>5. BestInv'
      <3>1. \A c \in FeasibleRemotes :
              PassedRemote(c)' => remoteUtility[c] <= remoteUtility[<<i, j>>]
        <4> TAKE c \in FeasibleRemotes
        <4> HAVE PassedRemote(c)'
        <4>1. c \in Remotes
          BY DEF FeasibleRemotes, TypeOK
        <4>2. CASE PassedRemote(c)
          BY <4>1, <4>2, <1>1, <1>8, UtilityTypes DEF BestInv
        <4>3. CASE c = <<i, j>>
          BY <4>1, <4>3, UtilityTypes
        <4> QED BY <4>2, <4>3, <1>6
      <3> QED BY <3>1, <1>3, <1>4, <1>7, <2>1 DEF BestInv
    <2> QED BY <2>2, <2>4, <2>5, <1>5
  <1>9. CASE ~(remoteUtility[<<i, j>>] >= utility_max /\ <<i, j>> \in remoteMeets)
    <2>1. UNCHANGED <<utility_max, decision, bitrate, resolution>>
      BY <1>9 DEF TryRemote
    <2>2. TypeOK'
      BY <1>1, <1>2, <1>3, <2>1 DEF TypeOK
    <2>4. ChosenInv'
      BY <2>1, <1>1, <1>3, <1>4 DEF ChosenInv
    <2>5. BestInv'
      <3>1. \A c \in FeasibleRemotes : PassedRemote(c)' => remoteUtility[c] <= utility_max
        <4> TAKE c \in FeasibleRemotes
        <4> HAVE PassedRemote(c)'
        <4>1. CASE PassedRemote(c)
          BY <4>1 DEF BestInv
        <4>2. CASE c = <<i, j>>
          BY <4>2, <1>1, <1>9, UtilityTypes DEF FeasibleRemotes
        <4> QED BY <4>1, <4>2, <1>6
      <3> QED BY <3>1, <1>3, <1>4, <1>7, <2>1 DEF BestInv
    <2> QED BY <2>2, <2>4, <2>5, <1>5
  <1> QED BY <1>8, <1>9

\* Every remote candidate was passed when the local ones begin.
LEMMA CheckLocalKeepsInv == OffloadInv /\ CheckLocal => OffloadInv'
  <1> SUFFICES ASSUME OffloadInv, CheckLocal PROVE OffloadInv'
    OBVIOUS
  <1> USE CountsAssumption DEF CheckLocal, inputs, best, OffloadInv
  <1>1. TypeOK'
    BY DEF TypeOK
  <1>2. LoopInv'
    BY DEF LoopInv
  <1>3. FeasibleRemotes' = FeasibleRemotes
    BY DEF FeasibleRemotes
  <1>4. ChosenInv'
    BY <1>3 DEF ChosenInv
  <1>5. BestInv'
    <2>1. \A c \in FeasibleRemotes : PassedRemote(c)
      BY DEF TypeOK, FeasibleRemotes, PassedRemote, Passed, Remotes
    <2>2. \A c \in localMeets : ~PassedLocal(c)'
      BY DEF PassedLocal, Passed, TypeOK, Locals
    <2> QED BY <1>3, <2>1, <2>2 DEF BestInv
  <1> QED BY <1>1, <1>2, <1>4, <1>5

\* A local candidate is passed, and taken when all before it are worse.
LEMMA TryLocalKeepsInv == OffloadInv /\ TryLocal => OffloadInv'
  <1> SUFFICES ASSUME OffloadInv, TryLocal PROVE OffloadInv'
    OBVIOUS
  <1> USE CountsAssumption DEF inputs, best, OffloadInv
  <1>1. /\ phase = "local" /\ phase' = "local" /\ i \in 1 .. numModels - 1
        /\ j \in 0 .. LocalCount - 1 /\ <<i, j>> \in Locals
    BY DEF TryLocal, TypeOK, Locals
  <1>2. \/ j + 1 < LocalCount /\ j' = j + 1 /\ i' = i
        \/ j + 1 = LocalCount /\ j' = 0 /\ i' = i + 1
    BY <1>1 DEF TryLocal
  <1>3. UNCHANGED <<mayOffload, affordable, remoteUtility, remoteMeets, localUtility, localMeets>>
    BY DEF TryLocal
  <1>4. FeasibleRemotes' = FeasibleRemotes
    BY <1>3 DEF FeasibleRemotes
  <1>5. LoopInv'
    BY <1>1, <1>2, <1>3 DEF LoopInv, TypeOK
  <1>6. \A c \in localMeets : PassedLocal(c)' => PassedLocal(c) \/ c = <<i, j>>
    BY <1>1, <1>2 DEF TypeOK, PassedLocal, Passed, Locals
  <1>7. \A c \in FeasibleRemotes : PassedRemote(c) /\ c \in Remotes
    BY <1>1 DEF PassedRemote, FeasibleRemotes, TypeOK
  <1>8. CASE localUtility[<<i, j>>] > utility_max /\ <<i, j>> \in localMeets
    <2>1. /\ utility_max' = localUtility[<<i, j>>] /\ decision' = i
          /\ bitrate' = BitrateCount - 1 /\ resolution' = j
      BY <1>8 DEF TryLocal
    <2>2. TypeOK'
      BY <1>1, <1>2, <1>3, <2>1 DEF TypeOK
    <2>3. \A c \in FeasibleRemotes : remoteUtility[c] < localUtility[<<i, j>>]
      BY <1>1, <1>7, <1>8, UtilityTypes DEF BestInv
    <2>4. ChosenInv'
      BY <2>1, <2>3, <1>1, <1>3, <1>4, <1>8 DEF ChosenInv
    <2>5. BestInv'
      <3>1. \A c \in localMeets : PassedLocal(c)' => localUtility[c] <= localUtility[<<i, j>>]
        <4> TAKE c \in localMeets
        <4> HAVE PassedLocal(c)'
        <4>1. c \in Locals
          BY DEF TypeOK
        <4>2. CASE PassedLocal(c)
          BY <4>1, <4>2, <1>1, <1>8, UtilityTypes DEF BestInv
        <4>3. CASE c = <<i, j>>
          BY <4>1, <4>3, UtilityTypes
        <4> QED BY <4>2, <4>3, <1>6
      <3>2. \A c \in FeasibleRemotes : remoteUtility[c] <= localUtility[<<i, j>>]
        BY <2>3, <1>1, <1>7, UtilityTypes
      <3> QED BY <3>1, <3>2, <1>3, <1>4, <2>1 DEF BestInv
    <2> QED BY <2>2, <2>4, <2>5, <1>5
  <1>9. CASE ~(localUtility[<<i, j>>] > utility_max /\ <<i, j>> \in localMeets)
    <2>1. UNCHANGED <<utility_max, decision, bitrate, resolution>>
      BY <1>9 DEF TryLocal
    <2>2. TypeOK'
      BY <1>1, <1>2, <1>3, <2>1 DEF TypeOK
    <2>4. ChosenInv'
      BY <2>1, <1>1, <1>3, <1>4 DEF ChosenInv
    <2>5. BestInv'
      <3>1. \A c \in localMeets : PassedLocal(c)' => localUtility[c] <= utility_max
        <4> TAKE c \in localMeets
        <4> HAVE PassedLocal(c)'
        <4>1. CASE PassedLocal(c)
          BY <4>1 DEF BestInv
        <4>2. CASE c = <<i, j>>
          BY <4>2, <1>1, <1>9, UtilityTypes
        <4> QED BY <4>1, <4>2, <1>6
      <3> QED BY <3>1, <1>3, <1>4, <1>7, <2>1 DEF BestInv
    <2> QED BY <2>2, <2>4, <2>5, <1>5
  <1> QED BY <1>8, <1>9

\* Every local candidate was passed when runOptimization returns.
LEMMA ReturnKeepsInv == OffloadInv /\ Return => OffloadInv'
  <1> SUFFICES ASSUME OffloadInv, Return PROVE OffloadInv'
    OBVIOUS
  <1> USE CountsAssumption DEF Return, inputs, best, OffloadInv
  <1>1. TypeOK'
    BY DEF TypeOK
  <1>2. LoopInv'
    BY DEF LoopInv, TypeOK
  <1>3. FeasibleRemotes' = FeasibleRemotes
    BY DEF FeasibleRemotes
  <1>4. ChosenInv'
    BY <1>3 DEF ChosenInv
  <1>5. BestInv'
    <2>1. \A c \in FeasibleRemotes : PassedRemote(c)
      BY DEF PassedRemote
    <2>2. \A c \in localMeets : PassedLocal(c)
      BY DEF PassedLocal, Passed, TypeOK, Locals
    <2> QED BY <1>3, <2>1, <2>2 DEF BestInv
  <1> QED BY <1>1, <1>2, <1>4, <1>5

\* The loops keep the best feasible candidate they have passed.
THEOREM LoopsKeepTheBest == Spec => []OffloadInv
  <1>1. OffloadInv /\ [Next]_vars => OffloadInv'
    <2> SUFFICES ASSUME OffloadInv, [Next]_vars PROVE OffloadInv'
      OBVIOUS
    <2>1. CASE UNCHANGED vars
      BY <2>1 DEF vars, OffloadInv, TypeOK, LoopInv, ChosenInv, BestInv, FeasibleRemotes,
                  PassedRemote, PassedLocal, Passed
    <2> QED BY <2>1, SkipKeepsInv, TryRemoteKeepsInv, CheckLocalKeepsInv, TryLocalKeepsInv,
               ReturnKeepsInv DEF Next
  <1> QED BY InitOffloadInv, <1>1, PTL DEF Spec

\* When runOptimization returns, all candidates were passed.
LEMMA AllPassed ==
  OffloadInv /\ phase = "done" =>
    /\ \A c \in FeasibleRemotes : c \in Remotes /\ remoteUtility[c] <= utility_max
    /\ \A c \in localMeets : c \in Locals /\ localUtility[c] <= utility_max
  BY DEF OffloadInv, BestInv, PassedRemote, PassedLocal, TypeOK, FeasibleRemotes

\* The decision satisfies every constraint, and -1 is returned only when no candidate does.
THEOREM FeasibleDecision == Spec => []DecisionIsFeasible
  <1>1. OffloadInv => DecisionIsFeasible
    <2> SUFFICES ASSUME OffloadInv, phase = "done" PROVE DecisionIsFeasible
      BY DEF DecisionIsFeasible
    <2>1. CASE decision = -1 /\ utility_max = Floor
      <3>1. FeasibleRemotes = {} /\ localMeets = {}
        BY <2>1, AllPassed, UtilityTypes DEF OffloadInv
      <3> QED BY <2>1, <3>1 DEF DecisionIsFeasible
    <2>2. CASE decision = 0 /\ <<bitrate, resolution>> \in FeasibleRemotes
      BY <2>2 DEF DecisionIsFeasible
    <2>3. CASE decision > 0 /\ <<decision, resolution>> \in localMeets
      BY <2>3 DEF DecisionIsFeasible
    <2> QED BY <2>1, <2>2, <2>3 DEF OffloadInv, ChosenInv
  <1> QED BY <1>1, LoopsKeepTheBest, PTL

\* No feasible candidate has a higher utility than the decision, and the phone computes only
\* when that is strictly better than offloading.
THEOREM BestDecision == Spec => []DecisionIsBest
  <1>1. OffloadInv => DecisionIsBest
    <2> SUFFICES ASSUME OffloadInv, phase = "done" PROVE DecisionIsBest
      BY DEF DecisionIsBest
    <2>1. decision = 0 => utility_max = remoteUtility[<<bitrate, resolution>>]
      BY DEF OffloadInv, ChosenInv
    <2>2. decision > 0 => /\ utility_max = localUtility[<<decision, resolution>>]
                          /\ \A c \in FeasibleRemotes : remoteUtility[c] < utility_max
      BY DEF OffloadInv, ChosenInv
    <2> QED BY <2>1, <2>2, AllPassed DEF DecisionIsBest
  <1> QED BY <1>1, LoopsKeepTheBest, PTL

=============================================================================
