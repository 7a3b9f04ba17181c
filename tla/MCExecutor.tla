----------------------------- MODULE MCExecutor -----------------------------
(* Small programs for the executor, as graphs. *)
EXTENDS Executor, TLC

E(dst, out, in) == [dst |-> dst, out |-> out, in |-> in]
Control(dst) == E(dst, 0, 0)

\* i = 0; while (i < limit) i = i + 1;
WhileKinds ==
    "start" :> "Const" @@ "limit" :> "Const" @@ "enterI" :> "Enter" @@
    "enterL" :> "Enter" @@ "merge" :> "Merge" @@ "less" :> "Less" @@
    "switch" :> "Switch" @@ "exit" :> "Exit" @@ "add" :> "Add" @@
    "next" :> "NextIteration" @@ "out" :> "Send"

WhileEdges ==
    "start" :> <<E("enterI", 1, 1)>> @@ "limit" :> <<E("enterL", 1, 1)>> @@
    "enterI" :> <<E("merge", 1, 1)>> @@ "enterL" :> <<E("less", 1, 2)>> @@
    "merge" :> <<E("less", 1, 1), E("switch", 1, 1)>> @@
    "less" :> <<E("switch", 1, 2)>> @@
    "switch" :> <<E("exit", 1, 1), E("add", 2, 1)>> @@
    "exit" :> <<E("out", 1, 1)>> @@ "add" :> <<E("next", 1, 1)>> @@
    "next" :> <<E("merge", 1, 2)>> @@ "out" :> <<>>

While(limit, parallel, mayFail) ==
    [kind |-> WhileKinds, edges |-> WhileEdges,
     value |-> "start" :> 0 @@ "limit" :> limit,
     frame |-> "enterI" :> "loop" @@ "enterL" :> "loop",
     constant |-> {"enterL"}, parallel |-> "loop" :> parallel,
     mayFail |-> mayFail, lost |-> {},
     expected |-> {{<<<<<<>>, 0, "out">>, limit>>}}]

\* if (pred) { the loop } else { x = i + 1 }: the loop is dead when pred is
\* FALSE.  The ControlTrigger runs in either case.  One constant runs after
\* the other: their order is While's concern.
Conditional(pred, limit) ==
    [kind |-> "pred" :> "Const" @@ "branch" :> "Switch" @@ "branchL" :> "Switch" @@
              "else" :> "Add" @@ "join" :> "Merge" @@ "trigger" :> "ControlTrigger" @@
              WhileKinds,
     edges |-> "pred" :> <<E("branch", 1, 2), E("branchL", 1, 2)>> @@
               "start" :> <<E("branch", 1, 1), Control("limit")>> @@
               "limit" :> <<E("branchL", 1, 1)>> @@
               "branch" :> <<E("else", 1, 1), E("enterI", 2, 1)>> @@
               "branchL" :> <<E("enterL", 2, 1)>> @@
               "else" :> <<E("join", 1, 1), Control("trigger")>> @@
               "exit" :> <<E("join", 1, 2)>> @@
               "join" :> <<E("out", 1, 1)>> @@ "trigger" :> <<Control("out")>> @@
               WhileEdges,
     value |-> "start" :> 0 @@ "limit" :> limit @@ "pred" :> pred @@ "trigger" :> 0,
     frame |-> "enterI" :> "loop" @@ "enterL" :> "loop",
     constant |-> {"enterL"}, parallel |-> "loop" :> 1,
     mayFail |-> {}, lost |-> {},
     expected |-> {{<<<<<<>>, 0, "out">>, IF pred THEN limit ELSE 1>>}}]

\* while (i < limit) while (i is odd) i = i + 1;  from 1 on.
Nested(limit, parallel) ==
    [kind |-> "enterJ" :> "Enter" @@ "mergeJ" :> "Merge" @@ "odd" :> "Odd" @@
              "switchJ" :> "Switch" @@ "exitJ" :> "Exit" @@
              "nextJ" :> "NextIteration" @@ WhileKinds,
     edges |-> "switch" :> <<E("exit", 1, 1), E("enterJ", 2, 1)>> @@
               "enterJ" :> <<E("mergeJ", 1, 1)>> @@
               "mergeJ" :> <<E("odd", 1, 1), E("switchJ", 1, 1)>> @@
               "odd" :> <<E("switchJ", 1, 2)>> @@
               "switchJ" :> <<E("exitJ", 1, 1), E("add", 2, 1)>> @@
               "exitJ" :> <<E("next", 1, 1)>> @@ "add" :> <<E("nextJ", 1, 1)>> @@
               "nextJ" :> <<E("mergeJ", 1, 2)>> @@ WhileEdges,
     value |-> "start" :> 1 @@ "limit" :> limit,
     frame |-> "enterI" :> "loop" @@ "enterL" :> "loop" @@ "enterJ" :> "inner",
     constant |-> {"enterL"},
     parallel |-> "loop" :> parallel @@ "inner" :> 1,
     mayFail |-> {}, lost |-> {},
     expected |-> {{<<<<<<>>, 0, "out">>, 2>>}}]

\* Two values race for a Merge with a control input; one is received from
\* another device, may be dead, or may never come.
Race(received, lost, mayFail) ==
    [kind |-> "recv" :> "Recv" @@ "const" :> "Const" @@ "gate" :> "Const" @@
              "merge" :> "Merge" @@ "out" :> "Send",
     edges |-> "recv" :> <<E("merge", 1, 1)>> @@ "const" :> <<E("merge", 1, 2)>> @@
               "gate" :> <<Control("merge")>> @@ "merge" :> <<E("out", 1, 1)>> @@
               "out" :> <<>>,
     value |-> "recv" :> received @@ "const" :> 8 @@ "gate" :> 0,
     frame |-> <<>>, constant |-> {}, parallel |-> <<>>,
     mayFail |-> mayFail, lost |-> lost,
     expected |-> {{<<<<<<>>, 0, "out">>, v>>} : v \in {received, 8} \ {NoValue}}]

Graphs ==
    {Initialize(g) : g \in
      {While(2, 1, {}), While(3, 2, {}), While(2, 2, {"add", "less"}),
       Conditional(TRUE, 0), Conditional(FALSE, 1), Nested(2, 1),
       Race(7, {}, {}), Race(NoValue, {}, {}), Race(7, {"recv"}, {"gate"})}}

MCInit == graph \in Graphs /\ Init
MCSpec == MCInit /\ [][Next]_vars /\ Fairness
=============================================================================
