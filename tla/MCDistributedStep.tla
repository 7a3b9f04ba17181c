-------------------------- MODULE MCDistributedStep --------------------------
(* Two workers: w1 runs the units a and b, w2 the unit c. *)
EXTENDS DistributedStep, TLC

SendOp(k) == [op |-> "send", key |-> k]
RecvOp(k) == [op |-> "recv", key |-> k]

MCWorkers == {"w1", "w2"}
MCOrder == <<"w1", "w2">>
MCUnits == {"a", "b", "c"}
MCHome == [u \in MCUnits |-> IF u = "c" THEN "w2" ELSE "w1"]
MCKeys == {"x", "y"}
MCSrc == [k \in MCKeys |-> "w1"]
MCReceiver == [k \in MCKeys |-> IF k = "x" THEN "b" ELSE "c"]

\* Between the units of w1, from w1 to w2, and both.
Within == "a" :> <<SendOp("x")>> @@ "b" :> <<RecvOp("x")>>
Across == "a" :> <<SendOp("y")>> @@ "c" :> <<RecvOp("y")>>
Both == "a" :> <<SendOp("x"), SendOp("y")>> @@ "b" :> <<RecvOp("x")>> @@
        "c" :> <<RecvOp("y")>>

Scenario(program, kind, who) == [program |-> program, kind |-> kind, who |-> who]
MCScenarios ==
    {Scenario(Both, "none", "none"), Scenario(Within, "close", "none"),
     Scenario(Within, "op", "a"), Scenario(Within, "fetch", "master")} \union
    {Scenario(Across, "prepare", w) : w \in MCWorkers} \union
    {Scenario(Across, "crash", w) : w \in MCWorkers} \union
    {Scenario(Across, "op", u) : u \in {"a", "c"}}
MCPrepareFails == {Scenario(Across, "prepare", "w1")}
=============================================================================
