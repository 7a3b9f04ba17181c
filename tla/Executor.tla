------------------------------ MODULE Executor ------------------------------
(***************************************************************************)
(* One step of the dataflow executor (common_runtime/executor.cc): frames  *)
(* and iterations of while loops, dead inputs, the Merge rule, deferred    *)
(* iterations, the reclamation of iterations and frames, asynchronous      *)
(* kernels, errors, and the end of the step.                               *)
(*                                                                         *)
(* A task is a tagged node that has been scheduled and whose NodeDone has  *)
(* not run yet.  Every task may move at any time: whether a node is run    *)
(* inline or by another thread of the pool decides only who runs it, and   *)
(* the pool may be larger than the graph.  A task's steps are the sections *)
(* that executor.cc runs under one lock; computing a kernel reads inputs   *)
(* that no other node touches and is part of the section that follows it.  *)
(*                                                                         *)
(* A frame is named by the iterations and Enter nodes that lead to it, as  *)
(* in MakeFrameName.                                                       *)
(***************************************************************************)
EXTENDS Integers, Sequences, FiniteSets, SequencesExt, PendingCounts

CONSTANTS NoValue,      \* an Entry without has_value: a dead or missing input
          NoIteration,  \* nullptr in the ring of iterations
          RootFrame     \* the name of the root frame among graph.frames

VARIABLES graph,        \* the initialized graph and what its kernels do; fixed
          frames,       \* outstanding_frames_
          tasks,        \* the tagged nodes in flight
          numOutstandingOps,  \* num_outstanding_ops_
          status,       \* status_
          doneCalls,    \* how often done_cb_ has been called
          ran,          \* history: the tagged nodes scheduled so far
          result        \* history: what reached the graph's output nodes

\* What PropagateOutputs leaves alone.
stepVars == <<graph, numOutstandingOps, status, doneCalls, ran>>
vars == <<stepVars, frames, tasks, result>>

-----------------------------------------------------------------------------
(* The graph.  An edge has an output slot, 0 for a control edge, and an    *)
(* input slot.                                                             *)

IsControl(e) == e.out = 0
EdgesInto(g, n) ==
    {<<m, k>> \in UNION {{m} \X DOMAIN g.edges[m] : m \in DOMAIN g.edges} :
       g.edges[m][k].dst = n}
DataEdgesInto(g, n) == {p \in EdgesInto(g, n) : ~IsControl(g.edges[p[1]][p[2]])}
RootsOf(g) == {n \in DOMAIN g.kind : EdgesInto(g, n) = {}}

GetMaxPendingCounts(g, n) ==
    LET all == Cardinality(EdgesInto(g, n))
        data == Cardinality(DataEdgesInto(g, n))
    IN  IF g.kind[n] = "Merge" THEN 1 + 2 * (all - data) ELSE all

\* Breadth first from the roots.  An Exit leads back to the frame of the
\* Enter it belongs to.
RECURSIVE Visit(_, _, _, _)
Visit(g, queue, names, parents) ==
    IF queue = <<>> THEN names
    ELSE LET n == Head(queue)
             enter == parents[n]
             parent == CASE g.kind[n] = "Enter" -> n
                         [] g.kind[n] = "Exit"  -> parents[enter]
                         [] OTHER               -> enter
             name == CASE g.kind[n] = "Enter" -> g.frame[n]
                       [] g.kind[n] = "Exit"  -> names[enter]
                       [] OTHER               -> names[n]
             new == {g.edges[n][k].dst : k \in DOMAIN g.edges[n]} \ DOMAIN names
         IN  Visit(g, Tail(queue) \o SetToSeq(new),
                   names @@ [m \in new |-> name], parents @@ [m \in new |-> parent])

\* The frame in which each node runs: cf_info.frame_names.
BuildControlFlowInfo(g) ==
    LET roots == RootsOf(g)
    IN  Visit(g, SetToSeq(roots), [n \in roots |-> RootFrame], [n \in roots |-> n])

\* ExecutorImpl::Initialize: what is derived from a graph before any step.
Initialize(g) ==
    g @@ [roots |-> RootsOf(g),
          numInputs |-> [n \in DOMAIN g.kind |-> Cardinality(DataEdgesInto(g, n))],
          initialCount |-> [n \in DOMAIN g.kind |-> GetMaxPendingCounts(g, n)],
          frameNames |-> BuildControlFlowInfo(g),
          inputCount |-> [name \in DOMAIN g.parallel |->
             Cardinality({n \in DOMAIN g.frame : g.frame[n] = name})]]

Nodes == DOMAIN graph.kind
Kind(n) == graph.kind[n]
OutEdges(n) == graph.edges[n]
NumInputs(n) == graph.numInputs[n]
NumOutputs(n) == IF Kind(n) = "Switch" THEN 2 ELSE 1
IsTransferNode(n) == Kind(n) \in {"Send", "Recv"}
IsAsync(n) == Kind(n) = "Recv"

\* What the kernels compute (kernels/control_flow_ops.cc for the first five).
Kernel(n, in) ==
    CASE Kind(n) = "Switch" -> IF in[2] THEN <<NoValue, in[1]>>
                                        ELSE <<in[1], NoValue>>
      [] Kind(n) = "Merge"  -> <<CHOOSE v \in {in[k] : k \in DOMAIN in} :
                                   v # NoValue>>
      [] Kind(n) \in {"Enter", "Exit", "NextIteration", "Send"} -> <<in[1]>>
      [] Kind(n) = "Less"   -> <<in[1] < in[2]>>
      [] Kind(n) = "Add"    -> <<in[1] + 1>>
      [] Kind(n) = "Odd"    -> <<in[1] % 2 = 1>>
      [] OTHER              -> <<graph.value[n]>>

-----------------------------------------------------------------------------
(* Frames and iterations.                                                  *)

FrameName(f) == IF f = <<>> THEN RootFrame ELSE Last(f).name
ParentIter(f) == Last(f).iter
MaxParallelIterations(f) == IF f = <<>> THEN 1 ELSE graph.parallel[FrameName(f)]
\* The ring of a loop has one slot more than iterations may be outstanding.
RingSize(f) == IF f = <<>> THEN 1 ELSE MaxParallelIterations(f) + 1

NodesOf(f) == {n \in Nodes : graph.frameNames[n] = FrameName(f)}

\* The tag says which iteration this is; the code has no such field.
NewIteration(f, i) ==
    [tag |-> i, outstandingOps |-> 0, outstandingFrames |-> 0,
     counts |-> [n \in NodesOf(f) |-> Counts(graph.initialCount[n])],
     inputs |-> [n \in NodesOf(f) |-> [k \in 1..NumInputs(n) |-> NoValue]]]

NewFrame(f) ==
    [numPendingInputs |-> IF f = <<>> THEN 0 ELSE graph.inputCount[FrameName(f)],
     iterationCount |-> 0, numOutstandingIterations |-> 1,
     iterations |-> [k \in 0..RingSize(f) - 1 |->
                       IF k = 0 THEN NewIteration(f, 0) ELSE NoIteration],
     nextIterRoots |-> <<>>, invValues |-> <<>>, deadExits |-> <<>>]

Slot(f, i) == i % RingSize(f)
GetIteration(fr, f, i) == fr.iterations[Slot(f, i)]
SetIteration(fr, f, i, it) == [fr EXCEPT !.iterations[Slot(f, i)] = it]

TaggedNode(n, f, i, dead) == [node |-> n, frame |-> f, iter |-> i, dead |-> dead]

\* op(value).  TLC evaluates the value once, not at each of its uses in op.
With(value, op(_)) == CHOOSE r \in {op(v) : v \in {value}} : TRUE

\* FoldLeft, with each accumulated value evaluated once.
RECURSIVE Fold(_, _, _)
Fold(op(_, _), base, seq) ==
    With(base, LAMBDA v : IF seq = <<>> THEN v
                          ELSE Fold(op, op(v, Head(seq)), Tail(seq)))

\* The operators below take and return what a section under a frame's lock
\* works on: the frame and the nodes that have become ready.
Section(fr, ready) == [fr |-> fr, ready |-> ready]

\* What the arrival of an input does to its node: the new counts, whether the
\* node is now ready and whether it is dead, and whether the value is stored.
Arrived(counts, ready, dead, stored) ==
    [counts |-> counts, ready |-> ready, dead |-> dead, stored |-> stored]

NodeArrival(c, dst, control, dead) ==
    LET a == adjust_for_activation(c, dead)
    IN  Arrived(a, a.pending = 0, a.dead > 0 /\ Kind(dst) # "ControlTrigger",
                ~control)

\* Mutant of MergeArrival: every live input makes the Merge ready.
MergeEveryLive(c, dst, control, hasValue, fromEnter) ==
    LET a == IF control THEN decrement_pending(c, 2)
             ELSE IF hasValue THEN mark_live(c) ELSE increment_dead_count(c)
        dead == ~hasValue /\ (a.dead = NumInputs(dst) \/ fromEnter)
    IN  Arrived(a, a.pending = 0 \/ (a.pending = 1 /\ dead), dead, hasValue)

MergeArrival(c, dst, control, hasValue, fromEnter) ==
    CASE control ->
           LET a == decrement_pending(c, 2)
               dead == a.dead = NumInputs(dst)
           IN  Arrived(a, a.pending = 0 \/ (a.pending = 1 /\ dead), dead, FALSE)
      [] ~control /\ hasValue ->
           Arrived(mark_live(c), c.pending = 1, FALSE, c.pending % 2 = 1)
      [] ~control /\ ~hasValue ->
           LET a == increment_dead_count(c)
               dead == a.dead = NumInputs(dst) \/ fromEnter
           IN  Arrived(a, a.pending = 1 /\ dead, dead, FALSE)

\* ActivateNodes, and the loop of DeleteFrame over a dead Exit's edges, which
\* does the same for an output without a value.
ActivateNodes(section, f, n, isDead, i, outputs) ==
    LET Activate(acc, e) ==
          LET it == acc.iter
              hasValue == ~IsControl(e) /\ outputs[e.out] # NoValue
              a == IF Kind(e.dst) = "Merge"
                   THEN MergeArrival(it.counts[e.dst], e.dst, IsControl(e),
                                     hasValue, Kind(n) = "Enter")
                   ELSE NodeArrival(it.counts[e.dst], e.dst, IsControl(e),
                                    isDead \/ (~IsControl(e) /\ ~hasValue))
          IN  [iter |-> [it EXCEPT
                           !.counts[e.dst] = a.counts,
                           !.inputs = IF a.stored
                                      THEN [@ EXCEPT ![e.dst][e.in] = outputs[e.out]]
                                      ELSE @,
                           !.outstandingOps = IF a.ready THEN @ + 1 ELSE @],
               ready |-> IF a.ready
                         THEN Append(acc.ready, TaggedNode(e.dst, f, i, a.dead))
                         ELSE acc.ready]
        Start(sec) == [iter |-> GetIteration(sec.fr, f, i), ready |-> sec.ready]
        Put(sec) == With(Fold(Activate, Start(sec), OutEdges(n)),
                         LAMBDA done : Section(SetIteration(sec.fr, f, i, done.iter),
                                               done.ready))
    IN  With(section, Put)

\* Each of the stored outputs <<node, value>> enters iteration i.
ActivateAll(sec, f, i, entries) ==
    Fold(LAMBDA acc, e : ActivateNodes(acc, f, e[1], e[2] = NoValue, i, <<e[2]>>),
             sec, entries)

\* A loop invariant goes to all the iterations there are, and to those that
\* will be started later.
AddLoopInv(sec, f, n, value) ==
    Fold(LAMBDA acc, i : ActivateAll(acc, f, i, <<<<n, value>>>>),
             Section([sec.fr EXCEPT !.invValues = Append(@, <<n, value>>)], sec.ready),
             [k \in 1..sec.fr.iterationCount + 1 |-> k - 1])

\* Mutant of IncrementIteration: dead exits of earlier iterations are kept.
IncrementKeepsExits(sec, f) ==
    LET i == sec.fr.iterationCount + 1
        new == [SetIteration(sec.fr, f, i, NewIteration(f, i)) EXCEPT
                  !.iterationCount = i, !.numOutstandingIterations = @ + 1,
                  !.nextIterRoots = <<>>]
        nexts == ActivateAll(Section(new, sec.ready), f, i, sec.fr.nextIterRoots)
    IN  ActivateAll(nexts, f, i, sec.fr.invValues)

\* IncrementIteration with ActivateNexts and ActivateLoopInvs.
IncrementIteration(sec, f) ==
    LET i == sec.fr.iterationCount + 1
        new == [SetIteration(sec.fr, f, i, NewIteration(f, i)) EXCEPT
                  !.iterationCount = i, !.numOutstandingIterations = @ + 1,
                  !.deadExits = <<>>, !.nextIterRoots = <<>>]
        nexts == ActivateAll(Section(new, sec.ready), f, i, sec.fr.nextIterRoots)
    IN  ActivateAll(nexts, f, i, sec.fr.invValues)

\* Mutant of IsIterationDone: child frames are not waited for.
IterationHasNoOps(fr, f, i) ==
    LET it == GetIteration(fr, f, i)
    IN  /\ it.outstandingOps = 0
        /\ IF i = 0 THEN fr.numPendingInputs = 0
                    ELSE GetIteration(fr, f, i - 1) = NoIteration

IsIterationDone(fr, f, i) ==
    LET it == GetIteration(fr, f, i)
    IN  /\ it.outstandingOps = 0 /\ it.outstandingFrames = 0
        /\ IF i = 0 THEN fr.numPendingInputs = 0
                    ELSE GetIteration(fr, f, i - 1) = NoIteration

IsFrameDone(fr) == fr.numPendingInputs = 0 /\ fr.numOutstandingIterations = 0

RECURSIVE CleanupIterations(_, _, _)
CleanupIterations(section, f, i) ==
    LET Cleanup(sec) ==
          IF i <= sec.fr.iterationCount /\ IsIterationDone(sec.fr, f, i)
          THEN LET less == [SetIteration(sec.fr, f, i, NoIteration) EXCEPT
                              !.numOutstandingIterations = @ - 1]
                   next == Section(less, sec.ready)
               IN  CleanupIterations(IF sec.fr.nextIterRoots # <<>>
                                     THEN IncrementIteration(next, f) ELSE next,
                                     f, i + 1)
          ELSE sec
    IN  With(section, Cleanup)

DecrementOutstandingOps(section, f, i) ==
    LET Decrement(sec) ==
          LET fr == [sec.fr EXCEPT !.iterations[Slot(f, i)].outstandingOps = @ - 1]
          IN  IF GetIteration(sec.fr, f, i).outstandingOps > 1
              THEN Section(fr, sec.ready)
              ELSE CleanupIterations(Section(fr, sec.ready), f, i)
    IN  With(section, Decrement)

-----------------------------------------------------------------------------
(* Process, from taking a tagged node to PropagateOutputs.                 *)

\* A task: a tagged node, where it is, the nodes it has made ready, and the
\* frame it is about to delete.
Task(tn) == [node |-> tn.node, frame |-> tn.frame, iter |-> tn.iter,
             dead |-> tn.dead, stage |-> "ready", ready |-> <<>>, victim |-> <<>>]
Id(t) == <<t.frame, t.iter, t.node>>

\* RunAsync: the device fails to fill the context map and the step is over; or
\* the root nodes, of which every graph has one, are scheduled.
Init ==
    /\ \E filled \in BOOLEAN :
         LET roots == {Task(TaggedNode(n, <<>>, 0, FALSE)) : n \in graph.roots}
             ready == IF filled THEN roots ELSE {}
             root == [NewFrame(<<>>) EXCEPT
                        !.iterations[0].outstandingOps = Cardinality(ready)]
         IN  /\ tasks = ready
             /\ frames = [f \in {<<>>} |-> root]
             /\ numOutstandingOps = Cardinality(ready)
             /\ ran = {Id(t) : t \in ready}
             /\ status = IF filled THEN "ok" ELSE "error"
             /\ doneCalls = IF filled THEN 0 ELSE 1
    /\ result = {}

Becomes(t, s) == tasks' = (tasks \ {t}) \union {s}
Goto(t, stage) == Becomes(t, [t EXCEPT !.stage = stage])
Holds(t, f) == Section(frames[f], t.ready)

\* The section under the lock of f ends; f may be complete now.
SectionEnds(t, f, section) ==
    \E sec \in {section} :
       /\ frames' = [frames EXCEPT ![f] = sec.fr]
       /\ Becomes(t, [t EXCEPT !.ready = sec.ready, !.victim = f,
                               !.stage = IF IsFrameDone(sec.fr) THEN "delete"
                                                                ELSE "done"])

\* An asynchronous kernel is given its inputs; its done callback comes later.
Launch(t) ==
    /\ t.stage = "ready" /\ IsAsync(t.node)
    /\ Goto(t, "launched")
    /\ UNCHANGED <<stepVars, frames, result>>

\* The kernel has run, or need not run.  A value that is lost never comes.
Computed(t) ==
    \/ t.stage = "ready" /\ ~IsAsync(t.node)
    \/ t.stage = "launched" /\ t.node \notin graph.lost

Outputs(t) ==
    IF t.dead /\ ~IsTransferNode(t.node)
    THEN [k \in 1..NumOutputs(t.node) |-> NoValue]
    ELSE Kernel(t.node, GetIteration(frames[t.frame], t.frame, t.iter)
                          .inputs[t.node])

\* PropagateOutputs of a node that is not Enter, Exit or NextIteration.
PropagateOutputs(t) ==
    /\ Computed(t) /\ Kind(t.node) \notin {"Enter", "Exit", "NextIteration"}
    /\ LET sec == ActivateNodes(Holds(t, t.frame), t.frame, t.node, t.dead, t.iter,
                                Outputs(t))
       IN  SectionEnds(t, t.frame, DecrementOutstandingOps(sec, t.frame, t.iter))
    /\ result' = IF Kind(t.node) = "Send"
                 THEN result \union {<<Id(t), Outputs(t)[1]>>} ELSE result
    /\ UNCHANGED stepVars

Child(t) == Append(t.frame, [iter |-> t.iter, name |-> graph.frame[t.node]])

\* FindOrCreateChildFrame looks the frame up and releases mu_ ...
FindChild(t) ==
    /\ Computed(t) /\ Kind(t.node) = "Enter"
    /\ Goto(t, IF Child(t) \in DOMAIN frames THEN "enter" ELSE "create")
    /\ UNCHANGED <<stepVars, frames, result>>

\* Mutant of CreateChild: the frame is not looked up a second time.
CreateChildAgain(t) ==
    /\ t.stage = "create"
    /\ frames' = [f \in DOMAIN frames \union {Child(t)} |->
         CASE f = Child(t) -> NewFrame(f)
           [] f = t.frame ->
                [frames[f] EXCEPT
                   !.iterations[Slot(f, t.iter)].outstandingFrames = @ + 1]
           [] OTHER -> frames[f]]
    /\ Goto(t, "enter")
    /\ UNCHANGED <<stepVars, result>>

\* ... and looks again before it adds the one it has made.
CreateChild(t) ==
    /\ t.stage = "create"
    /\ frames' = IF Child(t) \in DOMAIN frames THEN frames
                 ELSE [f \in DOMAIN frames \union {Child(t)} |->
                   CASE f = Child(t) -> NewFrame(f)
                     [] f = t.frame ->
                          [frames[f] EXCEPT
                             !.iterations[Slot(f, t.iter)].outstandingFrames = @ + 1]
                     [] OTHER -> frames[f]]
    /\ Goto(t, "enter")
    /\ UNCHANGED <<stepVars, result>>

EnterChild(t) ==
    /\ t.stage = "enter"
    /\ \E c \in {Child(t)} :
       \E sec \in {IF t.node \in graph.constant
                   THEN AddLoopInv(Holds(t, c), c, t.node, Outputs(t)[1])
                   ELSE ActivateNodes(Holds(t, c), c, t.node, t.dead, 0, Outputs(t))} :
           /\ frames' = [frames EXCEPT
                           ![c] = [sec.fr EXCEPT !.numPendingInputs = @ - 1]]
           /\ Becomes(t, [t EXCEPT !.stage = "leave", !.ready = sec.ready])
    /\ UNCHANGED <<stepVars, result>>

\* A live Exit: its output goes to the iteration the frame was created in.
ExitToParent(t) ==
    /\ Computed(t) /\ Kind(t.node) = "Exit" /\ ~t.dead
    /\ \E p \in {Front(t.frame)} :
       \E sec \in {ActivateNodes(Holds(t, p), p, t.node, FALSE, ParentIter(t.frame),
                                 Outputs(t))} :
           /\ frames' = [frames EXCEPT ![p] = sec.fr]
           /\ Becomes(t, [t EXCEPT !.stage = "leave", !.ready = sec.ready])
    /\ UNCHANGED <<stepVars, result>>

\* The second lock of an Enter or a live Exit, on its own frame.
LeaveFrame(t) ==
    /\ t.stage = "leave"
    /\ SectionEnds(t, t.frame,
                   DecrementOutstandingOps(Holds(t, t.frame), t.frame, t.iter))
    /\ UNCHANGED <<stepVars, result>>

\* A dead Exit is remembered if no later iteration has started.
ExitDead(t) ==
    /\ Computed(t) /\ Kind(t.node) = "Exit" /\ t.dead
    /\ LET fr == frames[t.frame]
           noted == IF t.iter = fr.iterationCount
                    THEN [fr EXCEPT !.deadExits = Append(@, t.node)] ELSE fr
       IN  SectionEnds(t, t.frame,
             DecrementOutstandingOps(Section(noted, t.ready), t.frame, t.iter))
    /\ UNCHANGED <<stepVars, result>>

\* What a NextIteration does to its frame: a dead one stops, one that would
\* exceed the parallel iterations is deferred, another enters the iteration
\* that follows, which it may have to start.
Advance(t, fr) ==
    LET f == t.frame
        first == t.iter = fr.iterationCount
        full == fr.numOutstandingIterations = MaxParallelIterations(f)
    IN  CASE t.dead -> Section(fr, t.ready)
          [] ~t.dead /\ first /\ full ->
               Section([fr EXCEPT !.nextIterRoots =
                          Append(@, <<t.node, Outputs(t)[1]>>)], t.ready)
          [] ~t.dead /\ first /\ ~full ->
               ActivateNodes(IncrementIteration(Section(fr, t.ready), f),
                             f, t.node, FALSE, t.iter + 1, Outputs(t))
          [] ~t.dead /\ ~first ->
               ActivateNodes(Section(fr, t.ready), f, t.node, FALSE, t.iter + 1,
                             Outputs(t))

NextIteration(t) ==
    /\ Computed(t) /\ Kind(t.node) = "NextIteration"
    /\ SectionEnds(t, t.frame,
         DecrementOutstandingOps(Advance(t, frames[t.frame]), t.frame, t.iter))
    /\ UNCHANGED <<stepVars, result>>

-----------------------------------------------------------------------------
(* The end of a frame, of a node and of the step.                          *)

\* DeleteFrame, first half: the dead exits of the last iteration reach the
\* parent frame.
PropagateDeadExits(t) ==
    /\ t.stage = "delete"
    /\ LET v == t.victim
           p == Front(v)
       IN  IF v = <<>>
           THEN Goto(t, "erase") /\ UNCHANGED frames
           ELSE LET Dead(sec, n) == ActivateNodes(sec, p, n, TRUE, ParentIter(v),
                                                  <<NoValue>>)
                IN  \E sec \in {Fold(Dead, Holds(t, p), frames[v].deadExits)} :
                    /\ frames' = [frames EXCEPT ![p] = sec.fr]
                    /\ Becomes(t, [t EXCEPT !.stage = "erase", !.ready = sec.ready])
    /\ UNCHANGED <<stepVars, result>>

\* DeleteFrame, second half.
EraseFrame(t) ==
    /\ t.stage = "erase"
    /\ frames' = [f \in DOMAIN frames \ {t.victim} |-> frames[f]]
    /\ Goto(t, IF t.victim = <<>> THEN "done" ELSE "cleanup")
    /\ UNCHANGED <<stepVars, result>>

CleanupFramesIterations(t) ==
    /\ t.stage = "cleanup"
    /\ LET p == Front(t.victim)
           i == ParentIter(t.victim)
           fr == [frames[p] EXCEPT
                    !.iterations[Slot(p, i)].outstandingFrames = @ - 1]
       IN  SectionEnds(t, p, CleanupIterations(Section(fr, t.ready), p, i))
    /\ UNCHANGED <<stepVars, result>>

\* Mutant of Fail: the abort does not reach the kernels that wait.
FailWithoutAbort(t) ==
    /\ Computed(t) /\ t.node \in graph.mayFail /\ (t.dead => IsTransferNode(t.node))
    /\ status' = "error"
    /\ Goto(t, "failed")
    /\ UNCHANGED <<graph, frames, numOutstandingOps, doneCalls, ran, result>>

\* A kernel fails; or an asynchronous one that waits is told of the abort; or
\* a dead node is run inline after a node that failed: Process does not reset
\* its status.  NodeDone keeps the first error and starts the abort.
Fail(t) ==
    /\ \/ Computed(t) /\ t.node \in graph.mayFail /\ (t.dead => IsTransferNode(t.node))
       \/ t.stage = "launched" /\ status = "error"
       \/ /\ t.stage = "ready" /\ t.dead /\ ~IsTransferNode(t.node)
          /\ status = "error"
    /\ status' = "error"
    /\ Goto(t, "failed")
    /\ UNCHANGED <<graph, frames, numOutstandingOps, doneCalls, ran, result>>

\* NodeDone from the counter on, and ScheduleReady.
NodeDone(t) ==
    /\ t.stage \in {"done", "failed"}
    /\ LET last == t.stage = "failed" \/ t.ready = <<>>
           new == IF last THEN {} ELSE {Task(t.ready[k]) : k \in DOMAIN t.ready}
       IN  /\ numOutstandingOps' = IF last THEN numOutstandingOps - 1
                                    ELSE numOutstandingOps + Len(t.ready) - 1
           /\ tasks' = ((tasks \ {t}) \union new)
                 \union (IF last /\ numOutstandingOps = 1
                         THEN {[t EXCEPT !.stage = "finish"]} ELSE {})
           /\ ran' = ran \union {Id(s) : s \in new}
    /\ UNCHANGED <<graph, frames, status, doneCalls, result>>

\* The last node: if all went well the device may be asked to finish what is
\* queued, and fail; done_cb_ is called and the ExecutorState is gone, with
\* the frames that an error has left behind.
Finish(t) ==
    /\ t.stage = "finish"
    /\ status' \in {status, "error"}
    /\ doneCalls' = doneCalls + 1
    /\ tasks' = tasks \ {t}
    /\ UNCHANGED <<graph, frames, numOutstandingOps, ran, result>>

Next ==
    \E t \in tasks :
       \/ Launch(t) \/ PropagateOutputs(t) \/ FindChild(t) \/ CreateChild(t)
       \/ EnterChild(t) \/ ExitToParent(t) \/ LeaveFrame(t) \/ ExitDead(t)
       \/ NextIteration(t) \/ PropagateDeadExits(t) \/ EraseFrame(t)
       \/ CleanupFramesIterations(t) \/ Fail(t) \/ NodeDone(t) \/ Finish(t)

\* The threads of the pool run what is scheduled, kernels return, and a value
\* that is not lost is received.
Fairness == WF_vars(Next)

Spec == Init /\ [][Next]_vars /\ Fairness

-----------------------------------------------------------------------------
(* Properties.                                                             *)

Live(f) == {it \in {frames[f].iterations[k] : k \in DOMAIN frames[f].iterations} :
              it # NoIteration}

TypeOK ==
    /\ status \in {"ok", "error"} /\ doneCalls \in Nat /\ numOutstandingOps \in Nat
    /\ \A t \in tasks :
         /\ t.node \in Nodes /\ t.dead \in BOOLEAN /\ t.iter \in Nat
         /\ t.stage \in {"ready", "launched", "create", "enter", "leave", "delete",
                         "erase", "cleanup", "done", "failed", "finish"}
    /\ \A f \in DOMAIN frames :
         /\ frames[f].numPendingInputs \in Nat
         /\ \A it \in Live(f) :
              /\ it.outstandingOps \in Nat /\ it.outstandingFrames \in Nat
              /\ \A n \in NodesOf(f) :
                   it.counts[n].pending \in Nat /\ it.counts[n].dead \in Nat

\* The tagged nodes that count in an iteration: tasks that have not left it,
\* and nodes that a task has made ready and not scheduled yet.
Counted(f, i) ==
    Cardinality({t \in tasks :
        /\ t.frame = f /\ t.iter = i
        /\ t.stage \in {"ready", "launched", "create", "enter", "leave"}})
    + Cardinality({<<t, k>> \in UNION {{t} \X DOMAIN t.ready : t \in tasks} :
        /\ t.stage # "finish"
        /\ t.ready[k].frame = f /\ t.ready[k].iter = i})
ChildFrames(f, i) ==
    Cardinality({g \in DOMAIN frames \ {<<>>} : Front(g) = f /\ ParentIter(g) = i})
    + Cardinality({t \in tasks : /\ t.stage = "cleanup" /\ Front(t.victim) = f
                                 /\ ParentIter(t.victim) = i})

\* The counts that decide what may be deleted are exact.  num_outstanding_ops_,
\* which no lock protects and which decides when the ExecutorState goes, is the
\* number of nodes in flight: it is raised for new nodes before the one that
\* readied them is taken off.  The iterations of a loop form a window that ends
\* at iteration_count, holds num_outstanding_iterations of them and never more
\* than parallel_iterations.  An iteration knows how many of its nodes are in
\* flight and how many frames it has created, across the two locks of an Enter,
\* an Exit and a DeleteFrame.  (A failed node never leaves its iteration.)
CountsExact ==
    /\ TypeOK
    /\ numOutstandingOps = Cardinality({t \in tasks : t.stage # "finish"})
    /\ \A f \in DOMAIN frames :
         LET fr == frames[f] IN
         /\ fr.numOutstandingIterations <= MaxParallelIterations(f)
         /\ {it.tag : it \in Live(f)} =
              fr.iterationCount - fr.numOutstandingIterations + 1 .. fr.iterationCount
         /\ status = "ok" => \A it \in Live(f) :
              /\ it.outstandingOps = Counted(f, it.tag)
              /\ it.outstandingFrames = ChildFrames(f, it.tag)

Exists(f, i) ==
    f \in DOMAIN frames /\ \E it \in Live(f) : it = GetIteration(frames[f], f, i) /\ it.tag = i

\* Nothing points to a frame or an iteration that has been deleted, or whose
\* slot of the ring has another iteration by now: not a node in flight, not a
\* node about to be scheduled, not a child frame, not an Enter that is still
\* to come, which has to find iteration 0.
NoDanglingReference ==
    /\ \A t \in tasks :
         /\ t.stage \in {"ready", "launched", "create", "enter", "leave"}
              => Exists(t.frame, t.iter)
         /\ t.stage = "enter" => Child(t) \in DOMAIN frames
         /\ \A k \in DOMAIN t.ready : t.stage # "finish" =>
              Exists(t.ready[k].frame, t.ready[k].iter)
    /\ \A f \in DOMAIN frames \ {<<>>} :
         /\ Exists(Front(f), ParentIter(f))
         /\ frames[f].numPendingInputs > 0 => Exists(f, 0)

\* A node runs at most once in each iteration of each frame, whatever the
\* order in which its inputs come.
RunsOnce ==
    [][\A t \in tasks' : t.stage = "ready" /\ t \notin tasks => Id(t) \notin ran]_vars

\* The done callback comes once, when nothing is in flight.  If the step is
\* successful all frames are gone and the outputs are those of the program:
\* the loop ran as often as its condition says, branches not taken are dead.
DoneIsRight ==
    /\ doneCalls <= 1
    /\ doneCalls = 1 => /\ tasks = {}
                        /\ status = "ok" => /\ DOMAIN frames = {}
                                            /\ result \in graph.expected

\* The step comes to its end, if no value it waits for is lost, or if
\* something fails: then the abort releases what is waiting.
StepEnds ==
    (graph.lost = {} \/ status = "error") ~> doneCalls = 1
=============================================================================
