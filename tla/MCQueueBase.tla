---------------------------- MODULE MCQueueBase ----------------------------
(* Small instances of QueueBase: three operations of two steps on one      *)
(* queue.  Any of them may be left out or come in any order.               *)
EXTENDS QueueBase, TLC

CONSTANTS o1, o2, o3, s1, s2

MCOps == {o1, o2, o3}
MCSteps == {s1, s2}

Op(kind, n, step) == [kind |-> kind, n |-> n, step |-> step]

Work(f, a, b, c) == [flavor |-> f, work |-> (o1 :> a) @@ (o2 :> b) @@ (o3 :> c)]

\* Batches that exceed the capacity, small batches of a closed queue, a batch
\* of nothing, and closes that race enqueues, dequeues and cancellations.
Workloads ==
    {Work("fifo", Op("enqueue", 2, s1), Op("many", 3, s1), Op("closeCancel", 0, s2)),
     Work("fifo", Op("enqueue", 3, s1), Op("upto", 3, s1), Op("close", 0, s2)),
     Work("fifo", Op("enqueue", 3, s1), Op("enqueue", 1, s2), Op("many", 3, s1)),
     Work("shuffle", Op("enqueue", 3, s1), Op("upto", 3, s1), Op("close", 0, s2)),
     Work("shuffle", Op("enqueue", 3, s1), Op("many", 3, s1), Op("dequeue", 1, s1)),
     Work("priority", Op("enqueue", 3, s1), Op("many", 2, s1), Op("close", 0, s2)),
     Work("priority", Op("enqueue", 1, s1), Op("upto", 3, s1), Op("closeCancel", 0, s2)),
     Work("fifo", Op("enqueue", 2, s1), Op("many", 0, s1), Op("dequeue", 1, s1))}

MCInit == \E w \in Workloads : flavor = w.flavor /\ work = w.work /\ Init

MCSpec == MCInit /\ [][Next]_vars /\ Fairness
=============================================================================
