--------------------------- MODULE PendingCounts ---------------------------
(***************************************************************************)
(* The counts of one node in one iteration (common_runtime/                *)
(* pending_counts.h): how many inputs it still waits for and how many of   *)
(* those that came are dead.  A Merge waits for its control inputs, two    *)
(* each, and has bit 0 set as long as no live data input has come.         *)
(* has_started is set for logging only and is left out, and so is the      *)
(* choice between the packed and the large representation.                 *)
(***************************************************************************)
EXTENDS Integers

Counts(pending) == [pending |-> pending, dead |-> 0]

\* NodeStateForStruct, of a node that has not been marked as started.
NotReady(c) == c.pending # 0

decrement_pending(c, v) == [c EXCEPT !.pending = @ - v]

mark_live(c) == [c EXCEPT !.pending = IF NotReady(c) THEN @ - (@ % 2) ELSE @]

increment_dead_count(c) == [c EXCEPT !.dead = IF NotReady(c) THEN @ + 1 ELSE @]

adjust_for_activation(c, incrementDead) ==
    decrement_pending(IF incrementDead THEN increment_dead_count(c) ELSE c, 1)
=============================================================================
