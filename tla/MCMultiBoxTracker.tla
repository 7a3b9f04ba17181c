------------------------- MODULE MCMultiBoxTracker -------------------------
(* Model-checking instance of MultiBoxTracker.                             *)
EXTENDS MultiBoxTracker, TLC

RecognitionSymmetry == Permutations(Recognitions)

=============================================================================
