----------------------------- MODULE MeasureFxn -----------------------------
(***************************************************************************)
(* The measured functions of MeasureFxn.java: interpolation in a table and *)
(* its inverse, which runOptimization uses to turn a battery budget into   *)
(* the highest bitrate.                                                    *)
(*                                                                         *)
(* A table is a function from the grid 0 .. n (x1, whose first point 0 is  *)
(* the padding the constructor adds) to integers; the second argument of   *)
(* the 2D functions is fixed, so that yGivenX2 is a table.  Points between *)
(* the grid points are rationals [num, den] with den > 0.                  *)
(***************************************************************************)
EXTENDS Integers, FiniteSetsExt

CONSTANT MAX_VALUE   \* 10000 in the code

ASSUME MaxValueAssumption == MAX_VALUE \in Nat

Abs(a) == IF a < 0 THEN -a ELSE a
Grid(y) == DOMAIN y
LastOf(y) == Max(Grid(y))
AtGrid(l) == [num |-> l, den |-> 1]

\* Comparison of rationals.
AtMost(a, b) == a.num * b.den <= b.num * a.den

\* interp: the value between the two grid points around x; beyond the last point the last
\* piece is continued.
interp(y, x) ==
  LET loc == Min({x.num \div x.den, LastOf(y) - 1})
  IN  [num |-> y[loc] * x.den + (y[loc + 1] - y[loc]) * (x.num - loc * x.den), den |-> x.den]

\* max: the value and the last index where the table is greatest.
maxInd(y) == Max({l \in Grid(y) : \A k \in Grid(y) : y[k] <= y[l]})

\* inv: yGivenX2, the table with its last entry replaced by the one before it.
Padded(y) == [y EXCEPT ![LastOf(y)] = y[LastOf(y) - 1]]

\* The grid points, except the last, whose value is closest to y_search and within MAX_VALUE.
Closest(y, y_search) ==
  {l \in Grid(y) \ {LastOf(y)} :
     /\ Abs(y_search - y[l]) <= MAX_VALUE
     /\ \A k \in Grid(y) \ {LastOf(y)} : Abs(y_search - y[l]) <= Abs(y_search - y[k])}

\* Mutant of OnPiece: the intercept is added, not subtracted.
OnPieceWrongIntercept(y, loc, y_search) ==
  LET dy == y[loc + 1] - y[loc]
      n == y_search + y[loc] - loc * dy
  IN  IF dy > 0 THEN [num |-> n, den |-> dy] ELSE [num |-> -n, den |-> -dy]

\* The point of the piece from loc to loc + 1 that has the value y_search.
OnPiece(y, loc, y_search) ==
  LET dy == y[loc + 1] - y[loc]
      n == loc * dy + y_search - y[loc]
  IN  IF dy > 0 THEN [num |-> n, den |-> dy] ELSE [num |-> -n, den |-> -dy]

\* inv(y_search, x2Given): the loop over l goes down and keeps the last closest point, the
\* lowest one.
inv(y_given, y_search) ==
  LET y == Padded(y_given)
      loc == Min(Closest(y, y_search))
  IN  IF y_search >= y[maxInd(y)] THEN AtGrid(maxInd(y))
      ELSE IF y_search = y[loc] THEN AtGrid(loc)
      ELSE OnPiece(y, IF y_search > y[loc] THEN loc ELSE loc - 1, y_search)

=============================================================================
