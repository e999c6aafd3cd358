------------------------------- MODULE Slopes -------------------------------
(* Slopes as fractions, and their conversion to integers. *)
EXTENDS Integers, Sequences, Functions

(* A fraction cut towards zero: C's integer division, Python's int()        *)
Quotient(p, q) ==
  LET Size(x) == IF x < 0 THEN -x ELSE x
      size == Size(p) \div Size(q)
  IN  IF (p < 0) = (q < 0) THEN size ELSE -size

(* Fraction f against integer k, and what is left of f when it is cut       *)
(* towards zero. *)
AtLeast(f, k) == IF f.den > 0 THEN f.num >= k * f.den ELSE f.num <= k * f.den
Above(f, k) == IF f.den > 0 THEN f.num > k * f.den ELSE f.num < k * f.den
CutAtLeast(f, k) == IF k > 0 THEN AtLeast(f, k) ELSE Above(f, k - 1)

(* Mutant of Regression: the sum of squares is not multiplied by n.         *)
RegressionUnscaled(n, sum_x, sum_y, sum_xy, sum_xx) ==
  [num |-> sum_x * sum_y - n * sum_xy, den |-> sum_x * sum_x - sum_xx]

(* The slope of the least square regression, from its sums *)
Regression(n, sum_x, sum_y, sum_xy, sum_xx) ==
  [num |-> sum_x * sum_y - n * sum_xy, den |-> sum_x * sum_x - n * sum_xx]

(* least_squares_slope of server.py, of points [x, y] *)
LeastSquares(points) ==
  LET n == Len(points) IN
  Regression(n, SumFunction([j \in 1 .. n |-> points[j].x]),
                SumFunction([j \in 1 .. n |-> points[j].y]),
                SumFunction([j \in 1 .. n |-> points[j].x * points[j].y]),
                SumFunction([j \in 1 .. n |-> points[j].x * points[j].x]))
=============================================================================
