------------------------ MODULE ConvergenceCriterion ------------------------
(***************************************************************************)
(* The verdict of convergence_experiment.py on one metric: _log_log_slope  *)
(* and _check_convergence.  A point is a pair of the logarithms of a       *)
(* duration and of a relative error, as integers of some unit.  A duration *)
(* or an error of zero has the logarithm -inf: it compares as less than    *)
(* every other one, and no number can be computed from it.                 *)
(***************************************************************************)
EXTENDS Integers, Sequences, FiniteSets

LogOfZero == -100    \* -inf: below every logarithm in use
NaN == {}            \* a slope is a set of at most one number; none is below NaN

SumOf(numbers) ==
  LET sum[n \in 0 .. Len(numbers)] == IF n = 0 THEN 0 ELSE sum[n - 1] + numbers[n]
  IN  sum[Len(numbers)]

\* The points that are fitted: those whose errors are not zero.
Transformable(points) == {i \in DOMAIN points : points[i].error # LogOfZero}

\* The least-squares slope of some of the points, without its denominator, which is
\* positive: the sign is the slope's.  With n points
\* n sum (x - mean x)(y - mean y) = n sum x y - sum x sum y.
SlopeOf(points, valid) ==
  LET n == Cardinality(valid)
      x == [i \in DOMAIN points |-> IF i \in valid THEN points[i].duration ELSE 0]
      y == [i \in DOMAIN points |-> IF i \in valid THEN points[i].error ELSE 0]
      Covariance(u, v) ==
        n * SumOf([i \in DOMAIN points |-> u[i] * v[i]]) - SumOf(u) * SumOf(v)
  IN  IF n < 2 \/ Covariance(x, x) = 0 THEN 0 ELSE Covariance(x, y)

\* Errors of zero are left out; durations of zero are not, and -inf among the
\* logarithms of the durations makes numerator and denominator NaN.
LogLogSlope(points) ==
  LET valid == Transformable(points)
  IN  IF Cardinality(valid) >= 2 /\ \E i \in valid : points[i].duration = LogOfZero
      THEN NaN ELSE {SlopeOf(points, valid)}

CheckConvergence(points) ==
  /\ Len(points) >= 2
  /\ points[Len(points)].error < points[1].error
  /\ \E slope \in LogLogSlope(points) : slope < 0

-----------------------------------------------------------------------------
Falling(t) ==
  \A i \in 2 .. Len(t) : \/ t[i].error < t[i - 1].error
                         \/ {t[i].error, t[i - 1].error} = {LogOfZero}
Rising(t) == \A i \in 2 .. Len(t) : t[i].error >= t[i - 1].error
=============================================================================
