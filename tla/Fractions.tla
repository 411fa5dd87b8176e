------------------------------ MODULE Fractions ------------------------------
(***************************************************************************)
(* Exact fractions <<numerator, denominator>>, denominators positive, for  *)
(* what the code computes with floating-point numbers, and the sum and the *)
(* sorted sequence of values.                                              *)
(***************************************************************************)
EXTENDS Integers, FiniteSets, FiniteSetsExt, Functions, Sequences

Zero == <<0, 1>>
One == <<1, 1>>

Plus(x, y) == <<x[1] * y[2] + y[1] * x[2], x[2] * y[2]>>
Times(x, y) == <<x[1] * y[1], x[2] * y[2]>>
Minus(x, y) == <<x[1] * y[2] - y[1] * x[2], x[2] * y[2]>>
AtMost(x, y) == x[1] * y[2] <= y[1] * x[2]
Below(x, y) == x[1] * y[2] < y[1] * x[2]
Equals(x, y) == x[1] * y[2] = y[1] * x[2]
Between(x, low, high) == AtMost(low, x) /\ AtMost(x, high)

(* x / y, or the default when there is nothing to divide by *)
Ratio(x, y, default) == IF y = 0 THEN default ELSE <<x, y>>

(* sum: from the left *)
SumOf(values) ==
  LET upto[n \in 0..Len(values)] == IF n = 0 THEN 0 ELSE upto[n - 1] + values[n]
  IN upto[Len(values)]

(* sorted: the i-th is the least value that i of them do not exceed *)
Sorted(values) ==
  [i \in 1..Cardinality(DOMAIN values) |->
     Min({x \in Range(values) : Cardinality({j \in DOMAIN values : values[j] <= x}) >= i})]
=============================================================================
