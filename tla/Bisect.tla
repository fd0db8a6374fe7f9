------------------------------- MODULE Bisect -------------------------------
(***************************************************************************)
(* bisect.bisect_left of Python's standard library, through which the      *)
(* service registry and the http engine keep their lists in order.         *)
(***************************************************************************)
EXTENDS Integers, Sequences

(* The order of sort values: pairs of a priority and an id.                *)
Less(x, y) == x[1] < y[1] \/ (x[1] = y[1] /\ x[2] < y[2])

(* Mutant of BisectLeft: bisect_right.                                     *)
BisectRight(values, x) ==
  CHOOSE k \in 0..Len(values) :
    /\ \A j \in 1..k : ~Less(x, values[j])
    /\ k < Len(values) => Less(x, values[k + 1])

Intervals(n) == (0..n) \X (0..n)

(* One round: an empty interval is the answer, another loses the half the  *)
(* middle element rules out.                                               *)
Halve(search, values, x, p) ==
  LET mid == (p[1] + p[2]) \div 2
  IN  IF p[1] >= p[2] THEN p[1]
      ELSE IF Less(values[mid + 1], x) THEN search[<<mid + 1, p[2]>>]
      ELSE search[<<p[1], mid>>]

(* The number of elements x is inserted after.                             *)
BisectLeft(values, x) ==
  LET search[p \in Intervals(Len(values))] == Halve(search, values, x, p)
  IN  search[<<0, Len(values)>>]

=============================================================================
