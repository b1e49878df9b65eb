------------------------------- MODULE Tally -------------------------------
(***************************************************************************)
(* Sums of natural-number functions over finite sets, defined by counting: *)
(* the sum of f over S is the size of the disjoint union of the intervals  *)
(* 1..f[x].  The ledgers of the contracts are small-step changes of such   *)
(* sums, and counting (rather than recursion over S) is what lets their    *)
(* conservation laws be proved for every set of users and every balance.   *)
(***************************************************************************)
EXTENDS Integers, FiniteSets

\* One pair <<x, i>> for every unit i of f[x].
Units(f, S) == UNION { {x} \X (1 .. f[x]) : x \in S }

\* The sum of f over S.
Total(f, S) == Cardinality(Units(f, S))

\* The smaller of two integers (the contracts' `if a > b { b } else { a }`).
Least(a, b) == IF a > b THEN b ELSE a
=============================================================================
