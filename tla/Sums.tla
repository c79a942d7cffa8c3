-------------------------------- MODULE Sums --------------------------------
(***************************************************************************)
(* SQL's COALESCE(SUM(column), 0) over a finite set of rows.  A natural    *)
(* number n is the cardinality of 1..n, so the sum of a function with      *)
(* natural values is the cardinality of the disjoint union of the          *)
(* intervals 1..f[x].  Written this way a sum has no recursion, and what   *)
(* an update of one row does to it can be proved (Sums_proofs).            *)
(***************************************************************************)
EXTENDS Integers, FiniteSets

UnitsOf(f, x) == {x} \X (1 .. f[x])

Units(f) == UNION {UnitsOf(f, x) : x \in DOMAIN f}

SumOf(f) == Cardinality(Units(f))

CountOf(f) == Cardinality({x \in DOMAIN f : f[x]})
=============================================================================
