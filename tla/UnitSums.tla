------------------------------- MODULE UnitSums -------------------------------
(***************************************************************************)
(* The sum of a function into the naturals over a finite domain, defined   *)
(* by counting: every index contributes as many units as its value.  (A    *)
(* fold gives the same number, but a cardinality is a sum that the library *)
(* facts on finite sets say something about for every domain.)             *)
(***************************************************************************)
EXTENDS Integers, FiniteSets

Units(f, S) == UNION {{x} \X (1..f[x]) : x \in S}

SumOver(f) == Cardinality(Units(f, DOMAIN f))
=============================================================================
