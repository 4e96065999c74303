-------------------------------- MODULE Sums --------------------------------
(***************************************************************************)
(* Sums over finite sets of natural quantities, written as the number of   *)
(* units counted: Total(f) is the size of the set that holds f[x] distinct *)
(* units for every x in the domain of f.  The prover reasons about the     *)
(* size of a set from first-order theorems, which it cannot do about a     *)
(* fold.                                                                   *)
(***************************************************************************)
EXTENDS Integers, FiniteSets

Units(f) == UNION {{x} \X (1..f[x]) : x \in DOMAIN f}

\* The sum of f[x] over x \in DOMAIN f, for f \in [S -> Nat] with S finite.
Total(f) == Cardinality(Units(f))

Max0(n) == IF n > 0 THEN n ELSE 0

=============================================================================
