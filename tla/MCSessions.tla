------------------------------ MODULE MCSessions -----------------------------
(***************************************************************************)
(* Instances of SessionOps for TLC.                                      *)
(***************************************************************************)
EXTENDS SessionOps, TLC

CONSTANTS
    Source,       \* the warehouse that holds the opening stock
    OpeningStock  \* units of every product there

OpeningAtSource == [w \in Warehouses |->
                       [p \in Products |-> IF w = Source THEN OpeningStock ELSE 0]]

\* Counting corrections of one unit either way.
BothWays == {-1, 1}

\* Documents of one kind, and threads, differ only by their identifier.
SessionSymmetry ==
    Permutations(Requests) \cup Permutations(PickLists)
        \cup Permutations(Shipments) \cup Permutations(Threads)

=============================================================================
