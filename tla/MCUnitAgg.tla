----------------------------- MODULE MCUnitAgg -------------------------------
(***************************************************************************)
(* Four rows at and around the edge of the domain: two of them pass it and *)
(* three pass i128, on the way or for good; the term 5 is no money.        *)
(***************************************************************************)
EXTENDS UnitAgg, TLC

CONSTANTS w1, w2, w3

MCWorkers == {w1, w2, w3}
MCRows    == 1 .. 4

\* Rows are scanned in any order, so a table sorted by value stands for all.
MCTables == {t \in [MCRows -> {-3, 2, 3, 5}] :
               /\ \A i, j \in MCRows : i < j => t[i] =< t[j]
               /\ Cardinality({i \in MCRows : t[i] = 5}) =< 2}

MCTotal == [t \in MCTables |-> [S \in SUBSET MCRows |->
              MapThenFoldSet(+, 0, LAMBDA r : t[r], LAMBDA T : CHOOSE r \in T : TRUE, S)]]

Symmetry == Permutations({w2, w3})

=============================================================================
