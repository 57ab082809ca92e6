--------------------------- MODULE MCPartVersions ---------------------------
(* Instances of PartVersions for TLC.                                      *)
EXTENDS PartVersions, TLC

\* A part, a mutation of it, and a later mutation of either
ChainParts == {"a", "b", "c"}
ChainCovers == {<<"b", "a">>, <<"c", "b">>, <<"c", "a">>}
ChainInitial == {"a"}

\* A part and a mutation of it, both still to come
PairParts == {"a", "b"}
PairCovers == {<<"b", "a">>}
PairInitial == {}

TxnSymmetry == Permutations(Txn)
=============================================================================
