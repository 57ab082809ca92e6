-------------------------- MODULE MCTransactionLog --------------------------
(***************************************************************************)
(* Instances of TransactionLog for TLC.                                    *)
(***************************************************************************)
EXTENDS TransactionLog, TLC

\* Transactions are interchangeable: nothing compares them.
TxnSymmetry == Permutations(Txn)
=============================================================================
