------------------------------ MODULE CommitLog ------------------------------
(***************************************************************************)
(* What the transaction log promises to its users: transactions read from  *)
(* a snapshot, commit atomically in one total order, or end without a      *)
(* trace, and the outcome is final, whatever is lost or crashes meanwhile. *)
(* TransactionLog implements this specification.                           *)
(***************************************************************************)
EXTENDS Integers

CONSTANTS
    Txn,        \* the transactions
    FirstCSN    \* the newest CSN of an empty log

VARIABLES
    state,      \* "idle", "active", "committed" or "ended"
    start,      \* the snapshot a transaction reads from
    commit,     \* the CSN of a committed transaction, 0 otherwise
    last,       \* the newest CSN
    snapshot    \* the newest snapshot that transactions may start from

vars == <<state, start, commit, last, snapshot>>

Init ==
    /\ state = [t \in Txn |-> "idle"]
    /\ start = [t \in Txn |-> 0]
    /\ commit = [t \in Txn |-> 0]
    /\ last = FirstCSN
    /\ snapshot = FirstCSN

Begin(t) ==
    /\ state[t] = "idle"
    /\ state' = [state EXCEPT ![t] = "active"]
    /\ start' = [start EXCEPT ![t] = snapshot]
    /\ UNCHANGED <<commit, last, snapshot>>

\* All changes of t take effect at once, after every earlier commit.
Commit(t) ==
    /\ state[t] = "active"
    /\ state' = [state EXCEPT ![t] = "committed"]
    /\ commit' = [commit EXCEPT ![t] = last + 1]
    /\ last' = last + 1
    /\ UNCHANGED <<start, snapshot>>

\* Transactions end without effect: read-only, rolled back, or cut off by a crash.
Ended(S) ==
    /\ \A t \in S : state[t] = "active"
    /\ state' = [t \in Txn |-> IF t \in S THEN "ended" ELSE state[t]]
    /\ UNCHANGED <<start, commit>>

End(S) == Ended(S) /\ UNCHANGED <<last, snapshot>>

\* Commits become visible to transactions that start from now on.
Publish ==
    /\ \E n \in snapshot + 1 .. last : snapshot' = n
    /\ UNCHANGED <<state, start, commit, last>>

\* The server starts: a fresh snapshot, which no earlier transaction had.
Restart(S) == Ended(S) /\ last' = last + 1 /\ snapshot' = last + 1

Next ==
    \/ \E t \in Txn : Begin(t) \/ Commit(t)
    \/ \E S \in SUBSET Txn : End(S) \/ Restart(S)
    \/ Publish

Spec == Init /\ [][Next]_vars
=============================================================================
