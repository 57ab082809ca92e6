------------------------------ MODULE MCRWLock ------------------------------
(* Instances of RWLock for TLC.                                            *)
EXTENDS RWLock, TLC

\* Two threads of a SELECT, another reader without a query, and two writers
SelectRequests == {"s1", "s2", "r", "w1", "w2"}
SelectQueryOf == [x \in SelectRequests |->
    CASE x \in {"s1", "s2"} -> "select" [] x = "w1" -> "alter" [] x = "w2" -> "drop" [] OTHER -> "none"]
\* The threads of the SELECT run at the same time and need each other.
ThreadsFollow == [x \in SelectRequests |-> {}]
ThreadsAwait == [x \in SelectRequests |-> IF x \in {"s1", "s2"} THEN {"s1", "s2"} ELSE {}]

\* Four readers, three of them of one query, a writer of that query and another one
PhaseRequests == {"r1", "r2", "r3", "r4", "w1", "w2"}
PhaseQueryOf == [x \in PhaseRequests |-> IF x \in {"r2", "r3", "r4"} THEN "q" ELSE IF x = "w1" THEN "q" ELSE "none"]
\* r2 is held while r3 is acquired.
PhaseFollows == [x \in PhaseRequests |-> IF x = "r3" THEN {"r2"} ELSE {}]
PhaseAwaits == [x \in PhaseRequests |-> IF x = "r2" THEN {"r3"} ELSE {}]
=============================================================================
