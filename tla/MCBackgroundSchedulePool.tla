---------------------- MODULE MCBackgroundSchedulePool ----------------------
(* Instances of BackgroundSchedulePool for TLC.                            *)
EXTENDS BackgroundSchedulePool, TLC

CONSTANTS t1, t2, w1, w2, w3, c1, c2

\* Nothing tells tasks, callers or the first threads apart.
PoolSymmetry == Permutations({t1, t2}) \union Permutations({w1, w2}) \union Permutations({c1, c2})
=============================================================================
