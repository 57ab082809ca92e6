---------------------- MODULE MCBackgroundJobsAssignee ----------------------
(* Four servers, each small: one table and an executor whose settings are    *)
(* reloaded; a replicated table that cleans up; a table on several disks     *)
(* with ALTER queries; and two tables that share an executor, of which one   *)
(* is dropped.                                                               *)
EXTENDS BackgroundJobsAssignee

CONSTANTS s1, s2, ops1, ops2, moves1, merge_mutate, move, common,
    gt1, gt2, mt1, ct1, gi1, gi2, mi1, ci1

MCStorageOf == ops1 :> s1 @@ moves1 :> s1 @@ ops2 :> s2
MCPriority == ops1 :> 1 @@ moves1 :> 1 @@ ops2 :> 2
MCDataProcessing == s1 :> ops1 @@ s2 :> ops2
MCMoving == s1 :> moves1 @@ s2 :> NONE
MCExecutorOrder == <<move, merge_mutate, common>>
MCHome == gt1 :> merge_mutate @@ gt2 :> merge_mutate @@ mt1 :> move @@ ct1 :> common
    @@ gi1 :> merge_mutate @@ gi2 :> merge_mutate @@ mi1 :> move @@ ci1 :> common
MCLastMaxTasks == merge_mutate :> 2 @@ move :> 1 @@ common :> 1
OneTaskEach == [e \in Executor |-> 1]
Merges == {<<merge_mutate>>}

Reloading == [
    threads |-> {gt1}, reloaded |-> {merge_mutate}, max_tasks_count |-> OneTaskEach,
    tables |-> {s1}, dropped |-> {s1}, replicated |-> {}, several_disks |-> {},
    jobs |-> [a \in Assignee |-> Merges]]
Replicated == [
    threads |-> {ct1}, reloaded |-> {}, max_tasks_count |-> OneTaskEach,
    tables |-> {s1}, dropped |-> {s1}, replicated |-> {s1}, several_disks |-> {},
    jobs |-> [a \in Assignee |-> {<<common, common>>}]]
SeveralDisks == [
    threads |-> {mt1}, reloaded |-> {}, max_tasks_count |-> OneTaskEach,
    tables |-> {s1}, dropped |-> {s1}, replicated |-> {}, several_disks |-> {s1},
    jobs |-> [a \in Assignee |-> IF a = moves1 THEN {<<move>>} ELSE {}]]
TwoTables == [
    threads |-> {gt1}, reloaded |-> {}, max_tasks_count |-> MCLastMaxTasks,
    tables |-> {s1, s2}, dropped |-> {s1}, replicated |-> {}, several_disks |-> {},
    jobs |-> [a \in Assignee |-> Merges]]

MCSetup == {Reloading, Replicated, SeveralDisks, TwoTables}
=============================================================================
