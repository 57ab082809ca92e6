------------------------ MODULE TransactionLogProofs ------------------------
(***************************************************************************)
(* The invariant of the log holds in every reachable state, and what follows *)
(* from it, for every set of transactions and every bound.                 *)
(***************************************************************************)
EXTENDS TransactionLogCommitProofs, TransactionLogThreadProofs

USE SMTT(30), ZenonT(30)

\* The log of a fresh server satisfies the invariant.
LEMMA InitInv == Init => IInv
<1> SUFFICES ASSUME Init PROVE IInv
  OBVIOUS
<1>1. TypeOK
  <2>1. KeeperType /\ RunningType
    BY BoundsAssumption DEF Init, KeeperType, RunningType, CSNEntry, TransactionID, EmptyTID,
       MaxReservedCSN, MaxReservedLocalTID
  <2>2. ConnectionType
    BY Zenon DEF Init, ConnectionType
  <2>3. LogType /\ ThreadType
    BY BoundsAssumption DEF Init, LogType, ThreadType, MaxReservedCSN, MaxReservedLocalTID
  <2>4. TxnType
    BY BoundsAssumption, Zenon DEF Init, TxnType, TransactionID, EmptyTID,
       MaxReservedCSN, UnknownCSN
  <2> QED BY <2>1, <2>2, <2>3, <2>4, Zenon DEF TypeOK
<1>2. VersionInv /\ OneRequest /\ RequestSent /\ LostRequest
  BY Zenon DEF Init, VersionInv, OneRequest, RequestSent, LostRequest, Live
<1>3. LogInHistory /\ EntriesBelowSeq /\ EntriesOfTxns
  BY BoundsAssumption DEF Init, LogInHistory, EntriesBelowSeq, EntriesOfTxns, MaxReservedCSN
<1>4. IdleIsEmpty /\ TidsInPast /\ UniqueTID /\ SnapshotInv
  BY DEF Init, IdleIsEmpty, TidsInPast, UniqueTID, SnapshotInv, MaxReservedCSN
<1>5. DownInv /\ RunningPc /\ SnapshotsOfRunning /\ SnapshotsSorted /\ UnknownInv
  BY DEF Init, DownInv, RunningPc, SnapshotsOfRunning, SnapshotsSorted, UnknownInv
<1>6. CsnOfPc /\ StampIsCsn /\ NotYetCommitted /\ UndecidedNotSent /\ RolledBackStampNotSent
  BY Zenon DEF Init, CsnOfPc, StampIsCsn, NotYetCommitted, UndecidedNotSent,
     RolledBackStampNotSent, Sent, Live, Committed
<1>7. TailOrder /\ TailBehindRunning /\ RemovedBehindTail /\ LastEntryKept /\ LoadedComplete
  BY DEF Init, TailOrder, TailBehindRunning, RemovedBehindTail, LastEntryKept,
     LoadedComplete, MaxReservedCSN
<1>8. ReadyNotLive /\ ReadyListed /\ ReadyLoaded /\ FinalizingLoaded /\ DeadInv
  BY Zenon DEF Init, ReadyNotLive, ReadyListed, ReadyLoaded, FinalizingLoaded, DeadInv
<1> QED BY <1>1, <1>2, <1>3, <1>4, <1>5, <1>6, <1>7, <1>8 DEF IInv

\* Every step of the transactions, of Keeper, of the updating thread and of the
\* server keeps the invariant.
LEMMA NextInv == IInv /\ [Next]_vars => IInv'
<1> SUFFICES ASSUME IInv, [Next]_vars PROVE IInv'
  OBVIOUS
<1>1. ASSUME NEW t \in Txn, TxnNext(t) \/ loadParts(t) PROVE IInv'
  BY <1>1, beginTransactionInv, changeInv, beforeCommitInv, sendCommitInv, failBeforeSendInv,
     refuseCommitInv, commitDoneInv, faultAfterCommitInv, postponeFinalizationInv,
     rollbackInv, stampPartsInv, releaseSnapshotInv, loadPartsInv DEF TxnNext
<1>2. ASSUME NEW r \in inflight, keeperProcess(r) PROVE IInv'
  BY <1>2, keeperProcessInv, Zenon
<1>3. CASE UpdatingThread
  BY <1>3, wakeInv, connectInv, updatingThreadFailsInv, listEntriesInv, loadEntriesInv,
     publishSnapshotInv, readOldestSnapshotInv, moveTailInv, tailAnswerLostInv,
     removeEntryInv, eraseEntriesInv, swapUnknownListsInv, finishRoundInv,
     finalizeCommittedInv, finalizeUncommittedInv DEF UpdatingThread
<1>4. CASE loseSession \/ crash \/ restart \/ setServerCompletelyStarted
  BY <1>4, loseSessionInv, crashInv, restartInv, setServerCompletelyStartedInv, Zenon
<1>5. CASE UNCHANGED vars
  BY <1>5, Frames, Zenon DEF IInv, TypeOK, vars, keeperVars, connVars, loadVars, runVars,
     unknownVars, updVars, txnVars, boundVars
<1> QED BY <1>1, <1>2, <1>3, <1>4, <1>5, Zenon DEF Next

\* The invariant holds in every reachable state, for any number of transactions,
\* faults and crashes.
THEOREM Invariance == Spec => []IInv
<1> QED BY InitInv, NextInv, PTL DEF Spec

\* Every variable of the log keeps its type.
THEOREM TypeCorrect == Spec => []TypeOK
<1>1. IInv => TypeOK
  BY Zenon DEF IInv
<1> QED BY <1>1, Invariance, PTL

\* A transaction whose csn- node exists is never rolled back, neither by
\* tryFinalizeUnknownStateTransactions nor by loadDataPart after a crash.
THEOREM CommitIsFinal == Spec => []CommittedNotRolledBack
<1>1. ASSUME IInv PROVE CommittedNotRolledBack
  <2> SUFFICES ASSUME NEW t \in Txn, Committed(t)
               PROVE  csn[t] # RolledBackCSN /\ stamped[t] # RolledBackCSN
    BY Zenon DEF CommittedNotRolledBack
  <2>1. RolledBackCSN # UnknownCSN
    BY BoundsAssumption DEF RolledBackCSN, UnknownCSN, MaxReservedCSN
  <2>2. csn[t] # RolledBackCSN
    BY <1>1, <2>1 DEF IInv, CsnOfPc, UndecidedNotSent, Sent
  <2>3. stamped[t] # RolledBackCSN
    BY <1>1, Zenon DEF IInv, RolledBackStampNotSent, Sent
  <2> QED BY <2>2, <2>3, Zenon
<1> QED BY <1>1, Invariance, PTL

\* No two transactions, of the same or of different runs of the server, have the
\* same TID: what loadLogFromZooKeeper creates an empty entry for.
THEOREM TIDsAreUnique == Spec => []UniqueTID
<1>1. IInv => UniqueTID
  BY Zenon DEF IInv
<1> QED BY <1>1, Invariance, PTL

\* getOldestSnapshot returns the oldest snapshot in use, and the tail of the log
\* does not pass it.
THEOREM OldestSnapshotIsFirst == Spec => []OldestSnapshotFirst
<1>1. ASSUME IInv PROVE OldestSnapshotFirst
  <2>1. running_list = {snapshots_in_use[i] : i \in 1 .. Len(snapshots_in_use)}
    BY <1>1, Zenon DEF IInv, SnapshotsOfRunning
  <2>2. server # "down" => zk_tail_ptr <= OldestSnapshot
    <3>1. CASE snapshots_in_use = <<>>
      BY <1>1, <3>1 DEF IInv, TailOrder, OldestSnapshot
    <3>2. CASE snapshots_in_use # <<>>
      <4>1. Head(snapshots_in_use) \in running_list
        BY <1>1, <3>2 DEF IInv, TypeOK, RunningType, SnapshotsOfRunning
      <4> QED BY <1>1, <3>2, <4>1 DEF IInv, TailBehindRunning, OldestSnapshot
    <3> QED BY <3>1, <3>2, Zenon
  <2> QED BY <1>1, <2>1, <2>2, OldestSnapshotBound, Zenon DEF OldestSnapshotFirst
<1> QED BY <1>1, Invariance, PTL

\* The latest snapshot and Keeper's tail pointer never move back: loadEntries
\* publishes a newer entry, a restart creates one, and removeOldEntries only
\* moves the tail up to the oldest snapshot.
THEOREM SnapshotsOnlyAdvance == Spec => SnapshotsMoveForward
<1>1. IInv /\ [Next]_vars =>
        latest_snapshot' >= latest_snapshot /\ zk_tail_ptr' >= zk_tail_ptr
  <2> SUFFICES ASSUME IInv, [Next]_vars
               PROVE  latest_snapshot' >= latest_snapshot /\ zk_tail_ptr' >= zk_tail_ptr
    OBVIOUS
  <2>1. /\ latest_snapshot \in Nat /\ zk_tail_ptr \in Nat /\ seq \in Nat
        /\ listed \in Nat /\ new_tail_ptr \in Nat
    BY Zenon DEF IInv, TypeOK, LogType, KeeperType, ThreadType
  <2>2. ASSUME NEW t \in Txn, TxnNext(t) \/ loadParts(t)
        PROVE  UNCHANGED <<latest_snapshot, zk_tail_ptr>>
    BY <2>2, Zenon DEF TxnNext, loadParts, beginTransaction, change, beforeCommit, sendCommit,
       failBeforeSend, refuseCommit, commitDone, faultAfterCommit, postponeFinalization,
       rollback, stampParts, releaseSnapshot, keeperVars, loadVars
  <2>3. ASSUME NEW r \in inflight, keeperProcess(r)
        PROVE  UNCHANGED <<latest_snapshot, zk_tail_ptr>>
    BY <2>3, Zenon DEF keeperProcess, loadVars
  <2>4. CASE publishSnapshot
    <3>1. latest_snapshot < listed /\ latest_snapshot' = listed /\ zk_tail_ptr' = zk_tail_ptr
      BY <2>4, Zenon DEF publishSnapshot, IInv, SnapshotInv, keeperVars
    <3> QED BY <2>1, <3>1
  <2>5. CASE moveTail \/ tailAnswerLost
    BY <2>1, <2>5 DEF moveTail, tailAnswerLost, IInv, TailOrder, loadVars
  <2>6. CASE restart
    BY <2>1, <2>6 DEF restart, FirstSnapshot, IInv, SnapshotInv
  <2>7. ASSUME UpdatingThread, ~publishSnapshot, ~moveTail, ~tailAnswerLost
        PROVE  UNCHANGED <<latest_snapshot, zk_tail_ptr>>
    BY <2>7, Zenon DEF UpdatingThread, wake, connect, updatingThreadFails, listEntries, loadEntries,
       readOldestSnapshot, removeEntry, eraseEntries, swapUnknownLists, finishRound,
       finalizeCommitted, finalizeUncommitted, keeperVars, loadVars
  <2>8. CASE loseSession \/ crash \/ setServerCompletelyStarted \/ UNCHANGED vars
    <3>1. UNCHANGED <<latest_snapshot, zk_tail_ptr>>
      BY <2>8, Zenon DEF loseSession, crash, setServerCompletelyStarted, vars, keeperVars,
         loadVars
    <3> QED BY <2>1, <3>1
  <2> QED BY <2>1, <2>2, <2>3, <2>4, <2>5, <2>6, <2>7, <2>8 DEF Next
<1> QED BY <1>1, Invariance, PTL DEF Spec, SnapshotsMoveForward

-----------------------------------------------------------------------------
(* The CSNs in the metadata of the parts                                   *)

\* A request that Keeper processes is the first one of its transaction.
LEMMA NextOneEntry == IInv /\ OneEntry /\ [Next]_vars => OneEntry'
<1> SUFFICES ASSUME IInv, OneEntry, [Next]_vars PROVE OneEntry'
  OBVIOUS
<1>1. ASSUME NEW r \in inflight, keeperProcess(r) PROVE OneEntry'
  <2>1. CASE SessionValid(r)
    <3> DEFINE n == [csn |-> seq, tid |-> tid[r.txn]]
    <3>1. history' = history \cup {n} /\ n.tid = tid[r.txn]
      BY <1>1, <2>1, Zenon DEF keeperProcess, Created
    <3>2. ~Committed(r.txn)
      BY Zenon DEF IInv, RequestSent
    <3>3. \A e \in history : e.tid = n.tid => n.tid = EmptyTID
      BY <3>1, <3>2, Zenon DEF Committed
    <3> HIDE DEF n
    <3> QED BY <3>1, <3>3, Zenon DEF OneEntry
  <2>2. CASE ~SessionValid(r)
    BY <1>1, <2>2, Zenon DEF keeperProcess, OneEntry
  <2> QED BY <2>1, <2>2, Zenon
<1>2. CASE restart
  <2> DEFINE n == [csn |-> seq, tid |-> EmptyTID]
  <2>1. history' = history \cup {n} /\ n.tid = EmptyTID
    BY <1>2, Zenon DEF restart, Created
  <2> HIDE DEF n
  <2> QED BY <2>1, Zenon DEF OneEntry
<1>3. CASE history' = history
  BY <1>3, Zenon DEF OneEntry
<1>4. ASSUME NEW t \in Txn, TxnNext(t) \/ loadParts(t) PROVE history' = history
  BY <1>4, Zenon DEF TxnNext, loadParts, beginTransaction, change, beforeCommit, sendCommit,
     failBeforeSend, refuseCommit, commitDone, faultAfterCommit, postponeFinalization,
     rollback, stampParts, releaseSnapshot
<1>5. CASE UpdatingThread
  <2>1. history' = history
    BY <1>5, Zenon DEF UpdatingThread, wake, connect, updatingThreadFails, listEntries, loadEntries,
       publishSnapshot, readOldestSnapshot, moveTail, tailAnswerLost, removeEntry, eraseEntries,
       swapUnknownLists, finishRound, finalizeCommitted, finalizeUncommitted
  <2> QED BY <2>1, <1>3, Zenon
<1>6. CASE loseSession \/ crash \/ setServerCompletelyStarted \/ UNCHANGED vars
  <2>1. history' = history
    BY <1>6, Zenon DEF loseSession, crash, setServerCompletelyStarted, vars
  <2> QED BY <2>1, <1>3, Zenon
<1> QED BY <1>1, <1>2, <1>3, <1>4, <1>5, <1>6, Zenon DEF Next

LEMMA InitOneEntry == Init => OneEntry
  BY Zenon DEF Init, OneEntry

\* A step that leaves the changes, the TID and the metadata of t alone, and decides
\* t only with the number of its entry.
PartsKept(t) ==
    /\ tid'[t] = tid[t] /\ changed'[t] = changed[t] /\ stamped'[t] = stamped[t]
    /\ history \subseteq history'
    /\ pc'[t] = "idle" => pc[t] = "idle"
    /\ pc[t] = "dead" => pc'[t] = "dead"
    /\ pc'[t] = "dead" /\ server' = "started" => pc[t] = "dead" /\ server = "started"
    /\ pc'[t] \in {"send", "wait", "lost"} \/ Sent(t)' => changed[t]
    /\ changed[t] => \/ csn'[t] \in {csn[t], UnknownCSN, CommittingCSN, RolledBackCSN}
                     \/ [csn |-> csn'[t], tid |-> tid[t]] \in history
    /\ changed[t] /\ stamped[t] = UnknownCSN =>
         /\ t \in running_list /\ pc'[t] # "dead" => t \in running_list'
         /\ AsyncLoading \/ zk_tail_ptr' = zk_tail_ptr \/ zk_tail_ptr' <= tid[t].start_csn

LEMMA PartsStep ==
  ASSUME NEW t \in Txn, PartsInv(t), PartsKept(t)
  PROVE  PartsInv(t)'
<1>1. /\ pc'[t] = "idle" => ~changed'[t]
      /\ pc'[t] \in {"send", "wait", "lost"} \/ Sent(t)' => changed'[t]
      /\ stamped'[t] # CommittingCSN
      /\ changed'[t] /\ stamped'[t] = UnknownCSN /\ pc'[t] # "dead" => t \in running_list'
  BY Zenon DEF PartsInv, PartsKept
<1>2. \A c \in {csn'[t], stamped'[t]} :
        changed'[t] /\ c \notin {UnknownCSN, CommittingCSN, RolledBackCSN}
            => [csn |-> c, tid |-> tid'[t]] \in history'
  BY Zenon DEF PartsInv, PartsKept
<1>3. ~AsyncLoading /\ changed'[t] /\ stamped'[t] = UnknownCSN =>
        /\ server' = "started" => pc'[t] # "dead"
        /\ zk_tail_ptr' <= tid'[t].start_csn
  BY Zenon DEF PartsInv, PartsKept
<1> QED BY <1>1, <1>2, <1>3, Zenon DEF PartsInv

\* The same for a step that does not change what PartsInv depends on.
LEMMA QuietParts ==
  ASSUME NEW t \in Txn, PartsInv(t),
         UNCHANGED <<pc, tid, csn, changed, stamped, history, inflight, session_node_version,
                     running_list, server, zk_tail_ptr>>
  PROVE  PartsInv(t)'
<1>1. Sent(t)' <=> Sent(t)
  BY Zenon DEF Sent, Live, SessionValid, Committed
<1>2. PartsKept(t)
  BY <1>1, Zenon DEF PartsInv, PartsKept
<1> QED BY <1>2, PartsStep, Zenon

\* A step of a transaction leaves the others alone.
LEMMA OtherParts ==
  ASSUME NEW t \in Txn, IInv, TxnNext(t) \/ loadParts(t) \/ finalizeCommitted(t) \/
         finalizeUncommitted(t), NEW u \in Txn \ {t}, PartsInv(u)
  PROVE  PartsInv(u)'
<1>1. /\ pc \in [Txn -> {"idle", "run", "send", "wait", "lost", "end", "dead"}]
      /\ tid \in [Txn -> TransactionID] /\ csn \in [Txn -> Nat]
      /\ changed \in [Txn -> BOOLEAN] /\ stamped \in [Txn -> Nat]
  BY Zenon DEF IInv, TypeOK, TxnType
<1> USE DEF TxnNext, loadParts, beginTransaction, change, beforeCommit, sendCommit,
            failBeforeSend, refuseCommit, commitDone, faultAfterCommit, postponeFinalization,
            rollback, stampParts, releaseSnapshot, finalizeCommitted, finalizeUncommitted,
            keeperVars, runVars, txnVars
<1>2. /\ pc' = pc \/ \E x : pc' = [pc EXCEPT ![t] = x]
      /\ csn' = csn \/ \E x : csn' = [csn EXCEPT ![t] = x]
  BY Zenon
<1>3. /\ tid' = tid \/ \E x : tid' = [tid EXCEPT ![t] = x]
      /\ changed' = changed \/ \E x : changed' = [changed EXCEPT ![t] = x]
      /\ stamped' = stamped \/ \E x : stamped' = [stamped EXCEPT ![t] = x]
  BY Zenon
<1>4. UNCHANGED <<history, session_node_version, server, zk_tail_ptr>>
  BY Zenon
<1>5. u \in running_list => u \in running_list'
  BY Zenon
<1>6. \/ inflight' = inflight
      \/ inflight' = inflight \cup {[txn |-> t, version |-> zk_version]}
  BY Zenon
<1> HIDE DEF TxnNext, loadParts, beginTransaction, change, beforeCommit, sendCommit,
             failBeforeSend, refuseCommit, commitDone, faultAfterCommit, postponeFinalization,
             rollback, stampParts, releaseSnapshot, finalizeCommitted, finalizeUncommitted,
             keeperVars, runVars, txnVars
<1>7. /\ pc'[u] = pc[u] /\ csn'[u] = csn[u]
      /\ tid'[u] = tid[u] /\ changed'[u] = changed[u] /\ stamped'[u] = stamped[u]
  BY <1>1, <1>2, <1>3
<1>8. \A r \in inflight' : r \in inflight \/ r.txn = t
  BY <1>6
<1>9. Sent(u)' => Sent(u)
  <2>1. Live(u)' => Live(u)
    <3>1. u # t
      OBVIOUS
    <3> QED BY <3>1, <1>4, <1>8, Zenon DEF Live, SessionValid
  <2>2. Committed(u)' => Committed(u)
    BY <1>4, <1>7, Zenon DEF Committed
  <2> QED BY <2>1, <2>2, Zenon DEF Sent
<1>10. PartsKept(u)
  <2>1. history \subseteq history' /\ server' = server /\ zk_tail_ptr' = zk_tail_ptr
    BY <1>4, Zenon
  <2>2. pc[u] \in {"send", "wait", "lost"} \/ Sent(u) => changed[u]
    BY Zenon DEF PartsInv
  <2> QED BY <2>1, <2>2, <1>5, <1>7, <1>9, Zenon DEF PartsKept
<1> QED BY <1>10, PartsStep, Zenon

\* BEGIN: the new transaction has no changes yet.
LEMMA beginTransactionParts ==
  ASSUME NEW t \in Txn, IInv, IInv', PartsInv(t), beginTransaction(t)
  PROVE  PartsInv(t)'
<1>1. pc[t] = "idle" /\ changed' = changed /\ stamped' = stamped /\ inflight' = inflight
      /\ session_node_version' = session_node_version
  BY Zenon DEF beginTransaction, keeperVars
<1>2. pc'[t] = "run"
  BY Zenon DEF beginTransaction, IInv, TypeOK, TxnType
<1>3. ~changed'[t] /\ stamped'[t] # CommittingCSN
  BY <1>1, Zenon DEF PartsInv
<1>4. ~Committed(t)'
  BY <1>2, Zenon DEF IInv, NotYetCommitted
<1>5. ~Live(t)'
  BY <1>1, Zenon DEF Live, SessionValid, IInv, RequestSent
<1> QED BY <1>2, <1>3, <1>4, <1>5, Zenon DEF PartsInv, Sent

\* The first change: the transaction is running and undecided.
LEMMA changeParts ==
  ASSUME NEW t \in Txn, IInv, PartsInv(t), change(t)
  PROVE  PartsInv(t)'
<1>1. /\ pc[t] = "run" /\ csn[t] = UnknownCSN
      /\ UNCHANGED <<pc, tid, csn, stamped, running_list, zk_tail_ptr>>
  BY Zenon DEF change, runVars, keeperVars
<1>2. t \in running_list
  BY <1>1, Zenon DEF IInv, RunningPc
<1>3. stamped[t] = UnknownCSN
  BY <1>1, Zenon DEF IInv, StampIsCsn, Decided
<1>4. changed'[t] = TRUE
  BY Zenon DEF change, IInv, TypeOK, TxnType
<1>5. zk_tail_ptr <= tid[t].start_csn
  BY <1>2, Zenon DEF IInv, TailBehindRunning
<1>6. stamped'[t] # CommittingCSN
  BY <1>1, Zenon DEF PartsInv
<1> QED BY <1>1, <1>2, <1>3, <1>4, <1>5, <1>6, Zenon DEF PartsInv

\* The metadata gets the CSN of a decided transaction, or of its entry.
LEMMA StampedParts ==
  ASSUME NEW t \in Txn, IInv, PartsInv(t), stampParts(t) \/ loadParts(t)
  PROVE  PartsInv(t)'
<1>1. UNCHANGED <<pc, tid, csn, changed, history, inflight, session_node_version>>
  BY Zenon DEF stampParts, loadParts, keeperVars, txnVars
<1>2. Sent(t)' <=> Sent(t)
  BY <1>1, Zenon DEF Sent, Live, SessionValid, Committed
<1>3. /\ stamped'[t] \notin {UnknownCSN, CommittingCSN}
      /\ stamped'[t] # RolledBackCSN => [csn |-> stamped'[t], tid |-> tid[t]] \in history
  <2>1. stamped \in [Txn -> Nat]
    BY Zenon DEF IInv, TypeOK, TxnType
  <2>2. CASE stampParts(t)
    <3>1. changed[t] /\ Decided(t) /\ stamped'[t] = csn[t]
      BY <2>1, <2>2, Zenon DEF stampParts
    <3> QED BY <3>1, Zenon DEF Decided, PartsInv
  <2>3. ASSUME NEW e \in tid_to_csn, e.tid = tid[t], stamped' = [stamped EXCEPT ![t] = e.csn]
        PROVE  /\ stamped'[t] \notin {UnknownCSN, CommittingCSN}
               /\ [csn |-> stamped'[t], tid |-> tid[t]] \in history
    <3>1. e \in history /\ e \in CSNEntry
      BY Zenon DEF IInv, TypeOK, KeeperType, LogInHistory
    <3>2. MaxReservedCSN <= e.csn
      BY <3>1, Zenon DEF IInv, EntriesBelowSeq
    <3>3. e.csn \notin {UnknownCSN, CommittingCSN}
      BY <3>1, <3>2 DEF MaxReservedCSN, UnknownCSN, CommittingCSN, CSNEntry
    <3>4. e = [csn |-> e.csn, tid |-> tid[t]]
      BY <3>1, <2>3, Zenon DEF CSNEntry
    <3> QED BY <2>1, <2>3, <3>1, <3>3, <3>4
  <2>4. CASE stamped' = [stamped EXCEPT ![t] = RolledBackCSN]
    BY <2>1, <2>4, BoundsAssumption DEF RolledBackCSN, MaxReservedCSN, UnknownCSN, CommittingCSN
  <2> QED BY <2>2, <2>3, <2>4, Zenon DEF loadParts
<1> QED BY <1>1, <1>2, <1>3, Zenon DEF PartsInv

\* The other steps of a transaction with its own parts.
LEMMA OwnParts ==
  ASSUME NEW t \in Txn, IInv, PartsInv(t),
         \/ beforeCommit(t) \/ sendCommit(t) \/ failBeforeSend(t) \/ refuseCommit(t)
         \/ commitDone(t) \/ faultAfterCommit(t) \/ postponeFinalization(t) \/ rollback(t)
         \/ releaseSnapshot(t) \/ finalizeCommitted(t) \/ finalizeUncommitted(t)
  PROVE  PartsInv(t)'
<1>1. UNCHANGED <<tid, changed, stamped, history, session_node_version, server, zk_tail_ptr>>
  BY Zenon DEF beforeCommit, sendCommit, failBeforeSend, refuseCommit, commitDone,
     faultAfterCommit, postponeFinalization, rollback, releaseSnapshot, finalizeCommitted,
     finalizeUncommitted, keeperVars, txnVars
<1>2. pc \in [Txn -> {"idle", "run", "send", "wait", "lost", "end", "dead"}]
      /\ csn \in [Txn -> Nat]
  BY Zenon DEF IInv, TypeOK, TxnType
<1>3. \/ pc' = pc
      \/ /\ pc[t] \in {"run", "send", "wait", "lost"} /\ pc'[t] \in {"send", "wait", "lost", "end"}
         /\ pc[t] = "run" /\ pc'[t] # "end" => changed[t]
  BY <1>2, Zenon DEF beforeCommit, sendCommit, failBeforeSend, refuseCommit, commitDone,
     faultAfterCommit, postponeFinalization, rollback, releaseSnapshot, finalizeCommitted,
     finalizeUncommitted, txnVars
<1>4. pc'[t] \in {"send", "wait", "lost"} => changed[t]
  BY <1>3, Zenon DEF PartsInv
<1>5. Sent(t)' => changed[t]
  <2>1. CASE sendCommit(t)
    BY <2>1, Zenon DEF sendCommit, PartsInv
  <2>2. CASE inflight' = inflight
    <3>1. Sent(t)' <=> Sent(t)
      BY <1>1, <2>2, Zenon DEF Sent, Live, SessionValid, Committed
    <3> QED BY <3>1, Zenon DEF PartsInv
  <2>3. sendCommit(t) \/ inflight' = inflight
    BY Zenon DEF beforeCommit, failBeforeSend, refuseCommit, commitDone, faultAfterCommit,
       postponeFinalization, rollback, releaseSnapshot, finalizeCommitted, finalizeUncommitted,
       keeperVars
  <2> QED BY <2>1, <2>2, <2>3, Zenon
<1>6. changed[t] => \/ csn'[t] \in {csn[t], UnknownCSN, CommittingCSN, RolledBackCSN}
                    \/ [csn |-> csn'[t], tid |-> tid[t]] \in history
  <2>1. CASE finalizeCommitted(t)
    <3>1. PICK e \in tid_to_csn : e.tid = tid[t] /\ csn' = [csn EXCEPT ![t] = e.csn]
      BY <2>1, Zenon DEF finalizeCommitted
    <3>2. e \in history /\ e \in CSNEntry
      BY Zenon DEF IInv, TypeOK, KeeperType, LogInHistory
    <3>3. e = [csn |-> e.csn, tid |-> tid[t]] /\ csn'[t] = e.csn
      BY <3>1, <3>2, <1>2, Zenon DEF CSNEntry
    <3> QED BY <3>2, <3>3, Zenon
  <2>2. CASE commitDone(t)
    BY <1>2, <2>2, Zenon DEF commitDone, AllocatedCSN
  <2>3. CASE beforeCommit(t)
    BY <1>2, <2>3, Zenon DEF beforeCommit
  <2>4. CASE csn' = csn \/ \E c \in {UnknownCSN, RolledBackCSN} : csn' = [csn EXCEPT ![t] = c]
    BY <1>2, <2>4, Zenon
  <2>5. ASSUME ~finalizeCommitted(t), ~commitDone(t), ~beforeCommit(t)
        PROVE  csn' = csn \/ \E c \in {UnknownCSN, RolledBackCSN} : csn' = [csn EXCEPT ![t] = c]
    BY <2>5, Zenon DEF sendCommit, failBeforeSend, refuseCommit, faultAfterCommit,
       postponeFinalization, rollback, releaseSnapshot, finalizeUncommitted, txnVars
  <2> QED BY <2>1, <2>2, <2>3, <2>4, <2>5, Zenon
<1>7. changed[t] /\ stamped[t] = UnknownCSN => running_list' = running_list
  <2>1. CASE releaseSnapshot(t)
    BY <2>1, Zenon DEF releaseSnapshot, MetadataWritten
  <2>2. CASE ~releaseSnapshot(t)
    BY <2>2, Zenon DEF beforeCommit, sendCommit, failBeforeSend, refuseCommit, commitDone,
       faultAfterCommit, postponeFinalization, rollback, finalizeCommitted,
       finalizeUncommitted, runVars
  <2> QED BY <2>1, <2>2, Zenon
<1>8. PartsKept(t)
  <2>1. /\ pc'[t] = "idle" => pc[t] = "idle"
        /\ pc'[t] = "dead" <=> pc[t] = "dead"
    BY <1>3, Zenon
  <2>2. history \subseteq history'
    BY <1>1, Zenon
  <2> QED BY <2>1, <2>2, <1>1, <1>4, <1>5, <1>6, <1>7, Zenon DEF PartsKept
<1> QED BY <1>8, PartsStep, Zenon

\* Keeper commits a transaction only on its own request.
LEMMA keeperProcessParts ==
  ASSUME IInv, NEW r \in inflight, keeperProcess(r), \A u \in Txn : PartsInv(u), NEW t \in Txn
  PROVE  PartsInv(t)'
<1>1. UNCHANGED <<pc, tid, csn, changed, stamped, session_node_version, running_list, server,
                  zk_tail_ptr>>
  BY Zenon DEF keeperProcess, runVars, txnVars
<1>2. r.txn \in Txn /\ pc[r.txn] # "idle" /\ tid[r.txn] # EmptyTID
  BY Zenon DEF IInv, TypeOK, KeeperType, RequestSent, IdleIsEmpty
<1>3. history \subseteq history' /\ \A e \in history' : \/ e \in history
                                                        \/ SessionValid(r) /\ e.tid = tid[r.txn]
  BY DEF keeperProcess, Created
<1>4. Live(t)' => Live(t)
  BY <1>1, Zenon DEF keeperProcess, Live, SessionValid
<1>5. Committed(t)' => Committed(t) \/ Live(t)
  <2> SUFFICES ASSUME NEW e \in history', e \notin history, e.tid = tid[t]
               PROVE  Live(t)
    BY <1>1, Zenon DEF Committed
  <2>1. SessionValid(r) /\ tid[r.txn] = tid[t]
    BY <1>3, Zenon
  <2>2. r.txn = t
    BY <2>1, <1>2, Zenon DEF IInv, UniqueTID
  <2> QED BY <2>1, <2>2, Zenon DEF Live
<1>6. pc[t] \in {"send", "wait", "lost"} \/ Sent(t)' => changed[t]
  BY <1>4, <1>5, Zenon DEF Sent, PartsInv
<1>7. PartsKept(t)
  BY <1>1, <1>3, <1>6, Zenon DEF PartsKept
<1> QED BY <1>7, PartsStep, Zenon

\* The tail moves only while the server is completely started: every transaction
\* whose parts have no CSN yet is a running one.
LEMMA TailParts ==
  ASSUME IInv, NEW t \in Txn, PartsInv(t), moveTail \/ tailAnswerLost
  PROVE  PartsInv(t)'
<1>1. /\ upc = "prune" /\ zk_tail_ptr' = new_tail_ptr
      /\ UNCHANGED <<tid, csn, changed, stamped, history, inflight, session_node_version,
                     running_list, server>>
  BY Zenon DEF moveTail, tailAnswerLost, txnVars, loadVars, runVars
<1>2. /\ pc'[t] = "idle" => pc[t] = "idle"
      /\ pc'[t] = "dead" <=> pc[t] = "dead"
      /\ pc'[t] \in {"send", "wait", "lost"} => pc[t] \in {"send", "wait", "lost"}
  BY Zenon DEF moveTail, tailAnswerLost, txnVars
<1>3. Sent(t)' <=> Sent(t)
  BY <1>1, Zenon DEF Sent, Live, SessionValid, Committed
<1>4. ~AsyncLoading /\ changed[t] /\ stamped[t] = UnknownCSN => zk_tail_ptr' <= tid[t].start_csn
  <2>1. server = "started"
    BY <1>1, Zenon DEF IInv, TailOrder
  <2>2. ~AsyncLoading /\ changed[t] /\ stamped[t] = UnknownCSN => t \in running_list
    BY <2>1, Zenon DEF PartsInv
  <2> QED BY <1>1, <2>2, Zenon DEF IInv, TailBehindRunning
<1>5. PartsKept(t)
  <2>1. history \subseteq history'
    BY <1>1, Zenon
  <2>2. pc[t] \in {"send", "wait", "lost"} \/ Sent(t) => changed[t]
    BY Zenon DEF PartsInv
  <2> QED BY <2>1, <2>2, <1>1, <1>2, <1>3, <1>4, Zenon DEF PartsKept
<1> QED BY <1>5, PartsStep, Zenon

\* A lost session and a new one: requests are only lost.
LEMMA SessionParts ==
  ASSUME IInv, NEW t \in Txn, PartsInv(t), loseSession \/ connect
  PROVE  PartsInv(t)'
<1>1. UNCHANGED <<tid, csn, changed, stamped, history, inflight, running_list, server,
                  zk_tail_ptr>>
  BY Zenon DEF loseSession, connect, keeperVars, runVars, txnVars
<1>2. /\ pc'[t] = "idle" => pc[t] = "idle"
      /\ pc'[t] = "dead" <=> pc[t] = "dead"
      /\ pc'[t] \in {"send", "wait", "lost"} => pc[t] \in {"send", "wait", "lost"}
  BY Zenon DEF loseSession, connect, txnVars
<1>3. Live(t)' => Live(t)
  <2>1. session_node_version \in Nat
        /\ \A r \in inflight : r.version \in Nat /\ r.version <= session_node_version
    BY Zenon DEF IInv, TypeOK, KeeperType, VersionInv
  <2>2. session_node_version' \in {session_node_version, session_node_version + 1}
    BY Zenon DEF loseSession, connect, keeperVars
  <2>3. \A r \in inflight : SessionValid(r)' => SessionValid(r)
    BY <2>1, <2>2 DEF SessionValid
  <2> QED BY <1>1, <2>3, Zenon DEF Live
<1>4. Sent(t)' => Sent(t)
  BY <1>1, <1>3, Zenon DEF Sent, Committed
<1>5. PartsKept(t)
  <2>1. history \subseteq history'
    BY <1>1, Zenon
  <2>2. pc[t] \in {"send", "wait", "lost"} \/ Sent(t) => changed[t]
    BY Zenon DEF PartsInv
  <2> QED BY <2>1, <2>2, <1>1, <1>2, <1>4, Zenon DEF PartsKept
<1> QED BY <1>5, PartsStep, Zenon

\* A crash keeps what the disk and Keeper hold, and so does a restart.
LEMMA CrashParts ==
  ASSUME IInv, NEW t \in Txn, PartsInv(t), crash \/ restart
  PROVE  PartsInv(t)'
<1>1. UNCHANGED <<tid, changed, stamped, inflight, zk_tail_ptr>> /\ server' # "started"
  BY Zenon DEF crash, restart, keeperVars, txnVars
<1>2. /\ pc'[t] = "idle" => pc[t] = "idle"
      /\ pc[t] = "dead" => pc'[t] = "dead"
      /\ pc'[t] \notin {"send", "wait", "lost"}
      /\ pc'[t] # "dead" => pc[t] = "idle"
  <2>1. CASE crash
    BY <2>1, Zenon DEF crash
  <2>2. CASE restart
    BY <2>2, Zenon DEF restart, txnVars, IInv, DownInv
  <2> QED BY <2>1, <2>2, Zenon
<1>3. csn'[t] \in {csn[t], UnknownCSN}
  BY Zenon DEF crash, restart, txnVars
<1>4. history \subseteq history' /\ \A e \in history' : e \in history \/ e.tid = EmptyTID
  BY DEF crash, restart, Created
<1>5. Live(t)' => Live(t)
  <2>1. session_node_version \in Nat
        /\ \A r \in inflight : r.version \in Nat /\ r.version <= session_node_version
    BY Zenon DEF IInv, TypeOK, KeeperType, VersionInv
  <2>2. session_node_version' \in {session_node_version, session_node_version + 1}
    BY Zenon DEF crash, restart, keeperVars
  <2>3. \A r \in inflight : SessionValid(r)' => SessionValid(r)
    BY <2>1, <2>2 DEF SessionValid
  <2> QED BY <1>1, <2>3, Zenon DEF Live
<1>6. Committed(t)' => Committed(t)
  BY <1>1, <1>4, Zenon DEF Committed
<1>7. PartsKept(t)
  <2>1. Sent(t)' => changed[t]
    BY <1>5, <1>6, Zenon DEF Sent, PartsInv
  <2>2. pc'[t] # "dead" => ~changed[t]
    BY <1>2, Zenon DEF PartsInv
  <2> QED BY <2>1, <2>2, <1>1, <1>2, <1>3, <1>4, Zenon DEF PartsKept
<1> QED BY <1>7, PartsStep, Zenon

\* The server is completely started: with synchronous loading, after the parts.
LEMMA StartedParts ==
  ASSUME NEW t \in Txn, PartsInv(t), setServerCompletelyStarted
  PROVE  PartsInv(t)'
<1>1. UNCHANGED <<pc, tid, csn, changed, stamped, history, inflight, session_node_version,
                  running_list, zk_tail_ptr>>
  BY Zenon DEF setServerCompletelyStarted, keeperVars, runVars, txnVars
<1>2. Sent(t)' <=> Sent(t)
  BY <1>1, Zenon DEF Sent, Live, SessionValid, Committed
<1>3. ~AsyncLoading /\ pc[t] = "dead" /\ changed[t] => stamped[t] # UnknownCSN
  BY Zenon DEF setServerCompletelyStarted
<1> QED BY <1>1, <1>2, <1>3, Zenon DEF PartsInv

LEMMA NextWritten == IInv /\ IInv' /\ WrittenInv /\ [Next]_vars => WrittenInv'
<1> SUFFICES ASSUME IInv, IInv', WrittenInv, [Next]_vars PROVE WrittenInv'
  OBVIOUS
<1>1. OneEntry'
  BY NextOneEntry, Zenon DEF WrittenInv
<1>2. \A u \in Txn : PartsInv(u)
  BY Zenon DEF WrittenInv
<1>3. ASSUME NEW u \in Txn,
             \E t \in Txn : TxnNext(t) \/ loadParts(t) \/ finalizeCommitted(t) \/
                            finalizeUncommitted(t)
      PROVE  PartsInv(u)'
  <2>1. PICK t \in Txn : TxnNext(t) \/ loadParts(t) \/ finalizeCommitted(t) \/
                         finalizeUncommitted(t)
    BY <1>3, Zenon
  <2>2. CASE u # t
    BY <1>2, <2>1, <2>2, OtherParts, Zenon
  <2>3. CASE u = t
    BY <1>2, <2>1, <2>3, beginTransactionParts, changeParts, StampedParts, OwnParts, Zenon
       DEF TxnNext
  <2> QED BY <2>2, <2>3, Zenon
<1>4. ASSUME NEW u \in Txn,
             \/ wake \/ updatingThreadFails \/ listEntries \/ loadEntries \/ publishSnapshot
             \/ readOldestSnapshot \/ removeEntry \/ eraseEntries \/ swapUnknownLists
             \/ finishRound \/ UNCHANGED vars
      PROVE  PartsInv(u)'
  <2>1. UNCHANGED <<pc, tid, csn, changed, stamped, history, inflight, session_node_version,
                    running_list, server, zk_tail_ptr>>
    BY <1>4, Zenon DEF wake, updatingThreadFails, listEntries, loadEntries, publishSnapshot,
       readOldestSnapshot, removeEntry, eraseEntries, swapUnknownLists, finishRound, vars,
       keeperVars, runVars, txnVars
  <2> QED BY <1>2, <2>1, QuietParts, Zenon
<1>5. ASSUME NEW u \in Txn, NEW r \in inflight, keeperProcess(r) PROVE PartsInv(u)'
  BY <1>2, <1>5, keeperProcessParts, Zenon
<1>6. ASSUME NEW u \in Txn,
             \/ connect \/ moveTail \/ tailAnswerLost
             \/ loseSession \/ crash \/ restart \/ setServerCompletelyStarted
      PROVE  PartsInv(u)'
  BY <1>2, <1>6, SessionParts, TailParts, CrashParts, StartedParts, Zenon
<1> QED BY <1>1, <1>3, <1>4, <1>5, <1>6, Zenon DEF WrittenInv, Next, UpdatingThread

\* The metadata of the parts agree with the log, in every reachable state.
THEOREM Written == Spec => []WrittenInv
<1>1. Init => \A t \in Txn : PartsInv(t)
  <2> SUFFICES ASSUME Init, NEW t \in Txn PROVE PartsInv(t)
    OBVIOUS
  <2>1. pc[t] = "idle" /\ changed[t] = FALSE /\ csn[t] = UnknownCSN /\ stamped[t] = UnknownCSN
        /\ tid[t] = EmptyTID /\ inflight = {}
    BY Zenon DEF Init
  <2>2. ~Sent(t)
    BY <2>1, Zenon DEF Sent, Live, Committed
  <2>3. UnknownCSN # CommittingCSN
    BY DEF UnknownCSN, CommittingCSN
  <2> QED BY <2>1, <2>2, <2>3, Zenon DEF PartsInv
<1>2. Init => WrittenInv
  BY <1>1, InitOneEntry, Zenon DEF WrittenInv
<1> QED BY <1>2, NextWritten, Invariance, PTL DEF Spec

\* afterCommit, loadDataPart: whatever sessions, answers and servers are lost, the
\* CSN that a transaction has in memory, and that its parts have on the disk, is
\* the number of the csn- node that holds its TID.
THEOREM StampedCSNs == Spec => []CSNIsTheNodeNumber
<1>1. WrittenInv => CSNIsTheNodeNumber
  BY Zenon DEF WrittenInv, PartsInv, CSNIsTheNodeNumber
<1> QED BY <1>1, Written, PTL

\* getCSNAndAssert: with the parts loaded before the server is completely started
\* the tail stays behind every transaction whose parts have no CSN yet.
THEOREM LookupsSucceed ==
  ASSUME ~AsyncLoading
  PROVE  Spec => []TailBehindUnwrittenCSNs
<1>1. IInv /\ WrittenInv => TailBehindUnwrittenCSNs
  BY Zenon DEF IInv, TailOrder, WrittenInv, PartsInv, TailBehindUnwrittenCSNs
<1> QED BY <1>1, Invariance, Written, PTL

LEMMA RemovedWritten ==
  ASSUME ~AsyncLoading, IInv, WrittenInv
  PROVE  RemovedEntriesAreWritten
<1> SUFFICES ASSUME NEW t \in Txn, NEW e \in history, e \notin log, changed[t], e.tid = tid[t]
             PROVE  stamped[t] = e.csn
  BY Zenon DEF RemovedEntriesAreWritten
<1>1. tid[t] # EmptyTID /\ Committed(t)
  BY Zenon DEF WrittenInv, PartsInv, IInv, IdleIsEmpty, Committed
<1>2. stamped[t] # RolledBackCSN /\ stamped[t] # CommittingCSN
  BY <1>1, Zenon DEF IInv, RolledBackStampNotSent, Sent, WrittenInv, PartsInv
<1>3. stamped[t] # UnknownCSN
  <2>1. tid[t].start_csn < tail_ptr /\ tail_ptr <= zk_tail_ptr
    BY <1>1, Zenon DEF IInv, RemovedBehindTail, TailOrder
  <2>2. stamped[t] = UnknownCSN => zk_tail_ptr <= tid[t].start_csn
    BY Zenon DEF WrittenInv, PartsInv
  <2>3. tid[t].start_csn \in Nat /\ tail_ptr \in Nat /\ zk_tail_ptr \in Nat
    BY Zenon DEF IInv, TypeOK, TxnType, LogType, KeeperType, TransactionID
  <2> QED BY <2>1, <2>2, <2>3
<1>4. [csn |-> stamped[t], tid |-> tid[t]] \in history
  BY <1>2, <1>3, Zenon DEF WrittenInv, PartsInv
<1>5. [csn |-> stamped[t], tid |-> tid[t]] = e
  BY <1>1, <1>4, Zenon DEF WrittenInv, OneEntry
<1> QED BY <1>5, Zenon

\* TransactionLog.h: with the parts loaded first, an entry is removed from the log
\* only when its CSN is in the parts of its transaction.
THEOREM RemovedAfterWritten ==
  ASSUME ~AsyncLoading
  PROVE  Spec => []RemovedEntriesAreWritten
<1>1. IInv /\ WrittenInv => RemovedEntriesAreWritten
  BY RemovedWritten, Zenon
<1> QED BY <1>1, Invariance, Written, PTL

\* Every commit that a snapshot covers can be looked up in tid_to_csn, or its CSN
\* is in the parts already.
THEOREM SnapshotsComplete ==
  ASSUME ~AsyncLoading
  PROVE  Spec => []SnapshotComplete
<1>1. ASSUME IInv, WrittenInv PROVE SnapshotComplete
  <2> SUFFICES ASSUME NEW t \in Txn, NEW e \in history, server # "down", e.tid = tid[t],
                      tid[t] # EmptyTID, e.csn <= latest_snapshot
               PROVE  e \in tid_to_csn \/ stamped[t] = e.csn
    BY Zenon DEF SnapshotComplete
  <2>1. CASE e \in log
    <3>1. e.csn \in Nat /\ latest_snapshot \in Nat /\ last_loaded_entry \in Nat /\ listed \in Nat
      BY <1>1 DEF IInv, TypeOK, KeeperType, LogType, ThreadType, CSNEntry
    <3>2. latest_snapshot <= last_loaded_entry
      BY <1>1, <3>1 DEF IInv, DownInv, SnapshotInv
    <3>3. e.csn <= last_loaded_entry
      BY <3>1, <3>2
    <3> QED BY <1>1, <2>1, <3>3, Zenon DEF IInv, LoadedComplete
  <2>2. CASE e \notin log
    <3>1. Committed(t)
      BY Zenon DEF Committed
    <3>2. changed[t]
      BY <1>1, <3>1, Zenon DEF WrittenInv, PartsInv, Sent
    <3> QED BY <1>1, <2>2, <3>2, RemovedWritten, Zenon DEF RemovedEntriesAreWritten
  <2> QED BY <2>1, <2>2, Zenon
<1>2. IInv /\ WrittenInv => SnapshotComplete
  BY <1>1, Zenon
<1> QED BY <1>2, Invariance, Written, PTL
=============================================================================
