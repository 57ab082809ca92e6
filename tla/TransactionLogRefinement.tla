---------------------- MODULE TransactionLogRefinement ----------------------
(***************************************************************************)
(* TransactionLog implements CommitLog, for any number of transactions,    *)
(* faults and crashes: every outcome is decided in one step and is final.  *)
(***************************************************************************)
EXTENDS TransactionLogProofs

USE SMTT(30), ZenonT(30)

-----------------------------------------------------------------------------
(* The number of a commit                                                  *)

\* CommitNumber is the number of the entry.
LEMMA NumberOfEntry ==
  OneEntry => \A t \in Txn : \A e \in history :
      e.tid = tid[t] /\ tid[t] # EmptyTID => CommitNumber(t) = e.csn
<1> SUFFICES ASSUME OneEntry, NEW t \in Txn, NEW e \in history, e.tid = tid[t], tid[t] # EmptyTID
             PROVE  CommitNumber(t) = e.csn
  OBVIOUS
<1> DEFINE f == CHOOSE x \in history : x.tid = tid[t]
<1>1. f \in history /\ f.tid = tid[t]
  OBVIOUS
<1>2. f = e
  <2> HIDE DEF f
  <2> QED BY <1>1, Zenon DEF OneEntry
<1>3. Committed(t)
  BY Zenon DEF Committed
<1> QED BY <1>2, <1>3, Zenon DEF CommitNumber

LEMMA NumberOfEntryNext ==
  OneEntry' => \A t \in Txn : \A e \in history' :
      e.tid = tid'[t] /\ tid'[t] # EmptyTID => CommitNumber(t)' = e.csn
<1> SUFFICES ASSUME OneEntry', NEW t \in Txn, NEW e \in history', e.tid = tid'[t], tid'[t] # EmptyTID
             PROVE  CommitNumber(t)' = e.csn
  OBVIOUS
<1> DEFINE f == CHOOSE x \in history' : x.tid = tid'[t]
<1>1. f \in history' /\ f.tid = tid'[t]
  OBVIOUS
<1>2. f = e
  <2> HIDE DEF f
  <2> QED BY <1>1, Zenon DEF OneEntry
<1>3. Committed(t)'
  BY Zenon DEF Committed
<1> QED BY <1>2, <1>3, Zenon DEF CommitNumber

-----------------------------------------------------------------------------
(* Outcomes                                                                *)

\* The part of the state that the outcomes depend on
decisive == <<history, tid, seq, latest_snapshot>>

\* t has the outcome it had, or ends without effect.
KeepsOrEnds(t) ==
    \/ Outcome(t)' = Outcome(t)
    \/ Outcome(t) = "active" /\ Outcome(t)' = "ended"

RolledBack(t) == csn[t] = RolledBackCSN \/ stamped[t] = RolledBackCSN

\* The outcome of a transaction is decided by these facts about it.
LEMMA OutcomeCases ==
  \A t \in Txn :
      /\ pc[t] = "idle" => Outcome(t) = "idle"
      /\ pc[t] # "idle" /\ RolledBack(t) => Outcome(t) = "ended"
      /\ pc[t] # "idle" /\ ~RolledBack(t) /\ Committed(t) => Outcome(t) = "committed"
      /\ pc[t] # "idle" /\ ~RolledBack(t) /\ ~Committed(t) /\ (pc[t] = "dead" \/ Decided(t)) /\ ~Live(t)
             => Outcome(t) = "ended"
      /\ pc[t] # "idle" /\ ~RolledBack(t) /\ ~Committed(t) /\ ~((pc[t] = "dead" \/ Decided(t)) /\ ~Live(t))
             => Outcome(t) = "active"
  BY Zenon DEF Outcome, RolledBack

LEMMA OutcomeCasesNext ==
  \A t \in Txn :
      /\ pc'[t] = "idle" => Outcome(t)' = "idle"
      /\ pc'[t] # "idle" /\ RolledBack(t)' => Outcome(t)' = "ended"
      /\ pc'[t] # "idle" /\ ~RolledBack(t)' /\ Committed(t)' => Outcome(t)' = "committed"
      /\ pc'[t] # "idle" /\ ~RolledBack(t)' /\ ~Committed(t)' /\ (pc'[t] = "dead" \/ Decided(t)') /\ ~Live(t)'
             => Outcome(t)' = "ended"
      /\ pc'[t] # "idle" /\ ~RolledBack(t)' /\ ~Committed(t)' /\ ~((pc'[t] = "dead" \/ Decided(t)') /\ ~Live(t)')
             => Outcome(t)' = "active"
  BY Zenon DEF Outcome, RolledBack

\* What is not touched keeps its outcome.
LEMMA OutcomeSame ==
  ASSUME NEW t \in Txn, pc'[t] = pc[t], csn'[t] = csn[t], stamped'[t] = stamped[t],
         Committed(t)' <=> Committed(t), Live(t)' <=> Live(t)
  PROVE  Outcome(t)' = Outcome(t)
<1>1. (Decided(t)' <=> Decided(t)) /\ (RolledBack(t)' <=> RolledBack(t))
  BY Zenon DEF Decided, RolledBack
<1> QED BY <1>1, OutcomeCases, OutcomeCasesNext

\* A step that fixes no outcome, except that a request of t may become void.
LEMMA OutcomeKept ==
  ASSUME NEW t \in Txn,
         (pc[t] = "idle") <=> (pc'[t] = "idle"),
         (pc[t] = "dead") <=> (pc'[t] = "dead"),
         csn'[t] = csn[t], stamped'[t] = stamped[t],
         Committed(t)' <=> Committed(t), Live(t)' => Live(t)
  PROVE  KeepsOrEnds(t)
<1>1. (Decided(t)' <=> Decided(t)) /\ (RolledBack(t)' <=> RolledBack(t))
  BY Zenon DEF Decided, RolledBack
<1> QED BY <1>1, OutcomeCases, OutcomeCasesNext, Zenon DEF KeepsOrEnds

\* Committed depends on the TIDs and the history only, Live on Keeper's state.
LEMMA SameHistory ==
  ASSUME NEW t \in Txn, tid' = tid, history' = history
  PROVE  Committed(t)' <=> Committed(t)
  BY Zenon DEF Committed

LEMMA SameRequests ==
  ASSUME NEW t \in Txn, inflight' = inflight, session_node_version' = session_node_version
  PROVE  Live(t)' <=> Live(t)
  BY Zenon DEF Live, SessionValid

\* A step that only ends transactions is a step End of CommitLog, or none.
LEMMA EndStep ==
  ASSUME UNCHANGED decisive, \A t \in Txn : KeepsOrEnds(t)
  PROVE  Abstract!Next
<1> DEFINE S == {t \in Txn : Outcome(t) = "active" /\ Outcome(t)' = "ended"}
<1>1. tid' = tid /\ history' = history /\ seq' = seq /\ latest_snapshot' = latest_snapshot
  BY Zenon DEF decisive
<1>2. \A t \in Txn : CommitNumber(t)' = CommitNumber(t)
  BY <1>1 DEF CommitNumber, Committed
<1>3. \A t \in Txn : Outcome(t)' = IF t \in S THEN "ended" ELSE Outcome(t)
  BY Zenon DEF KeepsOrEnds
<1>4. \A t \in S : Outcome(t) = "active"
  OBVIOUS
<1>5. S \in SUBSET Txn
  OBVIOUS
<1> HIDE DEF S
<1>6. Abstract!Ended(S)
  BY <1>1, <1>2, <1>3, <1>4, <1>5, Zenon DEF Abstract!Ended
<1>7. Abstract!End(S)
  BY <1>1, <1>6, Zenon DEF Abstract!End
<1> QED BY <1>5, <1>7, Zenon DEF Abstract!Next

\* A step that changes nothing but memory that no outcome depends on.
LEMMA QuietStep ==
  ASSUME UNCHANGED decisive,
         UNCHANGED <<pc, csn, stamped, inflight, session_node_version>>
  PROVE  Abstract!Next
<1>1. \A t \in Txn : KeepsOrEnds(t)
  BY OutcomeKept, SameHistory, SameRequests, Zenon DEF decisive
<1> QED BY <1>1, EndStep, Zenon

\* A step of one transaction: the others keep their outcomes.
LEMMA TxnStep ==
  ASSUME NEW t \in Txn, UNCHANGED decisive, UNCHANGED session_node_version,
         \A u \in Txn \ {t} : pc'[u] = pc[u] /\ csn'[u] = csn[u] /\ stamped'[u] = stamped[u],
         \A u \in Txn \ {t} : Live(u)' <=> Live(u),
         KeepsOrEnds(t)
  PROVE  Abstract!Next
<1>1. \A u \in Txn \ {t} : KeepsOrEnds(u)
  BY OutcomeKept, SameHistory, Zenon DEF decisive
<1> QED BY <1>1, EndStep, Zenon

-----------------------------------------------------------------------------
(* Facts about single transactions                                         *)

LEMMA Reserved ==
  /\ RolledBackCSN # UnknownCSN /\ RolledBackCSN # CommittingCSN /\ UnknownCSN # CommittingCSN
  /\ \A c \in 0 .. MaxCSN + MaxReservedCSN : c # RolledBackCSN
  BY BoundsAssumption DEF RolledBackCSN, UnknownCSN, CommittingCSN, MaxReservedCSN

\* The outcome of a transaction is open until its csn says otherwise.
LEMMA Undecided ==
  ASSUME IInv, NEW t \in Txn, pc[t] # "dead", csn[t] \in {UnknownCSN, CommittingCSN}
  PROVE  ~RolledBack(t) /\ ~Decided(t) /\ stamped[t] = UnknownCSN
<1>1. ~Decided(t)
  BY Zenon DEF Decided
<1>2. stamped[t] = UnknownCSN
  BY <1>1, Zenon DEF IInv, StampIsCsn
<1> QED BY <1>1, <1>2, Reserved, Zenon DEF RolledBack

\* RolledBackCSN is above every number Keeper gives out.
LEMMA BelowRolledBack ==
  ASSUME NEW n \in Nat, n < seq, seq \in Nat, seq <= MaxCSN + MaxReservedCSN + 1
  PROVE  n # RolledBackCSN
  BY BoundsAssumption DEF RolledBackCSN, MaxReservedCSN

\* No entry has the number RolledBackCSN.
LEMMA EntryNumber ==
  ASSUME IInv, NEW e \in history
  PROVE  e.csn # RolledBackCSN
<1>1. e.csn \in Nat /\ seq \in Nat /\ e.csn < seq /\ seq <= MaxCSN + MaxReservedCSN + 1
  BY Zenon DEF IInv, TypeOK, KeeperType, CSNEntry, EntriesBelowSeq
<1> QED BY <1>1, BelowRolledBack, Zenon

\* Nor has a snapshot.
LEMMA StartNumber ==
  ASSUME IInv, NEW t \in Txn, pc[t] = "run"
  PROVE  tid[t].start_csn # RolledBackCSN
<1>1. /\ tid[t] \in TransactionID /\ latest_snapshot \in Nat /\ seq \in Nat
      /\ tid[t].start_csn <= latest_snapshot /\ latest_snapshot < seq
      /\ seq <= MaxCSN + MaxReservedCSN + 1
  BY Zenon DEF IInv, TypeOK, TxnType, LogType, KeeperType, TidsInPast, SnapshotInv,
     EntriesBelowSeq
<1>2. tid[t].start_csn \in Nat
  BY <1>1, Zenon DEF TransactionID
<1>3. tid[t].start_csn < seq
  BY <1>1, <1>2
<1> QED BY <1>1, <1>2, <1>3, BelowRolledBack, Zenon

LEMMA StartedHasTID ==
  ASSUME IInv, NEW t \in Txn, pc[t] # "idle"
  PROVE  tid[t] # EmptyTID
  BY Zenon DEF IInv, IdleIsEmpty

-----------------------------------------------------------------------------
(* The steps of the transactions                                           *)

LEMMA beginTransactionStep ==
  ASSUME NEW t \in Txn, IInv, IInv', beginTransaction(t)
  PROVE  Abstract!Next
<1>1. /\ UNCHANGED <<inflight, session_node_version, history, stamped, seq, latest_snapshot>>
      /\ tid' = [tid EXCEPT ![t] = [start_csn |-> latest_snapshot, local_tid |-> 1 + local_tid_counter]]
      /\ pc' = [pc EXCEPT ![t] = "run"] /\ csn' = [csn EXCEPT ![t] = UnknownCSN]
      /\ pc[t] = "idle"
  BY Zenon DEF beginTransaction, keeperVars
<1>2. /\ tid \in [Txn -> TransactionID] /\ csn \in [Txn -> Nat]
      /\ pc \in [Txn -> {"idle", "run", "send", "wait", "lost", "end", "dead"}]
  BY Zenon DEF IInv, TypeOK, TxnType
<1>3. Outcome(t) = "idle"
  BY <1>1, OutcomeCases, Zenon
<1>4. Outcome(t)' = "active"
  <2>1. pc'[t] = "run" /\ csn'[t] = UnknownCSN /\ stamped'[t] = stamped[t]
    BY <1>1, <1>2, Zenon
  <2>2. ~Committed(t)'
    BY <2>1 DEF IInv, NotYetCommitted
  <2>3. stamped[t] = UnknownCSN
    BY <1>1, Undecided, Zenon DEF IInv, CsnOfPc
  <2>4. ~RolledBack(t)' /\ ~Decided(t)'
    BY <2>1, <2>3, Reserved, Zenon DEF RolledBack, Decided
  <2> QED BY <2>1, <2>2, <2>4, OutcomeCasesNext, Zenon
<1>5. \A u \in Txn \ {t} : tid'[u] = tid[u] /\ pc'[u] = pc[u] /\ csn'[u] = csn[u]
  BY <1>1, <1>2, Zenon
<1>6. \A u \in Txn \ {t} : Outcome(u)' = Outcome(u) /\ CommitNumber(u)' = CommitNumber(u)
  <2> SUFFICES ASSUME NEW u \in Txn \ {t}
               PROVE  Outcome(u)' = Outcome(u) /\ CommitNumber(u)' = CommitNumber(u)
    OBVIOUS
  <2>1. (Committed(u)' <=> Committed(u)) /\ (Live(u)' <=> Live(u))
    BY <1>1, <1>5, Zenon DEF Committed, Live, SessionValid
  <2>2. u \in Txn /\ stamped'[u] = stamped[u]
    BY <1>1, Zenon
  <2>3. Outcome(u)' = Outcome(u)
    BY <1>5, <2>1, <2>2, OutcomeSame, Zenon
  <2>4. CommitNumber(u)' = CommitNumber(u)
    BY <1>1, <1>5, <2>1 DEF CommitNumber
  <2> QED BY <2>3, <2>4, Zenon
<1>7. CommitNumber(t) = 0 /\ CommitNumber(t)' = 0
  <2>1. ~Committed(t) /\ ~Committed(t)'
    BY <1>1, <1>2, Zenon DEF IInv, NotYetCommitted
  <2> QED BY <2>1, Zenon DEF CommitNumber
<1>8. tid'[t].start_csn = latest_snapshot
  BY <1>1, <1>2, Zenon
<1>9. [u \in Txn |-> Outcome(u)]' = [[u \in Txn |-> Outcome(u)] EXCEPT ![t] = "active"]
  BY <1>4, <1>6, Zenon
<1>10. [u \in Txn |-> tid[u].start_csn]'
         = [[u \in Txn |-> tid[u].start_csn] EXCEPT ![t] = latest_snapshot]
  BY <1>5, <1>8, Zenon
<1>11. [u \in Txn |-> CommitNumber(u)]' = [u \in Txn |-> CommitNumber(u)]
  BY <1>6, <1>7, Zenon
<1>12. Abstract!Begin(t)
  BY <1>1, <1>3, <1>9, <1>10, <1>11, Zenon DEF Abstract!Begin
<1> QED BY <1>12, Zenon DEF Abstract!Next

\* The steps of one transaction on its way to its end: change and releaseSnapshot
\* do not touch the outcome.
LEMMA OneTxnStep ==
  ASSUME NEW t \in Txn, IInv, IInv',
         \/ change(t) \/ beforeCommit(t) \/ sendCommit(t) \/ failBeforeSend(t) \/ refuseCommit(t)
         \/ commitDone(t) \/ faultAfterCommit(t) \/ postponeFinalization(t) \/ rollback(t)
         \/ stampParts(t) \/ releaseSnapshot(t) \/ loadParts(t)
         \/ finalizeCommitted(t) \/ finalizeUncommitted(t)
  PROVE  Abstract!Next
<1>0. /\ UNCHANGED decisive /\ UNCHANGED session_node_version
      /\ pc \in [Txn -> {"idle", "run", "send", "wait", "lost", "end", "dead"}]
      /\ csn \in [Txn -> Nat] /\ stamped \in [Txn -> Nat]
  <2>1. /\ pc \in [Txn -> {"idle", "run", "send", "wait", "lost", "end", "dead"}]
        /\ csn \in [Txn -> Nat] /\ stamped \in [Txn -> Nat]
    BY Zenon DEF IInv, TypeOK, TxnType
  <2>2. UNCHANGED <<history, tid, seq, latest_snapshot, session_node_version>>
    BY Zenon DEF change, beforeCommit, sendCommit, failBeforeSend, refuseCommit, commitDone,
       faultAfterCommit, postponeFinalization, rollback, stampParts, releaseSnapshot, loadParts,
       finalizeCommitted, finalizeUncommitted, keeperVars, loadVars, txnVars
  <2> QED BY <2>1, <2>2, Zenon DEF decisive
<1>a. Committed(t)' <=> Committed(t)
  BY <1>0, SameHistory, Zenon DEF decisive
<1>b. /\ \A u \in Txn \ {t} : pc'[u] = pc[u] /\ csn'[u] = csn[u] /\ stamped'[u] = stamped[u]
      /\ \A u \in Txn \ {t} : Live(u)' <=> Live(u)
      /\ inflight' = inflight => (Live(t)' <=> Live(t))
  <2>1. /\ pc' = pc \/ \E x : pc' = [pc EXCEPT ![t] = x]
        /\ csn' = csn \/ \E x : csn' = [csn EXCEPT ![t] = x]
        /\ stamped' = stamped \/ \E x : stamped' = [stamped EXCEPT ![t] = x]
    BY Zenon DEF change, beforeCommit, sendCommit, failBeforeSend, refuseCommit, commitDone,
       faultAfterCommit, postponeFinalization, rollback, stampParts, releaseSnapshot, loadParts,
       finalizeCommitted, finalizeUncommitted, txnVars
  <2>2. \A u \in Txn \ {t} : pc'[u] = pc[u] /\ csn'[u] = csn[u] /\ stamped'[u] = stamped[u]
    BY <1>0, <2>1, Zenon
  <2>3. CASE sendCommit(t)
    BY <1>0, <2>2, <2>3, SameRequests DEF sendCommit, Live, SessionValid
  <2>4. CASE ~sendCommit(t)
    <3>1. inflight' = inflight
      BY <2>4, Zenon DEF change, beforeCommit, sendCommit, failBeforeSend, refuseCommit, commitDone,
         faultAfterCommit, postponeFinalization, rollback, stampParts, releaseSnapshot, loadParts,
         finalizeCommitted, finalizeUncommitted, keeperVars
    <3> QED BY <1>0, <2>2, <3>1, SameRequests, Zenon
  <2> QED BY <2>3, <2>4, Zenon
<1> SUFFICES KeepsOrEnds(t)
  BY <1>0, <1>b, TxnStep, Zenon
<1>1. CASE \/ change(t) \/ failBeforeSend(t) \/ faultAfterCommit(t) \/ postponeFinalization(t)
           \/ releaseSnapshot(t)
  <2>1. /\ csn' = csn /\ stamped' = stamped
        /\ pc' = pc \/ (pc[t] \notin {"idle", "dead"} /\ pc'[t] \notin {"idle", "dead"})
    BY <1>0, <1>1, Zenon DEF change, failBeforeSend, faultAfterCommit, postponeFinalization,
       releaseSnapshot, txnVars
  <2>2. inflight' = inflight
    BY <1>1, Zenon DEF change, failBeforeSend, faultAfterCommit, postponeFinalization,
       releaseSnapshot, keeperVars
  <2> QED BY <1>a, <1>b, <2>1, <2>2, OutcomeKept, Zenon
<1>2. CASE beforeCommit(t)
  <2>1. pc[t] = "run" /\ stamped' = stamped /\ csn[t] \in {UnknownCSN, RolledBackCSN}
    BY <1>2, Zenon DEF beforeCommit, IInv, CsnOfPc
  <2>2. CASE csn[t] = RolledBackCSN
    <3>1. csn' = csn /\ pc'[t] = "end"
      BY <1>0, <1>2, <2>2, Reserved, Zenon DEF beforeCommit
    <3>2. RolledBack(t) /\ RolledBack(t)'
      BY <2>2, <3>1, Zenon DEF RolledBack
    <3> QED BY <2>1, <3>1, <3>2, OutcomeCases, OutcomeCasesNext, Zenon DEF KeepsOrEnds
  <2>3. CASE csn[t] = UnknownCSN
    <3>1. ~RolledBack(t) /\ ~Decided(t) /\ stamped[t] = UnknownCSN
      BY <2>1, <2>3, Undecided, Zenon
    <3>2. ~Committed(t)
      BY <2>1, Zenon DEF IInv, NotYetCommitted
    <3>3. Outcome(t) = "active"
      BY <2>1, <3>1, <3>2, OutcomeCases, Zenon
    <3>4. pc'[t] \in {"send", "end"} /\ csn'[t] \in {CommittingCSN, tid[t].start_csn}
      BY <1>0, <1>2, <2>3, Zenon DEF beforeCommit
    <3>5. tid[t].start_csn # RolledBackCSN
      BY <2>1, StartNumber, Zenon
    <3>6. ~RolledBack(t)'
      BY <2>1, <3>1, <3>4, <3>5, Reserved, Zenon DEF RolledBack
    <3> QED BY <1>a, <3>2, <3>3, <3>4, <3>6, OutcomeCasesNext, Zenon DEF KeepsOrEnds
  <2> QED BY <2>1, <2>2, <2>3, Zenon
<1>3. CASE sendCommit(t) \/ refuseCommit(t)
  <2>1. /\ pc[t] = "send" /\ pc'[t] \in {"wait", "end"} /\ stamped' = stamped
        /\ csn[t] = CommittingCSN /\ csn'[t] \in {CommittingCSN, UnknownCSN}
    BY <1>0, <1>3, Zenon DEF sendCommit, refuseCommit, IInv, CsnOfPc
  <2>2. ~RolledBack(t) /\ ~Decided(t) /\ stamped[t] = UnknownCSN
    BY <2>1, Undecided, Zenon
  <2>3. ~Committed(t)
    BY <2>1, Zenon DEF IInv, NotYetCommitted
  <2>4. ~RolledBack(t)' /\ ~Decided(t)'
    BY <2>1, <2>2, Reserved, Zenon DEF RolledBack, Decided
  <2> QED BY <1>a, <2>1, <2>2, <2>3, <2>4, OutcomeCases, OutcomeCasesNext, Zenon DEF KeepsOrEnds
<1>4. CASE commitDone(t) \/ finalizeCommitted(t)
  <2>1. /\ pc[t] \in {"wait", "end"} /\ pc'[t] = "end" /\ stamped' = stamped
        /\ csn[t] = CommittingCSN
        /\ \E e \in history : e.tid = tid[t] /\ csn'[t] = e.csn
    <3>1. CASE commitDone(t)
      BY <1>0, <3>1, Zenon DEF commitDone, AllocatedCSN, IInv, CsnOfPc
    <3>2. CASE finalizeCommitted(t)
      BY <1>0, <3>2, Zenon DEF finalizeCommitted, IInv, UnknownInv, LogInHistory
    <3> QED BY <1>4, <3>1, <3>2, Zenon
  <2>2. Committed(t)
    BY <2>1, StartedHasTID, Zenon DEF Committed
  <2>3. ~RolledBack(t) /\ stamped[t] = UnknownCSN
    BY <2>1, Undecided, Zenon
  <2>4. ~RolledBack(t)'
    BY <2>1, <2>3, EntryNumber, Reserved, Zenon DEF RolledBack
  <2> QED BY <1>a, <2>1, <2>2, <2>3, <2>4, OutcomeCases, OutcomeCasesNext, Zenon DEF KeepsOrEnds
<1>5. CASE rollback(t)
  <2>1. /\ pc' = pc /\ pc[t] \notin {"idle", "dead"} /\ csn[t] = UnknownCSN
        /\ csn'[t] = RolledBackCSN
    BY <1>0, <1>5, Zenon DEF rollback, IInv, RunningPc
  <2>2. ~RolledBack(t) /\ ~Decided(t)
    BY <2>1, Undecided, Zenon
  <2>3. ~Committed(t)
    BY <2>1, Zenon DEF IInv, UndecidedNotSent, Sent
  <2>4. RolledBack(t)'
    BY <2>1, Zenon DEF RolledBack
  <2> QED BY <2>1, <2>2, <2>3, <2>4, OutcomeCases, OutcomeCasesNext, Zenon DEF KeepsOrEnds
<1>6. CASE stampParts(t)
  <2>1. /\ pc' = pc /\ pc[t] \notin {"idle", "dead"} /\ csn' = csn
        /\ stamped[t] = UnknownCSN /\ stamped'[t] = csn[t] /\ inflight' = inflight
    BY <1>0, <1>6, Zenon DEF stampParts, txnVars, IInv, RunningPc, keeperVars
  <2>2. (RolledBack(t)' <=> RolledBack(t)) /\ (Decided(t)' <=> Decided(t))
    BY <2>1, Reserved, Zenon DEF RolledBack, Decided
  <2> QED BY <1>a, <1>b, <2>1, <2>2, OutcomeCases, OutcomeCasesNext, Zenon DEF KeepsOrEnds
<1>7. CASE loadParts(t)
  <2>1. /\ pc' = pc /\ pc[t] = "dead" /\ csn' = csn /\ csn[t] = UnknownCSN
        /\ stamped[t] = UnknownCSN /\ ~Live(t)
    BY <1>0, <1>7, ZenonT(30) DEF loadParts, txnVars, IInv, CsnOfPc, DeadInv
  <2>2. ~RolledBack(t)
    BY <2>1, Reserved, Zenon DEF RolledBack
  <2>3. ASSUME NEW e \in tid_to_csn, e.tid = tid[t], stamped'[t] = e.csn PROVE KeepsOrEnds(t)
    <3>1. e \in history
      BY Zenon DEF IInv, LogInHistory
    <3>2. Committed(t)
      BY <2>1, <2>3, <3>1, StartedHasTID, Zenon DEF Committed
    <3>3. ~RolledBack(t)'
      BY <2>1, <2>3, <3>1, EntryNumber, Reserved, Zenon DEF RolledBack
    <3> QED BY <1>a, <2>1, <2>2, <3>2, <3>3, OutcomeCases, OutcomeCasesNext, ZenonT(30) DEF KeepsOrEnds
  <2>4. CASE stamped'[t] = RolledBackCSN
    <3>1. ~Committed(t)
      BY <1>a, <2>4, Zenon DEF IInv, RolledBackStampNotSent, Sent
    <3>2. RolledBack(t)'
      BY <2>4, Zenon DEF RolledBack
    <3> QED BY <2>1, <2>2, <3>1, <3>2, OutcomeCases, OutcomeCasesNext, Zenon DEF KeepsOrEnds
  <2>5. \/ \E e \in tid_to_csn : e.tid = tid[t] /\ stamped'[t] = e.csn
        \/ stamped'[t] = RolledBackCSN
    BY <1>0, <1>7, Zenon DEF loadParts
  <2> QED BY <2>3, <2>4, <2>5, Zenon
<1>8. CASE finalizeUncommitted(t)
  <2>1. /\ pc' = pc /\ pc[t] = "end" /\ stamped' = stamped
        /\ csn[t] = CommittingCSN /\ csn'[t] = UnknownCSN
    BY <1>0, <1>8, Zenon DEF finalizeUncommitted, IInv, UnknownInv
  <2>2. ~RolledBack(t) /\ ~Decided(t) /\ stamped[t] = UnknownCSN
    BY <2>1, Undecided, Zenon
  <2>3. ~RolledBack(t)' /\ ~Decided(t)'
    BY <2>1, <2>2, Reserved, Zenon DEF RolledBack, Decided
  <2> QED BY <1>a, <2>1, <2>2, <2>3, OutcomeCases, OutcomeCasesNext, Zenon DEF KeepsOrEnds
<1> QED BY <1>1, <1>2, <1>3, <1>4, <1>5, <1>6, <1>7, <1>8, Zenon

-----------------------------------------------------------------------------
(* Keeper, the updating thread and the server                              *)

\* The entries of the other transactions stay what they are when one is created.
LEMMA NumberKept ==
  ASSUME OneEntry, OneEntry', NEW t \in Txn, tid' = tid, history \subseteq history',
         Committed(t)' <=> Committed(t)
  PROVE  CommitNumber(t)' = CommitNumber(t)
<1>1. CASE ~Committed(t)
  BY <1>1, Zenon DEF CommitNumber
<1>2. CASE Committed(t)
  <2>1. PICK e \in history : e.tid = tid[t] /\ tid[t] # EmptyTID
    BY <1>2, Zenon DEF Committed
  <2>2. CommitNumber(t) = e.csn
    BY <2>1, NumberOfEntry, Zenon
  <2>3. CommitNumber(t)' = e.csn
    BY <2>1, NumberOfEntryNext, Zenon
  <2> QED BY <2>2, <2>3, Zenon
<1> QED BY <1>1, <1>2, Zenon

\* Keeper executes a commit request: the transaction commits, unless the request
\* comes from an old session.
LEMMA keeperProcessStep ==
  ASSUME IInv, IInv', OneEntry, OneEntry', NEW r \in inflight, keeperProcess(r)
  PROVE  Abstract!Next
<1> DEFINE t == r.txn
<1>1. /\ UNCHANGED <<session_node_version, latest_snapshot, pc, tid, csn, stamped>>
      /\ inflight' = inflight \ {r} /\ t \in Txn
  BY Zenon DEF keeperProcess, loadVars, txnVars, IInv, TypeOK, KeeperType
<1>2. CASE ~SessionValid(r)
  <2>1. UNCHANGED decisive
    BY <1>1, <1>2, Zenon DEF keeperProcess, decisive
  <2>2. \A u \in Txn : Live(u)' => Live(u)
    BY <1>1, Zenon DEF Live, SessionValid
  <2>3. \A u \in Txn : KeepsOrEnds(u)
    BY <1>1, <2>1, <2>2, OutcomeKept, SameHistory, Zenon DEF decisive
  <2> QED BY <2>1, <2>3, EndStep, Zenon
<1>3. CASE SessionValid(r)
  <2> DEFINE n == [csn |-> seq, tid |-> tid[t]]
  <2>1. history' = history \cup {n} /\ seq' = seq + 1 /\ n.tid = tid[t] /\ n.csn = seq
    BY <1>3, Zenon DEF keeperProcess, Created
  <2>2. Live(t) /\ ~Committed(t) /\ pc[t] # "idle" /\ tid[t] # EmptyTID
    BY <1>1, <1>3, StartedHasTID, Zenon DEF Live, IInv, RequestSent
  <2>3. ~RolledBack(t)
    <3>1. stamped[t] # RolledBackCSN
      BY <1>1, <2>2, Zenon DEF IInv, RolledBackStampNotSent, Sent
    <3>2. csn[t] # RolledBackCSN
      BY <1>1, <2>2, Reserved, ZenonT(30) DEF IInv, UndecidedNotSent, Sent, CsnOfPc
    <3> QED BY <3>1, <3>2 DEF RolledBack
  <2>4. Outcome(t) = "active"
    BY <1>1, <2>2, <2>3, OutcomeCases, ZenonT(30)
  <2> HIDE DEF n
  <2>5. Committed(t)'
    BY <1>1, <2>1, <2>2, Zenon DEF Committed
  <2>6. Outcome(t)' = "committed"
    <3>1. ~RolledBack(t)'
      BY <1>1, <2>3, Zenon DEF RolledBack
    <3> QED BY <1>1, <2>2, <2>5, <3>1, OutcomeCasesNext, Zenon
  <2>7. CommitNumber(t) = 0
    BY <2>2, Zenon DEF CommitNumber
  <2>8. CommitNumber(t)' = seq
    BY <1>1, <2>1, <2>2, NumberOfEntryNext, Zenon
  <2>9. ASSUME NEW u \in Txn \ {t}
        PROVE  Outcome(u)' = Outcome(u) /\ CommitNumber(u)' = CommitNumber(u)
    <3>1. tid[u] # tid[t]
      BY <1>1, <2>2, ZenonT(30) DEF IInv, UniqueTID
    <3>2. Committed(u)' <=> Committed(u)
      BY <1>1, <2>1, <3>1, Zenon DEF Committed
    <3>3. Live(u)' <=> Live(u)
      BY <1>1, Zenon DEF Live, SessionValid
    <3>4. u \in Txn /\ pc'[u] = pc[u] /\ csn'[u] = csn[u] /\ stamped'[u] = stamped[u]
      BY <1>1, Zenon
    <3>5. Outcome(u)' = Outcome(u)
      BY <3>2, <3>3, <3>4, OutcomeSame, Zenon
    <3>6. CommitNumber(u)' = CommitNumber(u)
      BY <1>1, <2>1, <3>2, NumberKept, ZenonT(30)
    <3> QED BY <3>5, <3>6
  <2>10. seq \in Nat
    BY Zenon DEF IInv, TypeOK, KeeperType
  <2>11. Abstract!Commit(t)
    <3>1. seq = seq - 1 + 1 /\ seq' - 1 = seq - 1 + 1
      BY <2>1, <2>10
    <3> HIDE DEF t
    <3> QED BY <1>1, <2>4, <2>6, <2>7, <2>8, <2>9, <3>1, Zenon DEF Abstract!Commit
  <2> QED BY <1>1, <2>11, Zenon DEF Abstract!Next
<1> QED BY <1>2, <1>3, Zenon

\* The snapshot moves on to what was listed.
LEMMA publishSnapshotStep ==
  ASSUME IInv, publishSnapshot
  PROVE  Abstract!Next
<1>1. /\ UNCHANGED <<seq, session_node_version, inflight, history, pc, tid, csn, stamped>>
      /\ latest_snapshot' = listed
  BY Zenon DEF publishSnapshot, keeperVars, txnVars
<1>2. listed \in latest_snapshot + 1 .. seq - 1
  <2>1. latest_snapshot < listed /\ listed < seq
    BY Zenon DEF publishSnapshot, IInv, SnapshotInv
  <2> QED BY <2>1, Numbers
<1>3. ASSUME NEW t \in Txn PROVE Outcome(t)' = Outcome(t) /\ CommitNumber(t)' = CommitNumber(t)
  <2>1. Committed(t)' <=> Committed(t)
    BY <1>1, Zenon DEF Committed
  <2>2. Live(t)' <=> Live(t)
    BY <1>1, Zenon DEF Live, SessionValid
  <2>3. Outcome(t)' = Outcome(t)
    BY <1>1, <2>1, <2>2, OutcomeSame, Zenon
  <2>4. CommitNumber(t)' = CommitNumber(t)
    BY <1>1, <2>1 DEF CommitNumber
  <2> QED BY <2>3, <2>4, Zenon
<1>4. Abstract!Publish
  BY <1>1, <1>2, <1>3, Zenon DEF Abstract!Publish
<1> QED BY <1>4, Zenon DEF Abstract!Next

\* A new session makes the requests of the old one void.
LEMMA connectStep ==
  ASSUME IInv, connect
  PROVE  Abstract!Next
<1>1. UNCHANGED decisive /\ UNCHANGED <<inflight, pc, csn, stamped>>
  BY Zenon DEF connect, decisive, loadVars, txnVars
<1>2. \A t \in Txn : Live(t)' => Live(t)
  <2>1. session_node_version \in Nat /\ \A r \in inflight : r.version \in Nat /\ r.version <= session_node_version
    BY Zenon DEF IInv, TypeOK, KeeperType, VersionInv
  <2>2. session_node_version' \in {session_node_version, session_node_version + 1}
    BY Zenon DEF connect
  <2> QED BY <1>1, <2>1, <2>2 DEF Live, SessionValid
<1>3. \A t \in Txn : KeepsOrEnds(t)
  BY <1>1, <1>2, OutcomeKept, SameHistory, Zenon DEF decisive
<1> QED BY <1>1, <1>3, EndStep, Zenon

\* The session is lost: whoever waits for an answer does not get it.
LEMMA LostAnswersStep ==
  ASSUME IInv, loseSession \/ tailAnswerLost
  PROVE  Abstract!Next
<1>1. UNCHANGED decisive /\ UNCHANGED <<inflight, session_node_version, csn, stamped>>
  BY Zenon DEF loseSession, tailAnswerLost, decisive, keeperVars, loadVars
<1>2. \A t \in Txn : pc'[t] = pc[t] \/ (pc[t] = "wait" /\ pc'[t] = "lost")
  BY Zenon DEF loseSession, tailAnswerLost
<1>3. \A t \in Txn : KeepsOrEnds(t)
  BY <1>1, <1>2, OutcomeKept, SameHistory, SameRequests, Zenon DEF decisive
<1> QED BY <1>1, <1>3, EndStep, Zenon

\* A crash ends the transactions that nothing in Keeper speaks for.
LEMMA crashStep ==
  ASSUME IInv, crash
  PROVE  Abstract!Next
<1>1. UNCHANGED decisive /\ UNCHANGED <<inflight, session_node_version, stamped>>
  BY Zenon DEF crash, decisive, keeperVars
<1>2. ASSUME NEW t \in Txn PROVE KeepsOrEnds(t)
  <2>1. /\ csn'[t] = UnknownCSN /\ pc'[t] = IF pc[t] = "idle" THEN "idle" ELSE "dead"
        /\ stamped'[t] = stamped[t]
    BY <1>1, Zenon DEF crash
  <2>2. (Committed(t)' <=> Committed(t)) /\ (Live(t)' <=> Live(t))
    BY <1>1, SameHistory, SameRequests, Zenon DEF decisive
  <2>3. RolledBack(t)' <=> stamped[t] = RolledBackCSN
    BY <2>1, Reserved, Zenon DEF RolledBack
  <2>4. CASE pc[t] = "idle"
    BY <2>1, <2>4, OutcomeCases, OutcomeCasesNext, Zenon DEF KeepsOrEnds
  <2>5. CASE pc[t] # "idle" /\ stamped[t] = RolledBackCSN
    <3>1. RolledBack(t)
      BY <2>5, Zenon DEF RolledBack
    <3> QED BY <2>1, <2>3, <2>5, <3>1, OutcomeCases, OutcomeCasesNext, Zenon DEF KeepsOrEnds
  <2>6. CASE pc[t] # "idle" /\ stamped[t] # RolledBackCSN /\ csn[t] = RolledBackCSN
    <3>1. RolledBack(t) /\ pc[t] # "dead"
      BY <2>6, Reserved, Zenon DEF RolledBack, IInv, CsnOfPc
    <3>2. ~Committed(t) /\ ~Live(t)
      BY <2>6, <3>1, Zenon DEF IInv, UndecidedNotSent, Sent
    <3> QED BY <2>1, <2>2, <2>3, <2>6, <3>1, <3>2, OutcomeCases, OutcomeCasesNext, ZenonT(30) DEF KeepsOrEnds
  <2>7. CASE pc[t] # "idle" /\ stamped[t] # RolledBackCSN /\ csn[t] # RolledBackCSN
    <3>1. ~RolledBack(t)
      BY <2>7, Zenon DEF RolledBack
    <3> QED BY <2>1, <2>2, <2>3, <2>7, <3>1, OutcomeCases, OutcomeCasesNext, ZenonT(30) DEF KeepsOrEnds
  <2> QED BY <2>4, <2>5, <2>6, <2>7
<1> QED BY <1>1, <1>2, EndStep, Zenon

\* The server starts with a snapshot of its own, and old requests are void.
LEMMA restartStep ==
  ASSUME IInv, OneEntry, OneEntry', restart
  PROVE  Abstract!Next
<1> DEFINE n == [csn |-> seq, tid |-> EmptyTID]
           S == {t \in Txn : Outcome(t) = "active" /\ Outcome(t)' = "ended"}
<1>1. /\ UNCHANGED <<inflight, pc, tid, csn, stamped>>
      /\ session_node_version' = session_node_version + 1
      /\ history' = history \cup {n} /\ n.tid = EmptyTID
      /\ seq' = seq + 1 /\ latest_snapshot' = seq
  BY Zenon DEF restart, Created, txnVars, FirstSnapshot
<1> HIDE DEF n
<1>2. ASSUME NEW t \in Txn PROVE KeepsOrEnds(t) /\ CommitNumber(t)' = CommitNumber(t)
  <2>1. Committed(t)' <=> Committed(t)
    BY <1>1, Zenon DEF Committed
  <2>2. ~Live(t)'
    <3>1. session_node_version \in Nat /\ \A r \in inflight : r.version \in Nat /\ r.version <= session_node_version
      BY Zenon DEF IInv, TypeOK, KeeperType, VersionInv
    <3> QED BY <1>1, <3>1 DEF Live, SessionValid
  <2>3. KeepsOrEnds(t)
    BY <1>1, <2>1, <2>2, OutcomeKept
  <2>4. CommitNumber(t)' = CommitNumber(t)
    BY <1>1, <2>1, NumberKept, Zenon
  <2> QED BY <2>3, <2>4, Zenon
<1>3. \A t \in Txn : Outcome(t)' = IF t \in S THEN "ended" ELSE Outcome(t)
  BY <1>2, Zenon DEF KeepsOrEnds
<1>4. S \in SUBSET Txn /\ \A t \in S : Outcome(t) = "active"
  OBVIOUS
<1>5. seq = seq - 1 + 1 /\ seq' - 1 = seq - 1 + 1
  BY <1>1 DEF IInv, TypeOK, KeeperType
<1> HIDE DEF S
<1>6. Abstract!Ended(S)
  BY <1>1, <1>2, <1>3, <1>4, Zenon DEF Abstract!Ended
<1>7. Abstract!Restart(S)
  BY <1>1, <1>5, <1>6, Zenon DEF Abstract!Restart
<1> QED BY <1>4, <1>7, Zenon DEF Abstract!Next

\* The steps that no outcome depends on
LEMMA OtherSteps ==
  ASSUME \/ wake \/ updatingThreadFails \/ listEntries \/ loadEntries \/ readOldestSnapshot
         \/ moveTail \/ removeEntry \/ eraseEntries \/ swapUnknownLists \/ finishRound
         \/ setServerCompletelyStarted \/ UNCHANGED vars
  PROVE  Abstract!Next
<1>1. /\ UNCHANGED <<history, tid, seq, latest_snapshot>>
      /\ UNCHANGED <<pc, csn, stamped, inflight, session_node_version>>
  BY Zenon DEF wake, updatingThreadFails, listEntries, loadEntries, readOldestSnapshot, moveTail,
     removeEntry, eraseEntries, swapUnknownLists, finishRound, setServerCompletelyStarted, vars,
     keeperVars, loadVars, txnVars
<1> QED BY <1>1, QuietStep, Zenon DEF decisive

-----------------------------------------------------------------------------
(* The refinement                                                          *)

\* An empty log is one.
LEMMA InitAbstract == Init => Abstract!Init
<1> SUFFICES ASSUME Init PROVE Abstract!Init
  OBVIOUS
<1>1. \A t \in Txn : /\ pc[t] = "idle" /\ tid[t] = EmptyTID
                     /\ Outcome(t) = "idle" /\ CommitNumber(t) = 0 /\ tid[t].start_csn = 0
  BY Zenon DEF Init, Outcome, CommitNumber, Committed, EmptyTID
<1>2. seq - 1 = MaxReservedCSN /\ latest_snapshot = MaxReservedCSN
  BY DEF Init, MaxReservedCSN
<1> QED BY <1>1, <1>2, Zenon DEF Abstract!Init

\* Every step of the log is one of CommitLog.
LEMMA NextAbstract ==
  IInv /\ IInv' /\ OneEntry /\ OneEntry' /\ [Next]_vars => [Abstract!Next]_(Abstract!vars)
<1> SUFFICES ASSUME IInv, IInv', OneEntry, OneEntry', [Next]_vars
             PROVE  Abstract!Next
  OBVIOUS
<1>1. ASSUME NEW t \in Txn, TxnNext(t) \/ loadParts(t) PROVE Abstract!Next
  BY <1>1, beginTransactionStep, OneTxnStep, Zenon DEF TxnNext
<1>2. ASSUME NEW r \in inflight, keeperProcess(r) PROVE Abstract!Next
  BY <1>2, keeperProcessStep, Zenon
<1>3. CASE UpdatingThread
  BY <1>3, connectStep, publishSnapshotStep, LostAnswersStep, OtherSteps, OneTxnStep, Zenon
     DEF UpdatingThread
<1>4. CASE loseSession \/ crash \/ restart \/ setServerCompletelyStarted \/ UNCHANGED vars
  BY <1>4, LostAnswersStep, crashStep, restartStep, OtherSteps, Zenon
<1> QED BY <1>1, <1>2, <1>3, <1>4, Zenon DEF Next

\* No TID ever gets a second entry.
THEOREM EntriesAreUnique == Spec => []OneEntry
<1> QED BY InitOneEntry, NextOneEntry, Invariance, PTL DEF Spec

\* The transaction log implements CommitLog: whatever is lost, late or crashes,
\* each outcome is decided in one step, commits are totally ordered, and snapshots
\* only advance over commits that exist.
THEOREM Refinement == Spec => ImplementsCommitLog
<1>1. Spec => Abstract!Init /\ [][Abstract!Next]_(Abstract!vars)
  BY InitAbstract, NextAbstract, Invariance, EntriesAreUnique, PTL DEF Spec
<1> QED BY <1>1, Zenon DEF ImplementsCommitLog, Abstract!Spec
=============================================================================
