----------------------- MODULE AggregatedVerifierProofs ---------------------
(***************************************************************************)
(* No output is settled twice, for any accounts, outputs and batch size.   *)
(* HashesInOneBatch is inductive as it stands: what makes a batch fresh    *)
(* (NoneVerified) reads the mapping, which is the union of the batches by  *)
(* the first conjunct.                                                     *)
(***************************************************************************)
EXTENDS AggregatedVerifier, TLAPS

IsLog == settled \in Seq(Batches)

IInv == AccessTypeOK /\ isVerified \subseteq OutputHashes /\ IsLog /\ HashesInOneBatch

----------------------------------------------------------------------------
LEMMA InitInv == Init => IInv
<1> SUFFICES ASSUME Init PROVE IInv
  OBVIOUS
<1>1. AccessTypeOK
  BY DeployerAssumption DEF Init, AccessInit, AccessTypeOK
<1>2. IsLog /\ DOMAIN settled = {} /\ isVerified = {}
  BY DEF Init, IsLog
<1> QED
  BY <1>1, <1>2 DEF IInv, HashesInOneBatch

\* The owner's functions keep the access variables in their types.
LEMMA AccessInv == AccessTypeOK /\ (Admin \/ Accept) => AccessTypeOK'
<1> SUFFICES ASSUME AccessTypeOK, Admin \/ Accept PROVE AccessTypeOK'
  OBVIOUS
<1>1. ASSUME NEW a \in Accounts \cup {NoRecord}, TransferOwnership(a)
      PROVE  AccessTypeOK'
  BY <1>1 DEF AccessTypeOK, TransferOwnership
<1>2. ASSUME NEW a \in Accounts, NEW b \in BOOLEAN, SetSettler(a, b) PROVE AccessTypeOK'
  BY <1>2 DEF AccessTypeOK, SetSettler
<1>3. CASE SetPaused
  BY <1>3 DEF AccessTypeOK, SetPaused
<1>4. ASSUME NEW a \in Accounts \cup {NoRecord}, NewOwner(a) PROVE AccessTypeOK'
  BY <1>4 DEF AccessTypeOK, NewOwner
<1>5. CASE Accept
  BY <1>4, <1>5 DEF Accept, AccessTypeOK
<1> QED
  BY <1>1, <1>2, <1>3, <1>4, <1>5 DEF Admin

LEMMA CallersSend ==
    ASSUME NEW n \in Nat, NEW hashes \in BoundedSeq(OutputHashes, n)
    PROVE  hashes \in Seq(OutputHashes)
  BY DEF BoundedSeq, SeqOf

\* A fresh batch, appended to the log, shares no output with the others.
LEMMA SubmitInv ==
    ASSUME IInv, NEW a \in Accounts, NEW id \in BatchIds,
           NEW hashes \in Seq(OutputHashes), SubmitBatch(a, id, hashes)
    PROVE  IInv'
<1> DEFINE n == Len(settled) + 1
<1>1. Batch(id, hashes) \in Batches
  BY MaxBatchSizeAssumption DEF SubmitBatch, SizeOk, Batch, Batches
<1>2. /\ IsLog'
      /\ DOMAIN settled = 1..Len(settled) /\ DOMAIN settled' = 1..n /\ n \in Nat
      /\ n \notin DOMAIN settled
      /\ settled'[n].hashes = hashes
      /\ \A i \in DOMAIN settled : settled'[i] = settled[i]
  BY <1>1 DEF SubmitBatch, IInv, IsLog, Batch
<1>3. AccessTypeOK' /\ (isVerified \subseteq OutputHashes)'
  BY DEF SubmitBatch, IInv, AccessTypeOK, access, ToSet
<1>4. \A h \in isVerified' : \E i \in DOMAIN settled' : h \in ToSet(settled'[i].hashes)
  BY <1>2 DEF SubmitBatch, IInv, HashesInOneBatch
<1>5. (\A i \in DOMAIN settled : AllVerified(settled[i].hashes))'
  BY <1>2 DEF SubmitBatch, IInv, HashesInOneBatch, AllVerified, ToSet
<1>6. \A k, l \in DOMAIN hashes : hashes[k] = hashes[l] => k = l
  BY DEF SubmitBatch, NoneVerified
<1>7. \A i \in DOMAIN settled : \A k \in DOMAIN settled[i].hashes :
         \A l \in DOMAIN hashes : settled[i].hashes[k] # hashes[l]
  BY DEF SubmitBatch, NoneVerified, IInv, HashesInOneBatch, AllVerified
<1>8. \A i, j \in DOMAIN settled' :
        \A k \in DOMAIN settled'[i].hashes, l \in DOMAIN settled'[j].hashes :
            settled'[i].hashes[k] = settled'[j].hashes[l] => i = j /\ k = l
  <2> TAKE i, j \in DOMAIN settled'
  <2>1. CASE i = n /\ j = n
    BY <2>1, <1>2, <1>6
  <2>2. CASE i = n /\ j # n
    BY <2>2, <1>2, <1>7
  <2>3. CASE i # n /\ j = n
    BY <2>3, <1>2, <1>7
  <2>4. CASE i # n /\ j # n
    BY <2>4, <1>2 DEF IInv, HashesInOneBatch
  <2> QED
    BY <2>1, <2>2, <2>3, <2>4
<1>9. HashesInOneBatch'
  BY <1>4, <1>5, <1>8 DEF HashesInOneBatch
<1> QED
  BY <1>2, <1>3, <1>9 DEF IInv

LEMMA NextInv == IInv /\ [Next]_vars => IInv'
<1> SUFFICES ASSUME IInv, [Next]_vars PROVE IInv'
  OBVIOUS
<1>1. CASE Administer
  BY <1>1, AccessInv DEF Administer, IInv, IsLog, HashesInOneBatch, AllVerified
<1>2. ASSUME NEW a \in Accounts, NEW id \in BatchIds,
             NEW hashes \in BoundedSeq(OutputHashes, MaxBatchSize + 1),
             SubmitBatch(a, id, hashes)
      PROVE  IInv'
  BY <1>2, CallersSend, SubmitInv, MaxBatchSizeAssumption
<1>3. CASE UNCHANGED vars
  BY <1>3 DEF vars, access, IInv, IsLog, AccessTypeOK, HashesInOneBatch, AllVerified
<1> QED
  BY <1>1, <1>2, <1>3 DEF Next

THEOREM InvariantHolds == Spec => []IInv
  BY InitInv, NextInv, PTL DEF Spec

\* Every batch in the log has between one and MAX_BATCH_SIZE outputs.
THEOREM TypeCorrect == Spec => []TypeOK
<1>1. IInv => TypeOK
  BY DEF IInv, IsLog, TypeOK
<1> QED
  BY InvariantHolds, <1>1, PTL

\* No output is settled twice, and allVerified() is true of what was settled.
THEOREM OutputsInOneBatch == Spec => []HashesInOneBatch
<1>1. IInv => HashesInOneBatch
  BY DEF IInv
<1> QED
  BY InvariantHolds, <1>1, PTL

\* Without an owner there is no pending owner, so nothing can change.
THEOREM RenouncedIsFinal == Spec => RenouncedForGood
<1> DEFINE NobodyPends == owner = NoRecord => pendingOwner = NoRecord
<1>1. Init => NobodyPends
  BY DEF Init, AccessInit
<1>2. NobodyPends /\ [Next]_vars => NobodyPends'
  BY DEF Next, vars, access, Administer, Admin, Accept, TransferOwnership, SetSettler,
         SetPaused, NewOwner, SubmitBatch
<1>3. NobodyPends /\ [Next]_vars => [owner = NoRecord => UNCHANGED access]_access
  BY DEF Next, vars, access, Administer, Admin, Accept, SubmitBatch
<1> QED
  BY <1>1, <1>2, <1>3, PTL DEF Spec, RenouncedForGood
============================================================================
