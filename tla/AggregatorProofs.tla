--------------------------- MODULE AggregatorProofs -------------------------
(***************************************************************************)
(* Proofs about Aggregator, for any jobs, batch size, number of processes  *)
(* and overlap, with any failing Postgres calls and restarts: a batch that *)
(* names a transaction is recorded, what is sent was aggregated, a job in  *)
(* a batch is over, and a batch's row only moves forward. With the timer,  *)
(* the loop and the processes running, jobs are collected and assigned.    *)
(***************************************************************************)
EXTENDS Aggregator, FiniteSetTheorems, TLAPS

\* The row of a batch, and what exists of it outside, follow its process.
RowFollowsProcess ==
    \A b \in Batches :
        /\ pc[b] \in {"none", "creating"} => batches[b].status = "absent"
        /\ pc[b] \in {"assigning", "starting"} => batches[b].status = "pending"
        /\ pc[b] \in {"aggregating", "failing", "storing"}
              => batches[b].status = "aggregating"
        /\ pc[b] \in {"settling", "finalizing"}
              => batches[b].status = "done" /\ batches[b].proof
        /\ pc[b] \in {"storing", "settling", "finalizing"} => b \in files
        /\ pc[b] = "finalizing" => b \in recorded
        /\ b \in sent => pc[b] \in {"settling", "finalizing", "ended"}

\* Only a batch that is done has a proof or a transaction.
ProofBeforeTx ==
    \A b \in Batches : batches[b].proof \/ batches[b].tx
                          => batches[b].status = "done" /\ batches[b].proof

\* Only jobs that are past their proof are collected.
CollectedAreProved ==
    \A j \in Jobs :
        /\ rows[j].status = "done" => gateway[j] # "proving"
        /\ \A b \in Batches : j \in members[b] => gateway[j] # "proving"
        /\ rows[j].batch # NoBatch => pc[rows[j].batch] # "none"

IInv == /\ TypeOK /\ RowFollowsProcess /\ ProofBeforeTx /\ CollectedAreProved
        /\ TxIsRecorded /\ SentIsAggregated /\ BatchedIsOver

\* What BatchForward says of one step.
ForwardStep ==
    \A b \in Batches :
        /\ batches'[b].status # batches[b].status =>
              Rank(batches[b].status) < Rank(batches'[b].status)
        /\ batches[b].proof => batches'[b].proof
        /\ batches[b].tx => batches'[b].tx

----------------------------------------------------------------------------
\* The initial states satisfy the invariant.
LEMMA InitInv ==
  ASSUME Init
  PROVE  IInv
<1>1. MaxDbFaults \in Nat /\ MaxCrashes \in Nat
  BY BoundsAssumption
<1>2. TypeOK
  <2>1. /\ gateway \in [Jobs -> GatewayStates]
        /\ rows \in [Jobs -> [status : JobStatuses, batch : Batches \cup {NoBatch}]]
    BY DEF Init, GatewayStates, JobStatuses
  <2>2. /\ batches \in [Batches -> [status : BatchStatuses, proof : BOOLEAN,
                                    tx : BOOLEAN]]
        /\ members \in [Batches -> SUBSET Jobs]
        /\ pc \in [Batches -> Steps]
    BY DEF Init, NoRow, BatchStatuses, Steps
  <2>3. faults \in 0..MaxDbFaults /\ crashes \in 0..MaxCrashes
    BY <1>1 DEF Init
  <2>4. flushDue \in BOOLEAN /\ files \subseteq Batches /\ sent \subseteq Batches
         /\ recorded \subseteq Batches /\ settled \subseteq Jobs
    BY DEF Init
  <2> QED
    BY <2>1, <2>2, <2>3, <2>4 DEF TypeOK
<1> QED
  BY <1>2 DEF Init, IInv, NoRow, RowFollowsProcess, ProofBeforeTx,
              CollectedAreProved, TxIsRecorded, SentIsAggregated, BatchedIsOver

\* Where a step of the processes leaves the jobs' rows and the members alone,
\* no process goes back to "none" and no batch's row disappears, a job in a
\* batch stays over.
LEMMA JobsUndisturbed ==
  ASSUME IInv, UNCHANGED <<rows, members, gateway>>,
         \A b \in Batches : /\ pc[b] # "none" => pc'[b] # "none"
                            /\ batches[b].status # "absent" =>
                                  batches'[b].status # "absent"
  PROVE  CollectedAreProved' /\ BatchedIsOver'
  BY DEF IInv, TypeOK, CollectedAreProved, BatchedIsOver

\* The write of a gateway's task to the row of its job.
LEMMA GatewayStep ==
  ASSUME IInv, NEW j \in Jobs, Gateway(j)
  PROVE  IInv' /\ ForwardStep
<1> USE DEF IInv
<1>1. PICK from \in {"proving", "settling"}, to \in {"settling", "ended"},
           status \in {"done", "failed", "settled"} :
         /\ GatewayWrites(j, from, to, status)
         /\ status = "done" => from = "proving" /\ to = "settling"
         /\ settled' \in {settled, settled \cup {j}}
  BY DEF Gateway, GatewayDone, GatewayFails, GatewaySettles
<1>2. /\ gateway[j] = from
      /\ gateway' = [gateway EXCEPT ![j] = to]
      /\ rows' = [rows EXCEPT ![j].status = status]
      /\ UNCHANGED <<batches, faults, flushDue, members, pc, files, sent,
                     recorded, crashes>>
  BY <1>1 DEF GatewayWrites, OffGateway, aggVars
<1>3. TypeOK'
  BY <1>1, <1>2 DEF TypeOK, GatewayStates, JobStatuses
<1>4. RowFollowsProcess' /\ ProofBeforeTx' /\ TxIsRecorded'
         /\ SentIsAggregated' /\ ForwardStep
  BY <1>2 DEF RowFollowsProcess, ProofBeforeTx, TxIsRecorded,
              SentIsAggregated, ForwardStep
<1>5. CollectedAreProved'
  BY <1>1, <1>2 DEF CollectedAreProved, TypeOK
<1>6. BatchedIsOver'
  <2> SUFFICES ASSUME NEW k \in Jobs, rows'[k].batch # NoBatch
               PROVE  /\ rows'[k].status \in {"settled", "failed"}
                      /\ k \in members'[rows'[k].batch]
                      /\ batches'[rows'[k].batch].status # "absent"
    BY DEF BatchedIsOver
  <2>1. rows'[k].batch = rows[k].batch
    BY <1>2 DEF TypeOK
  <2>2. rows[k].batch \in Batches
    BY <2>1 DEF TypeOK
  <2>3. k = j => gateway[j] # "proving"
    BY <2>1, <2>2 DEF BatchedIsOver, CollectedAreProved
  <2>4. rows'[k].status \in {"settled", "failed"}
    <3>1. CASE k = j
      BY <1>1, <1>2, <2>3, <3>1 DEF TypeOK
    <3>2. CASE k # j
      BY <1>2, <2>1, <3>2 DEF TypeOK, BatchedIsOver
    <3> QED
      BY <3>1, <3>2
  <2> QED
    BY <1>2, <2>1, <2>4 DEF BatchedIsOver
<1> QED
  BY <1>3, <1>4, <1>5, <1>6

\* The collector starts a process on jobs that are done.
LEMMA PollStep ==
  ASSUME IInv, Poll
  PROVE  IInv' /\ ForwardStep
<1> USE DEF IInv
<1>1. PICK fetched \in Fetched, b \in Batches :
         /\ pc[b] = "none"
         /\ flushDue' = FALSE
         /\ members' = [members EXCEPT ![b] = fetched]
         /\ pc' = [pc EXCEPT ![b] = "creating"]
         /\ UNCHANGED <<gateway, rows, batches, faults, files, sent, recorded,
                        settled, crashes>>
  BY DEF Poll, OffCollector, dbVars, netVars
<1>2. fetched \subseteq Jobs /\ \A j \in fetched : gateway[j] # "proving"
  BY DEF Fetched, kSubset, Unbatched, CollectedAreProved
<1>3. TypeOK'
  BY <1>1, <1>2 DEF TypeOK, Steps
<1>4. RowFollowsProcess' /\ ProofBeforeTx' /\ TxIsRecorded'
         /\ SentIsAggregated' /\ ForwardStep
  BY <1>1 DEF TypeOK, RowFollowsProcess, ProofBeforeTx, TxIsRecorded,
              SentIsAggregated, ForwardStep
<1>5. CollectedAreProved'
  BY <1>1, <1>2 DEF TypeOK, CollectedAreProved
<1>6. \A j \in Jobs : rows[j].batch # NoBatch => rows[j].batch # b
  BY <1>1 DEF CollectedAreProved
<1>7. BatchedIsOver'
  BY <1>1, <1>6 DEF TypeOK, BatchedIsOver
<1> QED
  BY <1>3, <1>4, <1>5, <1>7

----------------------------------------------------------------------------
(* The steps of a batch process                                            *)

\* A call to Postgres that fails ends the process and writes nothing.
LEMMA FailedCall ==
  ASSUME IInv, NEW b \in Batches, NEW from, Goto(b, from, "ended"), from # "none",
         faults < MaxDbFaults, faults' = faults + 1,
         UNCHANGED <<rows, batches>>, OffBatch
  PROVE  IInv' /\ ForwardStep
<1> USE DEF IInv
<1>1. /\ pc[b] = from /\ pc' = [pc EXCEPT ![b] = "ended"]
      /\ UNCHANGED <<gateway, flushDue, members, files, sent, recorded, settled,
                     crashes>>
  BY DEF Goto, OffBatch, OffWorker
<1>2. MaxDbFaults \in Nat
  BY BoundsAssumption
<1>3. TypeOK'
  BY <1>1, <1>2 DEF TypeOK, Steps
<1>4. RowFollowsProcess' /\ ProofBeforeTx' /\ TxIsRecorded'
         /\ SentIsAggregated' /\ ForwardStep
  BY <1>1 DEF TypeOK, RowFollowsProcess, ProofBeforeTx, TxIsRecorded,
              SentIsAggregated, ForwardStep
<1>5. CollectedAreProved' /\ BatchedIsOver'
  BY <1>1, JobsUndisturbed DEF TypeOK
<1> QED
  BY <1>3, <1>4, <1>5

\* A step that only sets the status of the batch's row.
LEMMA WriteStatus ==
  ASSUME IInv, NEW b \in Batches, NEW from, NEW to \in Steps, NEW status,
         <<from, to, status>> \in {<<"creating", "assigning", "pending">>,
                                   <<"starting", "aggregating", "aggregating">>,
                                   <<"failing", "ended", "failed">>},
         WithPostgres(b, from, to, BatchStatus(b, status), rows)
  PROVE  IInv' /\ ForwardStep
<1> USE DEF IInv
<1>1. CASE Goto(b, from, "ended") /\ faults' = faults + 1
             /\ faults < MaxDbFaults /\ UNCHANGED <<rows, batches>> /\ OffBatch
  BY <1>1, FailedCall
<1>2. CASE /\ Goto(b, from, to)
           /\ batches' = BatchStatus(b, status) /\ rows' = rows
           /\ UNCHANGED faults /\ OffBatch
  <2>1. /\ pc[b] = from /\ pc' = [pc EXCEPT ![b] = to]
        /\ batches' = [batches EXCEPT ![b].status = status]
        /\ UNCHANGED <<gateway, rows, flushDue, members, files, sent, recorded,
                       settled, faults, crashes>>
    BY <1>2 DEF Goto, OffBatch, OffWorker, BatchStatus
  <2>2. TypeOK'
    BY <2>1 DEF TypeOK, BatchStatuses
  <2>3. b \notin sent /\ ~batches[b].proof /\ ~batches[b].tx
    BY <2>1 DEF TypeOK, RowFollowsProcess, ProofBeforeTx
  <2>4. RowFollowsProcess'
    BY <2>1, <2>3 DEF TypeOK, RowFollowsProcess
  <2>5. ProofBeforeTx' /\ TxIsRecorded' /\ SentIsAggregated'
    BY <2>1, <2>3 DEF TypeOK, ProofBeforeTx, TxIsRecorded, SentIsAggregated
  <2>6. ForwardStep
    BY <2>1, <2>3 DEF TypeOK, ForwardStep, Rank, RowFollowsProcess
  <2>7. CollectedAreProved' /\ BatchedIsOver'
    BY <2>1, JobsUndisturbed DEF TypeOK
  <2> QED
    BY <2>2, <2>4, <2>5, <2>6, <2>7
<1> QED
  BY <1>1, <1>2 DEF WithPostgres

\* The jobs get their batch, and are settled, in one transaction.
LEMMA AssignStep ==
  ASSUME IInv, NEW b \in Batches, AssignJobs(b)
  PROVE  IInv' /\ ForwardStep
<1> USE DEF IInv
<1> DEFINE assigned == [j \in Jobs |-> IF j \in members[b]
                                       THEN [status |-> "settled", batch |-> b]
                                       ELSE rows[j]]
<1>1. CASE Goto(b, "assigning", "ended") /\ faults' = faults + 1
             /\ faults < MaxDbFaults /\ UNCHANGED <<rows, batches>> /\ OffBatch
  BY <1>1, FailedCall
<1>2. CASE /\ Goto(b, "assigning", "starting")
           /\ batches' = batches /\ rows' = assigned
           /\ UNCHANGED faults /\ OffBatch
  <2>1. /\ pc[b] = "assigning" /\ pc' = [pc EXCEPT ![b] = "starting"]
        /\ rows' = assigned
        /\ UNCHANGED <<gateway, batches, flushDue, members, files, sent, recorded,
                       settled, faults, crashes>>
    BY <1>2 DEF Goto, OffBatch, OffWorker
  <2>2. \A j \in Jobs : \/ /\ j \in members[b] /\ rows'[j].status = "settled"
                           /\ rows'[j].batch = b
                        \/ j \notin members[b] /\ rows'[j] = rows[j]
    BY <2>1
  <2>3. rows' \in [Jobs -> [status : JobStatuses, batch : Batches \cup {NoBatch}]]
    BY <2>1 DEF TypeOK, JobStatuses
  <2> HIDE DEF assigned
  <2>4. TypeOK'
    BY <2>1, <2>3 DEF TypeOK, Steps
  <2>5. RowFollowsProcess' /\ ProofBeforeTx' /\ TxIsRecorded'
         /\ SentIsAggregated' /\ ForwardStep
    BY <2>1 DEF TypeOK, RowFollowsProcess, ProofBeforeTx, TxIsRecorded,
                SentIsAggregated, ForwardStep
  <2>6. pc'[b] # "none" /\ \A c \in Batches : pc[c] # "none" => pc'[c] # "none"
    BY <2>1 DEF TypeOK
  <2>7. CollectedAreProved'
    BY <2>1, <2>2, <2>6 DEF TypeOK, CollectedAreProved
  <2>8. batches[b].status # "absent"
    BY <2>1 DEF RowFollowsProcess
  <2>9. BatchedIsOver'
    BY <2>1, <2>2, <2>8 DEF TypeOK, BatchedIsOver
  <2> QED
    BY <2>4, <2>5, <2>7, <2>9
<1> QED
  BY <1>1, <1>2 DEF AssignJobs, WithPostgres

\* The steps that write the proof, and then the transaction, to the batch.
LEMMA WriteProof ==
  ASSUME IInv, NEW b \in Batches, StoreProof(b) \/ FinalizeBatch(b)
  PROVE  IInv' /\ ForwardStep
<1> USE DEF IInv
<1>1. PICK from \in {"storing", "finalizing"}, to \in {"settling", "ended"},
           batches1 \in [Batches -> [status : BatchStatuses, proof : BOOLEAN,
                                     tx : BOOLEAN]] :
         /\ WithPostgres(b, from, to, batches1, rows)
         /\ to = "settling" <=> from = "storing"
         /\ batches1[b].status = "done" /\ batches1[b].proof
         /\ batches1[b].tx => from = "finalizing" \/ batches[b].tx
         /\ batches[b].tx => batches1[b].tx
         /\ \A c \in Batches : c # b => batches1[c] = batches[c]
  <2>1. CASE StoreProof(b)
    <3> DEFINE batches1 == [batches EXCEPT ![b].status = "done", ![b].proof = TRUE]
    <3>1. batches1 \in [Batches -> [status : BatchStatuses, proof : BOOLEAN,
                                    tx : BOOLEAN]]
      BY DEF TypeOK, BatchStatuses
    <3>2. /\ batches1[b].status = "done" /\ batches1[b].proof
          /\ batches1[b].tx = batches[b].tx
          /\ \A c \in Batches : c # b => batches1[c] = batches[c]
      BY DEF TypeOK
    <3>3. WithPostgres(b, "storing", "settling", batches1, rows)
      BY <2>1 DEF StoreProof
    <3> HIDE DEF batches1
    <3> QED
      BY <3>1, <3>2, <3>3
  <2>2. CASE FinalizeBatch(b)
    <3> DEFINE batches1 == [batches EXCEPT ![b] =
                              [status |-> "done", proof |-> TRUE, tx |-> TRUE]]
    <3>1. batches1 \in [Batches -> [status : BatchStatuses, proof : BOOLEAN,
                                    tx : BOOLEAN]]
      BY DEF TypeOK, BatchStatuses
    <3>2. /\ batches1[b].status = "done" /\ batches1[b].proof /\ batches1[b].tx
          /\ \A c \in Batches : c # b => batches1[c] = batches[c]
      BY DEF TypeOK
    <3>3. WithPostgres(b, "finalizing", "ended", batches1, rows)
      BY <2>2 DEF FinalizeBatch
    <3> HIDE DEF batches1
    <3> QED
      BY <3>1, <3>2, <3>3
  <2> QED
    BY <2>1, <2>2
<1>2. CASE Goto(b, from, "ended") /\ faults' = faults + 1
             /\ faults < MaxDbFaults /\ UNCHANGED <<rows, batches>> /\ OffBatch
  BY <1>2, FailedCall
<1>3. CASE /\ Goto(b, from, to)
           /\ batches' = batches1 /\ rows' = rows
           /\ UNCHANGED faults /\ OffBatch
  <2>1. /\ pc[b] = from /\ pc' = [pc EXCEPT ![b] = to]
        /\ batches' = batches1
        /\ UNCHANGED <<gateway, rows, flushDue, members, files, sent, recorded,
                       settled, faults, crashes>>
    BY <1>3 DEF Goto, OffBatch, OffWorker
  <2>2. /\ batches'[b].status = "done" /\ batches'[b].proof
        /\ batches'[b].tx => from = "finalizing" \/ batches[b].tx
        /\ batches[b].tx => batches'[b].tx
        /\ \A c \in Batches : c # b => batches'[c] = batches[c]
    BY <1>1, <2>1
  <2>3. TypeOK'
    BY <1>1, <2>1 DEF TypeOK, Steps
  <2>4. b \in files /\ (from = "finalizing" => b \in recorded)
    BY <2>1 DEF RowFollowsProcess
  <2>5. RowFollowsProcess'
    BY <1>1, <2>1, <2>2, <2>4 DEF TypeOK, RowFollowsProcess
  <2>6. ProofBeforeTx' /\ TxIsRecorded' /\ SentIsAggregated'
    <3>1. ProofBeforeTx'
      BY <2>2 DEF ProofBeforeTx
    <3>2. TxIsRecorded'
      BY <2>1, <2>2, <2>4 DEF TxIsRecorded
    <3>3. SentIsAggregated'
      BY <2>1, <2>2, <2>4 DEF TypeOK, SentIsAggregated
    <3> QED
      BY <3>1, <3>2, <3>3
  <2>7. batches[b].status \in {"aggregating", "done"}
    BY <2>1 DEF RowFollowsProcess
  <2>8. ForwardStep
    BY <1>1, <2>1, <2>2, <2>7 DEF TypeOK, ForwardStep, Rank
  <2>9. CollectedAreProved' /\ BatchedIsOver'
    BY <2>1, <2>2, JobsUndisturbed DEF TypeOK
  <2> QED
    BY <2>3, <2>5, <2>6, <2>8, <2>9
<1> QED
  BY <1>1, <1>2, <1>3 DEF WithPostgres

\* The worker's outcomes and the steps of the settlement write no row.
LEMMA OutsideStep ==
  ASSUME IInv, NEW b \in Batches,
         Worker(b) \/ SendBatch(b) \/ SubmitOk(b) \/ SubmitErr(b)
  PROVE  IInv' /\ ForwardStep
<1> USE DEF IInv
<1>1. /\ UNCHANGED <<gateway, rows, batches, faults, flushDue, members, settled,
                     crashes>>
      /\ \/ /\ pc[b] = "aggregating" /\ pc' = [pc EXCEPT ![b] = "storing"]
            /\ files' = files \cup {b} /\ UNCHANGED <<sent, recorded>>
         \/ /\ pc[b] = "aggregating"
            /\ \/ pc' = [pc EXCEPT ![b] = "failing"]
               \/ pc' = [pc EXCEPT ![b] = "ended"]
            /\ UNCHANGED <<files, sent, recorded>>
         \/ /\ pc[b] = "settling" /\ pc' = pc
            /\ sent' = sent \cup {b} /\ UNCHANGED <<files, recorded>>
         \/ /\ pc[b] = "settling" /\ pc' = [pc EXCEPT ![b] = "finalizing"]
            /\ recorded' = recorded \cup {b} /\ UNCHANGED <<files, sent>>
         \/ /\ pc[b] = "settling" /\ pc' = [pc EXCEPT ![b] = "ended"]
            /\ UNCHANGED <<files, sent, recorded>>
  BY DEF Worker, WorkerSucceeds, WorkerFails, WorkerBreaks, SendBatch, SubmitOk,
         SubmitErr, SubmitReturns, Goto, OffWorker, OffBatch, dbVars, aggVars
<1>2. TypeOK'
  BY <1>1 DEF TypeOK, Steps
<1>3. RowFollowsProcess'
  BY <1>1 DEF TypeOK, RowFollowsProcess
<1>4. ProofBeforeTx' /\ TxIsRecorded' /\ ForwardStep
  BY <1>1 DEF TypeOK, ProofBeforeTx, TxIsRecorded, ForwardStep
<1>5. pc[b] = "settling" => b \in files /\ batches[b].proof
                             /\ batches[b].status = "done"
  BY DEF RowFollowsProcess
<1>6. SentIsAggregated'
  BY <1>1, <1>5 DEF TypeOK, SentIsAggregated
<1>7. CollectedAreProved' /\ BatchedIsOver'
  BY <1>1, JobsUndisturbed DEF TypeOK
<1> QED
  BY <1>2, <1>3, <1>4, <1>6, <1>7

\* The flush timer and a restart.
LEMMA LoopStep ==
  ASSUME IInv, FlushTimer \/ Crash
  PROVE  IInv' /\ ForwardStep
<1> USE DEF IInv
<1>1. /\ flushDue' \in BOOLEAN
      /\ \/ pc' = pc
         \/ pc' = [b \in Batches |-> IF pc[b] = "none" THEN "none" ELSE "ended"]
      /\ \/ crashes' = crashes
         \/ crashes < MaxCrashes /\ crashes' = crashes + 1
      /\ UNCHANGED <<gateway, rows, batches, faults, members, files, sent,
                     recorded, settled>>
  BY DEF FlushTimer, Crash, OffCollector, dbVars, netVars, TypeOK
<1>2. crashes' \in 0..MaxCrashes
  BY <1>1, BoundsAssumption DEF TypeOK
<1>3. TypeOK'
  BY <1>1, <1>2 DEF TypeOK, Steps
<1>4. RowFollowsProcess'
  BY <1>1 DEF TypeOK, RowFollowsProcess
<1>5. ProofBeforeTx' /\ TxIsRecorded' /\ SentIsAggregated' /\ ForwardStep
  BY <1>1 DEF ProofBeforeTx, TxIsRecorded, SentIsAggregated, ForwardStep
<1>6. CollectedAreProved' /\ BatchedIsOver'
  BY <1>1, JobsUndisturbed DEF TypeOK
<1> QED
  BY <1>3, <1>4, <1>5, <1>6

----------------------------------------------------------------------------
(* Every step, and the theorems                                            *)

\* No step breaks the invariant or takes a batch's row back.
LEMMA InvStep ==
  ASSUME IInv, [Next]_vars
  PROVE  IInv' /\ ForwardStep
<1>1. CASE \E j \in Jobs : Gateway(j)
  BY <1>1, GatewayStep
<1>2. CASE Poll
  BY <1>2, PollStep
<1>3. CASE FlushTimer \/ Crash
  BY <1>3, LoopStep
<1>4. CASE \E b \in Batches : Process(b) \/ Worker(b)
  <2> SUFFICES ASSUME NEW b \in Batches, Process(b) \/ Worker(b)
               PROVE  IInv' /\ ForwardStep
    BY <1>4
  <2>1. CASE CreateBatch(b)
    BY <2>1, WriteStatus DEF CreateBatch, Steps
  <2>2. CASE MarkAggregating(b)
    BY <2>2, WriteStatus DEF MarkAggregating, Steps
  <2>3. CASE MarkFailed(b)
    BY <2>3, WriteStatus DEF MarkFailed, Steps
  <2> QED
    BY <2>1, <2>2, <2>3, AssignStep, WriteProof, OutsideStep DEF Process, Assign
<1>5. CASE UNCHANGED vars
  <2>1. UNCHANGED <<gateway, rows, batches, faults, flushDue, members, pc, files,
                    sent, recorded, settled, crashes>>
    BY <1>5 DEF vars, dbVars, aggVars, netVars
  <2>2. TypeOK'
    BY <2>1 DEF IInv, TypeOK
  <2>3. RowFollowsProcess' /\ ProofBeforeTx' /\ TxIsRecorded' /\ SentIsAggregated'
         /\ CollectedAreProved' /\ BatchedIsOver' /\ ForwardStep
    BY <2>1 DEF IInv, RowFollowsProcess, ProofBeforeTx, TxIsRecorded,
                SentIsAggregated, CollectedAreProved, BatchedIsOver, ForwardStep
  <2> QED
    BY <2>2, <2>3 DEF IInv
<1> QED
  BY <1>1, <1>2, <1>3, <1>4, <1>5 DEF Next

\* The inductive invariant holds in every reachable state of the aggregator.
THEOREM InvariantHolds == Spec => []IInv
<1>1. IInv /\ [Next]_vars => IInv'
  BY InvStep
<1> QED
  BY InitInv, <1>1, PTL DEF Spec

\* The jobs and batches tables, the processes of the aggregator and what is
\* outside keep their types, and the counters their bounds.
THEOREM TypeCorrect == Spec => []TypeOK
<1>1. IInv => TypeOK
  BY DEF IInv
<1> QED
  BY <1>1, InvariantHolds, PTL

\* A batch row only gets the transaction hash of a batch that StarkNet has on
\* record (settle_batch, batch.rs), with any number of processes and failures.
THEOREM TxRecorded == Spec => []TxIsRecorded
<1>1. IInv => TxIsRecorded
  BY DEF IInv
<1> QED
  BY <1>1, InvariantHolds, PTL

\* Only what the Python worker aggregated and verified is ever sent, and its
\* row keeps the proof and the status done afterwards.
THEOREM SentAggregated == Spec => []SentIsAggregated
<1>1. IInv => SentIsAggregated
  BY DEF IInv
<1> QED
  BY <1>1, InvariantHolds, PTL

\* A job in a batch is never done again, whatever the gateway's task and
\* overlapping batch processes write to its row: no later poll fetches it.
THEOREM BatchedOver == Spec => []BatchedIsOver
<1>1. IInv => BatchedIsOver
  BY DEF IInv
<1> QED
  BY <1>1, InvariantHolds, PTL

\* The row of a batch only moves forward, and keeps its proof and transaction.
THEOREM BatchesForward == Spec => BatchForward
<1>1. IInv /\ [Next]_vars => [ForwardStep]_vars
  BY InvStep
<1>2. [ForwardStep]_vars =>
        [\A b \in Batches :
            /\ batches'[b].status # batches[b].status =>
                  Rank(batches[b].status) < Rank(batches'[b].status)
            /\ batches[b].proof => batches'[b].proof
            /\ batches[b].tx => batches'[b].tx]_vars
  BY DEF ForwardStep
<1> QED
  BY <1>1, <1>2, InvariantHolds, PTL DEF Spec, BatchForward

----------------------------------------------------------------------------
(* A job that was fetched leaves the queue.                                *)

\* The process can make its next call to Postgres, which succeeds if nothing
\* else: the guards of Assign(b), which binds every variable and moves pc[b].
Assigning(b) == pc[b] \in {"creating", "assigning"}

\* Tokio runs the process: WF_vars(Assign(b)) with its ENABLED written out.
AssignRuns(b) == []([]Assigning(b) => <><<Assign(b)>>_vars)

\* The fairness of FairSpec is AssignRuns, wherever the guards enable the action.
LEMMA FairnessAssigns ==
  ASSUME NEW b \in Batches
  PROVE  WF_vars(Assign(b)) /\ [](Assigning(b) => ENABLED <<Assign(b)>>_vars)
         => AssignRuns(b)
  BY PTL DEF AssignRuns

\* What went wrong so far, none of which the process has any answer to.
Mishaps == faults + crashes

\* Process b holds job j, is at step s, and this much has gone wrong.
Holds(b, j, s, n) == pc[b] = s /\ j \in members[b] /\ Mishaps = n

\* What its next call to Postgres comes to.
Onward(b, j, s, n) == \/ Mishaps > n
                      \/ s = "creating" /\ Holds(b, j, "assigning", n)
                      \/ s = "assigning" /\ j \notin Unbatched

\* A process keeps its jobs and its place until that call; the other processes,
\* the gateway and the loop have no way to take a job from it.
LEMMA ProcessKeepsJob ==
  ASSUME IInv, [Next]_vars, NEW b \in Batches, NEW j \in Jobs, NEW n \in Nat,
         NEW s \in {"creating", "assigning"}, Holds(b, j, s, n)
  PROVE  /\ (Holds(b, j, s, n) \/ Onward(b, j, s, n))'
         /\ Assign(b) => Onward(b, j, s, n)'
<1> USE DEF IInv, TypeOK, Holds, Onward, Mishaps, Goto, WithPostgres, OffBatch,
            OffWorker, SubmitReturns, aggVars, dbVars, netVars
<1>1. /\ faults \in Nat /\ crashes \in Nat /\ pc \in [Batches -> Steps]
      /\ members \in [Batches -> SUBSET Jobs]
  BY BoundsAssumption
<1>2. CASE Assign(b)
  <2>1. CASE CreateBatch(b)
    BY <1>1, <2>1 DEF CreateBatch
  <2>2. CASE AssignJobs(b)
    <3>1. \/ faults' = faults + 1 /\ crashes' = crashes
          \/ rows'[j].status = "settled"
      BY <2>2 DEF AssignJobs
    <3>2. rows'[j].status = "settled" => j \notin Unbatched'
      BY DEF Unbatched
    <3>3. pc[b] = "assigning"
      BY <2>2 DEF AssignJobs
    <3> QED
      BY <1>1, <3>1, <3>2, <3>3
  <2> QED
    BY <1>2, <2>1, <2>2 DEF Assign
<1>3. CASE ~Assign(b)
  <2>1. CASE (\E k \in Jobs : Gateway(k)) \/ FlushTimer \/ UNCHANGED vars
    BY <1>3, <2>1 DEF Gateway, GatewayDone, GatewayFails, GatewaySettles, GatewayWrites,
                OffGateway, FlushTimer, OffCollector, vars
  <2>2. CASE Poll
    <3>1. PICK c \in Batches :
             /\ pc[c] = "none"
             /\ \E fetched : members' = [members EXCEPT ![c] = fetched]
             /\ pc' = [pc EXCEPT ![c] = "creating"]
      BY <2>2 DEF Poll
    <3>2. c # b /\ faults' = faults /\ crashes' = crashes
      BY <2>2, <3>1 DEF Poll, OffCollector
    <3> QED
      BY <1>1, <1>3, <3>1, <3>2
  <2>3. CASE Crash
    BY <1>1, <1>3, <2>3 DEF Crash
  <2>4. ASSUME NEW c \in Batches, Process(c) \/ Worker(c)
        PROVE  Holds(b, j, s, n)' \/ Mishaps' > n
    <3>1. c # b
      BY <1>3, <2>4
         DEF Process, MarkAggregating, MarkFailed, StoreProof, SendBatch, SubmitOk,
             SubmitErr, FinalizeBatch, Worker, WorkerSucceeds, WorkerFails,
             WorkerBreaks
    <3>2. /\ members' = members /\ crashes' = crashes
          /\ \E to \in Steps : pc' = [pc EXCEPT ![c] = to]
          /\ faults' \in {faults, faults + 1}
      <4> USE DEF Steps
      <4>1. CASE Assign(c)
        BY <4>1 DEF Assign, CreateBatch, AssignJobs
      <4>2. CASE MarkAggregating(c) \/ MarkFailed(c) \/ StoreProof(c) \/ FinalizeBatch(c)
        BY <4>2 DEF MarkAggregating, MarkFailed, StoreProof, FinalizeBatch
      <4>3. CASE SendBatch(c)
        <5>1. pc' = [pc EXCEPT ![c] = pc[c]]
          BY <1>1, <4>3 DEF SendBatch
        <5> QED
          BY <1>1, <4>3, <5>1 DEF SendBatch
      <4>4. CASE SubmitOk(c) \/ SubmitErr(c) \/ Worker(c)
        BY <4>4 DEF SubmitOk, SubmitErr, Worker, WorkerSucceeds, WorkerFails,
                    WorkerBreaks
      <4> QED
        BY <2>4, <4>1, <4>2, <4>3, <4>4 DEF Process
    <3>3. pc'[b] = pc[b] /\ members'[b] = members[b]
      BY <1>1, <3>1, <3>2
    <3>4. Mishaps' = n \/ Mishaps' > n
      <4>1. faults + crashes = n /\ n \in Nat /\ crashes' = crashes
        BY <3>2
      <4>2. faults' = faults \/ faults' = faults + 1
        BY <3>2
      <4> QED
        BY ONLY <1>1, <4>1, <4>2 DEF Mishaps
    <3> QED
      BY <3>3, <3>4
  <2> QED
    BY <1>3, <2>1, <2>2, <2>3, <2>4 DEF Next
<1> QED
  BY <1>2, <1>3

\* DoneIsBatched for a job that was fetched, whatever else holds it and whoever
\* writes to its row meanwhile: it leaves the queue, unless a call of Postgres
\* fails or the aggregator is restarted, after which a later poll has it again.
THEOREM FetchedIsBatched ==
  ASSUME NEW b \in Batches, NEW j \in Jobs, NEW n \in Nat
  PROVE  Spec /\ AssignRuns(b) =>
           (Assigning(b) /\ j \in members[b] /\ Mishaps = n
              ~> j \notin Unbatched \/ Mishaps > n)
<1>1. IInv /\ [Next]_vars /\ Holds(b, j, "creating", n)
         => (Holds(b, j, "creating", n) \/ Onward(b, j, "creating", n))'
  BY ProcessKeepsJob
<1>2. IInv /\ [Next]_vars /\ Holds(b, j, "creating", n) /\ Assign(b)
         => Onward(b, j, "creating", n)'
  BY ProcessKeepsJob
<1>3. IInv /\ [Next]_vars /\ Holds(b, j, "assigning", n)
         => (Holds(b, j, "assigning", n) \/ Onward(b, j, "assigning", n))'
  BY ProcessKeepsJob
<1>4. IInv /\ [Next]_vars /\ Holds(b, j, "assigning", n) /\ Assign(b)
         => Onward(b, j, "assigning", n)'
  BY ProcessKeepsJob
<1>5. Holds(b, j, "creating", n) \/ Holds(b, j, "assigning", n) => Assigning(b)
  BY DEF Holds, Assigning
<1>6. Onward(b, j, "creating", n) => Mishaps > n \/ Holds(b, j, "assigning", n)
  BY DEF Onward
<1>7. Onward(b, j, "assigning", n) => Mishaps > n \/ j \notin Unbatched
  BY DEF Onward
<1>8. Assigning(b) /\ j \in members[b] /\ Mishaps = n
         => Holds(b, j, "creating", n) \/ Holds(b, j, "assigning", n)
  BY DEF Assigning, Holds
<1> QED
  BY <1>1, <1>2, <1>3, <1>4, <1>5, <1>6, <1>7, <1>8, InvariantHolds, PTL
     DEF Spec, AssignRuns

----------------------------------------------------------------------------
(* The collector starts a process                                          *)

Unused == {b \in Batches : pc[b] = "none"}

\* There are jobs to collect and a process to give them to: with the timer, the
\* guard of Poll, whose batch is the first unused one and which binds every variable.
MayPoll == /\ Unbatched # {} /\ Unused # {}
           /\ Cardinality(Unassigned) < MaxOverlap

\* The loop runs for ever and time passes: the fairness of FairSpec with its
\* ENABLEDs written out.
TimerRuns == []([]~flushDue => <><<FlushTimer>>_vars)
PollRuns  == []([](MayPoll /\ flushDue) => <><<Poll>>_vars)

\* The fairness of FairSpec is these two, wherever the guards enable the actions.
LEMMA FairnessPolls ==
  /\ WF_vars(FlushTimer) /\ [](~flushDue => ENABLED <<FlushTimer>>_vars)
  /\ WF_vars(Poll) /\ [](MayPoll /\ flushDue => ENABLED <<Poll>>_vars)
  => TimerRuns /\ PollRuns
  BY PTL DEF TimerRuns, PollRuns

\* The collector is about to poll, with these processes unused and after so many
\* restarts.
Collects(U, n) == MayPoll /\ Unused = U /\ crashes = n

\* One of the processes got jobs, the gateway took the last one out of the queue,
\* or the aggregator was restarted.
Collected(U, n) == \/ \E b \in U : Assigning(b) /\ members[b] # {}
                   \/ Unbatched = {}
                   \/ crashes > n

\* What a step of a process does to the processes: none becomes unused or has its
\* jobs still to assign that had not before.
LEMMA ProcessMoves ==
  ASSUME IInv, NEW c \in Batches, Process(c) \/ Worker(c)
  PROVE  /\ UNCHANGED <<flushDue, crashes>>
         /\ Unused' = Unused /\ Unassigned' \subseteq Unassigned
<1> USE DEF IInv, TypeOK, Goto, WithPostgres, OffBatch, OffWorker, SubmitReturns,
            aggVars, dbVars, netVars
<1>1. pc \in [Batches -> Steps]
  OBVIOUS
<1>2. /\ UNCHANGED <<flushDue, crashes>>
      /\ \/ pc' = pc
         \/ \E to \in Steps \ {"none"} :
               /\ pc' = [pc EXCEPT ![c] = to]
               /\ pc[c] # "none"
               /\ to \in {"creating", "assigning"} => pc[c] \in {"creating", "assigning"}
  <2> USE DEF Steps
  <2>1. CASE Assign(c)
    BY <2>1 DEF Assign, CreateBatch, AssignJobs
  <2>2. CASE MarkAggregating(c) \/ MarkFailed(c) \/ StoreProof(c) \/ FinalizeBatch(c)
    BY <2>2 DEF MarkAggregating, MarkFailed, StoreProof, FinalizeBatch
  <2>3. CASE SendBatch(c) \/ SubmitOk(c) \/ SubmitErr(c)
    BY <2>3 DEF SendBatch, SubmitOk, SubmitErr
  <2>4. CASE Worker(c)
    BY <2>4 DEF Worker, WorkerSucceeds, WorkerFails, WorkerBreaks
  <2> QED
    BY <2>1, <2>2, <2>3, <2>4 DEF Process
<1> QED
  BY <1>1, <1>2 DEF Unused, Unassigned

\* Nothing but a poll, a restart or the last done job's leaving keeps the collector
\* from polling, and the timer, once due, stays due.
LEMMA CollectorWaits ==
  ASSUME IInv, [Next]_vars, NEW n \in Nat, NEW U, Collects(U, n)
  PROVE  /\ Collected(U, n)' \/ (Collects(U, n)' /\ (flushDue => flushDue'))
         /\ Poll => Collected(U, n)'
<1>1. pc \in [Batches -> Steps] /\ members \in [Batches -> SUBSET Jobs]
  BY DEF IInv, TypeOK
<1>2. ASSUME Poll
      PROVE  Collected(U, n)'
  <2>1. PICK fetched \in Fetched, b \in Batches :
           /\ fetched # {} /\ pc[b] = "none"
           /\ members' = [members EXCEPT ![b] = fetched]
           /\ pc' = [pc EXCEPT ![b] = "creating"]
    BY <1>2 DEF Poll
  <2>2. b \in U
    BY <2>1 DEF Collects, Unused
  <2>3. pc'[b] = "creating" /\ members'[b] = fetched
    BY <1>1, <2>1
  <2> QED
    BY <2>1, <2>2, <2>3 DEF Collected, Assigning
<1>3. ASSUME UNCHANGED crashes, Unused' = Unused, Unassigned' \subseteq Unassigned,
             flushDue => flushDue'
      PROVE  Collected(U, n)' \/ (Collects(U, n)' /\ (flushDue => flushDue'))
  <2>1. IsFiniteSet(Unassigned)
    <3>1. IsFiniteSet(Batches)
      BY FS_Interval, BoundsAssumption DEF Batches
    <3> QED
      BY <3>1, FS_Subset DEF Unassigned
  <2>2. /\ Cardinality(Unassigned') <= Cardinality(Unassigned)
        /\ Cardinality(Unassigned') \in Nat /\ Cardinality(Unassigned) \in Nat
    BY <1>3, <2>1, FS_Subset, FS_CardinalityType
  <2>3. Cardinality(Unassigned') < MaxOverlap
    BY <2>2, BoundsAssumption DEF Collects, MayPoll
  <2> QED
    BY <1>3, <2>3 DEF Collects, Collected, MayPoll
<1>4. CASE (\E k \in Jobs : Gateway(k)) \/ FlushTimer \/ UNCHANGED vars
  <2>1. UNCHANGED <<crashes, pc>> /\ (flushDue => flushDue')
    BY <1>4 DEF Gateway, GatewayDone, GatewayFails, GatewaySettles, GatewayWrites,
                OffGateway, FlushTimer, OffCollector, vars, aggVars
  <2> QED
    BY <1>2, <1>3, <2>1 DEF Unused, Unassigned
<1>5. CASE \E c \in Batches : Process(c) \/ Worker(c)
  BY <1>2, <1>3, <1>5, ProcessMoves
<1>6. CASE Crash
  <2>1. crashes' > n
    BY <1>6 DEF Crash, Collects
  <2> QED
    BY <2>1 DEF Collected
<1> QED
  BY <1>2, <1>4, <1>5, <1>6 DEF Next

\* The other half of DoneIsBatched: as long as there are jobs to collect the
\* collector gets to it, though no batch ever fills: the timer flushes it. Which
\* jobs it fetches is Postgres' choice (fetch_unbatched_done_jobs has no order).
THEOREM CollectorPolls ==
  ASSUME NEW n \in Nat, NEW U
  PROVE  Spec /\ TimerRuns /\ PollRuns => (Collects(U, n) ~> Collected(U, n))
<1>1. IInv /\ [Next]_vars /\ Collects(U, n)
         => Collected(U, n)' \/ (Collects(U, n)' /\ (flushDue => flushDue'))
  BY CollectorWaits
<1>2. IInv /\ [Next]_vars /\ Collects(U, n) /\ Poll => Collected(U, n)'
  BY CollectorWaits
<1>3. FlushTimer => flushDue'
  BY DEF FlushTimer
<1>4. Collects(U, n) => MayPoll
  BY DEF Collects
<1> QED
  BY <1>1, <1>2, <1>3, <1>4, InvariantHolds, PTL DEF Spec, TimerRuns, PollRuns

============================================================================
