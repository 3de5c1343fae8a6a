----------------------------- MODULE Aggregator ----------------------------
(***************************************************************************)
(* The aggregator (crates/aggregator): one collector loop polls the jobs   *)
(* table for done jobs without a batch and hands them to a batch process   *)
(* of its own, which records a batch, has the Python worker aggregate it   *)
(* and submits the result. The collector does not wait for the processes:  *)
(* it may fetch a job again before the first process has assigned it.      *)
(*                                                                         *)
(* The gateway's settlement tasks write the same rows, with no regard to   *)
(* the batch: of each only its writes from "done" on are kept here, in the *)
(* order JobPipeline establishes. Settler::submit is what JobPipeline and  *)
(* SettlementBridge show of it: Ok only of what is recorded, Err at any    *)
(* time.                                                                   *)
(***************************************************************************)
EXTENDS Naturals, FiniteSets, FiniteSetsExt

CONSTANTS
    Jobs,
    BatchSize,      \* AggregatorConfig.batch_size
    MaxBatches,     \* bound: batch processes ever started
    MaxOverlap,     \* bound: processes that have not assigned their jobs yet
    MaxDbFaults,    \* bound: Postgres calls of the processes that fail
    MaxCrashes      \* bound: restarts of the aggregator

ASSUME BoundsAssumption ==
    /\ {BatchSize, MaxOverlap} \subseteq Nat \ {0}
    /\ {MaxBatches, MaxDbFaults, MaxCrashes} \subseteq Nat

VARIABLES
    gateway,    \* the settlement task of each job
    rows,       \* the jobs table: status and batch_id
    batches,    \* the batches table
    flushDue,   \* flush_interval_secs have passed since last_flush
    members,    \* the jobs each batch process was given
    pc,         \* where each batch process is
    files,      \* the batches whose proof the worker wrote and verified
    sent,       \* the batches whose transaction reached the network
    recorded,   \* the batches whose process saw a record on StarkNet
    settled,    \* the jobs with one of their own, as their task saw
    faults,     \* Postgres calls that failed so far
    crashes     \* restarts so far

dbVars  == <<rows, batches, faults>>
aggVars == <<flushDue, members, pc>>
netVars == <<files, sent, recorded, settled>>
vars == <<gateway, dbVars, aggVars, netVars, crashes>>

----------------------------------------------------------------------------
Batches == 1..MaxBatches        \* UUIDs, numbered in the order of the polls
NoBatch == 0

GatewayStates == {"proving", "settling", "ended"}
JobStatuses   == {"running", "done", "settled", "failed"}
BatchStatuses == {"absent", "pending", "aggregating", "done", "failed"}
Steps == {"none", "creating", "assigning", "starting", "aggregating",
          "failing", "storing", "settling", "finalizing", "ended"}

NoRow == [status |-> "absent", proof |-> FALSE, tx |-> FALSE]

Init == /\ gateway  = [j \in Jobs |-> "proving"]
        /\ rows     = [j \in Jobs |-> [status |-> "running", batch |-> NoBatch]]
        /\ batches  = [b \in Batches |-> NoRow]
        /\ flushDue = FALSE
        /\ members  = [b \in Batches |-> {}]
        /\ pc       = [b \in Batches |-> "none"]
        /\ files    = {}
        /\ sent     = {}
        /\ recorded = {}
        /\ settled  = {}
        /\ faults   = 0
        /\ crashes  = 0

----------------------------------------------------------------------------
(* The gateway and the chains                                              *)

OffGateway == UNCHANGED <<batches, faults, aggVars, files, sent, recorded,
                          crashes>>

GatewayWrites(j, from, to, status) ==
    /\ gateway[j] = from
    /\ gateway' = [gateway EXCEPT ![j] = to]
    /\ rows' = [rows EXCEPT ![j].status = status]
    /\ OffGateway

\* The proof is in: done and the proof path in one UPDATE.
GatewayDone(j) == GatewayWrites(j, "proving", "settling", "done")
                  /\ UNCHANGED settled

\* The proof failed or timed out; the submission failed.
GatewayFails(j) == /\ \/ GatewayWrites(j, "proving", "ended", "failed")
                      \/ GatewayWrites(j, "settling", "ended", "failed")
                   /\ UNCHANGED settled

\* StarkNet has the record, which stays: it is added in the step that needs it.
GatewaySettles(j) == /\ GatewayWrites(j, "settling", "ended", "settled")
                     /\ settled' = settled \cup {j}

\* Settlement may be off, a write fail and the gateway be restarted: a task
\* may stop anywhere.
Gateway(j) == GatewayDone(j) \/ GatewayFails(j) \/ GatewaySettles(j)

----------------------------------------------------------------------------
(* The collector                                                           *)

OffCollector == UNCHANGED <<gateway, dbVars, netVars, crashes>>

FlushTimer == /\ ~flushDue
              /\ flushDue' = TRUE
              /\ OffCollector /\ UNCHANGED <<members, pc>>

\* repo::fetch_unbatched_done_jobs: in no order, up to batch_size.
Unbatched == {j \in Jobs : rows[j].status = "done" /\ rows[j].batch = NoBatch}
Fetched   == kSubset(Min({BatchSize, Cardinality(Unbatched)}), Unbatched)

\* Mutant: only a full batch is flushed, the timer is not looked at.
ShouldFlushBySize(fetched) == Cardinality(fetched) = BatchSize

ShouldFlush(fetched) == Cardinality(fetched) = BatchSize \/ flushDue

\* The processes that may still have to assign their jobs.
Unassigned == {b \in Batches : pc[b] \in {"creating", "assigning"}}

\* One iteration that flushes: each fetched job is done, hence has a proof
\* path. A poll that fails, finds nothing or does not flush changes nothing.
Poll == \E fetched \in Fetched, b \in Batches :
            /\ fetched # {} /\ ShouldFlush(fetched)
            /\ pc[b] = "none" /\ \A c \in 1..(b - 1) : pc[c] # "none"
            /\ Cardinality(Unassigned) < MaxOverlap
            /\ flushDue' = FALSE
            /\ members' = [members EXCEPT ![b] = fetched]
            /\ pc' = [pc EXCEPT ![b] = "creating"]
            /\ OffCollector

----------------------------------------------------------------------------
(* The process of a batch                                                  *)

Goto(b, from, to) == /\ pc[b] = from
                     /\ pc' = [pc EXCEPT ![b] = to]
OffWorker == UNCHANGED <<gateway, flushDue, members, sent, recorded, settled,
                         crashes>>
OffBatch == OffWorker /\ UNCHANGED files

\* A step that calls Postgres: the `?` after the call ends the process.
WithPostgres(b, from, to, batches1, rows1) ==
    /\ \/ /\ Goto(b, from, to)
          /\ batches' = batches1 /\ rows' = rows1
          /\ UNCHANGED faults
       \/ /\ Goto(b, from, "ended")
          /\ faults < MaxDbFaults /\ faults' = faults + 1
          /\ UNCHANGED <<rows, batches>>
    /\ OffBatch

\* repo::update_batch: what is None in the changeset keeps its value.
BatchStatus(b, status) == [batches EXCEPT ![b].status = status]

CreateBatch(b) ==
    WithPostgres(b, "creating", "assigning", BatchStatus(b, "pending"), rows)

\* Mutant: the assignment leaves the status to the gateway.
AssignOnlyBatch(b) ==
    WithPostgres(b, "assigning", "starting", batches,
        [j \in Jobs |-> IF j \in members[b] THEN [rows[j] EXCEPT !.batch = b]
                                            ELSE rows[j]])

\* repo::assign_jobs_to_batch: whatever the rows say by now.
AssignJobs(b) ==
    WithPostgres(b, "assigning", "starting", batches,
        [j \in Jobs |-> IF j \in members[b]
                        THEN [status |-> "settled", batch |-> b]
                        ELSE rows[j]])

MarkAggregating(b) ==
    WithPostgres(b, "starting", "aggregating", BatchStatus(b, "aggregating"), rows)

\* Mutant: neither the exit code nor the status of the worker is looked at.
WorkerUnchecked(b) == /\ Goto(b, "aggregating", "storing")
                      /\ OffBatch /\ UNCHANGED dbVars

\* aggregator.py, which has no timeout: status "ok" with the path it wrote; an
\* exit code or a status that says failure; or it cannot be run, or its output
\* cannot be used.
WorkerSucceeds(b) == /\ Goto(b, "aggregating", "storing")
                     /\ files' = files \cup {b}
                     /\ OffWorker /\ UNCHANGED dbVars
WorkerFails(b)    == /\ Goto(b, "aggregating", "failing")
                     /\ OffBatch /\ UNCHANGED dbVars
WorkerBreaks(b)   == /\ Goto(b, "aggregating", "ended")
                     /\ OffBatch /\ UNCHANGED dbVars

MarkFailed(b) == WithPostgres(b, "failing", "ended", BatchStatus(b, "failed"), rows)

StoreProof(b) ==
    WithPostgres(b, "storing", "settling",
        [batches EXCEPT ![b].status = "done", ![b].proof = TRUE], rows)

\* Settler::submit: its transaction reaches the network; Ok, with a record of
\* it or of a copy ("already-verified"), which is added here; Err at any time.
SendBatch(b) == /\ pc[b] = "settling" /\ b \notin sent
                /\ sent' = sent \cup {b}
                /\ UNCHANGED <<gateway, dbVars, aggVars, files, recorded,
                               settled, crashes>>

SubmitReturns(b, to) == /\ Goto(b, "settling", to)
                        /\ UNCHANGED <<gateway, dbVars, flushDue, members, files,
                                       sent, settled, crashes>>

\* Mutant: Ok as soon as the transaction is sent.
SubmitSends(b) == b \in sent /\ SubmitReturns(b, "finalizing")
                  /\ UNCHANGED recorded

SubmitOk(b) == /\ b \in sent
               /\ recorded' = recorded \cup {b}
               /\ SubmitReturns(b, "finalizing")

\* Mutant: a batch that cannot be settled is marked failed.
SubmitErrFails(b) == /\ Goto(b, "settling", "failing")
                     /\ OffBatch /\ UNCHANGED dbVars

\* The error is logged and returned, the row stays as it is.
SubmitErr(b) == SubmitReturns(b, "ended") /\ UNCHANGED recorded

\* Mutant: the final status gets the name it has in the jobs table.
FinalizeSettled(b) ==
    WithPostgres(b, "finalizing", "ended",
        [batches EXCEPT ![b] = [status |-> "settled", proof |-> TRUE, tx |-> TRUE]],
        rows)

FinalizeBatch(b) ==
    WithPostgres(b, "finalizing", "ended",
        [batches EXCEPT ![b] = [status |-> "done", proof |-> TRUE, tx |-> TRUE]],
        rows)

\* The aggregator is restarted: its loop and its processes are gone.
Crash == /\ crashes < MaxCrashes
         /\ crashes' = crashes + 1
         /\ flushDue' = FALSE
         /\ pc' = [b \in Batches |-> IF pc[b] = "none" THEN "none" ELSE "ended"]
         /\ UNCHANGED <<gateway, dbVars, members, netVars>>

----------------------------------------------------------------------------
Assign(b) == CreateBatch(b) \/ AssignJobs(b)
Worker(b) == WorkerSucceeds(b) \/ WorkerFails(b) \/ WorkerBreaks(b)
Process(b) == \/ Assign(b) \/ MarkAggregating(b) \/ MarkFailed(b)
              \/ StoreProof(b) \/ SendBatch(b) \/ SubmitOk(b) \/ SubmitErr(b)
              \/ FinalizeBatch(b)

Next == \/ \E j \in Jobs : Gateway(j)
        \/ FlushTimer \/ Poll
        \/ \E b \in Batches : Process(b) \/ Worker(b)
        \/ Crash

Spec == Init /\ [][Next]_vars

\* The loop runs for ever and time passes; Tokio runs every process up to its
\* worker. Nothing is assumed of the workers, the gateway and the chains.
FairSpec == /\ Spec
            /\ WF_vars(FlushTimer) /\ WF_vars(Poll)
            /\ \A b \in Batches : WF_vars(Assign(b))

----------------------------------------------------------------------------
(* Properties                                                              *)

TypeOK ==
    /\ gateway \in [Jobs -> GatewayStates]
    /\ rows \in [Jobs -> [status : JobStatuses, batch : Batches \cup {NoBatch}]]
    /\ batches \in [Batches -> [status : BatchStatuses, proof : BOOLEAN,
                                tx : BOOLEAN]]
    /\ flushDue \in BOOLEAN
    /\ members \in [Batches -> SUBSET Jobs]
    /\ pc \in [Batches -> Steps]
    /\ files \subseteq Batches /\ sent \subseteq Batches
    /\ recorded \subseteq Batches /\ settled \subseteq Jobs
    /\ faults \in 0..MaxDbFaults /\ crashes \in 0..MaxCrashes

\* A batch row with a transaction hash is of a batch that StarkNet has on
\* record, and what was ever sent for a batch is a proof that the worker wrote
\* and the row shows: a failed batch is never settled, before or after.
TxIsRecorded == \A b \in Batches : batches[b].tx => b \in recorded
SentIsAggregated ==
    \A b \in sent : b \in files /\ batches[b].proof /\ batches[b].status = "done"

\* A job in a batch is over: whatever the gateway's task still writes to its
\* row, and whichever of two processes assigned it last, it is not done again
\* and no later poll puts it into another batch.
BatchedIsOver ==
    \A j \in Jobs : rows[j].batch # NoBatch =>
        /\ rows[j].status \in {"settled", "failed"}
        /\ j \in members[rows[j].batch]
        /\ batches[rows[j].batch].status # "absent"

\* A batch's row only moves forward, and a proof or a transaction stays: what
\* was aggregated is not failed by what goes wrong later.
Rank(status) == CASE status = "absent"      -> 0
                  [] status = "pending"     -> 1
                  [] status = "aggregating" -> 2
                  [] OTHER                  -> 3
BatchForward ==
    [][\A b \in Batches :
          /\ batches'[b].status # batches[b].status =>
                Rank(batches[b].status) < Rank(batches'[b].status)
          /\ batches[b].proof => batches'[b].proof
          /\ batches[b].tx => batches'[b].tx]_vars

\* Every done job leaves the queue of the collector, however few there are,
\* although processes fail and are lost and two may hold the same job.
DoneIsBatched == \A j \in Jobs : j \in Unbatched ~> j \notin Unbatched

\* "'settled' - proof confirmed on destination chain (all paths, including
\* StarkNet)" (poller.ts:38), at the latest when the batch's process is over.
SettledIsConfirmed ==
    \A j \in Jobs, b \in Batches :
        /\ rows[j] = [status |-> "settled", batch |-> b]
        /\ pc[b] = "ended"
        => b \in recorded \/ j \in settled
============================================================================
