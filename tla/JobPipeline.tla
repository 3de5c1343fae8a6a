----------------------------- MODULE JobPipeline ----------------------------
(***************************************************************************)
(* The life of a job through the gateway (crates/gateway/src/main.rs):     *)
(* POST /v1/jobs hands it to the prover manager, inserts its row into      *)
(* Postgres and spawns one settlement task, which polls the manager,       *)
(* submits the proof to the bridge (crates/settler), waits for StarkNet    *)
(* and writes each status to the row.                                      *)
(*                                                                         *)
(* Composed with ProofService (what the prover manager promises) and       *)
(* SettlementBridge (the two chains, with one bridge). Between two steps   *)
(* of a task anything else may happen: other tasks, blocks, messages,      *)
(* other callers of the bridge. A write to Postgres may fail, and the      *)
(* gateway does not look at the outcome; the gateway may crash, which      *)
(* loses the manager's map and every task, and is not recovered from.      *)
(***************************************************************************)
EXTENDS Naturals, FiniteSets

CONSTANTS
    Jobs, MaxConcurrent,            \* see ProofService
    Bridge, Gateway, Outsiders,     \* the bridge, the gateway's L1 account
                                    \* and the other callers of the bridge
    IdOf, ModelOf,                  \* derive_inference_id, derive_model_id
    FieldSize, NoRecord,            \* see SettlementBridge
    SettleEnabled,                  \* AppState.settle_enabled
    MaxPolls,                       \* 120 pending polls of the manager
    MaxL2Polls,                     \* starknet_max_poll_attempts
    MaxDbFaults,                    \* bound: Postgres writes that fail
    MaxCrashes                      \* bound: gateway restarts

ASSUME JobsAssumption == IsFiniteSet(Jobs)
ASSUME BoundsAssumption ==
    /\ MaxConcurrent \in Nat \ {0}
    /\ {MaxPolls, MaxL2Polls, MaxDbFaults, MaxCrashes} \subseteq Nat
ASSUME SettleAssumption == SettleEnabled \in BOOLEAN
\* Both hashes keep the low 128 bits of a keccak digest: they fit a felt. Two
\* jobs have different ids (the job's UUID is hashed), and none has id 0.
ASSUME HashAssumption ==
    /\ FieldSize \in Nat \ {0}
    /\ IdOf \in [Jobs -> 1..(FieldSize - 1)]
    /\ ModelOf \in [Jobs -> 1..(FieldSize - 1)]
    /\ \A i, k \in Jobs : IdOf[i] = IdOf[k] => i = k

VARIABLES
    jobs,                                           \* ProofService
    verified, events, inbox, whitelist, records,    \* SettlementBridge
    handler,    \* the POST /v1/jobs request of each job
    task,       \* where the settlement task of each job is
    attempts,   \* its loop counter
    evmTx,      \* the evm_tx it holds: none, its own hash, already-verified
    tx,         \* its transaction on the network
    rows,       \* the jobs table
    faults,     \* Postgres writes that failed so far
    crashes     \* gateway restarts so far

PS == INSTANCE ProofService
BR == INSTANCE SettlementBridge WITH
          Bridges    <- {Bridge},
          Submitters <- {Gateway} \cup Outsiders,
          Ids        <- {IdOf[j] : j \in Jobs},
          Models     <- {ModelOf[j] : j \in Jobs}

ASSUME NoRecordAssumption == NoRecord \notin BR!Records

chainVars == <<verified, events, inbox, whitelist, records>>
taskVars  == <<task, attempts, evmTx>>
dbVars    == <<rows, faults>>
vars == <<jobs, chainVars, handler, taskVars, tx, dbVars, crashes>>

----------------------------------------------------------------------------
HandlerStates == {"idle", "inserting", "answered", "lost"}
TaskStates == {"none", "starting", "polling", "storing", "checking", "sending",
               "confirming", "awaiting", "settling", "failing", "ended"}
Statuses == {"absent", "queued", "running", "done", "settled", "failed"}
Errors   == {"none", "prover", "timeout", "settlement"}
Hashes   == {"none", "own", "already-verified"}
TxStates == {"none", "pending", "mined", "reverted"}
Rows == [status : Statuses, proof : BOOLEAN, error : Errors, txHash : Hashes]

NoRow  == [status |-> "absent", proof |-> FALSE, error |-> "none",
           txHash |-> "none"]
NewRow == [NoRow EXCEPT !.status = "queued"]

HasRow(j) == rows[j].status # "absent"

Init == /\ PS!Init
        /\ BR!Init
        /\ handler  = [j \in Jobs |-> "idle"]
        /\ task     = [j \in Jobs |-> "none"]
        /\ attempts = [j \in Jobs |-> 0]
        /\ evmTx    = [j \in Jobs |-> "none"]
        /\ tx       = [j \in Jobs |-> "none"]
        /\ rows     = [j \in Jobs |-> NoRow]
        /\ faults   = 0
        /\ crashes  = 0

----------------------------------------------------------------------------
(* Postgres                                                                *)

WriteFails == /\ faults < MaxDbFaults
              /\ faults' = faults + 1
              /\ UNCHANGED rows

\* repo::insert_job
InsertRow(j) == \/ rows' = [rows EXCEPT ![j] = NewRow] /\ UNCHANGED faults
                \/ WriteFails

\* repo::update_job: no effect on a row that is not there; the columns that
\* are None in the changeset keep their values.
UpdateRow(j, row) ==
    \/ /\ rows' = [rows EXCEPT ![j] = IF HasRow(j) THEN row ELSE @]
       /\ UNCHANGED faults
    \/ WriteFails

----------------------------------------------------------------------------
(* POST /v1/jobs                                                           *)

\* The request is valid, its model found or inserted; manager.submit().
SubmitJob(j) == /\ handler[j] = "idle"
                /\ handler' = [handler EXCEPT ![j] = "inserting"]
                /\ PS!Submit(j)
                /\ UNCHANGED <<chainVars, taskVars, tx, dbVars, crashes>>

\* insert_job, whose failure is only logged; then spawn_settler and 202.
PersistJob(j) == /\ handler[j] = "inserting"
                 /\ handler' = [handler EXCEPT ![j] = "answered"]
                 /\ InsertRow(j)
                 /\ task' = [task EXCEPT ![j] = "starting"]
                 /\ UNCHANGED <<jobs, chainVars, attempts, evmTx, tx, crashes>>

\* GET /v1/jobs/{id}: the row if Postgres answers with one, else what the
\* manager's map says.
FromManager(j) == [NoRow EXCEPT !.status = jobs[j], !.proof = jobs[j] = "done"]

\* Mutant: of a row that is still queued the manager is asked.
GetJobStatusAhead(j, dbOk) == IF dbOk /\ rows[j].status \notin {"absent", "queued"}
                              THEN rows[j] ELSE FromManager(j)

GetJobStatus(j, dbOk) == IF dbOk /\ HasRow(j) THEN rows[j] ELSE FromManager(j)

----------------------------------------------------------------------------
(* The settlement task: polling the manager                                *)

Goto(j, from, to) == /\ task[j] = from
                     /\ task' = [task EXCEPT ![j] = to]

\* The parts that the steps on this side of the bridge leave alone.
OffChain == UNCHANGED <<jobs, chainVars, handler, tx, crashes>>

MarkRunning(j) == /\ Goto(j, "starting", "polling")
                  /\ UpdateRow(j, [rows[j] EXCEPT !.status = "running"])
                  /\ OffChain /\ UNCHANGED <<attempts, evmTx>>

PollDone(j) == /\ jobs[j] = "done"
               /\ Goto(j, "polling", "storing")
               /\ attempts' = [attempts EXCEPT ![j] = 0]
               /\ OffChain /\ UNCHANGED <<evmTx, dbVars>>

PollFailed(j) == /\ jobs[j] = "failed"
                 /\ Goto(j, "polling", "ended")
                 /\ UpdateRow(j, [rows[j] EXCEPT !.status = "failed",
                                                 !.error  = "prover"])
                 /\ OffChain /\ UNCHANGED <<attempts, evmTx>>

Pending(j) == jobs[j] \in {"queued", "running"}

\* Mutant: the attempts are counted but not bounded.
PollForEver(j) == /\ task[j] = "polling"
                  /\ Pending(j)
                  /\ attempts' = [attempts EXCEPT ![j] = @ + 1]
                  /\ OffChain /\ UNCHANGED <<task, evmTx, dbVars>>

PollPending(j) == /\ task[j] = "polling"
                  /\ Pending(j)
                  /\ attempts[j] < MaxPolls
                  /\ attempts' = [attempts EXCEPT ![j] = @ + 1]
                  /\ OffChain /\ UNCHANGED <<task, evmTx, dbVars>>

\* Mutant: the task gives up without a word to the row.
PollGivesUpSilently(j) == /\ Pending(j)
                          /\ attempts[j] = MaxPolls
                          /\ Goto(j, "polling", "ended")
                          /\ OffChain /\ UNCHANGED <<attempts, evmTx, dbVars>>

PollGivesUp(j) == /\ Pending(j)
                  /\ attempts[j] = MaxPolls
                  /\ Goto(j, "polling", "ended")
                  /\ UpdateRow(j, [rows[j] EXCEPT !.status = "failed",
                                                  !.error  = "timeout"])
                  /\ OffChain /\ UNCHANGED <<attempts, evmTx>>

MarkDone(j) == /\ Goto(j, "storing", IF SettleEnabled THEN "checking"
                                                      ELSE "ended")
               /\ UpdateRow(j, [rows[j] EXCEPT !.status = "done",
                                               !.proof  = TRUE])
               /\ OffChain /\ UNCHANGED <<attempts, evmTx>>

----------------------------------------------------------------------------
(* The settlement task: Settler::submit                                    *)

\* isVerified(): the replay guard, read before the transaction is sent.
CheckVerified(j) ==
    /\ Goto(j, "checking", IF BR!IsVerified(Bridge, IdOf[j])
                           THEN "awaiting" ELSE "sending")
    /\ evmTx' = [evmTx EXCEPT ![j] = IF BR!IsVerified(Bridge, IdOf[j])
                                     THEN "already-verified" ELSE @]
    /\ OffChain /\ UNCHANGED <<attempts, dbVars>>

SendTx(j) == /\ Goto(j, "sending", "confirming")
             /\ tx' = [tx EXCEPT ![j] = "pending"]
             /\ UNCHANGED <<jobs, chainVars, handler, attempts, evmTx, dbVars,
                            crashes>>

\* Mutant: the status in the receipt is not looked at.
ReceiptOfAny(j) == /\ tx[j] \in {"mined", "reverted"}
                   /\ Goto(j, "confirming", "awaiting")
                   /\ evmTx' = [evmTx EXCEPT ![j] = "own"]
                   /\ OffChain /\ UNCHANGED <<attempts, dbVars>>

Receipt(j) == /\ tx[j] = "mined"
              /\ Goto(j, "confirming", "awaiting")
              /\ evmTx' = [evmTx EXCEPT ![j] = "own"]
              /\ OffChain /\ UNCHANGED <<attempts, dbVars>>

\* Mutant: any answer of the StarkNet node ends the poll.
PollAnswered(j) == /\ attempts[j] < MaxL2Polls
                   /\ Goto(j, "awaiting", "settling")
                   /\ OffChain /\ UNCHANGED <<attempts, evmTx, dbVars>>

\* poll_starknet_settlement: a poll that sees the record ends it; a poll that
\* does not, or an RPC error, uses up one of MaxL2Polls attempts.
PollRecorded(j) == /\ attempts[j] < MaxL2Polls
                   /\ BR!IsInferenceVerified(IdOf[j])
                   /\ Goto(j, "awaiting", "settling")
                   /\ OffChain /\ UNCHANGED <<attempts, evmTx, dbVars>>

PollUnrecorded(j) == /\ task[j] = "awaiting"
                     /\ attempts[j] < MaxL2Polls
                     /\ attempts' = [attempts EXCEPT ![j] = @ + 1]
                     /\ OffChain /\ UNCHANGED <<task, evmTx, dbVars>>

\* Each way to an Err: unset configuration, unreadable proof file or RPC
\* error; error on send; TxTimeout, TxReverted or RPC error while the
\* transaction may still be mined; a StarkNet configuration that does not
\* parse, before the first poll; StarknetTimeout.
SubmitFails(j) == /\ \/ task[j] \in {"checking", "sending", "confirming"}
                     \/ /\ task[j] = "awaiting"
                        /\ attempts[j] \in {0, MaxL2Polls}
                  /\ task' = [task EXCEPT ![j] = "failing"]
                  /\ OffChain /\ UNCHANGED <<attempts, evmTx, dbVars>>

MarkSettled(j) == /\ Goto(j, "settling", "ended")
                  /\ UpdateRow(j, [rows[j] EXCEPT !.status = "settled",
                                                  !.txHash = evmTx[j]])
                  /\ OffChain /\ UNCHANGED <<attempts, evmTx>>

\* Mutant: after a failed settlement the task starts over.
MarkFailedAndRetry(j) ==
    /\ Goto(j, "failing", "starting")
    /\ UpdateRow(j, [rows[j] EXCEPT !.status = "failed",
                                    !.error  = "settlement"])
    /\ OffChain /\ UNCHANGED <<attempts, evmTx>>

\* Mutant: a failed settlement is only logged.
MarkFailedInLog(j) == /\ Goto(j, "failing", "ended")
                      /\ OffChain /\ UNCHANGED <<attempts, evmTx, dbVars>>

MarkFailed(j) == /\ Goto(j, "failing", "ended")
                 /\ UpdateRow(j, [rows[j] EXCEPT !.status = "failed",
                                                 !.error  = "settlement"])
                 /\ OffChain /\ UNCHANGED <<attempts, evmTx>>

----------------------------------------------------------------------------
(* The rest of the world                                                   *)

OffGateway == UNCHANGED <<handler, taskVars, dbVars, crashes>>

\* The prover manager works on.
Prove(j) == PS!Serve(j) /\ OffGateway /\ UNCHANGED <<chainVars, tx>>

\* A pending transaction is mined: the bridge takes it or it reverts (the id
\* was verified meanwhile, the proof is refused, the fee is too low).
MineTx(j) == /\ tx[j] = "pending"
             /\ tx' = [tx EXCEPT ![j] = "mined"]
             /\ BR!VerifyAndBridge(Bridge, IdOf[j], ModelOf[j], Gateway, TRUE)
             /\ OffGateway /\ UNCHANGED jobs

RevertTx(j) == /\ tx[j] = "pending"
               /\ tx' = [tx EXCEPT ![j] = "reverted"]
               /\ OffGateway /\ UNCHANGED <<jobs, chainVars>>

\* Somebody else verifies an id first, under any model; messages; the owner.
OthersBridge == \E j, k \in Jobs, o \in Outsiders :
                   BR!VerifyAndBridge(Bridge, IdOf[j], ModelOf[k], o, TRUE)
ChainStep == /\ OthersBridge \/ BR!Message \/ BR!Owner(Bridge)
             /\ OffGateway /\ UNCHANGED <<jobs, tx>>

\* The gateway's process dies and is started again: main() starts with an
\* empty manager and resumes nothing.
Crash == /\ crashes < MaxCrashes
         /\ crashes' = crashes + 1
         /\ PS!Restart
         /\ task' = [j \in Jobs |-> IF task[j] = "none" THEN "none" ELSE "ended"]
         /\ handler' = [j \in Jobs |-> IF handler[j] = "inserting"
                                       THEN "lost" ELSE handler[j]]
         /\ attempts' = [j \in Jobs |-> 0]
         /\ evmTx' = [j \in Jobs |-> "none"]
         /\ UNCHANGED <<chainVars, tx, dbVars>>

----------------------------------------------------------------------------
PollManager(j) == \/ MarkRunning(j) \/ PollDone(j) \/ PollFailed(j)
                  \/ PollPending(j) \/ PollGivesUp(j) \/ MarkDone(j)
Submit(j) == \/ CheckVerified(j) \/ SendTx(j) \/ Receipt(j)
             \/ PollRecorded(j) \/ PollUnrecorded(j) \/ SubmitFails(j)
             \/ MarkSettled(j) \/ MarkFailed(j)
Settler(j) == PollManager(j) \/ Submit(j)

Next == \/ \E j \in Jobs : \/ SubmitJob(j) \/ PersistJob(j) \/ Settler(j)
                           \/ Prove(j) \/ MineTx(j) \/ RevertTx(j)
        \/ ChainStep
        \/ Crash

Spec == Init /\ [][Next]_vars

\* Tokio runs the request and the settlement task of every job (all their
\* waits are timed); the manager keeps its promise. Nothing is promised of the
\* two chains: a transaction may stay pending, a message undelivered.
FairSpec == /\ Spec
            /\ \A j \in Jobs : /\ WF_vars(PersistJob(j))
                               /\ WF_vars(Settler(j))
                               /\ SF_vars(Prove(j))

----------------------------------------------------------------------------
(* Properties                                                              *)

TypeOK == /\ PS!TypeOK /\ BR!TypeOK
          /\ handler  \in [Jobs -> HandlerStates]
          /\ task     \in [Jobs -> TaskStates]
          /\ attempts \in [Jobs -> 0..(MaxPolls + MaxL2Polls)]
          /\ evmTx    \in [Jobs -> Hashes]
          /\ tx       \in [Jobs -> TxStates]
          /\ rows     \in [Jobs -> Rows]
          /\ faults   \in 0..MaxDbFaults
          /\ crashes  \in 0..MaxCrashes

\* A row says settled only of an inference that the StarkNet contract has on
\* record: "proof confirmed on destination chain" (poller.ts:38), whoever
\* bridged it and whatever was lost on the way.
SettledIsRecorded ==
    \A j \in Jobs :
        rows[j].status = "settled" => BR!IsInferenceVerified(IdOf[j])

\* A transaction hash in a row is the one that verified this job's proof under
\* this job's model, sent by the gateway itself; when another caller was first
\* the row says "already-verified" and not the hash of a reverted transaction.
OwnHashVerified ==
    \A j \in Jobs : rows[j].txHash = "own" =>
        /\ rows[j].status = "settled"
        /\ [bridge |-> Bridge, id |-> IdOf[j], model |-> ModelOf[j],
            submitter |-> Gateway] \in events

\* A row never contradicts the prover: done and settled rows, and rows with a
\* proof path, have a finished proof, "prover" errors a failed one (a restart
\* forgets the prover's side).
RowMatchesProver ==
    crashes = 0 =>
        \A j \in Jobs :
            /\ rows[j].status \in {"done", "settled"} \/ rows[j].proof
                  => jobs[j] = "done"
            /\ rows[j].error = "prover" => jobs[j] = "failed"

\* What the clients of the gateway build on (module JobService; no aggregator
\* is at work here): rows move forward, say done of proofs that are finished
\* and settled of inferences that are on record, the error or the transaction
\* is the last thing written, and no job is given to the manager twice.
JS == INSTANCE JobService WITH
          accepted <- {j \in Jobs : handler[j] # "idle"},
          rows     <- [j \in Jobs |-> [status |-> rows[j].status,
                                       proof  |-> rows[j].proof,
                                       error  |-> rows[j].error # "none",
                                       tx     |-> rows[j].txHash # "none",
                                       batch  |-> FALSE]],
          recorded <- {j \in Jobs : BR!IsInferenceVerified(IdOf[j])}
ImplementsJobService == JS!Spec

\* "queued -> running -> done -> settled | failed" (README.md:264): a status
\* may be skipped when a write fails, but never goes back, and settled and
\* failed are final.
Rank(status) == CASE status = "absent"  -> 0
                  [] status = "queued"  -> 1
                  [] status = "running" -> 2
                  [] status = "done"    -> 3
                  [] OTHER              -> 4
StatusForward ==
    [][\A j \in Jobs :
          rows'[j].status # rows[j].status =>
             Rank(rows[j].status) < Rank(rows'[j].status)]_vars

\* When the settlement task is over, the row has its final status. Only a
\* failed write or a restart leaves a row that no task will ever finish.
Final == {"failed", IF SettleEnabled THEN "settled" ELSE "done"}
OnlyFaultsStrandRows ==
    \A j \in Jobs :
        task[j] = "ended" /\ HasRow(j) /\ rows[j].status \notin Final
            => faults + crashes > 0

\* Every persisted job reaches its final status, even when the manager never
\* finishes it, no transaction is ever mined and no message is delivered.
RowsReachFinal ==
    \A j \in Jobs : HasRow(j) ~> rows[j].status \in Final

\* "Tracks the job through its full lifecycle and persists every state
\* transition to Postgres" (main.rs:206-207): a finished proof gets into the
\* row.
DoneIsPersisted == \A j \in Jobs : jobs[j] = "done" ~> rows[j].proof

\* A client that polls a job sees its status only move forward, whether the
\* answers come from the row or, when the insert failed, from the manager
\* (while Postgres answers, and until a restart forgets the manager's jobs).
ToldForward ==
    [][\A j \in Jobs :
          handler[j] = "answered" /\ crashes' = crashes =>
             Rank(GetJobStatus(j, TRUE).status) <=
                Rank(GetJobStatus(j, TRUE)'.status)]_vars
============================================================================
