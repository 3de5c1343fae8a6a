# Mugen in TLA+

Mugen turns an ML inference into an on-chain attestation: a client posts a job to
the gateway, a Python process runs the model in EZKL and proves it, the gateway
has the proof verified on Ethereum, and a message from there makes a contract on
StarkNet record the inference. This directory models the parts of the system that
keep state while other parts run, checks them with TLC, and proves with TLAPS their safety
and as much of their progress as it can. Paths are relative to the repository's root.

1. [The system](#1-the-system) · 2. [The modules](#2-the-modules) ·
3. [From code to model](#3-from-code-to-model) · 4. [What the runs check](#4-what-the-runs-check) ·
5. [Fairness](#5-fairness) · 6. [What is proved](#6-what-is-proved) ·
7. [Where code and documentation disagree](#7-where-code-and-documentation-disagree) ·
8. [What is not modelled](#8-what-is-not-modelled) · 9. [Plan](#9-plan)

## 1. The system

| Part | State | Operations | Talks to |
|---|---|---|---|
| Prover manager, `crates/prover-manager` | map of job states in memory, a semaphore, one tokio task per job | `submit`, `status`, `read_proof`, `running_count`, `available_slots` | spawns a worker process per job |
| Proof worker, `prover/worker.py` | a process, its stdin/stdout pipes, the proof file | read stdin, prove, verify, print a result line | the manager, through pipes and an exit |
| Gateway jobs, `crates/gateway` | Postgres table `jobs`; one settlement task per job | `POST /v1/jobs`, `GET /v1/jobs/{id}`, `spawn_settler` | manager (calls), Postgres, settler |
| Settler, `crates/settler` | none of its own; what it holds across awaits | `submit`, `bridge_submit`, `poll_starknet_settlement`, `register_model` | both chains over RPC |
| `InferenceBridge.sol` (L1) | `verified` map | `verifyAndBridge`, `isVerified` | StarkNet messaging |
| `inference_verifier.cairo` (L2) | `verified_inferences`, the whitelist of bridges | `consume_inference_result` (L1 handler), views, the owner's calls | receives messages |
| Batch aggregator, `crates/aggregator` and `prover/aggregator.py` | tables `jobs` and `batches`; a loop, a task and a Python process per batch | fetch, assign, aggregate, settle, finalize | Postgres, the Python worker, the settler |
| `AggregatedVerifier.sol` (L1) | `isVerified`, settlers, owner, pause | `submitBatch`, `allVerified`, the owner's calls | nothing in the repository calls it |
| Proof calldata parser, `ParsedProof` in `crates/settler` | none | `from_file` | the settler's two submissions |
| Model registry, `crates/gateway` and `InferenceVerifier.sol` | table `models`; `models`, `attestations`, settlers, owner, pause | `POST /v1/models`, `upsert_model`, `registerModel`, `submitProof`, the owner's calls | IPFS, Postgres, L1 |
| TypeScript SDK, `sdk` | the call in progress: request, retries, deadline | `verifyInference`, `submitJob`, `pollUntilDone`, `getProof` | the gateway, over HTTP |

How they interact, and why that is hard:

- The gateway hands a job to the manager **before** its row exists, and from then on
  two tasks follow the job without a common lock: `run_job` in the manager and
  `spawn_settler` in the gateway, which polls 120 times and then gives up.
- Every write to Postgres is a call whose failure is at most logged; the next step is
  taken all the same. A restart empties the manager and drops all tasks; nothing is
  resumed.
- A transaction that nobody waits for any more is mined all the same, a message is
  delivered minutes later, and any account may verify the same inference id first.
- The aggregator reads and writes the very rows the settlement tasks write, its loop
  does not wait for its own batch processes, and each of these may stop at any `?`.
- A client learns of all this by polling: each answer is old when it is read, may come from the row
  or from the manager's map, and each request, the `POST` included, is sent again when no answer comes.
- A registration touches IPFS, a contract and Postgres in that order and can fail
  between any two of them; two registrations, or one and a first job, race.

What makes each part correct: the manager never has more provers than slots, loses no
permit and reports Done only with a verified proof; rows never claim what the prover
or the chains do not know, only move forward, and end; an L2 record repeats a
verification on L1 and is written once; what a client returns or throws stays true; a batch row names only settled transactions
and a batched job is never collected again; the models table and the answers of
the registry are true of the contract, whose maps are write-once; no output is settled in
two batches. `PROJECT.json`
lists the hazards line by line, with the properties that cover each.

## 2. The modules

| Module | Models | Uses |
|---|---|---|
| `ProofService` | abstract: what the manager promises (queued → running → done/failed, bounded, every job finishes) | |
| `ProverManager` | the manager's tasks, semaphore, worker process, pipes and timeout | implements `ProofService` |
| `AttestationLedger` | abstract: a map whose entries are written once | |
| `SettlementBridge` | `InferenceBridge.sol`, StarkNet messaging (external), `inference_verifier.cairo` | implements `AttestationLedger` |
| `JobService` | abstract: what the gateway promises a client: row, manager's map, record, and the answers made of them | composes `ProofService` |
| `JobPipeline` | gateway and settler: rows, settlement tasks, transactions, restarts | composes `ProofService` and `SettlementBridge`; implements `JobService` |
| `SdkClient` | the SDK's call, its retries and deadline, requests and answers on their way | composes `JobService` |
| `Aggregator` | collector loop, batch processes, their Python worker, and the settlement tasks' writes | |
| `ContractAccess` | owner, settlers and pause of two L1 contracts | |
| `InferenceVerifier` | the contract `InferenceVerifier.sol` | extends `ContractAccess` |
| `ModelRegistry` | `POST /v1/models`, `upsert_model`, `Settler::register_model` | composes `InferenceVerifier`; its maps implement `AttestationLedger` |
| `AggregatedVerifier` | the contract `AggregatedVerifier.sol` | extends `ContractAccess` |
| `ProofFile` | `ParsedProof::from_file`: a proof.json and the calldata made of it | |
| `ProverManagerProofs`, `SettlementBridgeProofs`, `JobPipelineProofs`, `SdkClientProofs`, `AggregatorProofs`, `ModelRegistryProofs`, `AggregatedVerifierProofs`, `ProofFileProofs` | theorems about the module each extends | |
| `MCJobPipeline`, `MCModelRegistry`, `MCContracts` | values for TLC; `MCContracts` runs `AggregatedVerifier` and `ProofFile` side by side | |

The abstract specifications carry the composition, one on top of the other:

    ProverManager ⇒ ProofService        SettlementBridge ⇒ AttestationLedger
                         └── JobPipeline ──┘
                               ⇓
                           JobService
                               └── SdkClient

`JobPipeline` runs against `ProofService`, not against the manager's tasks, and `SdkClient` against
`JobService`, not against settlement tasks and chains. That is sound because `ProverManager` and
`JobPipeline` are shown to implement them, by TLC on an instance and by TLAPS for all.
`JobPipelineProofs` likewise uses the inductive invariant of `SettlementBridgeProofs` through
`INSTANCE`.

Definitions whose comment starts with "Mutant" are deliberate mistakes, used by no action; each
property is known to fail when the definition after the mutant is replaced by it.

## 3. From code to model

`PROJECT.json` maps each definition to its lines. A step of a model is what the code does
between two awaits, at most one call to another party; its guard comes from the early returns, and
everything else may happen in between.

**ProverManager.** `task[j]` is where `run_job` (manager.rs) stands: `submit` inserts the
record and spawns; `acquire` takes a permit or parks in the semaphore's FIFO queue
(tokio's semaphore, external, hands a permit straight to the first waiter); `run_worker` spawns, writes stdin
and only then waits under the timeout; then the record is written, and the permit
dropped. A payload in `BigPayload` does not fit in the pipe, so its write ends
only when the worker reads. The worker stalls, crashes or prints rubbish anywhere. The
result is decided by stdout alone, as in the code.

**SettlementBridge.** A transaction that reverts changes nothing, so each `require` and
`assert` is a guard. Ids and models are numbers because StarkNet refuses words that are
not felts and because 0 is at the same time an id and the empty slot:
`StoredId` is written from the Cairo storage's zero value, not from a "recorded" flag. Messages are
delivered at any time, in any order, at most once; a refused one stays or is
discarded. The Halo2 verifier's verdict is the input `proofOk`.

**JobPipeline.** `handler[j]` is the `POST` request, `task[j]` the settlement task up to
`Settler::submit` and its three waits, `rows[j]` the Postgres row with what a client sees of
it. `UpdateRow` changes nothing when the row is missing, as an SQL UPDATE does. The inference id
is injective in the job and not 0 (`HashAssumption`: 128 bits of keccak over the job's UUID).
The row's `txHash` keeps apart the gateway's own hash and the word `already-verified`.
`SubmitFails` stands for all error returns of the settler, among them the two that leave a
transaction or a message on its way. An acknowledgement lost after Postgres
committed counts as success: nobody looks at it. A request's handler runs to its
end; a disconnecting client is not modelled. The `Err` of `manager.status` while polling
(main.rs:283) needs a job the manager does not know: only a restart makes one, which also ends the task.

**JobService.** A row is reduced to its status and to which columns are filled; `recorded`
is what StarkNet would say of the job. The gateway writes an error or a transaction hash once
and last (`Unfinished`); it promises no progress, since a row may never be written. `Batch` is the
aggregator's overwriting of rows: the pipeline never takes this step, but the SDK's client has to
live with it. `StatusAnswer` and `ProofAnswer` are `get_job_status` and `get_proof`.

**SdkClient.** A call of `verifyInference` posts, polls and fetches the proof. `posts` and `reply`
are what is on the network; `TellStatus` computes an answer when the gateway gives it, the client
reads it at any later time, or retries instead, so that an answer may be old or lost. The gateway
makes a job of every `POST` it handles: attempt k of call c gets the job `<<c, k>>`. A request that
runs into axios' 30 s timeout is `Retry`, or the failing action once retries are used up. Backoffs
and the polling interval are steps that take any time. `late` is the deadline of `pollUntilDone`,
read where the code reads the clock. A 400 (`PostRefused`) depends on the request only, so that it
answers all attempts or none.

**Aggregator.** A poll picks any set of `BatchSize` unbatched done jobs (or all, if
fewer); `Poll` is an iteration that flushes. Batches are numbered in the order of the
polls instead of by UUID. `WithPostgres` is a call followed by `?`: it happens, or the
process ends. `AssignJobs` overwrites whatever the rows say by then, as `repo.rs` does.
Of the settlement tasks only their writes from "done" on are kept, in the order
`JobPipeline` establishes, without looking at the batch.
`Settler::submit` is abstract: Ok only if the record exists, Err at any time.

**ModelRegistry.** A handler goes through its calls one at a time (lookup, pin,
`isRegisteredModel`, transaction, receipt, upsert); `Fail` is any call failing, the table
refusing a second row with the same name and version, or a restart: the request just ends. `find_model_by_name` returns any row of
the name. The contract's owner and settlers act at any time, and the owner may be
handed to another account or renounced. Which proofs are valid is an input, so
`upgradeVerifier` has no action. `IdOf` need not be injective, because the code hashes name and
version without a separator. `update_model_shape` cannot be reached
(no row of this code has an empty shape) and is left out.

**AggregatedVerifier.** `submitBatch` is one transaction, so its loop is one guard and one union.
The guard must say what the loop does: a hash is compared with the mapping as the earlier turns
left it (`NoneVerified`). `settled` is the log of events. The proof covers no particular hashes, in
the code too: a settler may submit any. Rights are `ContractAccess`, with OpenZeppelin's two-step
ownership spelled out: an offer may be replaced or taken back (`NoRecord` is the zero address).

**ProofFile.** A file is proof numbers and columns of hex strings, already cut into pairs of
digits (after the `0x`, which the code trims). A word is the 32 bytes of its U256, most
significant first (`FromBeSlice` pads them on the left); what is said of it is said byte by byte,
by weight (`ByteOfWeight`), so that no sum over a sequence is needed. `FromFile` follows the code's order of errors, and
`Panicked` is where it would index out of bounds or overfill a word: the settlement task ends and
the row stays "done". EZKL writes no such file.

## 4. What the runs check

| Run | Instance | Question and answer |
|---|---|---|
| `prover_manager` | 3 jobs, 2 slots, payloads that fit | Permits are exact (`PermitAccounting`, `QueueExact`), live provers bounded also across timeouts (`ProverBound`), Done has a verified proof (`DoneHasProof`); every worker ends; the manager implements `ProofService`, safety and liveness. |
| `prover_stall` | 2 jobs, 1 slot, one large payload | *Violation*: a worker that does not read stdin is never killed. |
| `bridge` | 2 bridges, 2 callers, ids {0, 1, 4} and models {1, 4} with field size 4 | A bridge vouches once per id; every L2 record repeats a verified claim; the L2 map is a write-once ledger for ids other than 0; what was bridged is recorded if its bridge stays trusted. |
| `pipeline` | 2 jobs of one model, 1 slot, 1 other caller, 1 failed write, 1 restart | Settled rows are recorded on L2, hashes are the gateway's own, only faults strand a row, what clients are told moves forward; the pipeline implements `JobService`. |
| `pipeline_live` | the same without faults and restarts, with fairness | Every row becomes final even if no chain ever makes progress. |
| `pipeline_timeout` | 2 jobs | *Violation*: a proof after the 120 polls is lost. |
| `sdk` | 1 call with 1 retry (so 2 jobs), 1 slot, 1 restart, with fairness | What `verifyInference` returns is on record for the job it names; `JOB_FAILED` is final unless an aggregator was at work; no job is unknown before a restart; every call returns or throws. |
| `aggregator` | 1 job, 5 processes, 2 at a time, 1 fault, 1 restart, with fairness | Rows and batches stay consistent whatever overlaps, and a done job gets out of the queue even if it never fills a batch. |
| `aggregator_settled` | 1 job, 1 batch | *Violation*: a job of a failed batch stays settled. |
| `registry` | 2 registrations of one model with different artifacts, 1 first job of the same name, 1 other account | Rows agree with the contract, answers are true, the contract's models are write-once, registered rows stay registered. |
| `registry_cid` | the same without the other account | *Violation*: the row's CID may be one the contract does not have. |
| `contracts` | 2 accounts, 3 outputs, batches of up to 2 (and 3 sent); proof files with up to 2 bytes or 2 words of 2 bytes | No output is settled twice, rights end with the last owner; calldata is what the file says, and EZKL's files are never refused. |

**Bounds.** *Slots and jobs*: with three jobs on two slots one waits, both slots can be
released in either order and a hand-over happens while another job starts; two jobs on one
slot are enough for the gateway, whose tasks share nothing but slots and the bridge. *Bridges*: two are needed
for two claims of one id, a third adds no new kind of race. *Polls*: one poll of the
manager and one of StarkNet make "in time" and "too late" both possible; what is safe
is proved for every number. *Faults and restarts*: one of each can
hit every step; more are covered by the proofs. *Retries*: one retry makes two jobs of one call, of which the
client follows either; a third job adds only another that nobody follows. *Batches*: two processes
on the same job and a third after them is the longest history a row can tell apart, and a fault and
a restart use up two or three more; batches of several jobs are covered by the proofs.
*Contracts*: a repeated hash needs a batch of two, one that is too long needs three; two words
show their order, two bytes the order within. The deadlock check is off where the system may stop:
when all jobs are submitted and over, or all requests answered. There is no symmetry reduction.

## 5. Fairness

- *Prover manager*: weak fairness of each `run_job`. Tokio polls every task that is
  woken, and the timer of the timeout is part of the task. Nothing is assumed
  of the Python process, not even that it reads or ends.
- *ProofService*: strong fairness per job. Other jobs may take the slot in
  between, so weak fairness would not do. The semaphore's FIFO queue justifies it, and `ImplementsFairService` checks that.
- *JobPipeline*: weak fairness of the request and of the settlement task of each job, whose waits are all
  timed, and the manager's promise. Nothing is assumed of the two chains.
- *SdkClient*: weak fairness of the call and of its deadline. Axios ends every request
  after 30 s, and clocks run. Nothing is assumed of the network, the gateway or the
  chains: `CallsEnd` holds against a gateway that never answers.
- *SettlementBridge*: StarkNet's sequencer delivers a message it keeps being able to deliver.
- *Aggregator*: weak fairness of the timer, of the polls and of a process up to the assignment
  of its jobs. Nothing is assumed of the Python workers, the gateway or the chains; in particular a worker may hang for ever
  (`batch.rs` has no timeout around it).

TLC checks the liveness properties under these. TLAPS cannot reason about ENABLED; section 6 says
how far the proofs go all the same.

## 6. What is proved

All theorems are for every value of the constants that satisfies the named ASSUMEs of the
modules: finite jobs, positive slots, sizes in Nat, numbers for words, and
`HashAssumption`; in the registry, that CIDs, requests and the words that stand in for them differ.
In each module the argument is `InitInv`, one lemma per action or group of actions, and
`IInv => property`.

- **ProverManagerProofs**: type, permits and queue, prover bound, `SlotReport` (what
  `running_count` and `available_slots` report never exceeds the slots; no run repeats it), verified
  proof behind Done, and `Spec => ImplementsService`. `PermitAccounting` is not inductive alone:
  a hand-over moves a permit to the head of the queue, so the invariant also says that the
  queue holds exactly the parked tasks, each once. The bound on provers needs that a live process belongs
  to a task inside `run_worker` (`LiveOnlyInRunWorker`), `DoneHasProof` that "ok" on stdout,
  a verified file and a dead process go together (`OkChain`). Each step takes or frees
  one permit and adds or removes one holder (`PermitStep`), and what counts are subsets of
  the holders (`CountedByPermits`).
- **SettlementBridgeProofs**: type, uniqueness of claims, backing of records, and
  `Spec => LedgerWriteOnce`. The guard of the Cairo contract reads the stored id; it is exact
  only because records stand under their own id (`GuardExact`), and only for ids
  other than 0. `InboxFromBridges` ties messages to events.
- **JobPipelineProofs**: type and counters, `SettledIsRecorded`, `OwnHashVerified`,
  `OnlyFaultsStrandRows`, `ToldForward` and `Spec => ImplementsJobService`, and on the way
  `RowMatchesProver` and `StatusForward` (which no run repeats), with any number of jobs, outsiders,
  failed writes and restarts. The row is tied to the task's place (`RowFollowsTask`), the task
  to the prover (`ProverKnown`) and to the chain (`ChainKnown`); the bridge's own invariant is part of
  `IInv`, and neither chain forgetting anything is a lemma of `SettlementBridgeProofs`.
  `SettleEnabled` may be either value. `ToldForward` needs that a job without a row never gets
  one late (`NoLateRow`); the refinement, that only a recorded inference is reported settled.
- **SdkClientProofs**: type, `ResultIsRecorded`, `JobFailedIsFinal` and `KnownJobIsFound`, with any
  number of calls, retries and restarts. What the client has read stays true because the service
  only moves forward: `Lost(j)` (an error, a batch, or a job the manager gave up or forgot) is
  stable, so an old "failed" is as good as a new one.
- **ModelRegistryProofs**: type, `HashIsOfCid`, `AnswerIsTrue`, `RegisteredStays`, and both maps of
  the contract are write-once (`OutputsWriteOnce` has a theorem and no run). The table is tied to
  the contract through the transaction: a mined one put its own CID there (`MinedIsThere`), a row's
  hash is of a mined one (`HashesAreMined`), past the check there is an entry (`CheckedIsThere`),
  and a row is inserted only by the request that is answered with it (`RowsAreAnswered`). Ids may
  collide, and `SettleEnabled` may be either value. Renouncing this contract's ownership is final
  (`RenouncedIsFinal`, which no run repeats): its inductive part is that who renounces withdraws
  every offer (`NoOffer`).
- **AggregatedVerifierProofs**: type, `HashesInOneBatch` and `RenouncedForGood`, for any batch
  size. The invariant is inductive because the mapping is the union of the log: what the guard
  reads in the mapping, `HashesInOneBatch` says of the log. That the hashes of one batch differ is
  the loop's own doing.
- **AggregatorProofs**: type, `TxIsRecorded`, `SentIsAggregated`, `BatchedIsOver` and
  `BatchForward`, with any number of jobs, processes, overlaps, faults and restarts.
  `RowFollowsProcess` ties a batch's row to its process; `BatchedIsOver` needs that a
  collected job's settlement task is past its proof (`CollectedAreProved`): otherwise that
  task could still write "done" over a batched row.

- **ProofFileProofs**: `CalldataIsFile`, for files of any length and words of any number of
  bytes. A string that the code reverses and pads is the word that `IsLittleEndian` says, by the
  lemma `WordIsString`; the rest is that `FromFile` reads columns in order (`ColumnRead`) and that
  the errors and the panics exclude EZKL's own files (`EzklIsParsed`).

**Progress.** Weak fairness of an action A says that A happens if it is enabled from some point
on, and ENABLED is out of the prover's reach. The progress theorems have instead a hypothesis in
which ENABLED is written out: `[]([]Guard => <><<A>>_vars)`, where `Guard` is read off the
conjuncts of A (all the actions bind every primed variable, so that A is enabled where its guard
holds). In each module a lemma `Fairness...` derives that hypothesis from WF_vars(A) and
`[](Guard => ENABLED <<A>>_vars)`; this last implication is the one thing that is read off and
not proved. TLC evaluates ENABLED itself when it checks the liveness properties.

- `WorkersEnd` proves `StartedWorkerEnds`, and `PermitsComeBack` that who has a permit gives it
  back with the job done or failed. Both need a payload that fits in the pipe; `prover_stall` shows
  that without it they fail. From the same hypotheses, `QueueMoves`: every place in the
  semaphore's queue is bettered in the end.
- `BridgedIsServed` proves `BridgedReachesL2`; `NoMessageLost` is the step behind it.
- `TasksComeNearer` and `CallsComeNearer`: `Distance` counts how far a settlement task, or a call of the SDK,
  is from its end. No step of anybody increases it and the task's own steps decrease it, so
  from any distance n it gets below n. At 0 the row is final unless a write failed or the gateway was
  restarted (`NearestIsFinal`), or the call has returned or thrown (`NearestIsOver`). `TasksAreBounded` says
  the same without fairness: a task makes at most `MaxPolls + MaxL2Polls + 8` steps of its own, and is
  not resumed once it is over. That an active
  settlement task always has a step (`ActiveCanRun`) needs that its counter is within its loop
  (`AttemptsInLoop`) and that the manager knows its job (`TaskKnowsJob`). Before its deadline a call goes round in circles at one distance, and
  only its clock brings it nearer.
- `CollectorPolls` and `FetchedIsBatched` are the two halves of `DoneIsBatched`: as long as there is
  something to collect a process is started, and the jobs a process holds leave the queue, unless a call of
  Postgres fails or the aggregator is restarted.

Only model-checked:

- The last step from `TasksComeNearer`, `CallsComeNearer` and `QueueMoves` to `RowsReachFinal`,
  `CallsEnd` and "every job is proved or refused". It is an induction over Nat on a temporal
  formula, and the library's rule takes the formula as an operator parameter, which no
  installed prover can instantiate.
- `DoneIsBatched` as a whole. The collector chooses the jobs, so its proof is an induction
  over the processes left and the mishaps to come.
- `ImplementsFairService`, whose conclusion is a fairness condition, that is, speaks of ENABLED.

## 7. Where code and documentation disagree

Four runs end in a violation; `PROJECT.json` quotes the lines.

1. `prover_stall`: worker.rs:12 promises that the process is killed after `timeout_secs`,
   but stdin is written before the timeout starts.
2. `pipeline_timeout`: main.rs:206 promises that every transition is persisted; the task
   gives up after 60 s while the manager allows 120 s and a queue before that.
3. `aggregator_settled`: "settled" is said to mean confirmed on chain (poller.ts:38);
   the aggregator writes it before it has aggregated anything, and never takes it back.
4. `registry_cid`: main.rs:536 speaks of the confirmed CID; `already-registered` is answered
   without comparing it.

Seen while modelling and not stated as a finding:

- "failed" is said to mean that settlement failed (sdk/README.md:185); a timed-out
  transaction may still be mined and recorded, although the row stays failed.
- `verifyInference` throws `JOB_FAILED` for a "settled" row without a hash (client.ts:131), which is
  what the aggregator writes; the gateway may still settle the job (`JobFailedIsFinal` excludes
  exactly these).
- With settlement disabled the row ends as "done" without a hash, which the poller does not count
  as over: such a call always ends in `TIMEOUT`. poller.ts expects a hash with "done" on the EVM
  path, which no code writes.
- A `POST` that is retried after a timeout is another job, proved and settled at the same cost;
  nothing in the request identifies it.
- The proof fingerprint is called keccak-derived (sdk/README.md:89); client.ts takes the first 32
  bytes of the text of proof.json, and the job id if there is none (after a restart, or for any
  error). A 202 from `get_proof` is a success to the HTTP client, and ends there too.
- Proof bytes above 255 are cut to eight bits, an instance that is no string is the word 0, and an
  odd number of digits, or too many, panics (contract.rs:225, 244, 250, 258).
- Inference id 0 is the empty slot on L2, so a second bridge could replace its record; no
  keccak digest ending in 128 zero bits is known, and the ledger excludes it.
- `get_job_status` answers from the manager's map on *any* database error, not only for jobs without a row (main.rs:666, 678);
  `ToldForward` is stated while Postgres answers.
- The gateway overwrites the "settled" of a batched row by "failed" when its own settlement fails.
- batch.rs:188 speaks of the AggregatedVerifier contract; `Settler::submit` calls the bridge, and
  nothing calls `submitBatch`.
- `POST /v1/models` answers with the untruncated keccak (main.rs:126, 552), while the contract
  gets the 128-bit id. A registration that updates a placeholder leaves its version 0.1.0, from
  which jobs go on deriving the model id (`HashIsOfCid` excludes placeholders).
- `submitProof` does not ask whether the model is registered.
- `aggregator.py` re-proves from an empty input and shares `/tmp/{job_id}` files between workers.
- A `BATCH_SIZE` of 0 fetches nothing, ever.

## 8. What is not modelled

- What EZKL computes, and `Verifier.sol`, which it generates: the verdict is an input.
- IPFS client: HTTP calls without state or retries; `Pin` is such a call, and may fail. Web UI, setup
  and deployment scripts: no state of their own that others race for.
- `GET /healthz`, `getJob`, `waitForJob`: read-only, or parts of what is modelled.
- Account nonces of concurrent transactions: the RPC library fills them in. Their effects, a send
  that fails and a transaction that is never mined, are among what `SubmitFails` and the optional
  `MineTx` allow.
- `InferenceBridge.withdraw`, which moves stray ETH only, and `InferenceVerifier.upgradeVerifier`,
  which changes which proofs are valid, an input: for these the two contracts are listed as partly
  modelled.
- The temporary files of `aggregator.py`.

## 9. Plan

Done, in this order: the manager and its service; the bridge and its ledger; the pipeline composed
of both, with proofs; the aggregator with proofs; the registry; the service to clients, the SDK's
client on top of it, the batch contract and the parser; proofs of the registry, the client and the
refinements; the parser's proof, with words as byte strings; progress of every component that has
any.

Left:

1. The aggregator's view of a settlement task as an abstraction of the pipeline, as `JobService` is
   for the client, so that the two models of one table are tied by a refinement. Its rows say less than `JobService`'s
   (no error, no proof path), so the mapping needs a history of how a failed task failed.
2. The registry's row as the source of the pipeline's model id, with the placeholder's version
   0.1.0 followed to L2.
3. Nonces, as state of the gateway's account.
4. The temporary files that the aggregator's workers share.
