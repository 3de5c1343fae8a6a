---------------------------- MODULE ProverManager ---------------------------
(***************************************************************************)
(* The in-memory job manager of crates/prover-manager and the Python       *)
(* worker it spawns (prover/worker.py).                                    *)
(*                                                                         *)
(* Each job is one tokio task, run_job: it waits for a permit of a         *)
(* semaphore, marks its record Running, spawns a worker process, writes    *)
(* the job to its stdin, waits for its output under a timeout, records     *)
(* Done or Failed and drops the permit. Between two of these steps any     *)
(* other task may run; the mutex on the job map is never held across an    *)
(* await, so each critical section is one step.                            *)
(*                                                                         *)
(* The worker is a process of its own: it may be slow, stall, crash, print *)
(* something that is no result, or be killed. The pipe to its stdin has a  *)
(* finite buffer: the payload of a job in BigPayload does not fit in it,   *)
(* so the write ends only when the worker reads.                           *)
(***************************************************************************)
EXTENDS Naturals, FiniteSets, Sequences

CONSTANTS
    Jobs,           \* the job ids (UUIDs: never used twice)
    MaxConcurrent,  \* ProverConfig.max_concurrent
    BigPayload      \* jobs whose JSON payload exceeds the pipe's buffer

ASSUME JobsAssumption == IsFiniteSet(Jobs)
ASSUME MaxConcurrentAssumption == MaxConcurrent \in Nat \ {0}
ASSUME BigPayloadAssumption == BigPayload \subseteq Jobs

VARIABLES
    jobs,       \* HashMap<String, JobRecord>: the state in each record
    task,       \* where the task run_job(j) is
    result,     \* what run_worker returned to the task
    permits,    \* the semaphore's free permits
    waiters,    \* the semaphore's queue: it serves acquirers in FIFO order
    worker,     \* the Python process of the job
    stdout,     \* what that process left on its stdout
    proof       \* the file /tmp/{job_id}_proof.json

vars == <<jobs, task, result, permits, waiters, worker, stdout, proof>>
taskVars == <<task, result, permits, waiters>>
procVars == <<worker, stdout, proof>>

----------------------------------------------------------------------------
JobStates  == {"absent", "queued", "running", "done", "failed"}
TaskStates == {"none", "acquiring", "parked", "marking", "spawning",
               "writing", "waiting", "recording", "releasing", "ended"}
Verdicts   == {"none", "ok", "bad"}
ProcStates == {"none", "booting", "reading", "proving", "verifying", "dead"}
FileStates == {"none", "unverified", "verified"}

Alive == {"booting", "reading", "proving", "verifying"}

\* The tasks that own a permit, from acquire() to the drop of _permit.
HoldingStates == {"marking", "spawning", "writing", "waiting",
                  "recording", "releasing"}
Holders == {j \in Jobs : task[j] \in HoldingStates}

RunningJobs    == {j \in Jobs : jobs[j] = "running"}
RunningCount   == Cardinality(RunningJobs)
AvailableSlots == permits
LiveWorkers    == {j \in Jobs : worker[j] \in Alive}

\* read_proof(): the state must be Done, then the file is read.
ReadProof(j) == IF jobs[j] = "done" THEN proof[j] ELSE "none"

Init == /\ jobs    = [j \in Jobs |-> "absent"]
        /\ task    = [j \in Jobs |-> "none"]
        /\ result  = [j \in Jobs |-> "none"]
        /\ permits = MaxConcurrent
        /\ waiters = <<>>
        /\ worker  = [j \in Jobs |-> "none"]
        /\ stdout  = [j \in Jobs |-> "none"]
        /\ proof   = [j \in Jobs |-> "none"]

----------------------------------------------------------------------------
(* The manager's tasks                                                     *)

Goto(j, from, to) == /\ task[j] = from
                     /\ task' = [task EXCEPT ![j] = to]

\* submit(): the record is inserted and the task spawned without an await.
Submit(j) == /\ jobs[j] = "absent"
             /\ jobs' = [jobs EXCEPT ![j] = "queued"]
             /\ Goto(j, "none", "acquiring")
             /\ UNCHANGED <<result, permits, waiters, procVars>>

\* Mutant: a failed try_acquire() is ignored.
TakePermitRegardless(j) ==
    /\ permits' = IF permits > 0 THEN permits - 1 ELSE 0
    /\ Goto(j, "acquiring", "marking")
    /\ UNCHANGED <<jobs, result, waiters, procVars>>

\* semaphore.acquire(), first poll: a free permit is taken, or the task queues.
TakePermit(j) == /\ permits > 0
                 /\ permits' = permits - 1
                 /\ Goto(j, "acquiring", "marking")
                 /\ UNCHANGED <<jobs, result, waiters, procVars>>

Park(j) == /\ permits = 0
           /\ waiters' = Append(waiters, j)
           /\ Goto(j, "acquiring", "parked")
           /\ UNCHANGED <<jobs, result, permits, procVars>>

MarkRunning(j) == /\ Goto(j, "marking", "spawning")
                  /\ jobs' = [jobs EXCEPT ![j] = "running"]
                  /\ UNCHANGED <<result, permits, waiters, procVars>>

SpawnWorker(j) == /\ Goto(j, "spawning", "writing")
                  /\ worker' = [worker EXCEPT ![j] = "booting"]
                  /\ UNCHANGED <<jobs, result, permits, waiters, stdout, proof>>

\* run_worker returns to run_job with a verdict.
Return(j, from, verdict) == /\ Goto(j, from, "recording")
                            /\ result' = [result EXCEPT ![j] = verdict]
                            /\ UNCHANGED <<jobs, permits, waiters>>

SpawnFails(j) == Return(j, "spawning", "bad") /\ UNCHANGED procVars

\* stdin.write_all(): outside the timeout. A payload larger than the pipe
\* needs a worker that reads; a worker that is gone breaks the pipe.
WriteStdin(j) == /\ worker[j] # "dead"
                 /\ j \in BigPayload => worker[j] = "reading"
                 /\ Goto(j, "writing", "waiting")
                 /\ UNCHANGED <<jobs, result, permits, waiters, procVars>>

StdinBroken(j) == /\ worker[j] = "dead"
                  /\ Return(j, "writing", "bad")
                  /\ UNCHANGED procVars

\* The process ended: its stdout decides (empty, unparsable and "error"
\* lines are errors; the exit code is not looked at).
CollectOutput(j) == /\ worker[j] = "dead"
                    /\ Return(j, "waiting", stdout[j])
                    /\ UNCHANGED procVars

\* Mutant: the child is dropped without kill_on_drop.
TimeoutAbandons(j) == /\ Return(j, "waiting", "bad")
                      /\ UNCHANGED procVars

\* The timeout fires: the child is dropped, and kill_on_drop kills it.
Timeout(j) == /\ Return(j, "waiting", "bad")
              /\ worker' = [worker EXCEPT ![j] = "dead"]
              /\ UNCHANGED <<stdout, proof>>

\* Mutant: whatever run_worker returned counts as a proof.
RecordAlwaysDone(j) == /\ Goto(j, "recording", "releasing")
                       /\ jobs' = [jobs EXCEPT ![j] = "done"]
                       /\ UNCHANGED <<result, permits, waiters, procVars>>

RecordResult(j) == /\ Goto(j, "recording", "releasing")
                   /\ jobs' = [jobs EXCEPT ![j] = IF result[j] = "ok"
                                                  THEN "done" ELSE "failed"]
                   /\ UNCHANGED <<result, permits, waiters, procVars>>

\* Mutant: the permit is released explicitly and dropped as well.
FreePermitTwice(j) == /\ waiters = <<>>
                      /\ permits' = permits + 2
                      /\ Goto(j, "releasing", "ended")
                      /\ UNCHANGED <<jobs, result, waiters, procVars>>

\* Mutant: the permit goes back to the semaphore past the queue.
FreePermitBarging(j) == /\ permits' = permits + 1
                        /\ Goto(j, "releasing", "ended")
                        /\ UNCHANGED <<jobs, result, waiters, procVars>>

\* The permit is dropped after the map's lock: it goes to the first waiter,
\* or back to the semaphore.
FreePermit(j) == /\ waiters = <<>>
                 /\ permits' = permits + 1
                 /\ Goto(j, "releasing", "ended")
                 /\ UNCHANGED <<jobs, result, waiters, procVars>>

\* Mutant: the first waiter gets the permit and the semaphore too.
HandOverKeeps(j) == /\ waiters # <<>>
                    /\ task[j] = "releasing"
                    /\ task' = [task EXCEPT ![j] = "ended",
                                            ![Head(waiters)] = "marking"]
                    /\ waiters' = Tail(waiters)
                    /\ permits' = permits + 1
                    /\ UNCHANGED <<jobs, result, procVars>>

\* Mutant: the permit is returned and nobody is woken.
HandOverLosesWakeUp(j) == /\ waiters # <<>>
                          /\ permits' = permits + 1
                          /\ Goto(j, "releasing", "ended")
                          /\ UNCHANGED <<jobs, result, waiters, procVars>>

HandOver(j) == /\ waiters # <<>>
               /\ task[j] = "releasing"
               /\ task' = [task EXCEPT ![j] = "ended",
                                       ![Head(waiters)] = "marking"]
               /\ waiters' = Tail(waiters)
               /\ UNCHANGED <<jobs, result, permits, procVars>>

----------------------------------------------------------------------------
(* The worker process                                                      *)

\* import ezkl is over; stdin is read up to its end.
WorkerReads(j) == /\ worker[j] = "booting"
                  /\ worker' = [worker EXCEPT ![j] = "reading"]
                  /\ UNCHANGED <<jobs, taskVars, stdout, proof>>

\* End of file on stdin: the manager has written everything and closed it.
WorkerStarts(j) == /\ worker[j] = "reading"
                   /\ task[j] = "waiting"
                   /\ worker' = [worker EXCEPT ![j] = "proving"]
                   /\ UNCHANGED <<jobs, taskVars, stdout, proof>>

\* ezkl.prove writes the proof file, ezkl.verify has still to accept it.
WorkerProves(j) == /\ worker[j] = "proving"
                   /\ worker' = [worker EXCEPT ![j] = "verifying"]
                   /\ proof' = [proof EXCEPT ![j] = "unverified"]
                   /\ UNCHANGED <<jobs, taskVars, stdout>>

\* ezkl.verify accepts, "ok" is printed, the process ends.
WorkerSucceeds(j) == /\ worker[j] = "verifying"
                     /\ worker' = [worker EXCEPT ![j] = "dead"]
                     /\ stdout' = [stdout EXCEPT ![j] = "ok"]
                     /\ proof' = [proof EXCEPT ![j] = "verified"]
                     /\ UNCHANGED <<jobs, taskVars>>

\* It reports an error, prints no result line, or crashes, at any time.
WorkerFails(j) == /\ worker[j] \in Alive
                  /\ worker' = [worker EXCEPT ![j] = "dead"]
                  /\ stdout' = [stdout EXCEPT ![j] = "bad"]
                  /\ UNCHANGED <<jobs, taskVars, proof>>

----------------------------------------------------------------------------
Acquire(j) == TakePermit(j) \/ Park(j)
RunWorker(j) == \/ SpawnWorker(j) \/ SpawnFails(j)
                \/ WriteStdin(j) \/ StdinBroken(j)
                \/ CollectOutput(j) \/ Timeout(j)
Release(j) == FreePermit(j) \/ HandOver(j)
RunJob(j) == Acquire(j) \/ MarkRunning(j) \/ RunWorker(j)
                \/ RecordResult(j) \/ Release(j)

Worker(j) == \/ WorkerReads(j) \/ WorkerStarts(j) \/ WorkerProves(j)
             \/ WorkerSucceeds(j) \/ WorkerFails(j)

Next == \E j \in Jobs : Submit(j) \/ RunJob(j) \/ Worker(j)

Spec == Init /\ [][Next]_vars

\* Tokio polls every task that can make progress, and the timer fires: weak
\* fairness of each task. The worker owes nothing: it may stall anywhere.
FairSpec == Spec /\ \A j \in Jobs : WF_vars(RunJob(j))

----------------------------------------------------------------------------
(* Properties                                                              *)

TypeOK == /\ jobs    \in [Jobs -> JobStates]
          /\ task    \in [Jobs -> TaskStates]
          /\ result  \in [Jobs -> Verdicts]
          /\ permits \in 0..MaxConcurrent
          /\ waiters \in Seq(Jobs)
          /\ worker  \in [Jobs -> ProcStates]
          /\ stdout  \in [Jobs -> Verdicts]
          /\ proof   \in [Jobs -> FileStates]

\* Every permit is free or owned by exactly one task: none is lost on an
\* error path of run_worker, none is returned twice by a hand-over.
PermitAccounting == permits + Cardinality(Holders) = MaxConcurrent

\* The queue holds each waiting task once, and nobody waits while a permit
\* is free: no lost wake-up, and no task overtakes the queue.
QueueExact == /\ \A j \in Jobs : task[j] = "parked" <=>
                     \E i \in DOMAIN waiters : waiters[i] = j
              /\ \A i, k \in DOMAIN waiters :
                     waiters[i] = waiters[k] => i = k
              /\ waiters # <<>> => permits = 0

\* No more Python provers are alive than max_concurrent, although a timeout
\* abandons a process that is still busy: a task past run_worker has no
\* live process (kill_on_drop).
ProverBound == Cardinality(LiveWorkers) <= MaxConcurrent

\* running_count() and available_slots(), read together, never promise more
\* slots than there are, although one is read from the map and the other
\* from the semaphore and a finished job keeps its permit for a while.
SlotReport == RunningCount + AvailableSlots <= MaxConcurrent

\* read_proof() of a job reported Done finds a complete proof that the worker
\* verified locally, never a file left by a killed or failed prover.
DoneHasProof == \A j \in Jobs : jobs[j] = "done" => ReadProof(j) = "verified"

\* A started Python process ends: "killed automatically if it exceeds
\* timeout_secs" (worker.rs:12), whatever the process does.
StartedWorkerEnds ==
    \A j \in Jobs : worker[j] \in Alive ~> worker[j] = "dead"

\* The manager implements the service the gateway relies on: as a safety
\* property, and with the promise that every queued job is finished.
PS == INSTANCE ProofService
ImplementsService == PS!Spec
ImplementsFairService == PS!FairSpec
============================================================================
