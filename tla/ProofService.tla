---------------------------- MODULE ProofService ----------------------------
(***************************************************************************)
(* What the prover manager promises the gateway                            *)
(* (crates/prover-manager: submit, status): a map from job ids to job      *)
(* states in which a job is queued, then running, then done or failed, at  *)
(* most MaxConcurrent jobs run at a time, and every queued job is          *)
(* finished. How the manager keeps the promise (the semaphore, the         *)
(* worker process, its stdin and its timeout) is module ProverManager,     *)
(* which implements this one; JobPipeline is composed with this one.       *)
(***************************************************************************)
EXTENDS Naturals, FiniteSets

CONSTANTS
    Jobs,           \* the job ids (UUIDs: never used twice)
    MaxConcurrent   \* ProverConfig.max_concurrent; both as ProverManager assumes

VARIABLE jobs       \* the manager's HashMap<String, JobRecord>, states only

----------------------------------------------------------------------------
JobStates == {"absent", "queued", "running", "done", "failed"}

\* The operation running_count(): how many jobs are in state Running.
RunningJobs  == {j \in Jobs : jobs[j] = "running"}
RunningCount == Cardinality(RunningJobs)

TypeOK == jobs \in [Jobs -> JobStates]

Init == jobs = [j \in Jobs |-> "absent"]

----------------------------------------------------------------------------
Move(j, from, to) == /\ jobs[j] = from
                     /\ jobs' = [jobs EXCEPT ![j] = to]

Submit(j) == Move(j, "absent", "queued")
Start(j)  == RunningCount < MaxConcurrent /\ Move(j, "queued", "running")
Finish(j) == Move(j, "running", "done")
Fail(j)   == Move(j, "running", "failed")

\* The map lives in memory: it is empty when the process starts again. Not a
\* step of this specification; JobPipeline composes it with a crash.
Restart == jobs' = [j \in Jobs |-> "absent"]

Serve(j) == Start(j) \/ Finish(j) \/ Fail(j)
Next == \E j \in Jobs : Submit(j) \/ Serve(j)

\* The manager's own tasks are scheduled; who submits and when is free. The
\* slots are granted first come first served, so a job that can start again
\* and again does start: strong fairness per job is the promise.
Fairness == \A j \in Jobs : SF_jobs(Serve(j))
Spec == Init /\ [][Next]_jobs
FairSpec == Spec /\ Fairness
============================================================================
