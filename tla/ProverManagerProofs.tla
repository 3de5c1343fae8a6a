------------------------ MODULE ProverManagerProofs -------------------------
(***************************************************************************)
(* Proofs about ProverManager, for any finite set of jobs and any number   *)
(* of slots: type correctness, the permit accounting, the bound on Python  *)
(* processes, the proof file behind every Done record, and that the        *)
(* manager implements ProofService; and, when tasks are polled, that       *)
(* permits come back, workers end and the queue moves.                     *)
(***************************************************************************)
EXTENDS ProverManager, FiniteSetTheorems, TLAPS

(***************************************************************************)
(* The inductive invariant: the record of a job, the position of its task  *)
(* and the state of its process move together.                             *)
(***************************************************************************)

\* What the map says of a job follows from where its task is.
RecordFollowsTask ==
    \A j \in Jobs :
        /\ jobs[j] = "absent"  <=> task[j] = "none"
        /\ jobs[j] = "queued"  <=> task[j] \in {"acquiring", "parked", "marking"}
        /\ jobs[j] = "running" <=> task[j] \in {"spawning", "writing",
                                                "waiting", "recording"}

\* A process is alive only while its task is inside run_worker.
LiveOnlyInRunWorker ==
    \A j \in Jobs : worker[j] \in Alive => task[j] \in {"writing", "waiting"}

\* "ok" travels from the verified file to stdout, to the task, to the record.
OkChain ==
    \A j \in Jobs :
        /\ task[j] \in {"none", "acquiring", "parked", "marking", "spawning"}
              => stdout[j] = "none" /\ result[j] = "none"
        /\ stdout[j] = "ok" => worker[j] = "dead" /\ proof[j] = "verified"
        /\ result[j] = "ok" => stdout[j] = "ok"
        /\ jobs[j] = "done" => result[j] = "ok"

IInv == /\ TypeOK
        /\ QueueExact
        /\ PermitAccounting
        /\ RecordFollowsTask
        /\ LiveOnlyInRunWorker
        /\ OkChain

----------------------------------------------------------------------------
(* Facts about the sets that are counted and about the queue               *)

\* The holders of permits are finitely many, and counted by a natural number.
LEMMA HoldersFinite ==
  /\ IsFiniteSet(Holders)
  /\ Cardinality(Holders) \in Nat
<1>1. Holders \in SUBSET Jobs
  BY DEF Holders
<1>2. IsFiniteSet(Holders)
  BY <1>1, JobsAssumption, FS_Subset
<1> QED
  BY <1>2, FS_CardinalityType

\* A subset of the holders has no more members than there are permits in use.
LEMMA CountedByPermits ==
  ASSUME NEW S \in SUBSET Holders, PermitAccounting, TypeOK
  PROVE  /\ IsFiniteSet(S)
         /\ Cardinality(S) \in Nat
         /\ Cardinality(S) + permits <= MaxConcurrent
<1>1. /\ IsFiniteSet(S)
      /\ Cardinality(S) <= Cardinality(Holders)
  BY HoldersFinite, FS_Subset
<1>2. Cardinality(S) \in Nat
  BY <1>1, FS_CardinalityType
<1> QED
  BY <1>1, <1>2, HoldersFinite, MaxConcurrentAssumption
     DEF PermitAccounting, TypeOK

\* Parking: the queue gains the new task at its end and keeps its order.
LEMMA QueueAppend ==
  ASSUME NEW w \in Seq(Jobs), NEW j \in Jobs
  PROVE  /\ Append(w, j) \in Seq(Jobs)
         /\ Append(w, j) # <<>>
         /\ DOMAIN Append(w, j) = 1..(Len(w) + 1)
         /\ \A i \in 1..Len(w) : Append(w, j)[i] = w[i]
         /\ Append(w, j)[Len(w) + 1] = j
         /\ DOMAIN w = 1..Len(w)
         /\ Len(w) \in Nat
  OBVIOUS

\* Handing over: the first of the queue leaves, the others move up by one.
LEMMA QueueTail ==
  ASSUME NEW w \in Seq(Jobs), w # <<>>
  PROVE  /\ Tail(w) \in Seq(Jobs)
         /\ Head(w) \in Jobs
         /\ Head(w) = w[1]
         /\ DOMAIN w = 1..Len(w)
         /\ Len(w) \in Nat \ {0}
         /\ DOMAIN Tail(w) = 1..(Len(w) - 1)
         /\ \A i \in 1..(Len(w) - 1) : Tail(w)[i] = w[i + 1]
  OBVIOUS

----------------------------------------------------------------------------
(* Type correctness                                                        *)

\* Every step keeps every variable in its type. Only the count of permits
\* needs more than the types: a task that releases one does hold one.
LEMMA TypeStep ==
  ASSUME IInv, [Next]_vars
  PROVE  TypeOK'
<1> USE DEF IInv, TypeOK, JobStates, TaskStates, Verdicts, ProcStates,
            FileStates, taskVars, procVars, Goto, Return
<1>1. CASE UNCHANGED vars
  BY <1>1 DEF vars
<1>2. ASSUME NEW j \in Jobs, Submit(j)
      PROVE  TypeOK'
  BY <1>2 DEF Submit
<1>3. ASSUME NEW j \in Jobs, TakePermit(j)
      PROVE  TypeOK'
  BY <1>3, MaxConcurrentAssumption DEF TakePermit
<1>4. ASSUME NEW j \in Jobs, Park(j)
      PROVE  TypeOK'
  BY <1>4, QueueAppend DEF Park
<1>5. ASSUME NEW j \in Jobs, MarkRunning(j)
      PROVE  TypeOK'
  BY <1>5 DEF MarkRunning
<1>6. ASSUME NEW j \in Jobs, RunWorker(j)
      PROVE  TypeOK'
  BY <1>6 DEF RunWorker, SpawnWorker, SpawnFails, WriteStdin, StdinBroken,
              CollectOutput, Timeout
<1>7. ASSUME NEW j \in Jobs, RecordResult(j)
      PROVE  TypeOK'
  BY <1>7 DEF RecordResult
<1>8. ASSUME NEW j \in Jobs, FreePermit(j)
      PROVE  TypeOK'
  <2>1. {j} \in SUBSET Holders
    BY <1>8 DEF FreePermit, Holders, HoldingStates
  <2>2. Cardinality({j}) = 1
    BY FS_Singleton
  <2>3. permits' \in 0..MaxConcurrent
    BY <1>8, <2>1, <2>2, CountedByPermits, MaxConcurrentAssumption
       DEF FreePermit
  <2> QED
    BY <1>8, <2>3 DEF FreePermit
<1>9. ASSUME NEW j \in Jobs, HandOver(j)
      PROVE  TypeOK'
  BY <1>9, QueueTail DEF HandOver
<1>10. ASSUME NEW j \in Jobs, Worker(j)
       PROVE  TypeOK'
  BY <1>10 DEF Worker, WorkerReads, WorkerStarts, WorkerProves,
               WorkerSucceeds, WorkerFails
<1> QED
  BY <1>1, <1>2, <1>3, <1>4, <1>5, <1>6, <1>7, <1>8, <1>9, <1>10
     DEF Next, RunJob, Acquire, Release

----------------------------------------------------------------------------
(* The parts of the inductive invariant                                    *)

\* No step lets a job's record, task, process and output disagree.
LEMMA JobStep ==
  ASSUME IInv, [Next]_vars
  PROVE  RecordFollowsTask' /\ LiveOnlyInRunWorker' /\ OkChain'
<1> USE DEF IInv, TypeOK, JobStates, TaskStates, Verdicts, ProcStates,
            FileStates, Alive, taskVars, procVars, Goto, Return,
            RecordFollowsTask, LiveOnlyInRunWorker, OkChain
<1>1. CASE UNCHANGED vars
  BY <1>1 DEF vars
<1>2. ASSUME NEW j \in Jobs, Submit(j)
      PROVE  RecordFollowsTask' /\ LiveOnlyInRunWorker' /\ OkChain'
  BY <1>2 DEF Submit
<1>3. ASSUME NEW j \in Jobs, Acquire(j)
      PROVE  RecordFollowsTask' /\ LiveOnlyInRunWorker' /\ OkChain'
  BY <1>3 DEF Acquire, TakePermit, Park
<1>4. ASSUME NEW j \in Jobs, MarkRunning(j)
      PROVE  RecordFollowsTask' /\ LiveOnlyInRunWorker' /\ OkChain'
  BY <1>4 DEF MarkRunning
<1>5. ASSUME NEW j \in Jobs, RunWorker(j)
      PROVE  RecordFollowsTask' /\ LiveOnlyInRunWorker' /\ OkChain'
  <2>1. CASE SpawnWorker(j) \/ SpawnFails(j)
    BY <2>1 DEF SpawnWorker, SpawnFails
  <2>2. CASE WriteStdin(j) \/ StdinBroken(j)
    BY <2>2 DEF WriteStdin, StdinBroken
  <2>3. CASE CollectOutput(j)
    BY <2>3 DEF CollectOutput
  <2>4. CASE Timeout(j)
    BY <2>4 DEF Timeout
  <2> QED
    BY <1>5, <2>1, <2>2, <2>3, <2>4 DEF RunWorker
<1>6. ASSUME NEW j \in Jobs, RecordResult(j)
      PROVE  RecordFollowsTask' /\ LiveOnlyInRunWorker' /\ OkChain'
  BY <1>6 DEF RecordResult
<1>7. ASSUME NEW j \in Jobs, FreePermit(j)
      PROVE  RecordFollowsTask' /\ LiveOnlyInRunWorker' /\ OkChain'
  BY <1>7 DEF FreePermit
<1>8. ASSUME NEW j \in Jobs, HandOver(j)
      PROVE  RecordFollowsTask' /\ LiveOnlyInRunWorker' /\ OkChain'
  <2> DEFINE h == Head(waiters)
  <2>1. h \in Jobs /\ task[h] = "parked"
    BY <1>8, QueueTail DEF HandOver, QueueExact
  <2>2. /\ task[j] = "releasing"
        /\ task' = [task EXCEPT ![j] = "ended", ![h] = "marking"]
        /\ UNCHANGED <<jobs, result, worker, stdout, proof>>
    BY <1>8 DEF HandOver
  <2> HIDE DEF h
  <2>3. /\ task'[j] = "ended" /\ task'[h] = "marking"
        /\ \A k \in Jobs \ {j, h} : task'[k] = task[k]
    BY <2>1, <2>2
  <2> QED
    BY <2>1, <2>2, <2>3
<1>9. ASSUME NEW j \in Jobs, Worker(j)
      PROVE  RecordFollowsTask' /\ LiveOnlyInRunWorker' /\ OkChain'
  <2>1. CASE WorkerReads(j) \/ WorkerStarts(j) \/ WorkerProves(j)
    BY <2>1 DEF WorkerReads, WorkerStarts, WorkerProves
  <2>2. CASE WorkerSucceeds(j) \/ WorkerFails(j)
    BY <2>2 DEF WorkerSucceeds, WorkerFails
  <2> QED
    BY <1>9, <2>1, <2>2 DEF Worker
<1> QED
  BY <1>1, <1>2, <1>3, <1>4, <1>5, <1>6, <1>7, <1>8, <1>9
     DEF Next, RunJob, Release

\* Tasks enter the queue when they park and leave it from its head.
LEMMA QueueStep ==
  ASSUME IInv, [Next]_vars
  PROVE  QueueExact'
<1> USE DEF IInv, TypeOK, QueueExact, taskVars, procVars, Goto, Return
<1>1. CASE UNCHANGED <<task, permits, waiters>>
  BY <1>1
<1>2. ASSUME NEW j \in Jobs, task[j] # "parked", permits' = permits,
             waiters' = waiters,
             NEW to, to # "parked", task' = [task EXCEPT ![j] = to]
      PROVE  QueueExact'
  BY <1>2
<1>3. ASSUME NEW j \in Jobs, TakePermit(j)
      PROVE  QueueExact'
  <2>1. waiters = <<>>
    BY <1>3 DEF TakePermit
  <2> QED
    BY <1>3, <2>1 DEF TakePermit
<1>4. ASSUME NEW j \in Jobs, Park(j)
      PROVE  QueueExact'
  <2>1. waiters' = Append(waiters, j) /\ task' = [task EXCEPT ![j] = "parked"]
        /\ permits' = 0 /\ task[j] # "parked"
    BY <1>4 DEF Park
  <2> DEFINE n == Len(waiters) + 1
  <2>2. /\ n \in Nat \ {0} /\ DOMAIN waiters = 1..(n - 1)
        /\ DOMAIN waiters' = 1..n /\ waiters'[n] = j
        /\ \A i \in 1..(n - 1) : waiters'[i] = waiters[i]
    BY <2>1, QueueAppend
  <2>3. \A i \in 1..(n - 1) : waiters[i] # j
    BY <2>1, <2>2
  <2> HIDE DEF n
  <2>4. \A k \in Jobs : task'[k] = "parked" <=>
                          \E i \in DOMAIN waiters' : waiters'[i] = k
    <3> TAKE k \in Jobs
    <3>1. CASE k = j
      <4>1. task'[k] = "parked"
        BY <2>1, <3>1
      <4>2. n \in DOMAIN waiters' /\ waiters'[n] = k
        BY <2>2, <3>1
      <4> QED
        BY <4>1, <4>2
    <3>2. CASE k # j
      <4>1. task'[k] = task[k]
        BY <2>1, <3>2
      <4>2. (\E i \in 1..n : waiters'[i] = k) <=> \E i \in 1..(n - 1) : waiters[i] = k
        BY <2>2, <3>2
      <4>3. task[k] = "parked" <=> \E i \in 1..(n - 1) : waiters[i] = k
        BY <2>2
      <4>4. DOMAIN waiters' = 1..n
        BY <2>2
      <4>5. task'[k] = "parked" <=> \E i \in 1..n : waiters'[i] = k
        BY ONLY <4>1, <4>2, <4>3
      <4> QED
        BY ONLY <4>4, <4>5
    <3> QED
      BY <3>1, <3>2
  <2>5. \A i, k \in DOMAIN waiters' : waiters'[i] = waiters'[k] => i = k
    BY <2>2, <2>3
  <2> QED
    BY <2>1, <2>4, <2>5
<1>5. ASSUME NEW j \in Jobs, HandOver(j)
      PROVE  QueueExact'
  <2> DEFINE h == Head(waiters)
             n == Len(waiters)
  <2>1. /\ waiters # <<>> /\ waiters' = Tail(waiters)
        /\ task[j] = "releasing" /\ permits' = permits
        /\ task' = [task EXCEPT ![j] = "ended", ![h] = "marking"]
    BY <1>5 DEF HandOver
  <2>2. /\ h \in Jobs /\ h = waiters[1] /\ n \in Nat \ {0}
        /\ DOMAIN waiters = 1..n /\ DOMAIN waiters' = 1..(n - 1)
        /\ \A i \in 1..(n - 1) : waiters'[i] = waiters[i + 1]
    BY <2>1, QueueTail
  <2>3. \A i \in 2..n : waiters[i] # h
    BY <2>2
  <2>4. task[h] = "parked"
    BY <2>2
  <2> HIDE DEF h, n
  <2>5. \A k \in Jobs : task'[k] = "parked" <=>
                          \E i \in DOMAIN waiters' : waiters'[i] = k
    <3> TAKE k \in Jobs
    <3>1. CASE k = h \/ k = j
      <4>1. task'[k] # "parked"
        BY <2>1, <2>2, <3>1
      <4>2. \A i \in 2..n : waiters[i] # k
        BY <2>1, <2>2, <2>3, <3>1
      <4>3. \A i \in 1..(n - 1) : i + 1 \in 2..n
        BY <2>2
      <4> QED
        BY <2>2, <4>1, <4>2, <4>3
    <3>2. CASE k # h /\ k # j
      <4>1. task'[k] = task[k]
        BY <2>1, <2>2, <3>2
      <4>2. \A i \in 1..n : waiters[i] = k => i - 1 \in 1..(n - 1)
        BY <2>2, <3>2
      <4>3. \A i \in 1..n : waiters[i] = k => waiters'[i - 1] = k
        BY <2>2, <4>2
      <4>4. \A i \in 1..(n - 1) : i + 1 \in 1..n /\ waiters'[i] = waiters[i + 1]
        BY <2>2
      <4>5. (\E i \in 1..(n - 1) : waiters'[i] = k) <=> \E i \in 1..n : waiters[i] = k
        BY <4>2, <4>3, <4>4
      <4> QED
        BY <2>2, <4>1, <4>5
    <3> QED
      BY <3>1, <3>2
  <2>6. \A i, k \in DOMAIN waiters' : waiters'[i] = waiters'[k] => i = k
    <3> SUFFICES ASSUME NEW i \in 1..(n - 1), NEW k \in 1..(n - 1),
                        waiters'[i] = waiters'[k]
                 PROVE  i = k
      BY <2>2
    <3>1. i + 1 \in 1..n /\ k + 1 \in 1..n
      BY <2>2
    <3>2. waiters[i + 1] = waiters[k + 1]
      BY <2>2
    <3>3. i + 1 = k + 1
      BY <2>2, <3>1, <3>2
    <3> QED
      BY <3>3
  <2>7. permits' = 0
    BY <2>1
  <2> QED
    BY <2>5, <2>6, <2>7
<1>6. ASSUME NEW j \in Jobs, FreePermit(j)
      PROVE  QueueExact'
  BY <1>6 DEF FreePermit
<1> QED
  BY <1>1, <1>2, <1>3, <1>4, <1>5, <1>6
     DEF Next, RunJob, Acquire, Release, Submit, MarkRunning, RunWorker,
         SpawnWorker, SpawnFails, WriteStdin, StdinBroken, CollectOutput,
         Timeout, RecordResult, Worker, WorkerReads, WorkerStarts,
         WorkerProves, WorkerSucceeds, WorkerFails, vars

\* A permit leaves the semaphore with exactly one task, and comes back with
\* exactly one, or passes from one task to the next.
LEMMA PermitStep ==
  ASSUME IInv, [Next]_vars
  PROVE  PermitAccounting'
<1> USE DEF IInv, TypeOK, PermitAccounting, taskVars, procVars, Goto, Return
<1>0. Cardinality(Holders) \in Nat /\ permits \in Int /\ MaxConcurrent \in Int
  BY HoldersFinite, MaxConcurrentAssumption
<1>1. CASE permits' = permits /\ Holders' = Holders
  BY <1>1
<1>2. ASSUME NEW j \in Jobs, permits' = permits,
             NEW to, task' = [task EXCEPT ![j] = to],
             task[j] \in HoldingStates <=> to \in HoldingStates
      PROVE  PermitAccounting'
  <2>1. Holders' = Holders
    BY <1>2 DEF Holders
  <2> QED
    BY <1>2, <2>1, <1>1
<1>3. ASSUME NEW j \in Jobs, TakePermit(j)
      PROVE  PermitAccounting'
  <2>1. Holders' = Holders \cup {j} /\ j \notin Holders
    BY <1>3 DEF TakePermit, Holders, HoldingStates
  <2>2. Cardinality(Holders') = Cardinality(Holders) + 1
    BY <2>1, HoldersFinite, FS_AddElement
  <2> QED
    BY <1>0, <1>3, <2>2 DEF TakePermit
<1>4. ASSUME NEW j \in Jobs, FreePermit(j)
      PROVE  PermitAccounting'
  <2>1. Holders' = Holders \ {j} /\ j \in Holders
    BY <1>4 DEF FreePermit, Holders, HoldingStates
  <2>2. Cardinality(Holders') = Cardinality(Holders) - 1
    BY <2>1, HoldersFinite, FS_RemoveElement
  <2> QED
    BY <1>0, <1>4, <2>2 DEF FreePermit
<1>5. ASSUME NEW j \in Jobs, HandOver(j)
      PROVE  PermitAccounting'
  <2> DEFINE h == Head(waiters)
             Rest == Holders \ {j}
  <2>1. h \in Jobs /\ task[h] = "parked"
    BY <1>5, QueueTail DEF HandOver, QueueExact
  <2>2. /\ task[j] = "releasing" /\ permits' = permits
        /\ task' = [task EXCEPT ![j] = "ended", ![h] = "marking"]
    BY <1>5 DEF HandOver
  <2> HIDE DEF h
  <2>3. /\ j \in Holders /\ h \notin Rest
        /\ Holders' = Rest \cup {h}
    BY <2>1, <2>2 DEF Holders, HoldingStates
  <2>4. IsFiniteSet(Rest) /\ Cardinality(Rest) = Cardinality(Holders) - 1
    BY <2>3, HoldersFinite, FS_RemoveElement
  <2>5. Cardinality(Holders') = Cardinality(Rest) + 1
    BY <2>3, <2>4, FS_AddElement
  <2> QED
    BY <1>0, <2>2, <2>4, <2>5
<1>6. ASSUME NEW j \in Jobs, Worker(j)
      PROVE  PermitAccounting'
  BY <1>6, <1>1 DEF Worker, WorkerReads, WorkerStarts, WorkerProves,
                    WorkerSucceeds, WorkerFails, Holders
<1>7. CASE UNCHANGED vars
  BY <1>7, <1>1 DEF vars, Holders
<1> QED
  BY <1>2, <1>3, <1>4, <1>5, <1>6, <1>7
     DEF Next, RunJob, Acquire, Release, Submit, Park, MarkRunning, RunWorker,
         SpawnWorker, SpawnFails, WriteStdin, StdinBroken, CollectOutput,
         Timeout, RecordResult, HoldingStates

----------------------------------------------------------------------------
(* The theorems                                                            *)

\* The invariant is inductive: it holds at first and no step breaks it.
THEOREM InvariantHolds == Spec => []IInv
<1>1. Init => IInv
  <2> SUFFICES ASSUME Init PROVE IInv
    OBVIOUS
  <2>1. Holders = {}
    BY DEF Init, Holders, HoldingStates
  <2>2. PermitAccounting
    BY <2>1, FS_EmptySet, MaxConcurrentAssumption DEF PermitAccounting, Init
  <2> QED
    BY <2>2, MaxConcurrentAssumption
       DEF Init, IInv, TypeOK, QueueExact, RecordFollowsTask,
           LiveOnlyInRunWorker, OkChain, JobStates, TaskStates, Verdicts,
           ProcStates, FileStates, Alive
<1>2. IInv /\ [Next]_vars => IInv'
  BY TypeStep, JobStep, QueueStep, PermitStep DEF IInv
<1> QED
  BY <1>1, <1>2, PTL DEF Spec

\* Every variable keeps its type.
THEOREM TypeCorrect == Spec => []TypeOK
<1>1. IInv => TypeOK
  BY DEF IInv
<1> QED
  BY <1>1, InvariantHolds, PTL

\* No permit is lost or duplicated on any path of run_job, and the queue
\* holds exactly the tasks that wait, while no permit is free.
THEOREM PermitsExact == Spec => [](PermitAccounting /\ QueueExact)
<1>1. IInv => PermitAccounting /\ QueueExact
  BY DEF IInv
<1> QED
  BY <1>1, InvariantHolds, PTL

\* At most max_concurrent Python provers are alive at any time.
THEOREM ProversBounded == Spec => []ProverBound
<1>1. IInv => ProverBound
  <2> SUFFICES ASSUME IInv PROVE ProverBound
    OBVIOUS
  <2>1. LiveWorkers \in SUBSET Holders
    BY DEF LiveWorkers, Holders, HoldingStates, IInv, LiveOnlyInRunWorker
  <2>2. /\ Cardinality(LiveWorkers) \in Nat
        /\ Cardinality(LiveWorkers) + permits <= MaxConcurrent
    BY <2>1, CountedByPermits DEF IInv
  <2> QED
    BY <2>2, MaxConcurrentAssumption DEF ProverBound, IInv, TypeOK
<1> QED
  BY <1>1, InvariantHolds, PTL

\* running_count() and available_slots() never add up to more than the slots.
THEOREM SlotsReported == Spec => []SlotReport
<1>1. IInv => SlotReport
  <2> SUFFICES ASSUME IInv PROVE SlotReport
    OBVIOUS
  <2>1. RunningJobs \in SUBSET Holders
    BY DEF RunningJobs, Holders, HoldingStates, IInv, RecordFollowsTask
  <2> QED
    BY <2>1, CountedByPermits
       DEF SlotReport, RunningCount, AvailableSlots, IInv
<1> QED
  BY <1>1, InvariantHolds, PTL

\* A job reported Done has a complete, locally verified proof to read.
THEOREM ProofBehindDone == Spec => []DoneHasProof
<1>1. IInv => DoneHasProof
  BY DEF IInv, OkChain, DoneHasProof, ReadProof
<1> QED
  BY <1>1, InvariantHolds, PTL

----------------------------------------------------------------------------
(* The manager implements the service                                      *)

\* Each step of the manager is a step of the service or leaves its map alone.
\* The one that starts a job finds a slot because its task owns a permit that
\* no running job owns.
LEMMA ServiceStep ==
  ASSUME IInv, [Next]_vars
  PROVE  [PS!Next]_jobs
<1> USE DEF IInv, TypeOK, RecordFollowsTask, taskVars, procVars, Goto, Return
<1>1. ASSUME NEW j \in Jobs, Submit(j)
      PROVE  PS!Next
  BY <1>1 DEF Submit, PS!Next, PS!Submit, PS!Move
<1>2. ASSUME NEW j \in Jobs, MarkRunning(j)
      PROVE  PS!Next
  <2>1. RunningJobs \cup {j} \in SUBSET Holders /\ j \notin RunningJobs
    BY <1>2 DEF MarkRunning, RunningJobs, Holders, HoldingStates
  <2>2. RunningJobs \in SUBSET Holders
    BY <2>1
  <2>3. IsFiniteSet(RunningJobs) /\ Cardinality(RunningJobs) \in Nat
    BY <2>2, CountedByPermits
  <2>4. Cardinality(RunningJobs \cup {j}) = Cardinality(RunningJobs) + 1
    BY <2>1, <2>3, FS_AddElement
  <2>5. Cardinality(RunningJobs \cup {j}) <= MaxConcurrent
    <3>1. /\ Cardinality(RunningJobs \cup {j}) \in Nat
          /\ Cardinality(RunningJobs \cup {j}) + permits <= MaxConcurrent
      BY <2>1, CountedByPermits
    <3> QED
      BY <3>1, MaxConcurrentAssumption
  <2>6. PS!RunningCount < MaxConcurrent
    <3>1. PS!RunningCount = Cardinality(RunningJobs)
      <4>1. PS!RunningJobs = RunningJobs
        BY ONLY DEF PS!RunningJobs, RunningJobs
      <4>2. PS!RunningCount = Cardinality(PS!RunningJobs)
        BY ONLY DEF PS!RunningCount, Cardinality, PS!Cardinality
      <4> QED
        BY ONLY <4>1, <4>2
    <3> QED
      BY <2>3, <2>4, <2>5, <3>1, MaxConcurrentAssumption
  <2>7. PS!Move(j, "queued", "running")
    BY <1>2 DEF MarkRunning, PS!Move
  <2> QED
    BY <2>6, <2>7 DEF PS!Next, PS!Serve, PS!Start
<1>3. ASSUME NEW j \in Jobs, RecordResult(j)
      PROVE  PS!Next
  <2>1. PS!Move(j, "running", "done") \/ PS!Move(j, "running", "failed")
    BY <1>3 DEF RecordResult, PS!Move
  <2> QED
    BY <2>1 DEF PS!Next, PS!Serve, PS!Finish, PS!Fail
<1> QED
  BY <1>1, <1>2, <1>3
     DEF Next, RunJob, Acquire, Release, TakePermit, Park, FreePermit,
         HandOver, RunWorker, SpawnWorker, SpawnFails, WriteStdin,
         StdinBroken, CollectOutput, Timeout, Worker, WorkerReads,
         WorkerStarts, WorkerProves, WorkerSucceeds, WorkerFails, vars

\* ProverManager implements ProofService.
THEOREM ManagerImplementsService == Spec => ImplementsService
<1>1. Init => PS!Init
  BY DEF Init, PS!Init
<1>2. IInv /\ [Next]_vars => [PS!Next]_jobs
  BY ServiceStep
<1> QED
  BY <1>1, <1>2, InvariantHolds, PTL DEF Spec, ImplementsService, PS!Spec

----------------------------------------------------------------------------
(* Every job that gets a permit comes to its end, and the queue moves.     *)

\* The task can make a step: the guards of RunJob(j), whose disjuncts bind every
\* primed variable and move the task, so that this is ENABLED <<RunJob(j)>>_vars
\* written out. A parked task waits for its permit, and one that writes more
\* than the pipe takes waits for its worker.
Runnable(j) ==
    /\ task[j] \in HoldingStates \cup {"acquiring"}
    /\ task[j] = "writing" =>
          worker[j] = "dead" \/ (j \in BigPayload => worker[j] = "reading")

\* Tokio polls the task of j: WF_vars(RunJob(j)) with that ENABLED.
Polled(j) == []([]Runnable(j) => <><<RunJob(j)>>_vars)

\* The fairness of FairSpec is Polled, wherever the guards enable the action.
LEMMA FairnessPolls ==
  ASSUME NEW j \in Jobs
  PROVE  WF_vars(RunJob(j)) /\ [](Runnable(j) => ENABLED <<RunJob(j)>>_vars)
         => Polled(j)
  BY PTL DEF Polled

\* Where run_job goes from each of its awaits.
After(state) ==
    CASE state = "acquiring" -> {"marking", "parked"}
      [] state = "marking"   -> {"spawning"}
      [] state = "spawning"  -> {"writing", "recording"}
      [] state = "writing"   -> {"waiting", "recording"}
      [] state = "waiting"   -> {"recording"}
      [] state = "recording" -> {"releasing"}
      [] state = "releasing" -> {"ended"}

\* A task that is not parked is moved by its own steps alone, and only onwards.
LEMMA TaskMoves ==
  ASSUME IInv, [Next]_vars, NEW j \in Jobs,
         task[j] \in HoldingStates \cup {"acquiring"}
  PROVE  /\ task'[j] \in {task[j]} \cup After(task[j])
         /\ RunJob(j) => task'[j] \in After(task[j])
<1> USE DEF IInv, TypeOK, TaskStates, HoldingStates, After, Goto, Return,
            taskVars, procVars
<1>1. ASSUME RunJob(j), ~HandOver(j)
      PROVE  task'[j] \in After(task[j])
  BY <1>1 DEF RunJob, Acquire, TakePermit, Park, MarkRunning, RunWorker,
              SpawnWorker, SpawnFails, WriteStdin, StdinBroken, CollectOutput,
              Timeout, RecordResult, Release, FreePermit
<1>2. ASSUME NEW k \in Jobs, HandOver(k)
      PROVE  task'[j] = IF k = j THEN "ended" ELSE task[j]
  <2>1. Head(waiters) \in Jobs /\ task[Head(waiters)] = "parked"
    BY <1>2, QueueTail DEF HandOver, QueueExact
  <2>2. task[k] = "releasing" /\ Head(waiters) # j /\ Head(waiters) # k
    BY <1>2, <2>1 DEF HandOver
  <2> HIDE DEF After
  <2> QED
    BY <1>2, <2>1, <2>2 DEF HandOver
<1>3. ASSUME NEW k \in Jobs, k # j, RunJob(k), ~HandOver(k)
      PROVE  task'[j] = task[j]
  BY <1>3 DEF RunJob, Acquire, TakePermit, Park, MarkRunning, RunWorker,
              SpawnWorker, SpawnFails, WriteStdin, StdinBroken, CollectOutput,
              Timeout, RecordResult, Release, FreePermit
<1>4. ASSUME NEW k \in Jobs, Submit(k) \/ Worker(k)
      PROVE  task'[j] = task[j]
  BY <1>4 DEF Submit, Worker, WorkerReads, WorkerStarts, WorkerProves,
              WorkerSucceeds, WorkerFails
<1>5. HandOver(j) => task[j] = "releasing"
  BY DEF HandOver
<1>6. CASE UNCHANGED vars
  <2>1. task'[j] = task[j]
    BY <1>6 DEF vars
  <2>2. ~RunJob(j) \/ task'[j] \in After(task[j])
    BY <1>1, <1>2, <1>5
  <2> QED
    BY <2>1, <2>2
<1> QED
  BY <1>1, <1>2, <1>3, <1>4, <1>5, <1>6 DEF Next

\* A task that holds a permit comes to its end.
EndsOnceHolding(j) == task[j] \in HoldingStates ~> task[j] = "ended"

\* run_job, from its permit to the permit's release, whatever the worker does:
\* the timeout ends what the worker does not, except for a write that the pipe
\* cannot take.
LEMMA HolderEnds ==
  ASSUME NEW j \in Jobs, j \notin BigPayload
  PROVE  Spec /\ Polled(j) => EndsOnceHolding(j)
<1> USE DEF HoldingStates
<1>1. task[j] \in HoldingStates => Runnable(j)
  BY DEF Runnable
<1>2. Spec /\ Polled(j) =>
         (task[j] = "marking" ~> task[j] = "spawning")
  <2>1. IInv /\ [Next]_vars /\ task[j] = "marking"
           => (task[j] = "marking" \/ task[j] = "spawning")'
    BY TaskMoves DEF After
  <2>2. IInv /\ [Next]_vars /\ task[j] = "marking" /\ RunJob(j)
           => (task[j] = "spawning")'
    BY TaskMoves DEF After
  <2>3. task[j] = "marking" => Runnable(j)
    BY <1>1
  <2> QED
    BY <2>1, <2>2, <2>3, InvariantHolds, PTL DEF Spec, Polled
<1>3. Spec /\ Polled(j) =>
         (task[j] = "spawning" ~> task[j] = "writing" \/ task[j] = "recording")
  <2>1. IInv /\ [Next]_vars /\ task[j] = "spawning"
           => (task[j] = "spawning" \/ task[j] = "writing" \/ task[j] = "recording")'
    BY TaskMoves DEF After
  <2>2. IInv /\ [Next]_vars /\ task[j] = "spawning" /\ RunJob(j)
           => (task[j] = "writing" \/ task[j] = "recording")'
    BY TaskMoves DEF After
  <2>3. task[j] = "spawning" => Runnable(j)
    BY <1>1
  <2> QED
    BY <2>1, <2>2, <2>3, InvariantHolds, PTL DEF Spec, Polled
<1>4. Spec /\ Polled(j) =>
         (task[j] = "writing" ~> task[j] = "waiting" \/ task[j] = "recording")
  <2>1. IInv /\ [Next]_vars /\ task[j] = "writing"
           => (task[j] = "writing" \/ task[j] = "waiting" \/ task[j] = "recording")'
    BY TaskMoves DEF After
  <2>2. IInv /\ [Next]_vars /\ task[j] = "writing" /\ RunJob(j)
           => (task[j] = "waiting" \/ task[j] = "recording")'
    BY TaskMoves DEF After
  <2>3. task[j] = "writing" => Runnable(j)
    BY <1>1
  <2> QED
    BY <2>1, <2>2, <2>3, InvariantHolds, PTL DEF Spec, Polled
<1>5. Spec /\ Polled(j) =>
         (task[j] = "waiting" ~> task[j] = "recording")
  <2>1. IInv /\ [Next]_vars /\ task[j] = "waiting"
           => (task[j] = "waiting" \/ task[j] = "recording")'
    BY TaskMoves DEF After
  <2>2. IInv /\ [Next]_vars /\ task[j] = "waiting" /\ RunJob(j)
           => (task[j] = "recording")'
    BY TaskMoves DEF After
  <2>3. task[j] = "waiting" => Runnable(j)
    BY <1>1
  <2> QED
    BY <2>1, <2>2, <2>3, InvariantHolds, PTL DEF Spec, Polled
<1>6. Spec /\ Polled(j) =>
         (task[j] = "recording" ~> task[j] = "releasing")
  <2>1. IInv /\ [Next]_vars /\ task[j] = "recording"
           => (task[j] = "recording" \/ task[j] = "releasing")'
    BY TaskMoves DEF After
  <2>2. IInv /\ [Next]_vars /\ task[j] = "recording" /\ RunJob(j)
           => (task[j] = "releasing")'
    BY TaskMoves DEF After
  <2>3. task[j] = "recording" => Runnable(j)
    BY <1>1
  <2> QED
    BY <2>1, <2>2, <2>3, InvariantHolds, PTL DEF Spec, Polled
<1>7. Spec /\ Polled(j) =>
         (task[j] = "releasing" ~> task[j] = "ended")
  <2>1. IInv /\ [Next]_vars /\ task[j] = "releasing"
           => (task[j] = "releasing" \/ task[j] = "ended")'
    BY TaskMoves DEF After
  <2>2. IInv /\ [Next]_vars /\ task[j] = "releasing" /\ RunJob(j)
           => (task[j] = "ended")'
    BY TaskMoves DEF After
  <2>3. task[j] = "releasing" => Runnable(j)
    BY <1>1
  <2> QED
    BY <2>1, <2>2, <2>3, InvariantHolds, PTL DEF Spec, Polled
<1>8. task[j] \in HoldingStates <=>
         \/ task[j] = "marking" \/ task[j] = "spawning" \/ task[j] = "writing"
         \/ task[j] = "waiting" \/ task[j] = "recording" \/ task[j] = "releasing"
  OBVIOUS
<1> QED
  BY <1>2, <1>3, <1>4, <1>5, <1>6, <1>7, <1>8, PTL DEF EndsOnceHolding

\* run_job: a job whose payload the pipe takes and that was given a permit is
\* reported Done or Failed, and its permit is free again, whatever its worker does.
THEOREM PermitsComeBack ==
  ASSUME NEW j \in Jobs, j \notin BigPayload
  PROVE  Spec /\ Polled(j) =>
           (task[j] \in HoldingStates ~>
               j \notin Holders /\ jobs[j] \in {"done", "failed"})
<1>1. IInv /\ task[j] = "ended" => j \notin Holders /\ jobs[j] \in {"done", "failed"}
  BY DEF IInv, TypeOK, JobStates, RecordFollowsTask, Holders, HoldingStates
<1> QED
  BY <1>1, HolderEnds, InvariantHolds, PTL DEF EndsOnceHolding

\* A process stays alive or is dead.
LEMMA ProcessStep ==
  ASSUME IInv, [Next]_vars, NEW j \in Jobs, worker[j] \in Alive
  PROVE  worker'[j] \in Alive \/ worker'[j] = "dead"
<1> USE DEF IInv, TypeOK, ProcStates, Alive, LiveOnlyInRunWorker, Goto, Return,
            taskVars, procVars
<1>1. ASSUME NEW k \in Jobs, RunWorker(k)
      PROVE  worker'[j] \in Alive \/ worker'[j] = "dead"
  BY <1>1 DEF RunWorker, SpawnWorker, SpawnFails, WriteStdin, StdinBroken,
              CollectOutput, Timeout
<1>2. ASSUME NEW k \in Jobs, Worker(k)
      PROVE  worker'[j] \in Alive \/ worker'[j] = "dead"
  BY <1>2 DEF Worker, WorkerReads, WorkerStarts, WorkerProves, WorkerSucceeds,
              WorkerFails
<1> QED
  BY <1>1, <1>2
     DEF Next, vars, RunJob, Acquire, TakePermit, Park, MarkRunning, Submit,
         RecordResult, Release, FreePermit, HandOver

\* StartedWorkerEnds (worker.rs:12) for jobs whose payload fits in the pipe, from
\* the polling of their tasks alone: a worker that stalls is killed.
THEOREM WorkersEnd ==
  ASSUME BigPayload = {}
  PROVE  Spec /\ (\A j \in Jobs : Polled(j)) => StartedWorkerEnds
<1> SUFFICES ASSUME NEW j \in Jobs
             PROVE  Spec /\ (\A k \in Jobs : Polled(k)) =>
                      (worker[j] \in Alive ~> worker[j] = "dead")
  BY DEF StartedWorkerEnds
<1>1. (\A k \in Jobs : Polled(k)) => Polled(j)
  OBVIOUS
<1>2. Spec /\ Polled(j) => EndsOnceHolding(j)
  BY HolderEnds
<1>3. IInv /\ worker[j] \in Alive => task[j] \in HoldingStates
  BY DEF IInv, LiveOnlyInRunWorker, HoldingStates
<1>4. IInv /\ worker[j] \in Alive => ~(task[j] = "ended")
  BY DEF IInv, LiveOnlyInRunWorker
<1>5. IInv /\ [Next]_vars /\ worker[j] \in Alive
         => (worker[j] \in Alive \/ worker[j] = "dead")'
  BY ProcessStep
<1> QED
  BY <1>1, <1>2, <1>3, <1>4, <1>5, InvariantHolds, PTL DEF Spec, EndsOnceHolding

\* The job is in the queue, at place i.
Waits(j, i) == i \in DOMAIN waiters /\ waiters[i] = j

\* It has come forward: to a place nearer to the head, or out with a permit.
CameForward(j, i) == \/ task[j] = "marking"
                     \/ \E n \in 1..(i - 1) : Waits(j, n)

\* Who waits does so because some other task holds a permit.
LEMMA SomeoneHolds ==
  ASSUME IInv, NEW j \in Jobs, NEW i \in Nat, Waits(j, i)
  PROVE  \E h \in Jobs : task[h] \in HoldingStates
<1>1. permits = 0
  BY DEF IInv, QueueExact, Waits
<1>2. Cardinality(Holders) # 0
  BY <1>1, MaxConcurrentAssumption DEF IInv, PermitAccounting
<1>3. Holders # {}
  BY <1>2, FS_EmptySet
<1> QED
  BY <1>3 DEF Holders

\* Nobody overtakes: a place in the queue is kept or bettered, and a permit that
\* is released meanwhile betters it.
LEMMA QueueKeepsOrder ==
  ASSUME IInv, [Next]_vars, NEW j \in Jobs, NEW i \in Nat, Waits(j, i)
  PROVE  /\ (Waits(j, i) \/ CameForward(j, i))'
         /\ \A h \in Jobs : /\ task[h] \in HoldingStates
                            /\ task'[h] \notin HoldingStates
                            => CameForward(j, i)'
<1> USE DEF IInv, TypeOK, Waits, Goto, Return, taskVars, procVars
<1>1. waiters \in Seq(Jobs) /\ waiters # <<>> /\ i \in 1..Len(waiters)
  OBVIOUS
<1>2. ASSUME NEW k \in Jobs, HandOver(k)
      PROVE  CameForward(j, i)'
  <2>1. waiters' = Tail(waiters)
    BY <1>2 DEF HandOver
  <2>2. CASE i = 1
    <3>1. j = Head(waiters)
      BY <1>1, <2>2, QueueTail
    <3>2. task'[j] = "marking"
      BY <1>2, <3>1 DEF HandOver
    <3> QED
      BY <3>2 DEF CameForward
  <2>3. CASE i # 1
    <3>1. i - 1 \in 1..(Len(waiters) - 1) /\ (i - 1) + 1 = i /\ i - 1 \in 1..(i - 1)
      BY <1>1, <2>3
    <3>2. Tail(waiters)[i - 1] = waiters[i] /\ i - 1 \in DOMAIN Tail(waiters)
      BY <1>1, <3>1, QueueTail
    <3>3. Waits(j, i - 1)'
      BY <2>1, <3>2
    <3> QED
      BY <3>1, <3>3 DEF CameForward
  <2> QED
    BY <2>2, <2>3
<1>3. ASSUME NEW k \in Jobs, Park(k)
      PROVE  /\ Waits(j, i)'
             /\ \A h \in Jobs : task[h] \in HoldingStates => task'[h] \in HoldingStates
  <2>1. waiters' = Append(waiters, k)
    BY <1>3 DEF Park
  <2>2. i \in DOMAIN Append(waiters, k) /\ Append(waiters, k)[i] = waiters[i]
    BY <1>1, QueueAppend
  <2> QED
    BY <1>3, <2>1, <2>2 DEF Park, HoldingStates
<1>4. ASSUME waiters' = waiters,
             NEW h \in Jobs, task[h] \in HoldingStates, task'[h] \notin HoldingStates
      PROVE  FALSE
  <2>1. task[h] = "releasing" \/ task'[h] \in HoldingStates
    <3>1. task'[h] \in {task[h]} \cup After(task[h])
      BY <1>4, TaskMoves
    <3> QED
      BY <1>4, <3>1 DEF After, HoldingStates
  <2>2. task[h] = "releasing" /\ task'[h] # "releasing"
    BY <1>4, <2>1 DEF HoldingStates
  <2> QED
    BY <1>1, <1>4, <2>2
       DEF Next, vars, RunJob, Acquire, TakePermit, Park, MarkRunning, Submit,
           RecordResult, Release, FreePermit, HandOver, RunWorker, SpawnWorker,
           SpawnFails, WriteStdin, StdinBroken, CollectOutput, Timeout, Worker,
           WorkerReads, WorkerStarts, WorkerProves, WorkerSucceeds, WorkerFails
<1>5. \/ waiters' = waiters
      \/ \E k \in Jobs : HandOver(k) \/ Park(k)
  BY DEF Next, vars, RunJob, Acquire, TakePermit, MarkRunning, Submit,
         RecordResult, Release, FreePermit, RunWorker, SpawnWorker, SpawnFails,
         WriteStdin, StdinBroken, CollectOutput, Timeout, Worker, WorkerReads,
         WorkerStarts, WorkerProves, WorkerSucceeds, WorkerFails
<1> QED
  BY <1>1, <1>2, <1>3, <1>4, <1>5

\* Tokio's semaphore with run_job: every place in the queue is bettered in the
\* end, until the job has its permit. With PermitsComeBack, and by induction on
\* the place, every job is proved or refused.
THEOREM QueueMoves ==
  ASSUME BigPayload = {}, NEW j \in Jobs, NEW i \in Nat
  PROVE  Spec /\ (\A h \in Jobs : Polled(h)) => (Waits(j, i) ~> CameForward(j, i))
<1>1. ASSUME NEW h \in Jobs
      PROVE  Spec /\ Polled(h) =>
               [](Waits(j, i) /\ task[h] \in HoldingStates => <>CameForward(j, i))
  <2>1. Spec /\ Polled(h) => EndsOnceHolding(h)
    BY HolderEnds
  <2>2. ~(task[h] \in HoldingStates /\ task[h] = "ended")
    BY DEF HoldingStates
  <2>3. IInv /\ [Next]_vars /\ Waits(j, i) /\ task[h] \in HoldingStates
           => ((Waits(j, i) /\ task[h] \in HoldingStates) \/ CameForward(j, i))'
    BY QueueKeepsOrder
  <2> QED
    BY <2>1, <2>2, <2>3, InvariantHolds, PTL DEF Spec, EndsOnceHolding
<1>2. IInv /\ Waits(j, i) => \E h \in Jobs : Waits(j, i) /\ task[h] \in HoldingStates
  BY SomeoneHolds
<1>3. Spec /\ (\A h \in Jobs : Polled(h)) =>
         [](\A h \in Jobs : Waits(j, i) /\ task[h] \in HoldingStates => <>CameForward(j, i))
  BY <1>1
<1>4. (\A h \in Jobs : Waits(j, i) /\ task[h] \in HoldingStates => <>CameForward(j, i))
      => ((\E h \in Jobs : Waits(j, i) /\ task[h] \in HoldingStates) => <>CameForward(j, i))
  OBVIOUS
<1> QED
  BY <1>2, <1>3, <1>4, InvariantHolds, PTL
============================================================================
