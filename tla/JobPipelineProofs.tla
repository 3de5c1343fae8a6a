-------------------------- MODULE JobPipelineProofs -------------------------
(***************************************************************************)
(* Proofs about JobPipeline, for any number of jobs, slots, polls, faults  *)
(* and restarts: what a row says is true of the prover and of the chains,  *)
(* statuses only move forward, and only a fault or a restart strands a     *)
(* row. The facts about the chains are those of SettlementBridgeProofs,    *)
(* instantiated: the pipeline only takes steps the bridge allows. A        *)
(* settlement task that is run comes nearer to its end from wherever it is.*)
(***************************************************************************)
EXTENDS JobPipeline, TLAPS

BP == INSTANCE SettlementBridgeProofs WITH
          Bridges    <- {Bridge},
          Submitters <- {Gateway} \cup Outsiders,
          Ids        <- {IdOf[j] : j \in Jobs},
          Models     <- {ModelOf[j] : j \in Jobs}

\* The claim that the gateway makes for a job.
Claim(j) == [bridge |-> Bridge, id |-> IdOf[j], model |-> ModelOf[j],
             submitter |-> Gateway]

Early   == {"absent", "queued"}
Unproved == Early \cup {"running"}
Open    == Unproved \cup {"done"}
Proved  == {"storing", "checking", "sending", "confirming", "awaiting",
            "settling", "failing"}

----------------------------------------------------------------------------
(* The inductive invariant                                                 *)

\* A settlement task exists once the request is answered, and its position
\* bounds what the row may say.
RowFollowsTask ==
    \A j \in Jobs :
        /\ handler[j] = "answered" <=> task[j] # "none"
        /\ task[j] = "none" => ~HasRow(j)
        /\ task[j] = "starting" => rows[j].status \in Early
        /\ task[j] \in {"polling", "storing"} => rows[j].status \in Unproved
        /\ task[j] # "ended" => rows[j].status \in Open
        /\ rows[j].txHash # "none" => rows[j].status = "settled"
        /\ rows[j].error # "none" => rows[j].status = "failed"
        /\ task[j] \in Proved \ {"storing"} => SettleEnabled

\* Past the polling loop the proof is finished: a restart that forgets the
\* proof ends the task too.
ProverKnown == \A j \in Jobs : task[j] \in Proved => jobs[j] = "done"

\* What the task and the network know of the chains is so.
ChainKnown ==
    \A j \in Jobs :
        /\ tx[j] = "mined" => Claim(j) \in events
        /\ evmTx[j] = "own" => Claim(j) \in events
        /\ rows[j].txHash = "own" => Claim(j) \in events
        /\ task[j] = "settling" => BR!IsInferenceVerified(IdOf[j])
        /\ task[j] \in {"awaiting", "settling"} => evmTx[j] # "none"

IInv == /\ TypeOK
        /\ BP!IInv
        /\ RowFollowsTask
        /\ ProverKnown
        /\ RowMatchesProver
        /\ ChainKnown
        /\ SettledIsRecorded
        /\ OnlyFaultsStrandRows

----------------------------------------------------------------------------
(* The chains                                                              *)

\* The bridge's assumptions hold of the pipeline's constants.
LEMMA BridgeAssumptions ==
  BP!WordsAssumption /\ BP!FieldSizeAssumption /\ BP!NoRecordAssumption
<1>1. BP!WordsAssumption /\ BP!FieldSizeAssumption
  BY HashAssumption DEF BP!WordsAssumption, BP!FieldSizeAssumption
<1>2. BP!NoRecordAssumption
  BY NoRecordAssumption DEF BP!NoRecordAssumption, BP!Records, BR!Records
<1> QED
  BY <1>1, <1>2

\* Every step of the pipeline is a step of the chains or leaves them alone.
LEMMA ChainPart ==
  ASSUME [Next]_vars
  PROVE  [BP!Next]_(BP!vars)
<1> USE DEF chainVars, BP!vars
<1>1. CASE UNCHANGED chainVars
  BY <1>1
<1>2. ASSUME NEW i \in Jobs, NEW k \in Jobs, NEW s \in {Gateway} \cup Outsiders,
             BR!VerifyAndBridge(Bridge, IdOf[i], ModelOf[k], s, TRUE)
      PROVE  BP!Next
  <2>1. BP!VerifyAndBridge(Bridge, IdOf[i], ModelOf[k], s, TRUE)
    BY <1>2 DEF BR!VerifyAndBridge, BP!VerifyAndBridge, BR!Accepts, BP!Accepts,
                BR!IsVerified, BP!IsVerified, BR!l2Vars, BP!l2Vars
  <2> QED
    BY <2>1 DEF BP!Next, BP!Call
<1>3. CASE BR!Message
  <2>1. BP!Message
    BY <1>3 DEF BR!Message, BP!Message, BR!ConsumeInferenceResult, BR!Discard,
                BP!ConsumeInferenceResult, BP!Discard, BR!Consumable,
                BP!Consumable, BR!StoredId, BP!StoredId, BR!l1Vars, BP!l1Vars,
                BR!l2Vars, BP!l2Vars
  <2> QED
    BY <2>1 DEF BP!Next
<1>4. CASE BR!Owner(Bridge)
  <2>1. BP!Owner(Bridge)
    BY <1>4 DEF BR!Owner, BP!Owner, BR!AddL1Verifier, BP!AddL1Verifier,
                BR!RemoveL1Verifier, BP!RemoveL1Verifier, BR!l1Vars, BP!l1Vars
  <2> QED
    BY <2>1 DEF BP!Next
<1>5. ASSUME NEW j \in Jobs, Settler(j)
      PROVE  UNCHANGED chainVars
  BY <1>5 DEF Settler, PollManager, Submit, MarkRunning, PollDone, PollFailed,
              PollPending, PollGivesUp, MarkDone, CheckVerified, SendTx,
              Receipt, PollRecorded, PollUnrecorded, SubmitFails, MarkSettled,
              MarkFailed, OffChain
<1> QED
  BY <1>1, <1>2, <1>3, <1>4, <1>5
     DEF Next, SubmitJob, PersistJob, Prove, MineTx, RevertTx, ChainStep,
         OthersBridge, Crash, vars

\* So the chains' invariant is kept and what they know only grows.
LEMMA ChainFacts ==
  ASSUME IInv, [Next]_vars
  PROVE  /\ BP!IInv'
         /\ events \subseteq events'
         /\ \A j \in Jobs : BR!IsInferenceVerified(IdOf[j])
                               => BR!IsInferenceVerified(IdOf[j])'
<1>1. [BP!Next]_(BP!vars)
  BY ChainPart
<1>2. BP!IInv
  BY DEF IInv
<1>3. BP!IInv'
  BY <1>1, <1>2, BridgeAssumptions, BP!InvStep
     DEF BP!WordsAssumption, BP!FieldSizeAssumption, BP!NoRecordAssumption
<1>4. /\ events \subseteq events'
      /\ \A i \in {IdOf[j] : j \in Jobs} :
            BP!IsInferenceVerified(i) => BP!IsInferenceVerified(i)'
  BY <1>1, <1>2, BridgeAssumptions, BP!ChainsMonotone
     DEF BP!WordsAssumption, BP!FieldSizeAssumption, BP!NoRecordAssumption
<1>5. \A j \in Jobs : BP!IsInferenceVerified(IdOf[j])
                         => BP!IsInferenceVerified(IdOf[j])'
  BY <1>4
<1> QED
  BY <1>3, <1>4, <1>5 DEF BR!IsInferenceVerified, BP!IsInferenceVerified,
                          BR!StoredId, BP!StoredId

----------------------------------------------------------------------------
(* The steps, grouped by what they do                                      *)

RowSteps(j) == \/ MarkRunning(j) \/ PollFailed(j) \/ PollGivesUp(j)
               \/ MarkDone(j) \/ MarkSettled(j) \/ MarkFailed(j)
QuietSteps(j) == \/ PollDone(j) \/ PollPending(j) \/ CheckVerified(j)
                 \/ SendTx(j) \/ Receipt(j) \/ PollRecorded(j)
                 \/ PollUnrecorded(j) \/ SubmitFails(j)
WorldSteps == \/ \E j \in Jobs : Prove(j) \/ MineTx(j) \/ RevertTx(j)
              \/ ChainStep

\* The groups are all there is.
LEMMA StepGroups ==
  ASSUME [Next]_vars
  PROVE  \/ \E j \in Jobs : \/ SubmitJob(j) \/ PersistJob(j)
                            \/ RowSteps(j) \/ QuietSteps(j)
         \/ WorldSteps
         \/ Crash
         \/ UNCHANGED vars
  BY DEF Next, Settler, PollManager, Submit, RowSteps, QuietSteps, WorldSteps

\* The provers' map through a service step: typed, and done stays done.
LEMMA ServeStep ==
  ASSUME TypeOK, NEW j \in Jobs, PS!Serve(j)
  PROVE  /\ PS!TypeOK'
         /\ \A k \in Jobs : jobs[k] \in {"done", "failed"} => jobs'[k] = jobs[k]
  BY DEF TypeOK, PS!TypeOK, PS!Serve, PS!Start, PS!Finish, PS!Fail, PS!Move,
         PS!JobStates

\* The row of a new job.
LEMMA NewRowFields ==
  /\ NewRow \in Rows
  /\ NewRow.status = "queued" /\ NewRow.proof = FALSE
  /\ NewRow.error = "none" /\ NewRow.txHash = "none"
  BY DEF NewRow, NoRow, Rows, Statuses, Errors, Hashes

\* A write changes at most the row it is for, or counts as a fault.
LEMMA RowWrite ==
  ASSUME TypeOK, NEW j \in Jobs, NEW row \in Rows, UpdateRow(j, row)
  PROVE  /\ rows' \in [Jobs -> Rows] /\ faults' \in 0..MaxDbFaults
         /\ faults' >= faults
         /\ \A k \in Jobs : k # j => rows'[k] = rows[k]
         /\ \/ rows'[j] = rows[j]
            \/ HasRow(j) /\ rows'[j] = row
         /\ rows'[j] # row => ~HasRow(j) \/ faults' > 0
<1> USE DEF TypeOK
<1>1. CASE WriteFails
  BY <1>1, BoundsAssumption DEF WriteFails
<1>2. CASE rows' = [rows EXCEPT ![j] = IF HasRow(j) THEN row ELSE @]
           /\ UNCHANGED faults
  BY <1>2
<1> QED
  BY <1>1, <1>2 DEF UpdateRow

\* What the six steps that write a row have in common: which row they write
\* from which position of the task.
Writes(j, row) ==
    /\ row \in Rows
    /\ row.proof = (rows[j].proof \/ task[j] = "storing")
    /\ \/ /\ task[j] = "starting"
          /\ task' = [task EXCEPT ![j] = "polling"]
          /\ row.status = "running"
          /\ row.error = rows[j].error /\ row.txHash = rows[j].txHash
       \/ /\ task[j] \in {"polling", "failing"}
          /\ task' = [task EXCEPT ![j] = "ended"]
          /\ row.status = "failed" /\ row.txHash = rows[j].txHash
          /\ row.error # "none"
          /\ row.error = "prover" => jobs[j] = "failed"
       \/ /\ task[j] = "storing"
          /\ task' = [task EXCEPT ![j] = IF SettleEnabled
                                         THEN "checking" ELSE "ended"]
          /\ row.status = "done"
          /\ row.error = rows[j].error /\ row.txHash = rows[j].txHash
       \/ /\ task[j] = "settling"
          /\ task' = [task EXCEPT ![j] = "ended"]
          /\ row.status = "settled" /\ row.txHash = evmTx[j]
          /\ row.error = rows[j].error

\* Each of the six steps is such a write and nothing else.
LEMMA RowStepWrites ==
  ASSUME TypeOK, NEW j \in Jobs, RowSteps(j)
  PROVE  /\ UNCHANGED <<jobs, chainVars, handler, tx, crashes, attempts, evmTx>>
         /\ \E row \in Rows : UpdateRow(j, row) /\ Writes(j, row)
<1> USE DEF Goto, OffChain
<1>0. rows[j] \in Rows /\ evmTx[j] \in Hashes
  BY DEF TypeOK
<1>1. UNCHANGED <<jobs, chainVars, handler, tx, crashes, attempts, evmTx>>
  BY DEF RowSteps, MarkRunning, PollFailed, PollGivesUp, MarkDone, MarkSettled,
         MarkFailed
<1>2. CASE MarkRunning(j)
  <2> DEFINE row == [rows[j] EXCEPT !.status = "running"]
  <2>1. UpdateRow(j, row) /\ Writes(j, row)
    BY <1>0, <1>2 DEF MarkRunning, Writes, Rows, Statuses
  <2>2. row \in Rows
    BY <2>1 DEF Writes
  <2> HIDE DEF row
  <2> QED
    BY <1>1, <2>1, <2>2
<1>3. CASE PollFailed(j)
  <2> DEFINE row == [rows[j] EXCEPT !.status = "failed", !.error = "prover"]
  <2>1. UpdateRow(j, row) /\ Writes(j, row)
    BY <1>0, <1>3 DEF PollFailed, Writes, Rows, Statuses, Errors
  <2>2. row \in Rows
    BY <2>1 DEF Writes
  <2> HIDE DEF row
  <2> QED
    BY <1>1, <2>1, <2>2
<1>4. CASE PollGivesUp(j)
  <2> DEFINE row == [rows[j] EXCEPT !.status = "failed", !.error = "timeout"]
  <2>1. UpdateRow(j, row) /\ Writes(j, row)
    BY <1>0, <1>4 DEF PollGivesUp, Writes, Rows, Statuses, Errors
  <2>2. row \in Rows
    BY <2>1 DEF Writes
  <2> HIDE DEF row
  <2> QED
    BY <1>1, <2>1, <2>2
<1>5. CASE MarkDone(j)
  <2> DEFINE row == [rows[j] EXCEPT !.status = "done", !.proof = TRUE]
  <2>1. UpdateRow(j, row) /\ Writes(j, row)
    BY <1>0, <1>5 DEF MarkDone, Writes, Rows, Statuses
  <2>2. row \in Rows
    BY <2>1 DEF Writes
  <2> HIDE DEF row
  <2> QED
    BY <1>1, <2>1, <2>2
<1>6. CASE MarkSettled(j)
  <2> DEFINE row == [rows[j] EXCEPT !.status = "settled", !.txHash = evmTx[j]]
  <2>1. UpdateRow(j, row) /\ Writes(j, row)
    BY <1>0, <1>6 DEF MarkSettled, Writes, Rows, Statuses
  <2>2. row \in Rows
    BY <2>1 DEF Writes
  <2> HIDE DEF row
  <2> QED
    BY <1>1, <2>1, <2>2
<1>7. CASE MarkFailed(j)
  <2> DEFINE row == [rows[j] EXCEPT !.status = "failed", !.error = "settlement"]
  <2>1. UpdateRow(j, row) /\ Writes(j, row)
    BY <1>0, <1>7 DEF MarkFailed, Writes, Rows, Statuses, Errors
  <2>2. row \in Rows
    BY <2>1 DEF Writes
  <2> HIDE DEF row
  <2> QED
    BY <1>1, <2>1, <2>2
<1> QED
  BY <1>1, <1>2, <1>3, <1>4, <1>5, <1>6, <1>7 DEF RowSteps

----------------------------------------------------------------------------
(* Type correctness                                                        *)

\* Every step keeps every variable in its type.
LEMMA TypeStep ==
  ASSUME IInv, [Next]_vars
  PROVE  TypeOK'
<1> USE DEF IInv, TypeOK, HandlerStates, TaskStates, Hashes, TxStates, Goto
<1>0. BR!TypeOK'
  <2>1. BP!TypeOK'
    BY ChainFacts DEF BP!IInv
  <2> QED
    BY <2>1 DEF BP!TypeOK, BR!TypeOK, BP!Claims, BR!Claims, BP!Records,
                BR!Records
<1>1. ASSUME NEW j \in Jobs, SubmitJob(j)
      PROVE  TypeOK'
  BY <1>0, <1>1 DEF SubmitJob, PS!Submit, PS!Move, PS!TypeOK, PS!JobStates,
                    taskVars, dbVars
<1>2. ASSUME NEW j \in Jobs, PersistJob(j)
      PROVE  TypeOK'
  <2>1. rows' \in [Jobs -> Rows] /\ faults' \in 0..MaxDbFaults
    BY <1>2, NewRowFields, BoundsAssumption
       DEF PersistJob, InsertRow, WriteFails
  <2> QED
    BY <1>0, <1>2, <2>1 DEF PersistJob, PS!TypeOK
<1>3. ASSUME NEW j \in Jobs, RowSteps(j)
      PROVE  TypeOK'
  <2>1. UNCHANGED <<jobs, handler, tx, crashes, attempts, evmTx>>
    BY <1>3, RowStepWrites
  <2>2. PICK row \in Rows : UpdateRow(j, row) /\ Writes(j, row)
    BY <1>3, RowStepWrites
  <2>3. rows' \in [Jobs -> Rows] /\ faults' \in 0..MaxDbFaults
    BY <2>2, RowWrite
  <2>4. task' \in [Jobs -> TaskStates]
    BY <2>2 DEF Writes
  <2> QED
    BY <1>0, <2>1, <2>3, <2>4 DEF PS!TypeOK
<1>4. ASSUME NEW j \in Jobs, QuietSteps(j)
      PROVE  TypeOK'
  <2>1. UNCHANGED <<jobs, handler, crashes, rows, faults>>
    BY <1>4 DEF QuietSteps, PollDone, PollPending, CheckVerified, SendTx,
                Receipt, PollRecorded, PollUnrecorded, SubmitFails, OffChain,
                dbVars
  <2>2. attempts' \in [Jobs -> 0..(MaxPolls + MaxL2Polls)]
    BY <1>4, BoundsAssumption
       DEF QuietSteps, PollDone, PollPending, CheckVerified, SendTx, Receipt,
           PollRecorded, PollUnrecorded, SubmitFails
  <2>3. /\ task' \in [Jobs -> TaskStates] /\ evmTx' \in [Jobs -> Hashes]
        /\ tx' \in [Jobs -> TxStates]
    BY <1>4 DEF QuietSteps, PollDone, PollPending, CheckVerified, SendTx,
                Receipt, PollRecorded, PollUnrecorded, SubmitFails, OffChain
  <2> QED
    BY <1>0, <2>1, <2>2, <2>3 DEF PS!TypeOK
<1>5. CASE WorldSteps
  <2>1. UNCHANGED <<handler, task, attempts, evmTx, rows, faults, crashes>>
        /\ tx' \in [Jobs -> TxStates]
    BY <1>5 DEF WorldSteps, Prove, MineTx, RevertTx, ChainStep, OffGateway,
                taskVars, dbVars
  <2>2. PS!TypeOK'
    BY <1>5, ServeStep DEF WorldSteps, Prove, MineTx, RevertTx, ChainStep,
                           PS!TypeOK
  <2> QED
    BY <1>0, <2>1, <2>2
<1>6. CASE Crash
  BY <1>0, <1>6, BoundsAssumption
     DEF Crash, PS!Restart, PS!TypeOK, PS!JobStates, dbVars
<1>7. CASE UNCHANGED vars
  BY <1>0, <1>7 DEF vars, taskVars, dbVars, PS!TypeOK
<1> QED
  BY <1>1, <1>2, <1>3, <1>4, <1>5, <1>6, <1>7, StepGroups

----------------------------------------------------------------------------
(* The row and the task                                                    *)

\* The steps that write no row and do not touch the chains or the prover.
LEMMA QuietFrame ==
  ASSUME NEW j \in Jobs, QuietSteps(j)
  PROVE  UNCHANGED <<jobs, chainVars, handler, crashes, rows, faults>>
  BY DEF QuietSteps, PollDone, PollPending, CheckVerified, SendTx, Receipt,
         PollRecorded, PollUnrecorded, SubmitFails, OffChain, dbVars

\* The steps of the world write no row and move no task.
LEMMA WorldFrame ==
  ASSUME WorldSteps
  PROVE  UNCHANGED <<handler, task, attempts, evmTx, rows, faults, crashes>>
  BY DEF WorldSteps, Prove, MineTx, RevertTx, ChainStep, OffGateway, taskVars,
         dbVars

\* A step of one task leaves the position of the other tasks alone.
LEMMA OtherTasks ==
  ASSUME TypeOK, NEW j \in Jobs, NEW k \in Jobs, k # j,
         RowSteps(j) \/ QuietSteps(j)
  PROVE  task'[k] = task[k] /\ evmTx'[k] = evmTx[k] /\ tx'[k] = tx[k]
  BY DEF TypeOK, RowSteps, QuietSteps, MarkRunning, PollDone, PollFailed,
         PollPending, PollGivesUp, MarkDone, CheckVerified, SendTx, Receipt,
         PollRecorded, PollUnrecorded, SubmitFails, MarkSettled, MarkFailed,
         Goto, OffChain

\* Every step keeps the row within what the task's position allows.
LEMMA FollowStep ==
  ASSUME IInv, [Next]_vars
  PROVE  RowFollowsTask'
<1> USE DEF IInv, TypeOK, RowFollowsTask, HasRow, Early, Unproved, Open, Proved
<1>1. ASSUME NEW j \in Jobs, SubmitJob(j)
      PROVE  RowFollowsTask'
  BY <1>1 DEF SubmitJob, taskVars, dbVars
<1>2. ASSUME NEW j \in Jobs, PersistJob(j)
      PROVE  RowFollowsTask'
  <2>1. /\ handler[j] = "inserting" /\ handler' = [handler EXCEPT ![j] = "answered"]
        /\ task' = [task EXCEPT ![j] = "starting"]
        /\ rows' = [rows EXCEPT ![j] = NewRow] \/ rows' = rows
    BY <1>2 DEF PersistJob, InsertRow, WriteFails
  <2>2. task[j] = "none" /\ ~HasRow(j)
    BY <2>1
  <2> QED
    BY <2>1, <2>2, NewRowFields
<1>3. ASSUME NEW j \in Jobs, RowSteps(j)
      PROVE  RowFollowsTask'
  <2>1. UNCHANGED handler
    BY <1>3, RowStepWrites
  <2>2. PICK row \in Rows : UpdateRow(j, row) /\ Writes(j, row)
    BY <1>3, RowStepWrites
  <2>3. /\ \A k \in Jobs : k # j => rows'[k] = rows[k] /\ task'[k] = task[k]
        /\ rows'[j] = rows[j] \/ rows'[j] = row
    BY <1>3, <2>2, RowWrite, OtherTasks
  <2> QED
    BY <2>1, <2>2, <2>3 DEF Writes
<1>4. ASSUME NEW j \in Jobs, QuietSteps(j)
      PROVE  RowFollowsTask'
  <2>1. UNCHANGED <<handler, rows>>
    BY <1>4, QuietFrame
  <2>2. \/ UNCHANGED task
        \/ task[j] = "polling" /\ task' = [task EXCEPT ![j] = "storing"]
        \/ /\ task[j] \in Proved \ {"storing"}
           /\ \E to \in Proved \ {"storing"} : task' = [task EXCEPT ![j] = to]
    BY <1>4 DEF QuietSteps, PollDone, PollPending, CheckVerified, SendTx,
                Receipt, PollRecorded, PollUnrecorded, SubmitFails, Goto,
                OffChain
  <2> QED
    BY <2>1, <2>2
<1>5. CASE WorldSteps
  BY <1>5, WorldFrame
<1>6. CASE Crash
  BY <1>6 DEF Crash, dbVars
<1>7. CASE UNCHANGED vars
  BY <1>7 DEF vars, taskVars, dbVars
<1> QED
  BY <1>1, <1>2, <1>3, <1>4, <1>5, <1>6, <1>7, StepGroups

----------------------------------------------------------------------------
(* The row and the prover                                                  *)

\* Every step keeps what the task and the row say of the proof true.
LEMMA ProverStep ==
  ASSUME IInv, [Next]_vars
  PROVE  ProverKnown' /\ RowMatchesProver'
<1> USE DEF IInv, TypeOK, ProverKnown, RowMatchesProver, Proved
<1>1. ASSUME NEW j \in Jobs, SubmitJob(j)
      PROVE  ProverKnown' /\ RowMatchesProver'
  <2>1. /\ \A k \in Jobs : jobs[k] \in {"done", "failed"} => jobs'[k] = jobs[k]
        /\ UNCHANGED <<task, rows, crashes>>
    BY <1>1 DEF SubmitJob, PS!Submit, PS!Move, PS!TypeOK, taskVars, dbVars
  <2> QED
    BY <2>1
<1>2. ASSUME NEW j \in Jobs, PersistJob(j)
      PROVE  ProverKnown' /\ RowMatchesProver'
  <2>1. /\ task' = [task EXCEPT ![j] = "starting"]
        /\ rows' = [rows EXCEPT ![j] = NewRow] \/ rows' = rows
        /\ UNCHANGED <<jobs, crashes>>
    BY <1>2 DEF PersistJob, InsertRow, WriteFails
  <2> QED
    BY <2>1, NewRowFields
<1>3. ASSUME NEW j \in Jobs, RowSteps(j)
      PROVE  ProverKnown' /\ RowMatchesProver'
  <2>1. UNCHANGED <<jobs, crashes>>
    BY <1>3, RowStepWrites
  <2>2. PICK row \in Rows : UpdateRow(j, row) /\ Writes(j, row)
    BY <1>3, RowStepWrites
  <2>3. /\ \A k \in Jobs : k # j => rows'[k] = rows[k] /\ task'[k] = task[k]
        /\ rows'[j] = rows[j] \/ rows'[j] = row
    BY <1>3, <2>2, RowWrite, OtherTasks
  <2>4. task'[j] \in Proved => task[j] \in Proved
    BY <2>2 DEF Writes
  <2>5. crashes = 0 => /\ row.status \in {"done", "settled"} \/ row.proof
                             => jobs[j] = "done"
                       /\ row.error = "prover" => jobs[j] = "failed"
    BY <2>2 DEF Writes
  <2> QED
    BY <2>1, <2>3, <2>4, <2>5
<1>4. ASSUME NEW j \in Jobs, QuietSteps(j)
      PROVE  ProverKnown' /\ RowMatchesProver'
  <2>1. UNCHANGED <<jobs, rows, crashes>>
    BY <1>4, QuietFrame
  <2>2. \/ UNCHANGED task
        \/ jobs[j] = "done" /\ task' = [task EXCEPT ![j] = "storing"]
        \/ /\ task[j] \in Proved
           /\ \E to \in Proved : task' = [task EXCEPT ![j] = to]
    BY <1>4 DEF QuietSteps, PollDone, PollPending, CheckVerified, SendTx,
                Receipt, PollRecorded, PollUnrecorded, SubmitFails, Goto,
                OffChain
  <2> QED
    BY <2>1, <2>2
<1>5. CASE WorldSteps
  <2>1. \A k \in Jobs : jobs[k] \in {"done", "failed"} => jobs'[k] = jobs[k]
    BY <1>5, ServeStep DEF WorldSteps, Prove, MineTx, RevertTx, ChainStep
  <2> QED
    BY <1>5, <2>1, WorldFrame
<1>6. CASE Crash
  <2>1. crashes' # 0 /\ \A k \in Jobs : task'[k] \notin Proved
    BY <1>6, BoundsAssumption DEF Crash
  <2> QED
    BY <2>1
<1>7. CASE UNCHANGED vars
  BY <1>7 DEF vars, taskVars, dbVars
<1> QED
  BY <1>1, <1>2, <1>3, <1>4, <1>5, <1>6, <1>7, StepGroups

----------------------------------------------------------------------------
(* The row and the chains                                                  *)

\* Every step keeps what the task, the network and the row say of the chains
\* true.
LEMMA RecordStep ==
  ASSUME IInv, [Next]_vars
  PROVE  ChainKnown' /\ SettledIsRecorded'
<1> USE DEF IInv, TypeOK, ChainKnown, SettledIsRecorded
<1>0. /\ events \subseteq events'
      /\ \A j \in Jobs : BR!IsInferenceVerified(IdOf[j])
                            => BR!IsInferenceVerified(IdOf[j])'
  BY ChainFacts
<1>a. \A j \in Jobs : Claim(j)' = Claim(j)
  BY DEF Claim
<1>1. ASSUME NEW j \in Jobs, SubmitJob(j)
      PROVE  ChainKnown' /\ SettledIsRecorded'
  BY <1>0, <1>a, <1>1 DEF SubmitJob, taskVars, dbVars
<1>2. ASSUME NEW j \in Jobs, PersistJob(j)
      PROVE  ChainKnown' /\ SettledIsRecorded'
  <2>1. /\ task' = [task EXCEPT ![j] = "starting"]
        /\ rows' = [rows EXCEPT ![j] = NewRow] \/ rows' = rows
        /\ UNCHANGED <<evmTx, tx>>
    BY <1>2 DEF PersistJob, InsertRow, WriteFails
  <2> QED
    BY <1>0, <1>a, <2>1, NewRowFields
<1>3. ASSUME NEW j \in Jobs, RowSteps(j)
      PROVE  ChainKnown' /\ SettledIsRecorded'
  <2>1. UNCHANGED <<tx, evmTx>>
    BY <1>3, RowStepWrites
  <2>2. PICK row \in Rows : UpdateRow(j, row) /\ Writes(j, row)
    BY <1>3, RowStepWrites
  <2>3. /\ \A k \in Jobs : k # j => rows'[k] = rows[k] /\ task'[k] = task[k]
        /\ rows'[j] = rows[j] \/ rows'[j] = row
    BY <1>3, <2>2, RowWrite, OtherTasks
  <2>4. task'[j] \notin {"awaiting", "settling"}
    BY <2>2 DEF Writes
  <2>5. row.status = "settled" => BR!IsInferenceVerified(IdOf[j])
    BY <2>2 DEF Writes
  <2>6. row.txHash = "own" => Claim(j) \in events
    BY <2>2 DEF Writes
  <2> QED
    BY <1>0, <1>a, <2>1, <2>3, <2>4, <2>5, <2>6
<1>4. ASSUME NEW j \in Jobs, QuietSteps(j)
      PROVE  ChainKnown' /\ SettledIsRecorded'
  <2>1. UNCHANGED rows
    BY <1>4, QuietFrame
  <2>2. \A k \in Jobs : k # j => /\ task'[k] = task[k] /\ tx'[k] = tx[k]
                                 /\ evmTx'[k] = evmTx[k]
    BY <1>4, OtherTasks
  <2>3. /\ tx'[j] = "mined" => tx[j] = "mined"
        /\ evmTx'[j] = "own" => evmTx[j] = "own" \/ tx[j] = "mined"
        /\ task'[j] = "settling" => \/ task[j] = "settling"
                                    \/ BR!IsInferenceVerified(IdOf[j])
        /\ task'[j] \in {"awaiting", "settling"} => evmTx'[j] # "none"
    BY <1>4 DEF QuietSteps, PollDone, PollPending, CheckVerified, SendTx,
                Receipt, PollRecorded, PollUnrecorded, SubmitFails, Goto,
                OffChain
  <2> QED
    BY <1>0, <1>a, <2>1, <2>2, <2>3
<1>5. CASE WorldSteps
  <2>1. UNCHANGED <<task, evmTx, rows>>
    BY <1>5, WorldFrame
  <2>2. \A j \in Jobs : tx'[j] = "mined" => tx[j] = "mined"
                                             \/ Claim(j) \in events'
    BY <1>5 DEF WorldSteps, Prove, MineTx, RevertTx, ChainStep, Claim,
                BR!VerifyAndBridge
  <2> QED
    BY <1>0, <1>a, <2>1, <2>2
<1>6. CASE Crash
  BY <1>0, <1>a, <1>6 DEF Crash, dbVars
<1>7. CASE UNCHANGED vars
  BY <1>0, <1>a, <1>7 DEF vars, taskVars, dbVars
<1> QED
  BY <1>1, <1>2, <1>3, <1>4, <1>5, <1>6, <1>7, StepGroups

----------------------------------------------------------------------------
(* Stranded rows                                                           *)

\* A sum of counters is positive if one of them is.
LEMMA SumPositive ==
  ASSUME NEW a \in Nat, NEW b \in Nat
  PROVE  a + b > 0 <=> a > 0 \/ b > 0
  OBVIOUS

\* Every step that ends a task writes a final status, fails to write, or is
\* the crash.
LEMMA StrandStep ==
  ASSUME IInv, [Next]_vars
  PROVE  OnlyFaultsStrandRows'
<1> USE DEF IInv, TypeOK, OnlyFaultsStrandRows, HasRow, Final
<1>1. ASSUME NEW j \in Jobs, SubmitJob(j)
      PROVE  OnlyFaultsStrandRows'
  BY <1>1 DEF SubmitJob, taskVars, dbVars
<1>2. ASSUME NEW j \in Jobs, PersistJob(j)
      PROVE  OnlyFaultsStrandRows'
  <2>1. /\ task' = [task EXCEPT ![j] = "starting"]
        /\ rows' = [rows EXCEPT ![j] = NewRow] \/ rows' = rows
        /\ UNCHANGED crashes
        /\ faults' = faults \/ faults' = faults + 1
    BY <1>2 DEF PersistJob, InsertRow, WriteFails
  <2> QED
    BY <2>1, BoundsAssumption
<1>3. ASSUME NEW j \in Jobs, RowSteps(j)
      PROVE  OnlyFaultsStrandRows'
  <2>1. UNCHANGED crashes
    BY <1>3, RowStepWrites
  <2>2. PICK row \in Rows : UpdateRow(j, row) /\ Writes(j, row)
    BY <1>3, RowStepWrites
  <2>3. /\ \A k \in Jobs : k # j => rows'[k] = rows[k] /\ task'[k] = task[k]
        /\ rows'[j] = rows[j] \/ HasRow(j)
        /\ rows'[j] # row => ~HasRow(j) \/ faults' > 0
        /\ faults' \in 0..MaxDbFaults /\ faults' >= faults
    BY <1>3, <2>2, RowWrite, OtherTasks
  <2>4. task'[j] = "ended" => row.status \in Final
    BY <2>2 DEF Writes, RowFollowsTask, Proved
  <2>5. /\ crashes \in Nat /\ faults \in Nat /\ faults' \in Nat
        /\ crashes' \in Nat /\ crashes' = crashes /\ faults' >= faults
    BY <2>1, <2>3, BoundsAssumption
  <2>6. ASSUME NEW k \in Jobs, task'[k] = "ended", HasRow(k)',
               rows'[k].status \notin Final
        PROVE  faults' + crashes' > 0
    <3>1. CASE k = j
      <4>1. HasRow(j) /\ rows'[j] # row
        BY <2>3, <2>4, <2>6, <3>1
      <4>2. faults' > 0
        BY <2>3, <4>1
      <4> QED
        BY <2>5, <4>2, SumPositive
    <3>2. CASE k # j
      <4>1. faults + crashes > 0
        BY <2>3, <2>6, <3>2
      <4>2. faults > 0 \/ crashes > 0
        BY <2>5, <4>1, SumPositive
      <4>3. faults' > 0 \/ crashes' > 0
        BY <2>5, <4>2
      <4> QED
        BY <2>5, <4>3, SumPositive
    <3> QED
      BY <3>1, <3>2
  <2> QED
    BY <2>6
<1>4. ASSUME NEW j \in Jobs, QuietSteps(j)
      PROVE  OnlyFaultsStrandRows'
  <2>1. UNCHANGED <<rows, faults, crashes>>
    BY <1>4, QuietFrame
  <2>2. \A k \in Jobs : task'[k] = "ended" => task[k] = "ended"
    BY <1>4 DEF QuietSteps, PollDone, PollPending, CheckVerified, SendTx,
                Receipt, PollRecorded, PollUnrecorded, SubmitFails, Goto,
                OffChain
  <2> QED
    BY <2>1, <2>2
<1>5. CASE WorldSteps
  BY <1>5, WorldFrame
<1>6. CASE Crash
  BY <1>6, BoundsAssumption DEF Crash, dbVars
<1>7. CASE UNCHANGED vars
  BY <1>7 DEF vars, taskVars, dbVars
<1> QED
  BY <1>1, <1>2, <1>3, <1>4, <1>5, <1>6, <1>7, StepGroups

----------------------------------------------------------------------------
(* The theorems                                                            *)

\* The initial states satisfy the inductive invariant.
LEMMA InitInv ==
  ASSUME Init
  PROVE  IInv
<1>1. BP!IInv
  <2>1. BP!Init
    BY DEF Init, BR!Init, BP!Init
  <2> QED
    BY <2>1, BridgeAssumptions, BP!InitInv
       DEF BP!WordsAssumption, BP!FieldSizeAssumption, BP!NoRecordAssumption
<1>2. BR!TypeOK
  BY <1>1 DEF BP!IInv, BP!TypeOK, BR!TypeOK, BP!Claims, BR!Claims, BP!Records,
              BR!Records
<1>3. NoRow \in Rows /\ NoRow.status = "absent" /\ NoRow.proof = FALSE
      /\ NoRow.error = "none" /\ NoRow.txHash = "none"
  BY DEF NoRow, Rows, Statuses, Errors, Hashes
<1>4. TypeOK
  BY <1>2, <1>3, BoundsAssumption
     DEF Init, TypeOK, PS!Init, PS!TypeOK, PS!JobStates, HandlerStates,
         TaskStates, Hashes, TxStates
<1>5. RowFollowsTask /\ ProverKnown /\ OnlyFaultsStrandRows
  BY <1>3 DEF Init, RowFollowsTask, ProverKnown, OnlyFaultsStrandRows, HasRow,
              Proved, Open, Unproved, Early
<1>6. RowMatchesProver /\ ChainKnown /\ SettledIsRecorded
  BY <1>3 DEF Init, RowMatchesProver, ChainKnown, SettledIsRecorded
<1> QED
  BY <1>1, <1>4, <1>5, <1>6 DEF IInv

\* The invariant is inductive.
LEMMA InvStep ==
  ASSUME IInv, [Next]_vars
  PROVE  IInv'
  BY ChainFacts, TypeStep, FollowStep, ProverStep, RecordStep, StrandStep
     DEF IInv

\* Every reachable state satisfies it.
THEOREM InvariantHolds == Spec => []IInv
  BY InitInv, InvStep, PTL DEF Spec

\* Every variable of the pipeline keeps its type; in particular no counter
\* passes its bound.
THEOREM TypeCorrect == Spec => []TypeOK
<1>1. IInv => TypeOK
  BY DEF IInv
<1> QED
  BY <1>1, InvariantHolds, PTL

\* A settled row is backed by a record of the StarkNet contract, whoever else
\* calls the bridge and however often Postgres or the gateway fails.
THEOREM SettledRecorded == Spec => []SettledIsRecorded
<1>1. IInv => SettledIsRecorded
  BY DEF IInv
<1> QED
  BY <1>1, InvariantHolds, PTL

\* A transaction hash in a row is that of the gateway's own verified claim.
THEOREM HashesOwn == Spec => []OwnHashVerified
<1>1. IInv => OwnHashVerified
  BY DEF IInv, RowFollowsTask, ChainKnown, OwnHashVerified, Claim
<1> QED
  BY <1>1, InvariantHolds, PTL

\* Before the first restart, rows and prover agree.
THEOREM RowsMatchProver == Spec => []RowMatchesProver
<1>1. IInv => RowMatchesProver
  BY DEF IInv
<1> QED
  BY <1>1, InvariantHolds, PTL

\* Without a failed write or a restart no task ends short of a final status.
THEOREM OnlyFaultsStrand == Spec => []OnlyFaultsStrandRows
<1>1. IInv => OnlyFaultsStrandRows
  BY DEF IInv
<1> QED
  BY <1>1, InvariantHolds, PTL

\* A step that changes the status of a row raises its rank.
LEMMA RankStep ==
  ASSUME IInv, [Next]_vars, NEW k \in Jobs,
         rows'[k].status # rows[k].status
  PROVE  Rank(rows[k].status) < Rank(rows'[k].status)
<1> USE DEF IInv, TypeOK, RowFollowsTask, Rank, Early, Unproved, Open, HasRow
<1>1. ASSUME NEW j \in Jobs, SubmitJob(j)
      PROVE  rows' = rows
  BY <1>1 DEF SubmitJob, dbVars
<1>2. ASSUME NEW j \in Jobs, PersistJob(j)
      PROVE  Rank(rows[k].status) < Rank(rows'[k].status)
  <2>1. task[j] = "none" /\ rows[j].status = "absent"
    BY <1>2 DEF PersistJob
  <2>2. rows' = [rows EXCEPT ![j] = NewRow] \/ rows' = rows
    BY <1>2 DEF PersistJob, InsertRow, WriteFails
  <2> QED
    BY <2>1, <2>2, NewRowFields
<1>3. ASSUME NEW j \in Jobs, RowSteps(j)
      PROVE  Rank(rows[k].status) < Rank(rows'[k].status)
  <2>1. PICK row \in Rows : UpdateRow(j, row) /\ Writes(j, row)
    BY <1>3, RowStepWrites
  <2>2. k = j /\ rows'[j] = row /\ HasRow(j)
    BY <2>1, RowWrite
  <2>3. rows[j].status \in Open /\ row.status # rows[j].status
    BY <2>1, <2>2 DEF Writes
  <2>4. \/ row.status \in {"settled", "failed"}
        \/ row.status = "done" /\ rows[j].status \in Unproved
        \/ row.status = "running" /\ rows[j].status \in Early
    BY <2>1 DEF Writes
  <2> QED
    BY <2>2, <2>3, <2>4
<1>4. ASSUME NEW j \in Jobs, QuietSteps(j)
      PROVE  rows' = rows
  BY <1>4, QuietFrame
<1>5. CASE WorldSteps
  BY <1>5, WorldFrame
<1>6. CASE Crash
  BY <1>6 DEF Crash, dbVars
<1>7. CASE UNCHANGED vars
  BY <1>7 DEF vars, dbVars
<1> QED
  BY <1>1, <1>2, <1>3, <1>4, <1>5, <1>6, <1>7, StepGroups

\* Statuses only move forward; settled and failed are final.
THEOREM StatusesForward == Spec => StatusForward
<1>1. IInv /\ [Next]_vars =>
         [\A j \in Jobs : rows'[j].status # rows[j].status =>
              Rank(rows[j].status) < Rank(rows'[j].status)]_vars
  BY RankStep
<1> QED
  BY <1>1, InvariantHolds, PTL DEF Spec, StatusForward

\* Until a restart the manager only moves a job forward.
LEMMA ManagerStep ==
  ASSUME TypeOK, [Next]_vars, NEW k \in Jobs, crashes' = crashes
  PROVE  Rank(jobs[k]) <= Rank(jobs'[k]) /\ jobs'[k] \in PS!JobStates
<1> USE DEF TypeOK, PS!TypeOK, PS!JobStates, Rank
<1>1. ASSUME NEW j \in Jobs, PS!Submit(j) \/ PS!Serve(j)
      PROVE  Rank(jobs[k]) <= Rank(jobs'[k]) /\ jobs'[k] \in PS!JobStates
  BY <1>1 DEF PS!Submit, PS!Serve, PS!Start, PS!Finish, PS!Fail, PS!Move
<1>2. ASSUME NEW j \in Jobs, RowSteps(j) \/ QuietSteps(j)
      PROVE  jobs' = jobs
  BY <1>2, RowStepWrites, QuietFrame
<1>3. ASSUME NEW j \in Jobs, SubmitJob(j) \/ PersistJob(j)
      PROVE  PS!Submit(j) \/ jobs' = jobs
  BY <1>3 DEF SubmitJob, PersistJob
<1>4. CASE WorldSteps
  <2>1. (\E j \in Jobs : PS!Serve(j)) \/ jobs' = jobs
    BY <1>4 DEF WorldSteps, Prove, MineTx, RevertTx, ChainStep
  <2> QED
    BY <1>1, <2>1
<1>5. CASE Crash
  BY <1>5, BoundsAssumption DEF Crash
<1>6. CASE UNCHANGED vars
  BY <1>6 DEF vars
<1> QED
  BY <1>1, <1>2, <1>3, <1>4, <1>5, <1>6, StepGroups

\* A row that an answered request did not insert is never inserted.
LEMMA NoLateRow ==
  ASSUME IInv, [Next]_vars, NEW k \in Jobs, handler[k] = "answered", ~HasRow(k)
  PROVE  ~HasRow(k)'
<1> USE DEF IInv, TypeOK, HasRow
<1>1. ASSUME NEW j \in Jobs, SubmitJob(j) PROVE rows' = rows
  BY <1>1 DEF SubmitJob, dbVars
<1>2. ASSUME NEW j \in Jobs, PersistJob(j) PROVE rows'[k] = rows[k]
  BY <1>2 DEF PersistJob, InsertRow, WriteFails
<1>3. ASSUME NEW j \in Jobs, RowSteps(j) PROVE rows'[k] = rows[k]
  <2>1. PICK row \in Rows : UpdateRow(j, row)
    BY <1>3, RowStepWrites
  <2> QED
    BY <2>1, RowWrite
<1>4. ASSUME NEW j \in Jobs, QuietSteps(j) PROVE rows' = rows
  BY <1>4, QuietFrame
<1>5. CASE WorldSteps
  BY <1>5, WorldFrame
<1>6. CASE Crash
  BY <1>6 DEF Crash, dbVars
<1>7. CASE UNCHANGED vars
  BY <1>7 DEF vars, dbVars
<1> QED
  BY <1>1, <1>2, <1>3, <1>4, <1>5, <1>6, <1>7, StepGroups

\* Clients see statuses move forward, whoever answers.
THEOREM ToldStatusesForward == Spec => ToldForward
<1>1. ASSUME IInv, IInv', [Next]_vars, NEW j \in Jobs,
             handler[j] = "answered", crashes' = crashes
      PROVE  Rank(GetJobStatus(j, TRUE).status) <= Rank(GetJobStatus(j, TRUE)'.status)
  <2>1. rows[j].status \in Statuses /\ rows'[j].status \in Statuses
    BY <1>1 DEF IInv, TypeOK, Rows
  <2>2. ~HasRow(j) => GetJobStatus(j, TRUE).status = jobs[j]
    BY DEF GetJobStatus, FromManager, NoRow
  <2>3. (~HasRow(j))' => GetJobStatus(j, TRUE)'.status = jobs'[j]
    BY DEF GetJobStatus, FromManager, NoRow
  <2>4. CASE HasRow(j)
    <3>1. \/ rows'[j].status = rows[j].status
          \/ Rank(rows[j].status) < Rank(rows'[j].status)
      BY <1>1, RankStep
    <3>2. HasRow(j)'
      BY <2>1, <2>4, <3>1 DEF HasRow, Rank, Statuses
    <3> QED
      BY <2>1, <2>4, <3>1, <3>2 DEF GetJobStatus, Rank, Statuses
  <2>5. CASE ~HasRow(j)
    BY <1>1, <2>2, <2>3, <2>5, ManagerStep, NoLateRow DEF IInv
  <2> QED
    BY <2>4, <2>5
<1>2. IInv /\ IInv' /\ [Next]_vars =>
         [\A j \in Jobs : handler[j] = "answered" /\ crashes' = crashes =>
              Rank(GetJobStatus(j, TRUE).status) <=
                 Rank(GetJobStatus(j, TRUE)'.status)]_vars
  BY <1>1
<1> QED
  BY <1>2, InvariantHolds, PTL DEF Spec, ToldForward

----------------------------------------------------------------------------
(* The promise to the clients                                              *)

\* What JobService sees of a row, of the requests and of StarkNet.
View(row) == [status |-> row.status, proof |-> row.proof,
              error |-> row.error # "none", tx |-> row.txHash # "none",
              batch |-> FALSE]
Table    == [j \in Jobs |-> View(rows[j])]
Accepted == {j \in Jobs : handler[j] # "idle"}
Recorded == {j \in Jobs : BR!IsInferenceVerified(IdOf[j])}

\* The refinement mapping by these names.
LEMMA Mapping ==
  /\ \A j \in Jobs : JS!HasRow(j) <=> HasRow(j)
  /\ \A j \in Jobs : JS!Unfinished(j) <=> /\ HasRow(j)
                                          /\ rows[j].error = "none"
                                          /\ rows[j].txHash = "none"
  BY DEF JS!vars, JS!jobVars, JS!HasRow, JS!Unfinished, HasRow, Table, View,
         Accepted, Recorded

\* Recorded only depends on the chains, the other two on what they are of.
LEMMA MappingFrame ==
  /\ UNCHANGED chainVars => Recorded' = Recorded
  /\ UNCHANGED handler => Accepted' = Accepted
  /\ UNCHANGED rows => Table' = Table
  BY DEF Recorded, Accepted, Table, View, chainVars, BR!IsInferenceVerified,
         BR!StoredId

\* A write of the settlement task is one that JobService allows, or shows
\* nothing.
LEMMA WriteRefines ==
  ASSUME IInv, NEW j \in Jobs, RowSteps(j)
  PROVE  JS!RowStep(j) \/ UNCHANGED JS!vars
<1> USE DEF IInv, TypeOK
<1>1. UNCHANGED <<jobs, Accepted, Recorded>>
  BY RowStepWrites, MappingFrame
<1>2. PICK row \in Rows : UpdateRow(j, row) /\ Writes(j, row)
  BY RowStepWrites
<1>3. CASE rows'[j] = rows[j]
  <2>1. Table' = Table
    BY <1>2, <1>3, RowWrite DEF Table
  <2> QED
    BY <1>1, <2>1 DEF JS!vars, JS!jobVars, Table, View, Accepted, Recorded
<1>4. CASE rows'[j] # rows[j]
  <2>1. HasRow(j) /\ Table' = [Table EXCEPT ![j] = View(row)]
    <3>1. HasRow(j) /\ rows'[j] = row /\ \A k \in Jobs : k # j => rows'[k] = rows[k]
      BY <1>2, <1>4, RowWrite
    <3> QED
      BY <3>1 DEF Table
  <2>2. JS!Unfinished(j) /\ rows[j].status \in Open
    BY <1>2, <2>1, Mapping
       DEF Writes, RowFollowsTask, Proved, Open, Unproved, Early
  <2>3. rows[j].error = "none" /\ rows[j].txHash = "none"
    BY <2>2, Mapping
  <2>4. /\ row \in Rows /\ rows[j] \in Rows
        /\ Table[j] = View(rows[j])
    BY DEF Table
  <2>5. ASSUME task[j] = "starting"
        PROVE  JS!Advance(j)
    <3>1. rows[j].status = "queued" /\ row.proof = rows[j].proof
      BY <1>2, <2>1, <2>4, <2>5 DEF RowFollowsTask, Early, HasRow, Writes, Rows
    <3>2. View(row) = JS!Row("running", rows[j].proof, FALSE, FALSE, FALSE)
      BY <1>2, <2>3, <2>5, <3>1 DEF Writes, View, JS!Row
    <3>3. JS!MarkRunning(j)
      BY <1>1, <2>1, <2>2, <3>1, <3>2
         DEF JS!MarkRunning, JS!Write, JS!jobVars, Table, View, Accepted,
             Recorded
    <3> QED
      BY <3>3 DEF JS!Advance
  <2>6. ASSUME task[j] \in {"polling", "failing"}
        PROVE  JS!Advance(j)
    <3>1. View(row) = JS!Row("failed", rows[j].proof, TRUE, FALSE, FALSE)
      BY <1>2, <2>3, <2>4, <2>6 DEF Writes, Rows, View, JS!Row
    <3>2. JS!MarkFailed(j)
      BY <1>1, <2>1, <2>2, <3>1
         DEF JS!MarkFailed, JS!Write, JS!jobVars, Table, View, Accepted,
             Recorded
    <3> QED
      BY <3>2 DEF JS!Advance
  <2>7. ASSUME task[j] = "storing"
        PROVE  JS!Advance(j)
    <3>1. rows[j].status \in {"queued", "running"} /\ jobs[j] = "done"
      BY <2>1, <2>7
         DEF RowFollowsTask, ProverKnown, Proved, Unproved, Early, HasRow
    <3>2. View(row) = JS!Row("done", TRUE, FALSE, FALSE, FALSE)
      BY <1>2, <2>3, <2>4, <2>7, <3>1 DEF Writes, Rows, View, JS!Row
    <3>3. JS!MarkDone(j)
      BY <1>1, <2>1, <2>2, <3>1, <3>2
         DEF JS!MarkDone, JS!Write, JS!jobVars, Table, View, Accepted, Recorded
    <3> QED
      BY <3>3 DEF JS!Advance
  <2>8. ASSUME task[j] = "settling"
        PROVE  JS!Advance(j)
    <3>1. jobs[j] = "done" /\ j \in Recorded /\ row.txHash # "none"
      BY <1>2, <2>8 DEF ProverKnown, ChainKnown, Proved, Recorded, Writes
    <3>2. View(row) = JS!Row("settled", rows[j].proof, FALSE, TRUE, FALSE)
      BY <1>2, <2>3, <2>4, <2>8, <3>1 DEF Writes, Rows, View, JS!Row
    <3>3. JS!MarkSettled(j)
      BY <1>1, <2>1, <2>2, <3>1, <3>2
         DEF JS!MarkSettled, JS!Write, JS!jobVars, Table, View, Accepted,
             Recorded
    <3> QED
      BY <3>3 DEF JS!Advance
  <2>9. JS!Advance(j)
    BY <1>2, <2>5, <2>6, <2>7, <2>8 DEF Writes
  <2>10. CASE Table'[j] = Table[j]
    <3>1. View(row) = Table[j]
      BY <2>1, <2>10 DEF Table
    <3>2. Table' = Table
      BY <2>1, <3>1 DEF Table
    <3> QED
      BY <1>1, <3>2 DEF JS!vars, JS!jobVars, Table, View, Accepted, Recorded
  <2>11. CASE Table'[j] # Table[j]
    BY <2>9, <2>11 DEF JS!RowStep, Table, View
  <2> QED
    BY <2>10, <2>11
<1> QED
  BY <1>3, <1>4

\* A request's steps: the manager is given the job, then its row is inserted.
LEMMA RequestRefines ==
  ASSUME IInv, NEW j \in Jobs, SubmitJob(j) \/ PersistJob(j)
  PROVE  JS!Accept(j) \/ JS!RowStep(j) \/ UNCHANGED JS!vars
<1> USE DEF IInv, TypeOK
<1>1. CASE SubmitJob(j)
  <2>1. /\ j \notin Accepted /\ Accepted' = Accepted \cup {j}
        /\ PS!Submit(j)
        /\ UNCHANGED <<Table, Recorded>>
    BY <1>1, MappingFrame DEF SubmitJob, Accepted, dbVars
  <2>2. JS!Accept(j)
    BY <2>1 DEF JS!Accept, JS!PS!Submit, JS!PS!Move, PS!Submit, PS!Move,
                Table, View, Accepted, Recorded
  <2> QED
    BY <2>2
<1>2. CASE PersistJob(j)
  <2>1. /\ j \in Accepted /\ Accepted' = Accepted
        /\ UNCHANGED <<jobs, Recorded>>
    BY <1>2, MappingFrame DEF PersistJob, Accepted
  <2>2. ~HasRow(j)
    BY <1>2 DEF PersistJob, RowFollowsTask
  <2>3. CASE rows' = [rows EXCEPT ![j] = NewRow]
    <3>1. View(NewRow) = JS!NewRow
      BY NewRowFields DEF View, JS!NewRow, JS!Row
    <3>2. Table' = [Table EXCEPT ![j] = JS!NewRow]
      BY <2>3, <3>1 DEF Table
    <3>3. JS!Insert(j)
      BY <2>1, <2>2, <3>2, Mapping
         DEF JS!Insert, JS!Write, JS!jobVars, Table, View, Accepted, Recorded
    <3>4. Table'[j] # Table[j]
      BY <2>2, <3>2 DEF Table, View, JS!NewRow, JS!Row, HasRow
    <3> QED
      BY <3>3, <3>4 DEF JS!RowStep, JS!Advance, Table, View
  <2>4. CASE rows' = rows
    <3>1. Table' = Table
      BY <2>4, MappingFrame
    <3> QED
      BY <2>1, <3>1 DEF JS!vars, JS!jobVars, Table, View, Accepted, Recorded
  <2> QED
    BY <1>2, <2>3, <2>4 DEF PersistJob, InsertRow, WriteFails
<1> QED
  BY <1>1, <1>2

\* The chains record at most one more job in a step.
LEMMA OneMoreRecorded ==
  ASSUME IInv, [Next]_vars
  PROVE  \/ Recorded' = Recorded
         \/ \E j \in Jobs : Recorded' = Recorded \cup {j}
<1>1. Recorded \subseteq Recorded'
  BY ChainFacts DEF Recorded
<1>2. ASSUME NEW j \in Recorded' \ Recorded, NEW k \in Recorded' \ Recorded
      PROVE  j = k
  <2>1. /\ j \in Jobs /\ k \in Jobs
        /\ BP!IsInferenceVerified(IdOf[j])' # BP!IsInferenceVerified(IdOf[j])
        /\ BP!IsInferenceVerified(IdOf[k])' # BP!IsInferenceVerified(IdOf[k])
    BY <1>2 DEF Recorded, BR!IsInferenceVerified, BP!IsInferenceVerified,
                BR!StoredId, BP!StoredId
  <2>2. BP!IInv /\ [BP!Next]_(BP!vars)
    BY ChainPart DEF IInv
  <2>3. IdOf[j] = IdOf[k]
    BY <2>1, <2>2, BridgeAssumptions, BP!OneRecordPerStep
       DEF BP!WordsAssumption, BP!FieldSizeAssumption, BP!NoRecordAssumption
  <2> QED
    BY <2>1, <2>3, HashAssumption
<1>3. Recorded' \subseteq Jobs
  BY DEF Recorded
<1> QED
  BY <1>1, <1>2, <1>3

\* The steps of the chains and of the manager.
LEMMA WorldRefines ==
  ASSUME IInv, [Next]_vars, WorldSteps
  PROVE  (\E j \in Jobs : JS!Prove(j) \/ JS!Record(j)) \/ UNCHANGED JS!vars
<1>1. UNCHANGED <<Accepted, Table>>
  BY WorldFrame, MappingFrame
<1>2. ASSUME NEW j \in Jobs, Prove(j)
      PROVE  JS!Prove(j)
  <2>1. PS!Serve(j) /\ UNCHANGED Recorded
    BY <1>2, MappingFrame DEF Prove
  <2>2. JS!PS!RunningCount = PS!RunningCount
    BY DEF JS!PS!RunningCount, JS!PS!RunningJobs, JS!PS!Cardinality,
           PS!RunningCount, PS!RunningJobs, PS!Cardinality
  <2>3. JS!PS!Serve(j)
    BY <2>1, <2>2 DEF JS!PS!Serve, JS!PS!Start, JS!PS!Finish, JS!PS!Fail,
       JS!PS!Move, PS!Serve, PS!Start, PS!Finish, PS!Fail, PS!Move
  <2> QED
    BY <1>1, <2>1, <2>3 DEF JS!Prove, Table, View, Accepted, Recorded
<1>3. CASE UNCHANGED jobs
  <2>1. CASE Recorded' = Recorded
    BY <1>1, <1>3, <2>1
       DEF JS!vars, JS!jobVars, Table, View, Accepted, Recorded
  <2>2. ASSUME NEW j \in Jobs, Recorded' = Recorded \cup {j}
        PROVE  JS!Record(j)
    BY <1>1, <1>3, <2>2
       DEF JS!Record, JS!jobVars, Table, View, Accepted, Recorded
  <2> QED
    BY <2>1, <2>2, OneMoreRecorded
<1> QED
  BY <1>2, <1>3 DEF WorldSteps, MineTx, RevertTx, ChainStep

\* A restart of the gateway is one to its clients.
LEMMA CrashRefines ==
  ASSUME IInv, Crash
  PROVE  JS!Restart
<1>1. UNCHANGED <<Table, Recorded>> /\ PS!Restart
  BY MappingFrame DEF Crash, dbVars
<1>2. Accepted' = Accepted
  BY DEF IInv, TypeOK, Crash, Accepted
<1> QED
  BY <1>1, <1>2 DEF JS!Restart, JS!PS!Restart, PS!Restart, Table, View,
                    Accepted, Recorded

\* The pipeline, for any number of jobs, failing writes, restarts and callers
\* of the bridge, is a gateway as its clients know it.
THEOREM PipelineImplementsJobService == Spec => ImplementsJobService
<1>1. ASSUME Init
      PROVE  JS!Init
  <2>1. Accepted = {} /\ Table = [j \in Jobs |-> JS!NoRow]
    <3>1. View(NoRow) = JS!NoRow
      BY DEF View, NoRow, JS!NoRow, JS!Row
    <3> QED
      BY <1>1, <3>1 DEF Init, Accepted, Table
  <2>2. Recorded = {}
    BY <1>1 DEF Init, BR!Init, Recorded, BR!IsInferenceVerified, BR!StoredId
  <2> QED
    BY <1>1, <2>1, <2>2 DEF Init, PS!Init, JS!Init, JS!PS!Init, Table, View,
                            Accepted, Recorded
<1>2. ASSUME IInv, [Next]_vars
      PROVE  [JS!Next]_(JS!vars)
  <2>1. ASSUME NEW j \in Jobs, SubmitJob(j) \/ PersistJob(j)
        PROVE  JS!Next \/ UNCHANGED JS!vars
    BY <1>2, <2>1, RequestRefines DEF JS!Next
  <2>2. ASSUME NEW j \in Jobs, RowSteps(j)
        PROVE  JS!Next \/ UNCHANGED JS!vars
    BY <1>2, <2>2, WriteRefines DEF JS!Next
  <2>3. ASSUME NEW j \in Jobs, QuietSteps(j)
        PROVE  UNCHANGED JS!vars
    <3>1. UNCHANGED <<jobs, chainVars, handler, rows>>
      BY <2>3 DEF QuietSteps, PollDone, PollPending, CheckVerified, SendTx,
         Receipt, PollRecorded, PollUnrecorded, SubmitFails, OffChain, dbVars
    <3> QED
      BY <3>1, MappingFrame
         DEF JS!vars, JS!jobVars, Table, View, Accepted, Recorded
  <2>4. CASE WorldSteps
    BY <1>2, <2>4, WorldRefines DEF JS!Next
  <2>5. CASE Crash
    BY <1>2, <2>5, CrashRefines DEF JS!Next
  <2>6. CASE UNCHANGED vars
    <3>1. UNCHANGED <<jobs, chainVars, handler, rows>>
      BY <2>6 DEF vars, dbVars
    <3> QED
      BY <3>1, MappingFrame
         DEF JS!vars, JS!jobVars, Table, View, Accepted, Recorded
  <2> QED
    BY <1>2, <2>1, <2>2, <2>3, <2>4, <2>5, <2>6, StepGroups
<1> QED
  BY <1>1, <1>2, InvariantHolds, PTL DEF Spec, ImplementsJobService, JS!Spec

----------------------------------------------------------------------------
(* Progress                                                                *)

Active(j) == task[j] \notin {"none", "ended"}

\* The loops count from 0, each up to its own limit.
AttemptsInLoop ==
    \A j \in Jobs :
        /\ task[j] = "polling"  => attempts[j] <= MaxPolls
        /\ task[j] = "awaiting" => attempts[j] <= MaxL2Polls
        /\ task[j] \in {"none", "starting", "storing", "checking", "sending",
                        "confirming"} => attempts[j] = 0

\* The manager knows every job whose request is being served or was answered,
\* unless the gateway was restarted since.
TaskKnowsJob ==
    \A j \in Jobs :
        handler[j] = "inserting" \/ Active(j) => jobs[j] # "absent"

\* How far a task is from its end.
Distance(j) ==
    LET polls   == MaxPolls - attempts[j]
        l2Polls == MaxL2Polls - attempts[j]
    IN CASE task[j] = "starting"   -> MaxPolls + MaxL2Polls + 8
         [] task[j] = "polling"    -> polls + MaxL2Polls + 7
         [] task[j] = "storing"    -> MaxL2Polls + 6
         [] task[j] = "checking"   -> MaxL2Polls + 5
         [] task[j] = "sending"    -> MaxL2Polls + 4
         [] task[j] = "confirming" -> MaxL2Polls + 3
         [] task[j] = "awaiting"   -> l2Polls + 2
         [] task[j] \in {"settling", "failing"} -> 1
         [] task[j] \in {"none", "ended"} -> 0

\* Whether some step of a settlement task is possible: the guards of Settler(j)
\* without the steps' effects (a write that succeeds is always one of them).
CanRun(j) ==
    \/ task[j] \in {"starting", "storing", "checking", "sending", "confirming",
                    "settling", "failing"}
    \/ /\ task[j] = "polling"
       /\ \/ jobs[j] \in {"done", "failed"}
          \/ Pending(j) /\ (attempts[j] < MaxPolls \/ attempts[j] = MaxPolls)
    \/ /\ task[j] = "awaiting"
       /\ attempts[j] < MaxL2Polls \/ attempts[j] \in {0, MaxL2Polls}

\* Tokio runs the task, all whose waits are timed: the fairness of FairSpec with
\* its ENABLED written out.
SettlerRuns(j) == []([]CanRun(j) => <><<Settler(j)>>_vars)

\* The fairness of FairSpec is that, wherever the guards enable the action.
LEMMA FairnessRuns ==
  ASSUME NEW j \in Jobs
  PROVE  WF_vars(Settler(j)) /\ [](CanRun(j) => ENABLED <<Settler(j)>>_vars)
         => SettlerRuns(j)
  BY PTL DEF SettlerRuns

PInv == IInv /\ AttemptsInLoop /\ TaskKnowsJob

\* What a step of the task itself does to its position and its counter.
LEMMA SettlerMoves ==
  ASSUME IInv, AttemptsInLoop, NEW j \in Jobs, Settler(j)
  PROVE  /\ Active(j) /\ Distance(j)' < Distance(j)
         /\ UNCHANGED <<jobs, handler>>
         /\ \A k \in Jobs \ {j} : task'[k] = task[k] /\ attempts'[k] = attempts[k]
         /\ task'[j] = "polling"  => attempts'[j] \in 0..MaxPolls
         /\ task'[j] = "awaiting" => attempts'[j] \in 0..MaxL2Polls
         /\ task'[j] \in {"storing", "checking", "sending", "confirming"}
               => attempts'[j] = 0
         /\ task'[j] \notin {"none", "starting"}
<1> USE DEF Goto, OffChain
<1>1. /\ attempts \in [Jobs -> 0..(MaxPolls + MaxL2Polls)]
      /\ task \in [Jobs -> TaskStates]
      /\ MaxPolls \in Nat /\ MaxL2Polls \in Nat
  BY BoundsAssumption DEF IInv, TypeOK
<1>2. /\ task[j] = "polling"  => attempts[j] \in 0..MaxPolls
      /\ task[j] = "awaiting" => attempts[j] \in 0..MaxL2Polls
      /\ task[j] \in {"none", "starting", "storing", "checking", "sending",
                      "confirming"} => attempts[j] = 0
  BY <1>1 DEF AttemptsInLoop
<1>3. UNCHANGED <<jobs, handler>>
  BY DEF Settler, PollManager, Submit, MarkRunning, PollDone, PollFailed,
         PollPending, PollGivesUp, MarkDone, CheckVerified, SendTx, Receipt,
         PollRecorded, PollUnrecorded, SubmitFails, MarkSettled, MarkFailed
<1>4. CASE \/ MarkRunning(j) \/ MarkDone(j) \/ CheckVerified(j) \/ SendTx(j)
           \/ Receipt(j) \/ PollRecorded(j) \/ SubmitFails(j)
           \/ PollFailed(j) \/ PollGivesUp(j) \/ MarkSettled(j) \/ MarkFailed(j)
  <2>1. /\ attempts' = attempts
        /\ \E to \in TaskStates :
              /\ task' = [task EXCEPT ![j] = to]
              /\ \/ task[j] = "starting"   /\ to = "polling"
                 \/ task[j] = "storing"    /\ to \in {"checking", "ended"}
                 \/ task[j] = "checking"   /\ to \in {"awaiting", "sending", "failing"}
                 \/ task[j] = "sending"    /\ to \in {"confirming", "failing"}
                 \/ task[j] = "confirming" /\ to \in {"awaiting", "failing"}
                 \/ task[j] = "awaiting"   /\ to \in {"settling", "failing"}
                 \/ task[j] \in {"polling", "settling", "failing"} /\ to = "ended"
    BY <1>4 DEF MarkRunning, MarkDone, CheckVerified, SendTx, Receipt,
                PollRecorded, SubmitFails, PollFailed, PollGivesUp,
                MarkSettled, MarkFailed, TaskStates
  <2> QED
    BY <1>1, <1>2, <1>3, <2>1 DEF Distance, Active
<1>5. CASE PollDone(j)
  <2>1. /\ task[j] = "polling" /\ task' = [task EXCEPT ![j] = "storing"]
        /\ attempts' = [attempts EXCEPT ![j] = 0]
    BY <1>5 DEF PollDone
  <2> QED
    BY <1>1, <1>2, <1>3, <2>1 DEF Distance, Active
<1>6. CASE PollPending(j) \/ PollUnrecorded(j)
  <2>1. /\ \/ task[j] = "polling" /\ attempts[j] < MaxPolls
           \/ task[j] = "awaiting" /\ attempts[j] < MaxL2Polls
        /\ task' = task
        /\ attempts' = [attempts EXCEPT ![j] = @ + 1]
    BY <1>6 DEF PollPending, PollUnrecorded
  <2> QED
    BY <1>1, <1>2, <1>3, <2>1 DEF Distance, Active
<1> QED
  BY <1>4, <1>5, <1>6 DEF Settler, PollManager, Submit


\* What every other step does to an active task: nothing, or it is the crash.
LEMMA OthersKeepTask ==
  ASSUME IInv, [Next]_vars, NEW j \in Jobs, Active(j), ~Settler(j)
  PROVE  \/ task'[j] = task[j] /\ attempts'[j] = attempts[j]
         \/ task'[j] = "ended"
<1>1. task \in [Jobs -> TaskStates] /\ attempts \in [Jobs -> Nat]
  BY BoundsAssumption DEF IInv, TypeOK
<1>2. ASSUME NEW k \in Jobs, k # j, RowSteps(k) \/ QuietSteps(k)
      PROVE  task'[j] = task[j] /\ attempts'[j] = attempts[j]
  <2>1. task'[j] = task[j]
    BY <1>2, OtherTasks DEF IInv
  <2>2. attempts'[j] = attempts[j]
    BY <1>1, <1>2
       DEF RowSteps, QuietSteps, MarkRunning, PollDone, PollFailed, PollPending,
           PollGivesUp, MarkDone, CheckVerified, SendTx, Receipt, PollRecorded,
           PollUnrecorded, SubmitFails, MarkSettled, MarkFailed, OffChain
  <2> QED
    BY <2>1, <2>2
<1>3. ~RowSteps(j) /\ ~QuietSteps(j)
  BY DEF RowSteps, QuietSteps, Settler, PollManager, Submit
<1>4. ASSUME NEW k \in Jobs, SubmitJob(k)
      PROVE  task'[j] = task[j] /\ attempts'[j] = attempts[j]
  BY <1>4 DEF SubmitJob, taskVars
<1>5. ASSUME NEW k \in Jobs, PersistJob(k)
      PROVE  task'[j] = task[j] /\ attempts'[j] = attempts[j]
  <2>1. k # j
    BY <1>5 DEF PersistJob, IInv, RowFollowsTask, Active
  <2> QED
    BY <1>1, <1>5, <2>1 DEF PersistJob
<1>6. CASE WorldSteps
  BY <1>6, WorldFrame
<1>7. CASE Crash
  BY <1>7 DEF Crash, Active
<1>8. CASE UNCHANGED vars
  BY <1>8 DEF vars, taskVars
<1> QED
  BY <1>2, <1>3, <1>4, <1>5, <1>6, <1>7, <1>8, StepGroups

\* No step makes a counter run past its loop.
LEMMA LoopStep ==
  ASSUME IInv, AttemptsInLoop, [Next]_vars
  PROVE  AttemptsInLoop'
<1>1. task \in [Jobs -> TaskStates] /\ attempts \in [Jobs -> Nat]
      /\ MaxPolls \in Nat /\ MaxL2Polls \in Nat
  BY BoundsAssumption DEF IInv, TypeOK
<1>2. ASSUME NEW j \in Jobs
      PROVE  /\ task'[j] = "polling"  => attempts'[j] <= MaxPolls
             /\ task'[j] = "awaiting" => attempts'[j] <= MaxL2Polls
             /\ task'[j] \in {"none", "starting", "storing", "checking",
                              "sending", "confirming"} => attempts'[j] = 0
  <2>1. CASE Settler(j)
    <3>1. /\ task'[j] = "polling"  => attempts'[j] \in 0..MaxPolls
          /\ task'[j] = "awaiting" => attempts'[j] \in 0..MaxL2Polls
          /\ task'[j] \in {"storing", "checking", "sending", "confirming"}
                => attempts'[j] = 0
          /\ task'[j] \notin {"none", "starting"}
      BY <2>1, SettlerMoves
    <3> QED
      BY <1>1, <3>1
  <2>2. CASE Active(j) /\ ~Settler(j)
    BY <1>1, <2>2, OthersKeepTask DEF AttemptsInLoop
  <2>3. CASE ~Active(j) /\ ~Settler(j)
    <3>1. CASE PersistJob(j)
      BY <1>1, <3>1 DEF PersistJob, AttemptsInLoop, IInv, RowFollowsTask
    <3>2. CASE Crash
      BY <3>2 DEF Crash
    <3>3. CASE task'[j] = task[j] /\ attempts'[j] = attempts[j]
      BY <3>3 DEF AttemptsInLoop
    <3>4. ASSUME NEW k \in Jobs, k # j, PersistJob(k)
          PROVE  task'[j] = task[j] /\ attempts'[j] = attempts[j]
      BY <1>1, <3>4 DEF PersistJob
    <3>5. ASSUME NEW k \in Jobs, k # j, Settler(k)
          PROVE  task'[j] = task[j] /\ attempts'[j] = attempts[j]
      BY <3>5, SettlerMoves
    <3>6. CASE (\E k \in Jobs : SubmitJob(k)) \/ WorldSteps \/ UNCHANGED vars
      <4>1. task' = task /\ attempts' = attempts
        BY <3>6, WorldFrame DEF SubmitJob, taskVars, vars
      <4> QED
        BY <3>3, <4>1
    <3>7. \/ \E k \in Jobs : PersistJob(k) \/ Settler(k)
          \/ (\E k \in Jobs : SubmitJob(k)) \/ WorldSteps \/ UNCHANGED vars
          \/ Crash
      BY DEF Next, WorldSteps
    <3> QED
      BY <2>3, <3>1, <3>2, <3>3, <3>4, <3>5, <3>6, <3>7
  <2> QED
    BY <2>1, <2>2, <2>3
<1> QED
  BY <1>2 DEF AttemptsInLoop

\* Only a restart makes the manager forget a job, and it ends the job's task.
LEMMA KnowsStep ==
  ASSUME IInv, TaskKnowsJob, [Next]_vars
  PROVE  TaskKnowsJob'
<1> USE DEF IInv, TypeOK, PS!TypeOK, TaskKnowsJob, Active
<1>1. ASSUME NEW k \in Jobs, SubmitJob(k)
      PROVE  TaskKnowsJob'
  BY <1>1 DEF SubmitJob, PS!Submit, PS!Move, taskVars
<1>2. ASSUME NEW k \in Jobs, PersistJob(k)
      PROVE  TaskKnowsJob'
  BY <1>2 DEF PersistJob
<1>3. ASSUME NEW k \in Jobs, RowSteps(k) \/ QuietSteps(k)
      PROVE  TaskKnowsJob'
  <2>1. UNCHANGED <<jobs, handler>>
    BY <1>3, RowStepWrites, QuietFrame
  <2>2. \A i \in Jobs \ {k} : task'[i] = task[i]
    BY <1>3, OtherTasks
  <2>3. Active(k)
    BY <1>3 DEF RowSteps, QuietSteps, MarkRunning, PollDone, PollFailed,
       PollPending, PollGivesUp, MarkDone, CheckVerified, SendTx, Receipt,
       PollRecorded, PollUnrecorded, SubmitFails, MarkSettled, MarkFailed, Goto
  <2> QED
    BY <2>1, <2>2, <2>3
<1>4. CASE WorldSteps
  <2>1. UNCHANGED <<handler, task>>
    BY <1>4, WorldFrame
  <2>2. \A i \in Jobs : jobs[i] # "absent" => jobs'[i] # "absent"
    BY <1>4 DEF WorldSteps, Prove, MineTx, RevertTx, ChainStep, PS!Serve,
                PS!Start, PS!Finish, PS!Fail, PS!Move
  <2> QED
    BY <2>1, <2>2
<1>5. CASE Crash
  BY <1>5 DEF Crash
<1>6. CASE UNCHANGED vars
  BY <1>6 DEF vars, taskVars
<1> QED
  BY <1>1, <1>2, <1>3, <1>4, <1>5, <1>6, StepGroups

\* Every reachable state satisfies the three.
LEMMA ProgressInvariant == Spec => []PInv
<1>1. Init => PInv
  BY InitInv, BoundsAssumption
     DEF Init, PInv, AttemptsInLoop, TaskKnowsJob, Active
<1>2. PInv /\ [Next]_vars => PInv'
  BY InvStep, LoopStep, KnowsStep DEF PInv
<1> QED
  BY <1>1, <1>2, PTL DEF Spec

\* A task that is not over can always go on: there is no position, answer of
\* the manager and count of attempts that no step of the task is for.
LEMMA ActiveCanRun ==
  ASSUME PInv, NEW j \in Jobs, Active(j)
  PROVE  CanRun(j)
<1>1. /\ jobs[j] \in {"queued", "running", "done", "failed"}
      /\ task[j] \in TaskStates \ {"none", "ended"} /\ attempts[j] \in Nat
      /\ MaxPolls \in Nat /\ MaxL2Polls \in Nat
  BY BoundsAssumption
     DEF PInv, IInv, TypeOK, PS!TypeOK, PS!JobStates, TaskKnowsJob, Active
<1> QED
  BY <1>1 DEF CanRun, Pending, TaskStates, PInv, AttemptsInLoop

\* The distance is a number, and 0 only of a task that is not there.
LEMMA DistanceType ==
  ASSUME PInv, NEW j \in Jobs
  PROVE  Distance(j) \in Nat /\ (Active(j) <=> Distance(j) > 0)
<1>1. /\ task[j] \in TaskStates /\ attempts[j] \in Nat
      /\ MaxPolls \in Nat /\ MaxL2Polls \in Nat
  BY BoundsAssumption DEF PInv, IInv, TypeOK
<1> QED
  BY <1>1 DEF TaskStates, PInv, AttemptsInLoop, Distance, Active

\* A task that is over stays over: nothing is resumed, and no row is taken up
\* again.
LEMMA EndedStays ==
  ASSUME IInv, AttemptsInLoop, [Next]_vars, NEW j \in Jobs, task[j] = "ended"
  PROVE  task'[j] = "ended"
<1>1. task \in [Jobs -> TaskStates]
  BY DEF IInv, TypeOK
<1>2. CASE \E k \in Jobs : PersistJob(k)
  <2>1. PICK k \in Jobs : PersistJob(k)
    BY <1>2
  <2>2. k # j
    BY <2>1 DEF PersistJob, IInv, RowFollowsTask
  <2> QED
    BY <1>1, <2>1, <2>2 DEF PersistJob
<1>3. CASE \E k \in Jobs : Settler(k)
  <2>1. PICK k \in Jobs : Settler(k)
    BY <1>3
  <2>2. k # j
    BY <2>1, SettlerMoves DEF Active
  <2> QED
    BY <2>1, <2>2, SettlerMoves
<1>4. CASE (\E k \in Jobs : SubmitJob(k)) \/ WorldSteps \/ UNCHANGED vars
  BY <1>4, WorldFrame DEF SubmitJob, taskVars, vars
<1>5. CASE Crash
  BY <1>5 DEF Crash
<1>6. \/ \E k \in Jobs : PersistJob(k) \/ Settler(k)
      \/ (\E k \in Jobs : SubmitJob(k)) \/ WorldSteps \/ UNCHANGED vars
      \/ Crash
  BY DEF Next, WorldSteps
<1> QED
  BY <1>2, <1>3, <1>4, <1>5, <1>6

\* No step takes a task away from its end, and its own bring it nearer.
LEMMA DistanceStep ==
  ASSUME PInv, [Next]_vars, NEW j \in Jobs, Active(j)
  PROVE  /\ \/ Active(j)' /\ Distance(j)' = Distance(j)
            \/ Distance(j)' < Distance(j)
         /\ Settler(j) => Distance(j)' < Distance(j)
<1>1. CASE Settler(j)
  BY <1>1, SettlerMoves DEF PInv
<1>2. CASE ~Settler(j)
  <2>1. CASE task'[j] = task[j] /\ attempts'[j] = attempts[j]
    BY <1>2, <2>1 DEF Active, Distance
  <2>2. CASE task'[j] = "ended"
    <3>1. Distance(j)' = 0
      BY <2>2 DEF Distance
    <3> QED
      BY <1>2, <3>1, DistanceType
  <2> QED
    BY <1>2, <2>1, <2>2, OthersKeepTask DEF PInv
<1> QED
  BY <1>1, <1>2

\* RowsReachFinal, up to the induction on the distance: from whatever distance a
\* settlement task is at, it comes nearer to its end, when the prover hangs, no
\* transaction is ever mined, no message is delivered and writes fail.
THEOREM TasksComeNearer ==
  ASSUME NEW j \in Jobs, NEW n \in Nat
  PROVE  Spec /\ SettlerRuns(j) =>
           (Active(j) /\ Distance(j) = n ~> Distance(j) < n)
<1>1. PInv /\ [Next]_vars /\ (Active(j) /\ Distance(j) = n)
         => ((Active(j) /\ Distance(j) = n) \/ Distance(j) < n)'
  BY DistanceStep
<1>2. PInv /\ [Next]_vars /\ (Active(j) /\ Distance(j) = n) /\ Settler(j)
         => (Distance(j) < n)'
  BY DistanceStep
<1>3. PInv /\ Active(j) /\ Distance(j) = n => CanRun(j)
  BY ActiveCanRun
<1> QED
  BY <1>1, <1>2, <1>3, ProgressInvariant, PTL DEF Spec, SettlerRuns

\* spawn_settler: no task makes more than MaxPolls + MaxL2Polls + 8 steps, since
\* it starts no further than that from its end, each of its own steps brings it
\* nearer, and no other step takes it away or makes an ended task active.
THEOREM TasksAreBounded ==
  Spec => /\ [](\A j \in Jobs : Distance(j) \in 0..(MaxPolls + MaxL2Polls + 8))
          /\ [][\A j \in Jobs :
                  /\ Settler(j) => Distance(j)' < Distance(j)
                  /\ Active(j) => Distance(j)' <= Distance(j)
                  /\ task[j] = "ended" => task'[j] = "ended"]_vars
<1>1. PInv => \A j \in Jobs : Distance(j) \in 0..(MaxPolls + MaxL2Polls + 8)
  <2> SUFFICES ASSUME PInv, NEW j \in Jobs
               PROVE  Distance(j) \in 0..(MaxPolls + MaxL2Polls + 8)
    OBVIOUS
  <2>1. /\ task[j] \in TaskStates /\ attempts[j] \in Nat
        /\ MaxPolls \in Nat /\ MaxL2Polls \in Nat
    BY BoundsAssumption DEF PInv, IInv, TypeOK
  <2>2. /\ task[j] = "polling"  => attempts[j] <= MaxPolls
        /\ task[j] = "awaiting" => attempts[j] <= MaxL2Polls
    BY DEF PInv, AttemptsInLoop
  <2>3. CASE task[j] = "polling"
    <3>1. Distance(j) = MaxPolls - attempts[j] + MaxL2Polls + 7
      BY ONLY <2>3 DEF Distance
    <3> QED
      BY ONLY <2>1, <2>2, <2>3, <3>1
  <2>4. CASE task[j] = "awaiting"
    <3>1. Distance(j) = MaxL2Polls - attempts[j] + 2
      BY ONLY <2>4 DEF Distance
    <3> QED
      BY ONLY <2>1, <2>2, <2>4, <3>1
  <2>5. CASE task[j] \notin {"polling", "awaiting"}
    <3>1. Distance(j) \in {MaxPolls + MaxL2Polls + 8, MaxL2Polls + 6,
                           MaxL2Polls + 5, MaxL2Polls + 4, MaxL2Polls + 3, 1, 0}
      BY ONLY <2>1, <2>5 DEF TaskStates, Distance
    <3> QED
      BY ONLY <2>1, <3>1
  <2> QED
    BY <2>3, <2>4, <2>5
<1>2. PInv /\ [Next]_vars =>
        [\A j \in Jobs :
            /\ Settler(j) => Distance(j)' < Distance(j)
            /\ Active(j) => Distance(j)' <= Distance(j)
            /\ task[j] = "ended" => task'[j] = "ended"]_vars
  <2> SUFFICES ASSUME PInv, [Next]_vars, NEW j \in Jobs
               PROVE  /\ Settler(j) => Distance(j)' < Distance(j)
                      /\ Active(j) => Distance(j)' <= Distance(j)
                      /\ task[j] = "ended" => task'[j] = "ended"
    OBVIOUS
  <2>1. Settler(j) => Distance(j)' < Distance(j)
    BY SettlerMoves DEF PInv
  <2>2. Active(j) => Distance(j)' <= Distance(j)
    <3>1. PInv'
      BY InvStep, LoopStep, KnowsStep DEF PInv
    <3>2. /\ task'[j] \in TaskStates /\ attempts'[j] \in Nat
          /\ MaxPolls \in Nat /\ MaxL2Polls \in Nat
      BY <3>1, BoundsAssumption DEF PInv, IInv, TypeOK
    <3>3. /\ task'[j] = "polling"  => attempts'[j] <= MaxPolls
          /\ task'[j] = "awaiting" => attempts'[j] <= MaxL2Polls
      BY <3>1 DEF PInv, AttemptsInLoop
    <3>4. Distance(j)' \in Nat
      BY ONLY <3>2, <3>3 DEF TaskStates, Distance
    <3>5. Distance(j) \in Nat
      BY DistanceType
    <3> QED
      BY <3>4, <3>5, DistanceStep
  <2>3. task[j] = "ended" => task'[j] = "ended"
    BY EndedStays DEF PInv
  <2> QED
    BY <2>1, <2>2, <2>3
<1> QED
  BY <1>1, <1>2, ProgressInvariant, PTL DEF Spec

\* The end of the induction: at distance 0 a row that is there is final, unless
\* a write failed or the gateway was restarted.
LEMMA NearestIsFinal ==
  ASSUME PInv, NEW j \in Jobs, Distance(j) = 0, HasRow(j), faults + crashes = 0
  PROVE  rows[j].status \in Final
<1>1. task[j] \in {"none", "ended"}
  BY DistanceType DEF Active
<1> QED
  BY <1>1 DEF PInv, IInv, RowFollowsTask, OnlyFaultsStrandRows

============================================================================
