----------------------------- MODULE JobService -----------------------------
(***************************************************************************)
(* What the gateway promises its clients about a job: the manager's map    *)
(* and the row in Postgres as GET /v1/jobs/{id} and GET .../proof show     *)
(* them, and what StarkNet has on record. How the gateway keeps the        *)
(* promise (handlers, settlement tasks, transactions, messages, failing    *)
(* writes) is module JobPipeline, which implements this one; an aggregator *)
(* may be at work on the same table. SdkClient is composed with this one.  *)
(*                                                                         *)
(* Nothing is promised about progress: a row may never be written.         *)
(***************************************************************************)
EXTENDS Naturals, FiniteSets

CONSTANTS Jobs, MaxConcurrent   \* see ProofService

VARIABLES
    jobs,       \* the manager's map: ProofService
    accepted,   \* the jobs the manager was ever given
    rows,       \* the jobs table
    recorded    \* the jobs whose inference StarkNet has on record

PS == INSTANCE ProofService

jobVars == <<jobs, accepted>>
vars == <<jobVars, rows, recorded>>

----------------------------------------------------------------------------
Statuses == {"absent", "queued", "running", "done", "settled", "failed"}

\* What is told apart of a row: the proof path, the error, the transaction hash
\* and the batch id are there or not.
Rows == [status : Statuses, proof : BOOLEAN, error : BOOLEAN, tx : BOOLEAN,
         batch : BOOLEAN]
Row(status, proof, error, tx, batch) ==
    [status |-> status, proof |-> proof, error |-> error, tx |-> tx,
     batch |-> batch]
NoRow  == Row("absent", FALSE, FALSE, FALSE, FALSE)
NewRow == Row("queued", FALSE, FALSE, FALSE, FALSE)

HasRow(j) == rows[j].status # "absent"

\* The gateway writes one error or one transaction, as the last thing it does.
Unfinished(j) == HasRow(j) /\ ~rows[j].error /\ ~rows[j].tx

TypeOK == /\ PS!TypeOK
          /\ accepted \subseteq Jobs
          /\ rows \in [Jobs -> Rows]
          /\ recorded \subseteq Jobs

Init == /\ PS!Init
        /\ accepted = {}
        /\ rows = [j \in Jobs |-> NoRow]
        /\ recorded = {}

----------------------------------------------------------------------------
(* The manager                                                             *)

Accept(j) == /\ j \notin accepted
             /\ accepted' = accepted \cup {j}
             /\ PS!Submit(j)
             /\ UNCHANGED <<rows, recorded>>

Prove(j) == PS!Serve(j) /\ UNCHANGED <<accepted, rows, recorded>>

\* The gateway is started again: rows and chains are still there.
Restart == PS!Restart /\ UNCHANGED <<accepted, rows, recorded>>

----------------------------------------------------------------------------
(* The rows                                                                *)

Write(j, row) == /\ rows' = [rows EXCEPT ![j] = row]
                 /\ UNCHANGED <<jobVars, recorded>>

Insert(j) == /\ j \in accepted /\ ~HasRow(j)
             /\ Write(j, NewRow)

MarkRunning(j) == /\ Unfinished(j) /\ rows[j].status = "queued"
                  /\ Write(j, Row("running", rows[j].proof, FALSE, FALSE,
                                  rows[j].batch))

MarkDone(j) ==
    /\ Unfinished(j) /\ rows[j].status \in {"queued", "running"}
    /\ jobs[j] = "done"
    /\ Write(j, Row("done", TRUE, FALSE, FALSE, FALSE))

MarkFailed(j) ==
    /\ Unfinished(j)
    /\ Write(j, Row("failed", rows[j].proof, TRUE, FALSE, rows[j].batch))

\* Mutant: settled as soon as the proof is there.
MarkSettledEarly(j) ==
    /\ Unfinished(j)
    /\ jobs[j] = "done"
    /\ Write(j, Row("settled", rows[j].proof, FALSE, TRUE, rows[j].batch))

MarkSettled(j) ==
    /\ Unfinished(j)
    /\ jobs[j] = "done" /\ j \in recorded
    /\ Write(j, Row("settled", rows[j].proof, FALSE, TRUE, rows[j].batch))

\* The aggregator's assign_jobs_to_batch: a job that was done and without a
\* batch when it was fetched, whatever its row says by now.
Batch(j) == /\ rows[j].proof
            /\ Write(j, Row("settled", TRUE, rows[j].error, rows[j].tx, TRUE))

\* The StarkNet contract records an inference, whoever bridged them.
Record(j) == /\ recorded' = recorded \cup {j}
             /\ UNCHANGED <<jobVars, rows>>

----------------------------------------------------------------------------
(* The answers                                                             *)

\* Mutant: the row or nothing.
StatusAnswerOfRow(j, dbOk) ==
    IF dbOk /\ HasRow(j) THEN [status |-> rows[j].status, tx |-> rows[j].tx]
    ELSE [status |-> "404", tx |-> FALSE]

\* GET /v1/jobs/{id}: the row if Postgres answers with one, else the manager's
\* state, else 404.
StatusAnswer(j, dbOk) ==
    IF dbOk /\ HasRow(j) THEN [status |-> rows[j].status, tx |-> rows[j].tx]
    ELSE [status |-> IF jobs[j] = "absent" THEN "404" ELSE jobs[j], tx |-> FALSE]

\* GET /v1/jobs/{id}/proof asks the manager alone. A job that is not done yet
\* is answered 202, which carries no proof.
ProofAnswer(j) == CASE jobs[j] = "done"   -> "proof"
                    [] jobs[j] = "failed" -> "422"
                    [] jobs[j] = "absent" -> "404"
                    [] OTHER              -> "202"

----------------------------------------------------------------------------
Advance(j) == \/ Insert(j) \/ MarkRunning(j) \/ MarkDone(j) \/ MarkFailed(j)
              \/ MarkSettled(j) \/ Batch(j)

\* A write that changes nothing is no step (and the cheap test comes first).
RowStep(j) == rows'[j] # rows[j] /\ Advance(j)

Next == \/ \E j \in Jobs : Accept(j) \/ Prove(j) \/ RowStep(j) \/ Record(j)
        \/ Restart

Spec == Init /\ [][Next]_vars
============================================================================
