-------------------------- MODULE SdkClientProofs ---------------------------
(***************************************************************************)
(* Proofs about SdkClient, for any number of calls, retries and restarts:  *)
(* what verifyInference() returns is on record, what it throws is final,   *)
(* and no job is unknown before a restart. A call whose requests and clock *)
(* run comes nearer to its end from wherever it is.                        *)
(*                                                                         *)
(* What the client has read stays true while its answer travels, because   *)
(* the service only moves forward: a transaction or an error is never      *)
(* taken back, and a job that the manager gave up is never proved.         *)
(***************************************************************************)
EXTENDS SdkClient, TLAPS

----------------------------------------------------------------------------
(* The inductive invariant                                                 *)

\* The gateway will not write a transaction for this job, unless it is in a
\* batch.
Lost(j) == \/ rows[j].batch
           \/ rows[j].error
           \/ /\ j \in accepted /\ jobs[j] \in {"failed", "absent"}
              /\ ~rows[j].tx

\* A row of a job whose proof is not stored has nothing but its status.
Fresh(row) == row.status \in {"absent", "queued", "running"}
Empty(row) == ~row.proof /\ ~row.error /\ ~row.tx /\ ~row.batch

ServiceInv ==
    \A j \in Attempts :
        /\ j \notin accepted => jobs[j] = "absent" /\ ~JS!HasRow(j)
        /\ Fresh(rows[j]) => Empty(rows[j])
        /\ j \in accepted /\ jobs[j] = "absent" => crashes > 0
        /\ rows[j].tx => /\ j \in recorded /\ ~rows[j].error
                         /\ jobs[j] \in {"done", "absent"}
        /\ rows[j].status = "failed" => rows[j].error
        /\ rows[j].status = "settled" => rows[j].tx \/ rows[j].batch

Following(c) == phase[c] \in {"polling", "asking", "fetching"}
Answered(c)  == reply[c].status # "none"

CallInv(c) ==
    /\ phase[c] = "idle" => job[c] = NoJob
    /\ Following(c) => job[c] \in accepted
    /\ Following(c) => result[c] = "none"
    /\ Answered(c) => phase[c] \in {"asking", "fetching"}
    /\ reply[c].status = "404" => crashes > 0
    /\ phase[c] = "asking" /\ reply[c].status = "failed" => Lost(job[c])
    /\ phase[c] = "asking" /\ reply[c].status = "settled" /\ ~reply[c].tx
          => Lost(job[c])
    /\ phase[c] = "asking" /\ reply[c].tx => rows[job[c]].tx
    /\ phase[c] = "fetching" => rows[job[c]].tx
    /\ Verified(c) => job[c] \in accepted /\ rows[job[c]].tx
    /\ result[c] = "JOB_FAILED" => job[c] \in accepted /\ Lost(job[c])
    /\ result[c] # "none" => phase[c] = "over"

IInv == TypeOK /\ ServiceInv /\ \A c \in Calls : CallInv(c)

----------------------------------------------------------------------------
(* The service                                                             *)

Growing == /\ accepted \subseteq accepted'
           /\ recorded \subseteq recorded'
           /\ \A j \in Attempts : /\ rows[j].tx => rows'[j].tx
                                  /\ Lost(j) => Lost(j)'

\* What holds of a row that the gateway writes.
Written(p, row) ==
    /\ row \in JS!Rows
    /\ p \in accepted /\ row.status # "absent"
    /\ rows[p].tx => row.tx
    /\ rows[p].error => row.error
    /\ rows[p].batch => row.batch
    /\ row.tx => /\ p \in recorded /\ ~row.error
                 /\ jobs[p] \in {"done", "absent"}
    /\ row.tx /\ ~rows[p].tx => ~rows[p].error /\ jobs[p] = "done"
    /\ row.status = "failed" => row.error
    /\ row.status = "settled" => row.tx \/ row.batch
    /\ Fresh(row) => Empty(row)

\* A write to a row keeps the types, the invariant and what clients rely on.
LEMMA GatewayStep ==
  ASSUME TypeOK, ServiceInv, NEW p \in Attempts, JS!Advance(p),
         crashes' = crashes
  PROVE  JS!TypeOK' /\ ServiceInv' /\ Growing
<1> USE DEF TypeOK, JS!TypeOK
<1>0. /\ rows[p] \in JS!Rows
      /\ rows[p].proof \in BOOLEAN /\ rows[p].error \in BOOLEAN
      /\ rows[p].tx \in BOOLEAN /\ rows[p].batch \in BOOLEAN
  BY DEF JS!Rows
<1>1. PICK row \in JS!Rows : JS!Write(p, row) /\ Written(p, row)
  <2> USE DEF JS!Statuses, ServiceInv, JS!HasRow, JS!Unfinished, Fresh, Empty
  <2>1. CASE JS!Insert(p)
    <3>1. Written(p, JS!Row("queued", FALSE, FALSE, FALSE, FALSE))
      <4>1. p \in accepted /\ ~JS!HasRow(p)
        BY <2>1 DEF JS!Insert
      <4> QED
        BY <1>0, <4>1 DEF Written, JS!Row, JS!Rows
    <3> QED
      BY <2>1, <3>1 DEF JS!Insert, Written, JS!NewRow
  <2>2. CASE JS!MarkRunning(p)
    <3>1. Written(p, JS!Row("running", rows[p].proof, FALSE, FALSE,
                             rows[p].batch))
      <4>1. JS!Unfinished(p) /\ rows[p].status = "queued"
        BY <2>2 DEF JS!MarkRunning
      <4> QED
        BY <1>0, <4>1 DEF Written, JS!Row, JS!Rows
    <3> QED
      BY <2>2, <3>1 DEF JS!MarkRunning, Written
  <2>3. CASE JS!MarkDone(p)
    <3>1. Written(p, JS!Row("done", TRUE, FALSE, FALSE, FALSE))
      <4>1. JS!Unfinished(p) /\ Fresh(rows[p])
        BY <2>3 DEF JS!MarkDone
      <4> QED
        BY <1>0, <4>1 DEF Written, JS!Row, JS!Rows
    <3> QED
      BY <2>3, <3>1 DEF JS!MarkDone, Written
  <2>4. CASE JS!MarkFailed(p)
    <3>1. Written(p, JS!Row("failed", rows[p].proof, TRUE, FALSE,
                             rows[p].batch))
      <4>1. JS!Unfinished(p)
        BY <2>4 DEF JS!MarkFailed
      <4> QED
        BY <1>0, <4>1 DEF Written, JS!Row, JS!Rows
    <3> QED
      BY <2>4, <3>1 DEF JS!MarkFailed, Written
  <2>5. CASE JS!MarkSettled(p)
    <3>1. Written(p, JS!Row("settled", rows[p].proof, FALSE, TRUE,
                             rows[p].batch))
      <4>1. JS!Unfinished(p) /\ jobs[p] = "done" /\ p \in recorded
        BY <2>5 DEF JS!MarkSettled
      <4> QED
        BY <1>0, <4>1 DEF Written, JS!Row, JS!Rows
    <3> QED
      BY <2>5, <3>1 DEF JS!MarkSettled, Written
  <2>6. CASE JS!Batch(p)
    <3>1. Written(p, JS!Row("settled", TRUE, rows[p].error, rows[p].tx, TRUE))
      <4>1. rows[p].proof
        BY <2>6 DEF JS!Batch
      <4> QED
        BY <1>0, <4>1 DEF Written, JS!Row, JS!Rows
    <3> QED
      BY <2>6, <3>1 DEF JS!Batch, Written
  <2> QED
    BY <2>1, <2>2, <2>3, <2>4, <2>5, <2>6 DEF JS!Advance
<1>2. /\ rows' = [rows EXCEPT ![p] = row]
      /\ UNCHANGED <<jobs, accepted, recorded>>
  BY <1>1 DEF JS!Write, JS!jobVars
<1>3. rows'[p] = row /\ \A j \in Attempts : j # p => rows'[j] = rows[j]
  BY <1>2
<1>4. JS!TypeOK'
  BY <1>2 DEF JS!PS!TypeOK
<1>5. ServiceInv'
  BY <1>1, <1>2, <1>3 DEF Written, ServiceInv, JS!HasRow
<1>6. Growing
  BY <1>1, <1>2, <1>3 DEF Written, Growing, Lost
<1> QED
  BY <1>4, <1>5, <1>6

\* The steps of the manager and of the chains, and a restart.
LEMMA ManagerStep ==
  ASSUME TypeOK, ServiceInv,
         \/ \E p \in Attempts : /\ JS!Accept(p) \/ JS!Prove(p) \/ JS!Record(p)
                                /\ crashes' = crashes
         \/ JS!Restart /\ crashes' = crashes + 1
  PROVE  JS!TypeOK' /\ ServiceInv' /\ Growing
<1> USE DEF TypeOK, JS!TypeOK, JS!PS!TypeOK, JS!PS!JobStates
<1>1. ASSUME NEW p \in Attempts, JS!Accept(p), crashes' = crashes
      PROVE  JS!TypeOK' /\ ServiceInv' /\ Growing
  <2>1. /\ p \notin accepted /\ accepted' = accepted \cup {p}
        /\ jobs[p] = "absent" /\ jobs' = [jobs EXCEPT ![p] = "queued"]
        /\ UNCHANGED <<rows, recorded>>
    BY <1>1 DEF JS!Accept, JS!PS!Submit, JS!PS!Move
  <2> QED
    BY <1>1, <2>1 DEF ServiceInv, Growing, Lost, JS!HasRow, Fresh, Empty
<1>2. ASSUME NEW p \in Attempts, JS!Prove(p), crashes' = crashes
      PROVE  JS!TypeOK' /\ ServiceInv' /\ Growing
  <2>1. PICK s \in {"running", "done", "failed"} :
           jobs' = [jobs EXCEPT ![p] = s]
    BY <1>2 DEF JS!Prove, JS!PS!Serve, JS!PS!Start, JS!PS!Finish, JS!PS!Fail,
                JS!PS!Move
  <2>2. jobs[p] \in {"queued", "running"}
    BY <1>2 DEF JS!Prove, JS!PS!Serve, JS!PS!Start, JS!PS!Finish, JS!PS!Fail,
                JS!PS!Move
  <2>3. UNCHANGED <<accepted, rows, recorded>>
    BY <1>2 DEF JS!Prove
  <2> QED
    BY <1>2, <2>1, <2>2, <2>3
       DEF ServiceInv, Growing, Lost, JS!HasRow, Fresh, Empty
<1>3. ASSUME NEW p \in Attempts, JS!Record(p), crashes' = crashes
      PROVE  JS!TypeOK' /\ ServiceInv' /\ Growing
  BY <1>3 DEF JS!Record, JS!jobVars, ServiceInv, Growing, Lost, JS!HasRow,
              Fresh, Empty
<1>4. ASSUME JS!Restart, crashes' = crashes + 1
      PROVE  JS!TypeOK' /\ ServiceInv' /\ Growing
  BY <1>4, SdkAssumption
     DEF JS!Restart, JS!PS!Restart, ServiceInv, Growing, Lost, JS!HasRow,
         Fresh, Empty
<1> QED
  BY <1>1, <1>2, <1>3, <1>4

----------------------------------------------------------------------------
(* The calls                                                               *)

ServiceSteps == \/ \E p \in Attempts : AcceptPost(p) \/ LosePost(p) \/ Work(p)
                \/ Crash
CallSteps(c) == Post(c) \/ Client(c) \/ Tell(c) \/ Expire(c)

\* A step of the service side keeps everything.
LEMMA ServiceSide ==
  ASSUME IInv, ServiceSteps
  PROVE  IInv'
<1> USE DEF IInv
<1>1. /\ UNCHANGED <<callVars, late>>
      /\ posts' \subseteq posts
      /\ crashes' \in 0..MaxCrashes /\ crashes' >= crashes
  BY SdkAssumption
     DEF TypeOK, ServiceSteps, AcceptPost, LosePost, Work, Crash, GatewayOnly
<1>2. JS!TypeOK' /\ ServiceInv' /\ Growing
  <2>1. ASSUME NEW p \in Attempts, JS!Advance(p), crashes' = crashes
        PROVE  JS!TypeOK' /\ ServiceInv' /\ Growing
    BY <2>1, GatewayStep
  <2>2. CASE UNCHANGED serviceVars /\ crashes' = crashes
    BY <2>2 DEF serviceVars, TypeOK, JS!TypeOK, JS!PS!TypeOK, ServiceInv,
                Growing, Lost, JS!HasRow, Fresh, Empty
  <2> QED
    BY <2>1, <2>2, ManagerStep
       DEF ServiceSteps, AcceptPost, LosePost, Work, Crash
<1>3. TypeOK'
  BY <1>1, <1>2 DEF TypeOK, callVars
<1>4. ASSUME NEW c \in Calls
      PROVE  CallInv(c)'
  <2>1. Following(c) \/ Verified(c) \/ result[c] = "JOB_FAILED"
           => job[c] \in accepted /\ job[c] \in Attempts
    BY DEF CallInv, TypeOK, JS!TypeOK
  <2>2. job[c] \in Attempts =>
           /\ job[c] \in accepted => job[c] \in accepted'
           /\ rows[job[c]].tx => rows'[job[c]].tx
           /\ Lost(job[c]) => Lost(job[c])'
    BY <1>1, <1>2 DEF Growing, Lost, callVars
  <2>3. /\ UNCHANGED <<phase, tries, job, reply, result>>
        /\ crashes > 0 => crashes' > 0
    BY <1>1, SdkAssumption DEF callVars, TypeOK
  <2> DEFINE lost == Lost(job[c])
             paid == rows[job[c]].tx
  <2>4. /\ CallInv(c)
        /\ Following(c) \/ Verified(c) \/ result[c] = "JOB_FAILED"
              => (paid => paid') /\ (lost => lost') /\ job[c] \in accepted'
    BY <2>1, <2>2, <2>3
  <2> QED
    BY <2>3, <2>4 DEF CallInv, Following, Answered, Verified
<1> QED
  BY <1>2, <1>3, <1>4

\* The values of a call after one of its steps.
CallTypes(c) == /\ phase[c] \in Phases /\ tries[c] \in 0..MaxRetries
                /\ job[c] \in Attempts \cup {NoJob} /\ reply[c] \in Replies
                /\ late[c] \in BOOLEAN /\ result[c] \in Results

\* A request that was not retried yet.
LEMMA NoTries == MaxRetries \in Nat /\ 0 \in 0..MaxRetries
  BY SdkAssumption

\* No answer is not an answer.
LEMMA NoReplyFields ==
  NoReply \in Replies /\ NoReply.status = "none" /\ ~NoReply.tx
  BY DEF NoReply, Replies

\* A step of a call changes nothing of the service or of other calls.
LEMMA CallFrame ==
  ASSUME IInv, NEW c \in Calls, CallSteps(c)
  PROVE  /\ UNCHANGED <<serviceVars, crashes>>
         /\ posts' \subseteq Attempts
         /\ phase' = [phase EXCEPT ![c] = phase'[c]]
         /\ tries' = [tries EXCEPT ![c] = tries'[c]]
         /\ job' = [job EXCEPT ![c] = job'[c]]
         /\ reply' = [reply EXCEPT ![c] = reply'[c]]
         /\ late' = [late EXCEPT ![c] = late'[c]]
         /\ result' = [result EXCEPT ![c] = result'[c]]
<1> USE DEF IInv, TypeOK, Goto, Ends, Retry, Reply, ClientOnly, callVars
<1>1. CASE Post(c)
  BY <1>1, SdkAssumption DEF Post, Attempts
<1>2. CASE RetryPost(c)
  BY <1>2, SdkAssumption DEF RetryPost, MayRetry, Attempts
<1>3. CASE PostFails(c) \/ PostRefused(c) \/ PostAnswered(c)
  BY <1>3 DEF PostFails, PostRefused, PostAnswered
<1>4. CASE Poll(c)
  BY <1>4 DEF Poll, Ask, GiveUp, AskFails, ReadPending, ReadFailed, ReadSettled
<1>5. CASE RetryGet(c) \/ Fetch(c)
  BY <1>5 DEF RetryGet, Fetch, ReadProof, NoProof
<1>6. CASE Tell(c)
  BY <1>6 DEF Tell, TellStatus, TellProof
<1>7. CASE Expire(c)
  BY <1>7 DEF Expire
<1> QED
  BY <1>1, <1>2, <1>3, <1>4, <1>5, <1>6, <1>7 DEF CallSteps, Client, Submit

\* The answers are typed, and true when they are given.
LEMMA AnswersTrue ==
  ASSUME IInv, NEW j \in accepted
  PROVE  /\ \A dbOk \in BOOLEAN :
               LET answer == JS!StatusAnswer(j, dbOk)
               IN  /\ answer \in Replies
                   /\ answer.status = "404" => crashes > 0
                   /\ answer.status = "failed" => Lost(j)
                   /\ answer.status = "settled" /\ ~answer.tx => Lost(j)
                   /\ answer.tx => rows[j].tx
         /\ LET answer == [status |-> JS!ProofAnswer(j), tx |-> FALSE]
            IN  /\ answer \in Replies
                /\ answer.status = "404" => crashes > 0
<1>1. j \in Attempts
  BY DEF IInv, TypeOK, JS!TypeOK
<1>2. /\ rows[j] \in JS!Rows /\ jobs[j] \in JS!PS!JobStates
      /\ rows[j].status \in JS!Statuses /\ rows[j].tx \in BOOLEAN
  BY <1>1 DEF IInv, TypeOK, JS!TypeOK, JS!PS!TypeOK, JS!Rows
<1>3. /\ jobs[j] = "absent" => crashes > 0
      /\ rows[j].status = "failed" => rows[j].error
      /\ rows[j].status = "settled" => rows[j].tx \/ rows[j].batch
      /\ rows[j].tx => jobs[j] \in {"done", "absent"}
  BY <1>1 DEF IInv, ServiceInv
<1>4. ASSUME NEW dbOk \in BOOLEAN
      PROVE  LET answer == JS!StatusAnswer(j, dbOk)
             IN  /\ answer \in Replies
                 /\ answer.status = "404" => crashes > 0
                 /\ answer.status = "failed" => Lost(j)
                 /\ answer.status = "settled" /\ ~answer.tx => Lost(j)
                 /\ answer.tx => rows[j].tx
  <2>1. CASE dbOk /\ JS!HasRow(j)
    BY <1>2, <1>3, <2>1
       DEF JS!StatusAnswer, JS!Statuses, Replies, Lost
  <2>2. CASE ~(dbOk /\ JS!HasRow(j))
    BY <1>2, <1>3, <2>2
       DEF JS!StatusAnswer, JS!Statuses, Replies, Lost, JS!PS!JobStates
  <2> QED
    BY <2>1, <2>2
<1>5. LET answer == [status |-> JS!ProofAnswer(j), tx |-> FALSE]
      IN  /\ answer \in Replies
          /\ answer.status = "404" => crashes > 0
  BY <1>2, <1>3 DEF JS!ProofAnswer, Replies, JS!PS!JobStates
<1> QED
  BY <1>4, <1>5

\* Where a step leads that goes to another phase.
LEMMA Goes ==
  ASSUME TypeOK, NEW c \in Calls, NEW from, NEW to, Goto(c, from, to)
  PROVE  /\ phase[c] = from /\ phase'[c] = to
         /\ tries'[c] = 0 /\ reply'[c] = NoReply
  BY DEF TypeOK, Goto

\* Where a step leads that ends the call.
LEMMA IsOver ==
  ASSUME TypeOK, NEW c \in Calls, NEW from, NEW outcome, Ends(c, from, outcome)
  PROVE  /\ phase[c] = from /\ phase'[c] = "over"
         /\ tries'[c] = 0 /\ reply'[c] = NoReply
         /\ result'[c] = outcome /\ job' = job
<1>1. Goto(c, from, "over")
  BY DEF Ends
<1> QED
  BY <1>1, Goes DEF Ends, TypeOK

\* A call may end with any result that is true of its job.
LEMMA EndsWell ==
  ASSUME IInv, NEW c \in Calls, NEW from, NEW outcome \in Results \ {"none"},
         Ends(c, from, outcome), UNCHANGED <<serviceVars, late, crashes>>,
         outcome \in {"verified", "verified without proof"}
            => job[c] \in accepted /\ rows[job[c]].tx,
         outcome = "JOB_FAILED" => job[c] \in accepted /\ Lost(job[c])
  PROVE  CallTypes(c)' /\ CallInv(c)'
<1>1. TypeOK /\ CallTypes(c) /\ CallInv(c)
  BY DEF IInv, TypeOK, CallTypes
<1>2. /\ phase'[c] = "over" /\ tries'[c] = 0 /\ reply'[c] = NoReply
      /\ result'[c] = outcome /\ job' = job
  BY <1>1, IsOver
<1>3. 0 \in 0..MaxRetries
  BY NoTries
<1>4. CallTypes(c)'
  BY <1>1, <1>2, <1>3, NoReplyFields DEF CallTypes, Phases
<1>5. Verified(c)' => job'[c] \in accepted' /\ rows'[job'[c]].tx
  BY <1>2 DEF Verified, serviceVars
<1>6. result'[c] = "JOB_FAILED" => job'[c] \in accepted' /\ Lost(job[c])'
  BY <1>2 DEF Lost, serviceVars
<1> QED
  BY <1>2, <1>4, <1>5, <1>6, NoReplyFields DEF CallInv, Following, Answered

\* The steps of submitJob().
LEMMA SubmitSteps ==
  ASSUME IInv, NEW c \in Calls, Post(c) \/ Submit(c)
  PROVE  CallTypes(c)' /\ CallInv(c)'
<1>1. UNCHANGED <<serviceVars, crashes, late>>
  BY DEF Post, Submit, RetryPost, PostFails, PostRefused, PostAnswered,
         ClientOnly
<1>2. TypeOK /\ CallTypes(c) /\ CallInv(c)
  BY DEF IInv, TypeOK, CallTypes
<1>3. 0 \in 0..MaxRetries
  BY NoTries
<1>4. CASE Post(c)
  <2>1. Goto(c, "idle", "posting") /\ UNCHANGED <<job, result>>
    BY <1>4 DEF Post
  <2>2. /\ phase[c] = "idle" /\ phase'[c] = "posting"
        /\ tries'[c] = 0 /\ reply'[c] = NoReply
    BY <1>2, <2>1, Goes
  <2> QED
    BY <1>1, <1>2, <1>3, <2>1, <2>2, NoReplyFields
       DEF CallTypes, CallInv, Following, Answered, Verified, Phases
<1>5. CASE RetryPost(c)
  <2>1. /\ reply'[c] = NoReply /\ tries'[c] = tries[c] + 1
        /\ tries[c] < MaxRetries /\ phase[c] = "posting"
        /\ UNCHANGED <<phase, job, result>>
    BY <1>2, <1>5 DEF RetryPost, Retry, MayRetry, TypeOK
  <2>2. tries'[c] \in 0..MaxRetries
    BY <1>2, <2>1, NoTries DEF CallTypes
  <2> QED
    BY <1>1, <1>2, <2>1, <2>2, NoReplyFields
       DEF CallTypes, CallInv, Following, Answered, Verified
<1>6. CASE PostFails(c) \/ PostRefused(c)
  <2>1. Ends(c, "posting", "SUBMIT_FAILED")
    BY <1>6 DEF PostFails, PostRefused
  <2> QED
    BY <1>1, <2>1, EndsWell DEF Results
<1>7. CASE PostAnswered(c)
  <2>1. /\ Goto(c, "posting", "polling") /\ result' = result
        /\ <<c, tries[c]>> \in accepted
        /\ job' = [job EXCEPT ![c] = <<c, tries[c]>>]
    BY <1>7 DEF PostAnswered
  <2>2. /\ phase[c] = "posting" /\ phase'[c] = "polling"
        /\ tries'[c] = 0 /\ reply'[c] = NoReply
    BY <1>2, <2>1, Goes
  <2>3. job'[c] \in accepted' /\ job'[c] \in Attempts /\ result'[c] = "none"
    BY <1>1, <1>2, <2>1, <2>2
       DEF TypeOK, JS!TypeOK, CallInv, serviceVars
  <2> QED
    BY <1>1, <1>2, <1>3, <2>1, <2>2, <2>3, NoReplyFields
       DEF CallTypes, CallInv, Following, Answered, Verified, Phases
<1> QED
  BY <1>4, <1>5, <1>6, <1>7 DEF Submit

\* The steps of pollUntilDone().
LEMMA PollSteps ==
  ASSUME IInv, NEW c \in Calls, Poll(c)
  PROVE  CallTypes(c)' /\ CallInv(c)'
<1>1. UNCHANGED <<serviceVars, crashes, late>>
  BY DEF Poll, Ask, GiveUp, AskFails, ReadPending, ReadFailed, ReadSettled,
         ClientOnly
<1>2. TypeOK /\ CallTypes(c) /\ CallInv(c)
  BY DEF IInv, TypeOK, CallTypes
<1>3. 0 \in 0..MaxRetries
  BY NoTries
<1>4. CASE GiveUp(c)
  <2>1. Ends(c, "polling", "TIMEOUT")
    BY <1>4 DEF GiveUp
  <2> QED
    BY <1>1, <2>1, EndsWell DEF Results
<1>5. CASE AskFails(c)
  <2>1. Ends(c, "asking", "POLL_FAILED")
    BY <1>5 DEF AskFails
  <2> QED
    BY <1>1, <2>1, EndsWell DEF Results
<1>6. CASE ReadFailed(c)
  <2>1. /\ Ends(c, "asking", "JOB_FAILED") /\ phase[c] = "asking"
        /\ \/ reply[c].status = "failed"
           \/ reply[c].status = "settled" /\ ~reply[c].tx
    BY <1>6 DEF ReadFailed, Ends, Goto
  <2>2. job[c] \in accepted /\ Lost(job[c])
    BY <1>2, <2>1 DEF CallInv, Following
  <2> QED
    BY <1>1, <2>1, <2>2, EndsWell DEF Results
<1>7. CASE Ask(c) \/ ReadPending(c)
  <2>1. PICK from \in {"polling", "asking"}, to \in {"polling", "asking"} :
           Goto(c, from, to) /\ UNCHANGED <<job, result>>
    BY <1>7 DEF Ask, ReadPending
  <2>2. /\ phase[c] = from /\ phase'[c] = to
        /\ tries'[c] = 0 /\ reply'[c] = NoReply
    BY <1>2, <2>1, Goes
  <2> QED
    BY <1>1, <1>2, <1>3, <2>1, <2>2, NoReplyFields
       DEF CallTypes, CallInv, Following, Answered, Verified, Phases,
           serviceVars
<1>8. CASE ReadSettled(c)
  <2>1. Goto(c, "asking", "fetching") /\ UNCHANGED <<job, result>>
        /\ reply[c].tx
    BY <1>8 DEF ReadSettled
  <2>2. /\ phase[c] = "asking" /\ phase'[c] = "fetching"
        /\ tries'[c] = 0 /\ reply'[c] = NoReply
    BY <1>2, <2>1, Goes
  <2> QED
    BY <1>1, <1>2, <1>3, <2>1, <2>2, NoReplyFields
       DEF CallTypes, CallInv, Following, Answered, Verified, Phases,
           serviceVars
<1> QED
  BY <1>4, <1>5, <1>6, <1>7, <1>8 DEF Poll

\* A request sent again, and the steps of fetchAttestationHash().
LEMMA FetchSteps ==
  ASSUME IInv, NEW c \in Calls, RetryGet(c) \/ Fetch(c)
  PROVE  CallTypes(c)' /\ CallInv(c)'
<1>1. UNCHANGED <<serviceVars, crashes, late>>
  BY DEF RetryGet, Fetch, ReadProof, NoProof, ClientOnly
<1>2. TypeOK /\ CallTypes(c) /\ CallInv(c)
  BY DEF IInv, TypeOK, CallTypes
<1>3. CASE RetryGet(c)
  <2>1. /\ reply'[c] = NoReply /\ tries'[c] = tries[c] + 1
        /\ tries[c] < MaxRetries
        /\ UNCHANGED <<phase, job, result>>
    BY <1>2, <1>3 DEF RetryGet, Retry, MayRetry, TypeOK
  <2>2. tries'[c] \in 0..MaxRetries
    BY <1>2, <2>1, NoTries DEF CallTypes
  <2> QED
    BY <1>1, <1>2, <2>1, <2>2, NoReplyFields
       DEF CallTypes, CallInv, Following, Answered, Verified, serviceVars,
           Lost
<1>4. CASE Fetch(c)
  <2>1. PICK outcome \in {"verified", "verified without proof"} :
           Ends(c, "fetching", outcome) /\ phase[c] = "fetching"
    BY <1>4 DEF Fetch, ReadProof, NoProof, Ends, Goto
  <2>2. job[c] \in accepted /\ rows[job[c]].tx
    BY <1>2, <2>1 DEF CallInv, Following
  <2> QED
    BY <1>1, <2>1, <2>2, EndsWell DEF Results
<1> QED
  BY <1>3, <1>4

\* The answers of the gateway, and the clock.
LEMMA TellSteps ==
  ASSUME IInv, NEW c \in Calls, Tell(c) \/ Expire(c)
  PROVE  CallTypes(c)' /\ CallInv(c)'
<1>1. UNCHANGED <<serviceVars, crashes, phase, tries, job, result>>
  BY DEF Tell, TellStatus, TellProof, Reply, Expire, ClientOnly, callVars
<1>2. TypeOK /\ CallTypes(c) /\ CallInv(c)
  BY DEF IInv, TypeOK, CallTypes
<1>3. CASE Expire(c)
  <2>1. reply' = reply /\ late'[c] \in BOOLEAN
    BY <1>2, <1>3 DEF Expire, callVars, TypeOK
  <2> QED
    BY <1>1, <1>2, <2>1
       DEF CallTypes, CallInv, Following, Answered, Verified, serviceVars,
           Lost
<1>4. ASSUME NEW dbOk \in BOOLEAN, TellStatus(c, dbOk)
      PROVE  CallTypes(c)' /\ CallInv(c)'
  <2>1. /\ phase[c] = "asking" /\ late' = late
        /\ reply'[c] = JS!StatusAnswer(job[c], dbOk)
    BY <1>2, <1>4 DEF TellStatus, Reply, TypeOK, ClientOnly
  <2>2. /\ reply'[c] \in Replies
        /\ reply'[c].status = "404" => crashes > 0
        /\ reply'[c].status = "failed" => Lost(job[c])
        /\ reply'[c].status = "settled" /\ ~reply'[c].tx => Lost(job[c])
        /\ reply'[c].tx => rows[job[c]].tx
    BY <1>2, <2>1, AnswersTrue DEF CallInv, Following
  <2> QED
    BY <1>1, <1>2, <2>1, <2>2
       DEF CallTypes, CallInv, Following, Answered, Verified, serviceVars,
           Lost
<1>5. CASE TellProof(c)
  <2>1. /\ phase[c] = "fetching" /\ late' = late
        /\ reply'[c] = [status |-> JS!ProofAnswer(job[c]), tx |-> FALSE]
    BY <1>2, <1>5 DEF TellProof, Reply, TypeOK, ClientOnly
  <2>2. /\ reply'[c] \in Replies
        /\ reply'[c].status = "404" => crashes > 0
    BY <1>2, <2>1, AnswersTrue DEF CallInv, Following
  <2> QED
    BY <1>1, <1>2, <2>1, <2>2
       DEF CallTypes, CallInv, Following, Answered, Verified, serviceVars,
           Lost
<1> QED
  BY <1>3, <1>4, <1>5 DEF Tell

\* A step of a call keeps everything.
LEMMA CallSide ==
  ASSUME IInv, NEW c \in Calls, CallSteps(c)
  PROVE  IInv'
<1>1. UNCHANGED <<serviceVars, crashes>> /\ posts' \subseteq Attempts
  BY CallFrame
<1>2. JS!TypeOK' /\ ServiceInv'
  BY <1>1 DEF IInv, serviceVars, TypeOK, JS!TypeOK, JS!PS!TypeOK, ServiceInv,
              JS!HasRow, Fresh, Empty
<1>3. CallTypes(c)' /\ CallInv(c)'
  BY SubmitSteps, PollSteps, FetchSteps, TellSteps DEF CallSteps, Client
<1>4. TypeOK'
  <2>1. CallTypes(c)'
    BY <1>3
  <2> QED
    BY <1>1, <1>2, <2>1, CallFrame DEF IInv, TypeOK, CallTypes
<1>5. ASSUME NEW d \in Calls, d # c
      PROVE  CallInv(d)'
  <2>1. /\ phase'[d] = phase[d] /\ job'[d] = job[d] /\ reply'[d] = reply[d]
        /\ result'[d] = result[d]
    BY <1>5, CallFrame DEF IInv, TypeOK
  <2>2. CallInv(d)
    BY DEF IInv
  <2> QED
    BY <1>1, <2>1, <2>2
       DEF CallInv, Following, Answered, Verified, serviceVars, Lost
<1> QED
  BY <1>2, <1>3, <1>4, <1>5 DEF IInv

----------------------------------------------------------------------------
(* The theorems                                                            *)

\* The initial states satisfy the inductive invariant.
LEMMA InitInv ==
  ASSUME Init
  PROVE  IInv
<1>1. JS!NoRow \in JS!Rows /\ Fresh(JS!NoRow) /\ Empty(JS!NoRow)
      /\ JS!NoRow.status = "absent"
  BY DEF JS!NoRow, JS!Row, JS!Rows, JS!Statuses, Fresh, Empty
<1>2. JS!TypeOK
  BY <1>1 DEF Init, JS!Init, JS!TypeOK, JS!PS!Init, JS!PS!TypeOK,
              JS!PS!JobStates
<1>3. TypeOK
  BY <1>2, NoTries, NoReplyFields, SdkAssumption
     DEF Init, TypeOK, Phases, Results
<1>4. ServiceInv
  BY <1>1 DEF Init, JS!Init, JS!PS!Init, ServiceInv, JS!HasRow, Fresh, Empty
<1>5. \A c \in Calls : CallInv(c)
  BY NoReplyFields DEF Init, CallInv, Following, Answered, Verified
<1> QED
  BY <1>3, <1>4, <1>5 DEF IInv

\* The invariant is inductive.
LEMMA InvStep ==
  ASSUME IInv, [Next]_vars
  PROVE  IInv'
<1>1. CASE ServiceSteps
  BY <1>1, ServiceSide
<1>2. ASSUME NEW c \in Calls, CallSteps(c)
      PROVE  IInv'
  BY <1>2, CallSide
<1>3. CASE UNCHANGED vars
  BY <1>3 DEF vars, serviceVars, callVars, IInv, TypeOK, JS!TypeOK,
     JS!PS!TypeOK, ServiceInv, JS!HasRow, Fresh, Empty, CallInv, Following,
     Answered, Verified, Lost
<1> QED
  BY <1>1, <1>2, <1>3 DEF Next, ServiceSteps, CallSteps

\* Every reachable state satisfies it.
THEOREM InvariantHolds == Spec => []IInv
  BY InitInv, InvStep, PTL DEF Spec

\* Every variable of clients and service keeps its type; in particular no
\* request is sent more than 1 + MaxRetries times.
THEOREM TypeCorrect == Spec => []TypeOK
<1>1. IInv => TypeOK
  BY DEF IInv
<1> QED
  BY <1>1, InvariantHolds, PTL

\* A verified result is on record at StarkNet, whatever was retried, lost,
\* answered late or restarted.
THEOREM ResultsRecorded == Spec => []ResultIsRecorded
<1>1. IInv => ResultIsRecorded
  <2> SUFFICES ASSUME IInv, NEW c \in Calls, Verified(c)
               PROVE  job[c] \in recorded /\ rows[job[c]].tx
    BY DEF ResultIsRecorded
  <2>1. job[c] \in accepted /\ rows[job[c]].tx /\ accepted \subseteq Attempts
    BY DEF IInv, CallInv, TypeOK, JS!TypeOK
  <2> QED
    BY <2>1 DEF IInv, ServiceInv
<1> QED
  BY <1>1, InvariantHolds, PTL

\* A job reported failed gets no transaction later, unless it is in a batch.
THEOREM FailuresFinal == Spec => []JobFailedIsFinal
<1>1. IInv => JobFailedIsFinal
  <2> SUFFICES ASSUME IInv, NEW c \in Calls, result[c] = "JOB_FAILED"
               PROVE  ~rows[job[c]].tx \/ rows[job[c]].batch
    BY DEF JobFailedIsFinal
  <2>1. job[c] \in Attempts /\ Lost(job[c])
    BY DEF IInv, CallInv, TypeOK, JS!TypeOK
  <2> QED
    BY <2>1 DEF IInv, ServiceInv, Lost
<1> QED
  BY <1>1, InvariantHolds, PTL

\* A job that was handed out is known until a restart.
THEOREM JobsFound == Spec => []KnownJobIsFound
<1>1. IInv => KnownJobIsFound
  BY DEF IInv, CallInv, KnownJobIsFound
<1> QED
  BY <1>1, InvariantHolds, PTL

----------------------------------------------------------------------------
(* Every request of a call comes to an end.                                *)

\* A call on its way.
Busy(c) == phase[c] \in {"posting", "polling", "asking", "fetching"}

\* It polls, and its deadline has not passed: it may ask for another status.
MayAskOn(c) == phase[c] \in {"polling", "asking"} /\ ~late[c]

\* How far a call is from its end. Before the deadline polling goes round in
\* circles; after it one request is left, and the one for the proof.
Distance(c) ==
    LET all  == MaxRetries + 1
        left == MaxRetries - tries[c]
    IN CASE phase[c] = "idle"     -> 3 * all + 3
         [] phase[c] = "posting"  -> 2 * all + 3 + left
         [] MayAskOn(c)           -> 2 * all + 2
         [] phase[c] = "asking" /\ late[c]  -> all + 2 + left
         [] phase[c] = "polling" /\ late[c] -> all + 1
         [] phase[c] = "fetching" -> 1 + left
         [] phase[c] = "over"     -> 0

\* Axios ends every request, by its answer or after its own 30 seconds, and the
\* clock of a call runs: the fairness of FairSpec with its ENABLEDs written out.
\* A busy call can always go on, and Expire(c) binds every variable.
ClientRuns(c) == []([]Busy(c) => <><<Client(c)>>_vars)
ClockRuns(c)  == []([]MayAskOn(c) => <><<Expire(c)>>_vars)

\* The fairness of FairSpec is these two, wherever the guards enable the actions.
LEMMA FairnessRuns ==
  ASSUME NEW c \in Calls
  PROVE  /\ WF_vars(Client(c)) /\ [](Busy(c) => ENABLED <<Client(c)>>_vars)
         /\ WF_vars(Expire(c)) /\ [](MayAskOn(c) => ENABLED <<Expire(c)>>_vars)
         => ClientRuns(c) /\ ClockRuns(c)
  BY PTL DEF ClientRuns, ClockRuns

\* The distance is a number, and one value stands for the time before the deadline.
LEMMA DistanceType ==
  ASSUME TypeOK, NEW c \in Calls
  PROVE  /\ Distance(c) \in Nat
         /\ MayAskOn(c) <=> Distance(c) = 2 * (MaxRetries + 1) + 2
         /\ Busy(c) => Distance(c) > 0
  BY SdkAssumption DEF TypeOK, Phases, Distance, MayAskOn, Busy

\* Steps of others, answers among them, do not move a call.
LEMMA OthersKeepCall ==
  ASSUME IInv, [Next]_vars, NEW c \in Calls, Busy(c), ~Client(c), ~Expire(c)
  PROVE  /\ phase'[c] = phase[c] /\ tries'[c] = tries[c] /\ late'[c] = late[c]
<1>1. CASE UNCHANGED vars
  BY <1>1 DEF vars, callVars
<1>2. CASE ServiceSteps
  BY <1>2 DEF ServiceSteps, AcceptPost, LosePost, Work, Crash, GatewayOnly, callVars
<1>3. ASSUME NEW d \in Calls, d # c, CallSteps(d)
      PROVE  phase'[c] = phase[c] /\ tries'[c] = tries[c] /\ late'[c] = late[c]
  BY <1>3, CallFrame DEF IInv, TypeOK
<1>4. CASE Tell(c)
  BY <1>4 DEF Tell, TellStatus, TellProof, Reply, ClientOnly
<1>5. ~Post(c)
  BY DEF Post, Goto, Busy
<1> QED
  BY <1>1, <1>2, <1>3, <1>4, <1>5 DEF Next, ServiceSteps, CallSteps

\* A step of the client brings the call nearer to its end, or it only asks on.
LEMMA ClientComesNearer ==
  ASSUME IInv, NEW c \in Calls, Client(c)
  PROVE  /\ Busy(c)
         /\ \/ Distance(c)' < Distance(c)
            \/ MayAskOn(c) /\ MayAskOn(c)'
<1> USE DEF IInv, TypeOK, Busy, MayAskOn, Goto, Ends, Retry, MayRetry, ClientOnly
<1>1. /\ MaxRetries \in Nat /\ tries[c] \in 0..MaxRetries
      /\ phase[c] \in Phases /\ late[c] \in BOOLEAN
  BY SdkAssumption
<1>2. CASE RetryPost(c)
  <2>1. /\ phase[c] = "posting" /\ phase'[c] = "posting"
        /\ tries'[c] = tries[c] + 1 /\ tries[c] < MaxRetries
    BY <1>2 DEF RetryPost
  <2> QED
    BY <1>1, <2>1 DEF Distance
<1>3. CASE PostFails(c) \/ PostRefused(c) \/ PostAnswered(c)
  <2>1. phase[c] = "posting" /\ phase'[c] \in {"over", "polling"} /\ tries'[c] = 0
        /\ late'[c] = late[c]
    BY <1>3 DEF PostFails, PostRefused, PostAnswered
  <2> QED
    BY <1>1, <2>1 DEF Distance
<1>4. CASE Ask(c) \/ ReadPending(c)
  <2>1. /\ late'[c] = late[c] /\ tries'[c] = 0
        /\ \/ phase[c] = "polling" /\ phase'[c] = "asking" /\ ~late[c]
           \/ phase[c] = "asking" /\ phase'[c] = "polling"
    BY <1>4 DEF Ask, ReadPending
  <2> QED
    BY <1>1, <2>1 DEF Distance
<1>5. CASE RetryGet(c)
  <2>1. /\ phase[c] \in {"asking", "fetching"} /\ phase'[c] = phase[c]
        /\ tries'[c] = tries[c] + 1 /\ tries[c] < MaxRetries
        /\ late'[c] = late[c]
    BY <1>5 DEF RetryGet
  <2> QED
    BY <1>1, <2>1 DEF Distance
<1>6. CASE GiveUp(c) \/ AskFails(c) \/ ReadFailed(c) \/ ReadSettled(c)
  <2>1. /\ phase[c] \in {"polling", "asking"}
        /\ phase[c] = "polling" => phase'[c] = "over"
        /\ phase[c] = "asking" => phase'[c] \in {"over", "fetching"}
        /\ tries'[c] = 0 /\ late'[c] = late[c]
    BY <1>6 DEF GiveUp, AskFails, ReadFailed, ReadSettled
  <2> QED
    BY <1>1, <2>1 DEF Distance
<1>7. CASE Fetch(c)
  <2>1. phase[c] = "fetching" /\ phase'[c] = "over"
    BY <1>7 DEF Fetch, ReadProof, NoProof
  <2> QED
    BY <1>1, <2>1 DEF Distance
<1> QED
  BY <1>2, <1>3, <1>4, <1>5, <1>6, <1>7 DEF Client, Submit, Poll

\* Once the deadline has passed a call asks no more.
LEMMA ExpireComesNearer ==
  ASSUME IInv, NEW c \in Calls, Expire(c)
  PROVE  Distance(c)' < Distance(c)
<1>1. /\ MaxRetries \in Nat /\ tries[c] \in 0..MaxRetries
  BY SdkAssumption DEF IInv, TypeOK
<1>2. /\ phase[c] \in {"polling", "asking"} /\ ~late[c] /\ late'[c]
      /\ phase' = phase /\ tries' = tries
  BY DEF Expire, callVars, IInv, TypeOK
<1> QED
  BY <1>1, <1>2 DEF Distance, MayAskOn

\* No step takes a call away from its end, and the steps that fairness promises
\* bring it nearer: its clock before the deadline, its client otherwise.
LEMMA DistanceStep ==
  ASSUME IInv, [Next]_vars, NEW c \in Calls, Busy(c)
  PROVE  /\ \/ Busy(c)' /\ Distance(c)' = Distance(c)
            \/ Distance(c)' < Distance(c)
         /\ MayAskOn(c) /\ Expire(c) => Distance(c)' < Distance(c)
         /\ ~MayAskOn(c) /\ Client(c) => Distance(c)' < Distance(c)
<1>1. TypeOK /\ TypeOK'
  BY InvStep DEF IInv
<1>2. CASE Client(c)
  <2>1. CASE MayAskOn(c) /\ MayAskOn(c)'
    <3>1. Distance(c) = 2 * (MaxRetries + 1) + 2
      BY <1>1, <2>1, DistanceType
    <3>2. Distance(c)' = 2 * (MaxRetries + 1) + 2
      BY <2>1 DEF Distance, MayAskOn
    <3>3. Busy(c)'
      BY <2>1 DEF MayAskOn, Busy
    <3>4. Expire(c) => Distance(c)' < Distance(c)
      BY ExpireComesNearer
    <3> QED
      BY <2>1, <3>1, <3>2, <3>3, <3>4
  <2> QED
    BY <1>2, <2>1, ClientComesNearer
<1>3. CASE Expire(c)
  BY <1>3, ExpireComesNearer
<1>4. CASE ~Client(c) /\ ~Expire(c)
  <2>1. phase'[c] = phase[c] /\ tries'[c] = tries[c] /\ late'[c] = late[c]
    BY <1>4, OthersKeepCall
  <2>2. Busy(c)' /\ Distance(c)' = Distance(c)
    BY <2>1 DEF Busy, Distance, MayAskOn
  <2> QED
    BY <1>4, <2>2
<1> QED
  BY <1>2, <1>3, <1>4

\* CallsEnd, up to the induction on the distance: from whatever distance a call
\* is at, it comes nearer to its end, whatever the network, the gateway and the
\* chains do. verifyInference() cannot hang.
THEOREM CallsComeNearer ==
  ASSUME NEW c \in Calls, NEW n \in Nat
  PROVE  Spec /\ ClientRuns(c) /\ ClockRuns(c) =>
           (Busy(c) /\ Distance(c) = n ~> Distance(c) < n)
<1>1. IInv /\ [Next]_vars /\ (Busy(c) /\ Distance(c) = n)
         => ((Busy(c) /\ Distance(c) = n) \/ Distance(c) < n)'
  BY DistanceStep
<1>2. CASE n = 2 * (MaxRetries + 1) + 2
  <2>1. IInv /\ Busy(c) /\ Distance(c) = n => MayAskOn(c)
    BY <1>2, DistanceType DEF IInv
  <2>2. IInv /\ [Next]_vars /\ (Busy(c) /\ Distance(c) = n) /\ Expire(c)
           => (Distance(c) < n)'
    BY <2>1, DistanceStep
  <2> QED
    BY <1>1, <2>1, <2>2, InvariantHolds, PTL DEF Spec, ClockRuns
<1>3. CASE n # 2 * (MaxRetries + 1) + 2
  <2>1. IInv /\ Busy(c) /\ Distance(c) = n => ~MayAskOn(c)
    BY <1>3, DistanceType DEF IInv
  <2>2. IInv /\ [Next]_vars /\ (Busy(c) /\ Distance(c) = n) /\ Client(c)
           => (Distance(c) < n)'
    BY <2>1, DistanceStep
  <2> QED
    BY <1>1, <2>2, InvariantHolds, PTL DEF Spec, ClientRuns
<1> QED
  BY <1>2, <1>3

\* The end of the induction: at distance 0 a call has returned or thrown.
LEMMA NearestIsOver ==
  ASSUME IInv, NEW c \in Calls, Distance(c) = 0
  PROVE  phase[c] = "over"
  BY SdkAssumption DEF IInv, TypeOK, Phases, Distance, MayAskOn
============================================================================
