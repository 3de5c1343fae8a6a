------------------------------ MODULE SdkClient ------------------------------
(***************************************************************************)
(* A client of the gateway (sdk/src: client.ts, poller.ts, http.ts).       *)
(* verifyInference() posts a job, polls its status until it is terminal or *)
(* the deadline has passed, and fetches the proof for its fingerprint.     *)
(* Every request is retried by the HTTP client: a POST that timed out may  *)
(* still be handled, so one call may get several jobs, of which the client *)
(* follows the one whose answer it received.                               *)
(*                                                                         *)
(* Composed with JobService, what the gateway promises. An answer is about *)
(* the moment the gateway gave it and is read at any later time, or lost;  *)
(* the gateway may be started again at any time.                           *)
(***************************************************************************)
EXTENDS Naturals, FiniteSets

CONSTANTS
    Calls,          \* the calls of verifyInference()
    MaxRetries,     \* ElenxisConfig.maxRetries
    MaxConcurrent,  \* see ProofService
    MaxCrashes      \* bound: gateway restarts

ASSUME SdkAssumption == {MaxRetries, MaxCrashes} \subseteq Nat

\* The job that the gateway makes of attempt k to post call c is <<c, k>>.
Attempts == Calls \X (0..MaxRetries)

VARIABLES
    jobs, accepted, rows, recorded,     \* JobService
    posts,      \* POSTs on their way to the gateway
    phase,      \* where each call is
    tries,      \* retries of its current request so far
    job,        \* the job it follows
    reply,      \* the gateway's answer on its way to it
    late,       \* its deadline has passed
    result,     \* what it returned or threw
    crashes     \* gateway restarts so far

JS == INSTANCE JobService WITH Jobs <- Attempts

serviceVars == <<jobs, accepted, rows, recorded>>
callVars == <<phase, tries, job, reply, result>>
vars == <<serviceVars, posts, callVars, late, crashes>>

----------------------------------------------------------------------------
Phases  == {"idle", "posting", "polling", "asking", "fetching", "over"}
Results == {"none", "verified", "verified without proof", "SUBMIT_FAILED",
            "POLL_FAILED", "JOB_FAILED", "TIMEOUT"}
Verified(c) == result[c] \in {"verified", "verified without proof"}

\* Answers about a status carry the transaction hash or not; the ones about a
\* proof carry it, or are an error.
NoReply == [status |-> "none", tx |-> FALSE]
Replies == [status : JS!Statuses \cup {"404", "422", "202", "proof", "none"},
            tx : BOOLEAN]
NoJob   == <<>>

Init == /\ JS!Init
        /\ posts   = {}
        /\ phase   = [c \in Calls |-> "idle"]
        /\ tries   = [c \in Calls |-> 0]
        /\ job     = [c \in Calls |-> NoJob]
        /\ reply   = [c \in Calls |-> NoReply]
        /\ late    = [c \in Calls |-> FALSE]
        /\ result  = [c \in Calls |-> "none"]
        /\ crashes = 0

----------------------------------------------------------------------------
(* The steps of a call                                                     *)

\* From one phase to the next, with a new request and no answer yet.
Goto(c, from, to) == /\ phase[c] = from
                     /\ phase' = [phase EXCEPT ![c] = to]
                     /\ tries' = [tries EXCEPT ![c] = 0]
                     /\ reply' = [reply EXCEPT ![c] = NoReply]

Ends(c, from, outcome) == /\ Goto(c, from, "over")
                          /\ result' = [result EXCEPT ![c] = outcome]
                          /\ UNCHANGED job

ClientOnly == UNCHANGED <<serviceVars, posts, late, crashes>>

\* submitJob(): the first attempt.
Post(c) == /\ Goto(c, "idle", "posting")
           /\ posts' = posts \cup {<<c, 0>>}
           /\ UNCHANGED <<serviceVars, job, result, late, crashes>>

\* Mutant: the first attempt is not counted.
MayRetryOnceMore(c) == tries[c] <= MaxRetries

\* No answer, or one of 500: an interceptor sends the request again, up to
\* MaxRetries times.
MayRetry(c) == tries[c] < MaxRetries
Retry(c) == /\ MayRetry(c)
            /\ tries' = [tries EXCEPT ![c] = @ + 1]
            /\ reply' = [reply EXCEPT ![c] = NoReply]
            /\ UNCHANGED <<phase, job, result>>

RetryPost(c) == /\ phase[c] = "posting"
                /\ Retry(c)
                /\ posts' = posts \cup {<<c, tries[c] + 1>>}
                /\ UNCHANGED <<serviceVars, late, crashes>>

PostFails(c) == /\ ~MayRetry(c)
                /\ Ends(c, "posting", "SUBMIT_FAILED")
                /\ ClientOnly

\* 400 is not retried. All attempts are the same, so none was accepted.
PostRefused(c) == /\ \A k \in 0..MaxRetries : <<c, k>> \notin accepted
                  /\ Ends(c, "posting", "SUBMIT_FAILED")
                  /\ posts' = {p \in posts : p[1] # c}
                  /\ UNCHANGED <<serviceVars, late, crashes>>

\* 202 to the current attempt; nobody waits for the answers to earlier ones.
PostAnswered(c) == /\ <<c, tries[c]>> \in accepted
                   /\ job' = [job EXCEPT ![c] = <<c, tries[c]>>]
                   /\ Goto(c, "posting", "polling")
                   /\ UNCHANGED result
                   /\ ClientOnly

\* Mutant: the deadline does not end the polling.
AskRegardless(c) == /\ Goto(c, "polling", "asking")
                    /\ UNCHANGED <<job, result>>
                    /\ ClientOnly

\* pollUntilDone() looks at the clock only before a request.
Ask(c) == /\ ~late[c]
          /\ Goto(c, "polling", "asking")
          /\ UNCHANGED <<job, result>>
          /\ ClientOnly

GiveUp(c) == /\ late[c]
             /\ Ends(c, "polling", "TIMEOUT")
             /\ ClientOnly

RetryGet(c) == /\ phase[c] \in {"asking", "fetching"}
               /\ Retry(c)
               /\ ClientOnly

\* Retries used up, or 404, which is not retried.
AskFails(c) == /\ ~MayRetry(c) \/ reply[c].status = "404"
               /\ Ends(c, "asking", "POLL_FAILED")
               /\ ClientOnly

ReadPending(c) == /\ \/ reply[c].status \in {"queued", "running"}
                     \/ reply[c].status = "done" /\ ~reply[c].tx
                  /\ Goto(c, "asking", "polling")
                  /\ UNCHANGED <<job, result>>
                  /\ ClientOnly

\* Mutant: done is terminal, with a transaction or without.
ReadFailedOrDone(c) == /\ reply[c].status \in {"failed", "settled", "done"}
                       /\ ~reply[c].tx
                       /\ Ends(c, "asking", "JOB_FAILED")
                       /\ ClientOnly

\* The poller throws when the job failed, verifyInference() when it is settled
\* and has no transaction.
ReadFailed(c) == /\ \/ reply[c].status = "failed"
                    \/ reply[c].status = "settled" /\ ~reply[c].tx
                 /\ Ends(c, "asking", "JOB_FAILED")
                 /\ ClientOnly

ReadSettled(c) == /\ reply[c].status \in {"done", "settled"} /\ reply[c].tx
                  /\ Goto(c, "asking", "fetching")
                  /\ UNCHANGED <<job, result>>
                  /\ ClientOnly

\* fetchAttestationHash()
ReadProof(c) == /\ reply[c].status = "proof"
                /\ Ends(c, "fetching", "verified")
                /\ ClientOnly

\* Whatever goes wrong, the fingerprint is made of the job id.
NoProof(c) == /\ ~MayRetry(c) \/ reply[c].status \in {"202", "404", "422"}
              /\ Ends(c, "fetching", "verified without proof")
              /\ ClientOnly

----------------------------------------------------------------------------
(* The gateway and the network                                             *)

GatewayOnly == UNCHANGED <<callVars, late>>

\* POST /v1/jobs is handled, when its client may have given up on it, or never.
AcceptPost(p) == /\ p \in posts
                 /\ JS!Accept(p)
                 /\ posts' = posts \ {p}
                 /\ GatewayOnly /\ UNCHANGED crashes

LosePost(p) == /\ p \in posts
               /\ posts' = posts \ {p}
               /\ GatewayOnly /\ UNCHANGED <<serviceVars, crashes>>

Reply(c, answer) == /\ reply[c] = NoReply
                    /\ reply' = [reply EXCEPT ![c] = answer]
                    /\ UNCHANGED <<phase, tries, job, result>>
                    /\ ClientOnly

\* GET /v1/jobs/{id} while Postgres answers or not.
TellStatus(c, dbOk) == /\ phase[c] = "asking"
                       /\ Reply(c, JS!StatusAnswer(job[c], dbOk))

TellProof(c) == /\ phase[c] = "fetching"
                /\ Reply(c, [status |-> JS!ProofAnswer(job[c]), tx |-> FALSE])

Work(p) == /\ JS!Prove(p) \/ JS!Advance(p) \/ JS!Record(p)
           /\ GatewayOnly /\ UNCHANGED <<posts, crashes>>

Crash == /\ crashes < MaxCrashes
         /\ crashes' = crashes + 1
         /\ JS!Restart
         /\ GatewayOnly /\ UNCHANGED posts

\* The deadline of a call that polls passes.
Expire(c) == /\ phase[c] \in {"polling", "asking"}
             /\ ~late[c]
             /\ late' = [late EXCEPT ![c] = TRUE]
             /\ UNCHANGED <<serviceVars, posts, callVars, crashes>>

----------------------------------------------------------------------------
Submit(c) == RetryPost(c) \/ PostFails(c) \/ PostRefused(c) \/ PostAnswered(c)
Poll(c)   == \/ Ask(c) \/ GiveUp(c) \/ AskFails(c)
             \/ ReadPending(c) \/ ReadFailed(c) \/ ReadSettled(c)
Fetch(c)  == ReadProof(c) \/ NoProof(c)
Client(c) == Submit(c) \/ Poll(c) \/ RetryGet(c) \/ Fetch(c)
Tell(c)   == (\E dbOk \in BOOLEAN : TellStatus(c, dbOk)) \/ TellProof(c)

Next == \/ \E c \in Calls : Post(c) \/ Client(c) \/ Tell(c) \/ Expire(c)
        \/ \E p \in Attempts : AcceptPost(p) \/ LosePost(p) \/ Work(p)
        \/ Crash

Spec == Init /\ [][Next]_vars

\* A request ends after 30 s at the latest, and clocks run. Nothing is promised
\* of the network, the gateway and the chains.
FairSpec == /\ Spec
            /\ \A c \in Calls : WF_vars(Client(c)) /\ WF_vars(Expire(c))

----------------------------------------------------------------------------
(* Properties                                                              *)

TypeOK == /\ JS!TypeOK
          /\ posts   \subseteq Attempts
          /\ phase   \in [Calls -> Phases]
          /\ tries   \in [Calls -> 0..MaxRetries]
          /\ job     \in [Calls -> Attempts \cup {NoJob}]
          /\ reply   \in [Calls -> Replies]
          /\ late    \in [Calls -> BOOLEAN]
          /\ result  \in [Calls -> Results]
          /\ crashes \in 0..MaxCrashes

\* verifyInference() returns a transaction hash only of an inference that
\* StarkNet has on record, for the job whose id it returns, however late its
\* answers are, whichever of its attempts were handled and whatever restarts.
ResultIsRecorded ==
    \A c \in Calls : Verified(c) => /\ job[c] \in recorded
                                    /\ rows[job[c]].tx

\* JOB_FAILED is final: the job's row is not settled later, so that the caller
\* may post the inference again (a transaction that timed out may still be
\* mined, which no row will say). An aggregator breaks this: the settled it writes
\* (repo.rs:209) has no transaction and reads as a failure, and the gateway
\* may still write one.
JobFailedIsFinal ==
    \A c \in Calls : result[c] = "JOB_FAILED" => \/ ~rows[job[c]].tx
                                                 \/ rows[job[c]].batch

\* "In-memory fallback only when Postgres has no record yet" (main.rs:666): a
\* client is never told that the job it was given does not exist, with
\* Postgres failing and inserts lost, until a restart forgets the manager's
\* jobs, after which GET .../proof says so even of settled ones.
KnownJobIsFound ==
    \A c \in Calls : reply[c].status = "404" => crashes > 0

\* Every call returns or throws, whatever the gateway does or does not.
CallsEnd == \A c \in Calls : phase[c] = "posting" ~> phase[c] = "over"
============================================================================
