------------------------------ MODULE Delivery ------------------------------
(***************************************************************************)
(* What becomes of a batch that ran as an asynchronous job: the end of the *)
(* job's goroutine, which settles a verdict and saves it, and sendWebhook  *)
(* (both in internal/server/server.go), which tells the verdict to the     *)
(* callback URL.  The steps and templates below are module Pipeline.       *)
(*                                                                         *)
(* A cancel request may end the context and write the stored record at     *)
(* any of these moments; JobServer has the rest of a job's life.  The      *)
(* network and the receiver are external: an attempt may be lost, may be   *)
(* handled although its answer is lost or comes after the timeout, and may *)
(* be handled after the attempt that repeats it.                           *)
(***************************************************************************)
EXTENDS Pipeline

CONSTANT CallbackRetry  \* --callback-retry, any integer

ASSUME RetryAssumption  == CallbackRetry \in Int
ASSUME WorkerAssumption == Workers # {}  \* prepareExecPlan sees to it

JobStatuses == {"running", "completed", "failed", "cancelled"}

\* Attempt 0 is the first delivery.
MaxRetries == IF CallbackRetry < 0 THEN 0 ELSE CallbackRetry
Attempts   == 0 .. MaxRetries

VARIABLES
    jobPc,      \* the goroutine: "pool", "settle", "save", "hook", "left"
    poolErr,    \* the error of RunJobPool: "none", "partial", "failed", "interrupted"
    verdict,    \* job.Status of the goroutine's own record
    stored,     \* the record in the store: its status, and whether it has the report
    cancelPc,   \* the cancel request: "none", "found", "cancel", "write", or its reply
    hookPc,     \* sendWebhook: "none", "send", "wait", "retry", "delivered", "gave up"
    attempt,    \* its loop index i
    request,    \* each attempt: the status its payload has, "none" before it is sent
    told,       \* each attempt: the status the receiver was told, "none" before
    answer,     \* each attempt: how the receiver answered, "none" before
    ended       \* history, each attempt: what sendWebhook made of it, "none" before

jobVars == <<jobPc, poolErr, verdict, stored, cancelPc>>
hookVars == <<hookPc, attempt, request, told, answer, ended>>
deliveryVars == <<pipelineVars, jobVars, hookVars>>

-----------------------------------------------------------------------------
(* Mutated forms of the definitions below, one per bug the properties are    *)
(* meant to catch.  Nothing in the specification uses them.                  *)
ReadAgain         == stored.status
ErrorsIgnored     == IF ctxErr = "canceled" THEN "cancelled" ELSE "completed"
NeverAccepted(a)  == FALSE
OneTooMany(i)     == i + 1 <= MaxRetries + 1

-----------------------------------------------------------------------------
(* The goroutine of the job. *)

Stored(status, report) == [status |-> status, report |-> report]

DeliveryInit ==
    /\ PipelineInit
    /\ jobPc = "pool"
    /\ poolErr = "none"
    /\ verdict = "running"
    /\ stored = Stored("running", FALSE)
    /\ cancelPc = "none"
    /\ hookPc = "none"
    /\ attempt = 0
    /\ request = [i \in Attempts |-> "none"]
    /\ told = [i \in Attempts |-> "none"]
    /\ answer = [i \in Attempts |-> "none"]
    /\ ended = [i \in Attempts |-> "none"]

\* The error speaks for the context if that has ended, and for the tasks otherwise.
PoolErr == LET failed == {t \in Tasks : outcome[t] \in {"fail", "timeout"}}
           IN  IF ctxErr # "none" THEN "interrupted"
               ELSE IF failed = {} THEN "none"
               ELSE IF \E t \in Tasks : outcome[t] = "ok" THEN "partial" ELSE "failed"

\* RunJobPool returns, with a report in any case.
PoolReturns ==
    /\ jobPc = "pool"
    /\ BatchOver
    /\ poolErr' = PoolErr
    /\ jobPc' = "settle"
    /\ UNCHANGED <<pipelineVars, verdict, stored, cancelPc, hookVars>>

Verdict == IF ctxErr = "canceled" THEN "cancelled"
           ELSE IF poolErr # "none" THEN "failed" ELSE "completed"

Settle ==
    /\ jobPc = "settle"
    /\ verdict' = Verdict
    /\ jobPc' = "save"
    /\ UNCHANGED <<pipelineVars, poolErr, stored, cancelPc, hookVars>>

Save ==
    /\ jobPc = "save"
    /\ stored' = Stored(verdict, TRUE)
    /\ jobPc' = "hook"
    /\ UNCHANGED <<pipelineVars, poolErr, verdict, cancelPc, hookVars>>

\* The goroutine ends; its defers take the cancel function away.
StartHook ==
    /\ jobPc = "hook"
    /\ jobPc' = "left"
    /\ hookPc' = IF req.callback THEN "send" ELSE "none"
    /\ UNCHANGED <<pipelineVars, poolErr, verdict, stored, cancelPc, attempt, request, told,
                   answer, ended>>

Job == PoolReturns \/ Settle \/ Save \/ StartHook

-----------------------------------------------------------------------------
(* A cancel request: cancelJobInternal. *)

CancelGet ==
    /\ cancelPc = "none"
    /\ stored.status = "running"
    /\ cancelPc' = "found"
    /\ UNCHANGED <<pipelineVars, jobPc, poolErr, verdict, stored, hookVars>>

\* The cancel function is registered until the goroutine has left.  Of a running
\* job that has none nothing is written.
CancelFind ==
    /\ cancelPc = "found"
    /\ cancelPc' = IF jobPc # "left" THEN "cancel" ELSE "stillRunning"
    /\ UNCHANGED <<pipelineVars, jobPc, poolErr, verdict, stored, hookVars>>

\* cancel(), which may find the goroutine gone by now.
CancelCtx ==
    /\ cancelPc = "cancel"
    /\ ctxErr' = IF ctxErr = "none" THEN "canceled" ELSE ctxErr
    /\ cancelPc' = "write"
    /\ UNCHANGED <<templateVars, req, next, workerVars, outcome, log, jobPc, poolErr, verdict, stored,
                   hookVars>>

\* The clone that was read is written back, without a report.
CancelWrite ==
    /\ cancelPc = "write"
    /\ stored' = Stored("cancelled", FALSE)
    /\ cancelPc' = "cancelled"
    /\ UNCHANGED <<pipelineVars, jobPc, poolErr, verdict, hookVars>>

Cancel == CancelGet \/ CancelFind \/ CancelCtx \/ CancelWrite

-----------------------------------------------------------------------------
(* sendWebhook.  The payload is made of the goroutine's own record. *)

Payload == verdict

\* Another attempt, after the backoff.
Send ==
    /\ hookPc = "send"
    /\ request' = [request EXCEPT ![attempt] = Payload]
    /\ hookPc' = "wait"
    /\ UNCHANGED <<pipelineVars, jobVars, attempt, told, answer, ended>>

Accepted(a) == a = "2xx"

HookAnswered ==
    /\ hookPc = "wait"
    /\ answer[attempt] # "none"
    /\ ended' = [ended EXCEPT ![attempt] = answer[attempt]]
    /\ hookPc' = IF Accepted(answer[attempt]) THEN "delivered" ELSE "retry"
    /\ UNCHANGED <<pipelineVars, jobVars, attempt, request, told, answer>>

\* The request fails: it cannot be sent, its answer is lost, or the timeout passes.
HookFailed ==
    /\ hookPc = "wait"
    /\ ended' = [ended EXCEPT ![attempt] = "error"]
    /\ hookPc' = "retry"
    /\ UNCHANGED <<pipelineVars, jobVars, attempt, request, told, answer>>

MoreAttempts(i) == i + 1 <= MaxRetries

Retry ==
    /\ hookPc = "retry"
    /\ \/ /\ MoreAttempts(attempt)
          /\ attempt' = attempt + 1
          /\ hookPc' = "send"
       \/ /\ ~MoreAttempts(attempt)
          /\ hookPc' = "gave up"
          /\ UNCHANGED attempt
    /\ UNCHANGED <<pipelineVars, jobVars, request, told, answer, ended>>

Hook == Send \/ HookAnswered \/ HookFailed \/ Retry

\* The receiver, at any time after the request was sent.
Handle(i) ==
    /\ request[i] # "none"
    /\ told[i] = "none"
    /\ told' = [told EXCEPT ![i] = request[i]]
    /\ \E a \in {"2xx", "other"} : answer' = [answer EXCEPT ![i] = a]
    /\ UNCHANGED <<pipelineVars, jobVars, hookPc, attempt, request, ended>>

-----------------------------------------------------------------------------
\* The steps of the batch.  The goroutine reads its context for the last time when it
\* settles the verdict; how the context ends later is not modelled.
Batch ==
    /\ \/ \E w \in Workers : Worker(w) \/ TimeOut(w)
       \/ jobPc \in {"pool", "settle"} /\ CtxEnd
    /\ UNCHANGED <<jobVars, hookVars>>

\* Everything has come to its end.
Rest ==
    /\ jobPc = "left"
    /\ hookPc \in {"none", "delivered", "gave up"}
    /\ UNCHANGED deliveryVars

DeliveryNext == Batch \/ Job \/ Cancel \/ Hook \/ (\E i \in Attempts : Handle(i)) \/ Rest

DeliverySpec == DeliveryInit /\ [][DeliveryNext]_deliveryVars

\* Goroutines that can run do run, and commands end.  Nothing forces a context to
\* end, a cancel request to come or a receiver to answer.
WorkerRuns(w) == Worker(w) /\ UNCHANGED <<jobVars, hookVars>>

FairDeliverySpec ==
    /\ DeliverySpec
    /\ \A w \in Workers : WF_deliveryVars(WorkerRuns(w))
    /\ WF_deliveryVars(Job)
    /\ WF_deliveryVars(Hook)

-----------------------------------------------------------------------------
(* Properties. *)

\* Type correctness of the end of a job and of its webhook.
DeliveryTypeOK ==
    /\ jobPc \in {"pool", "settle", "save", "hook", "left"}
    /\ poolErr \in {"none", "partial", "failed", "interrupted"}
    /\ verdict \in JobStatuses
    /\ stored \in [status : JobStatuses, report : BOOLEAN]
    /\ cancelPc \in {"none", "found", "cancel", "write", "cancelled", "stillRunning"}
    /\ hookPc \in {"none", "send", "wait", "retry", "delivered", "gave up"}
    /\ attempt \in Attempts
    /\ request \in [Attempts -> JobStatuses \union {"none"}]
    /\ told \in [Attempts -> JobStatuses \union {"none"}]
    /\ answer \in [Attempts -> {"none", "2xx", "other"}]
    /\ ended \in [Attempts -> {"none", "2xx", "other", "error"}]

\* However often the event is repeated, and whatever a cancel request writes over
\* the record meanwhile, the receiver is told one verdict: the one the goroutine
\* saved before.  The store says the same unless that request has overwritten it.
ToldOneVerdict ==
    \A i \in Attempts : told[i] # "none" =>
      /\ told[i] = verdict
      /\ verdict \in {"completed", "failed", "cancelled"}
      /\ \/ stored.status = told[i]
         \/ stored.status = "cancelled" /\ cancelPc = "cancelled"

\* The receiver is told "completed" only of a batch whose every task got through all
\* its steps: none was dropped, failed or timed out, in whatever step.
CompletedMeansDone ==
    \A i \in Attempts : told[i] = "completed" =>
      \A t \in Tasks : /\ outcome[t] = "ok"
                       /\ \A s \in DOMAIN Steps : \E j \in DOMAIN log[t] :
                            log[t][j][1] = s /\ log[t][j][2] \in {"empty", "slept", "ok"}

\* The event is repeated only if the attempt before failed or was refused, and given
\* up only when every attempt has: a receiver that accepts, and whose answer comes
\* in time, sees it for the last time.
RepeatedOnlyUnaccepted ==
    /\ \A i \in Attempts : request[i] # "none" =>
         \A j \in 0 .. i - 1 : ended[j] \in {"other", "error"}
    /\ hookPc = "gave up" => \A i \in Attempts : ended[i] \in {"other", "error"}
    /\ hookPc = "delivered" => told[attempt] = verdict

\* Every job ends and its event is delivered or given up, although workers wait for
\* the mutex of the template state, answers get lost and nobody need answer.
JobEnds == <>(jobPc = "left" /\ (req.callback => hookPc \in {"delivered", "gave up"}))

=============================================================================
