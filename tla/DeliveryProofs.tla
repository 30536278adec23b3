--------------------------- MODULE DeliveryProofs ---------------------------
(***************************************************************************)
(* Theorems about Delivery, for every set of workers and requests, and     *)
(* every number of repetitions: the receiver of the webhook is told one    *)
(* verdict, the one that was saved; "completed" only if every task got     *)
(* through all its steps; and again only if an attempt went unaccepted.    *)
(***************************************************************************)
EXTENDS Delivery, PipelineProofs

-----------------------------------------------------------------------------
(* What a batch that is over leaves: every task is accounted for. *)

\* A task that was taken is counted unless a worker still has it, is dropped only
\* after the context ended, and workers leave only when all tasks are taken.
BatchInv ==
    /\ \A t \in Tasks : t < next /\ outcome[t] = "todo" => \E w \in Workers : task[w] = t
    /\ \A t \in Tasks : outcome[t] = "dropped" => ctxErr # "none"
    /\ \A w \in Workers : pc[w] = "gone" => next \notin Tasks

\* How a worker's step changes what BatchInv is about.
LEMMA WorkerEffect ==
    ASSUME PipelineInv, NEW w \in Workers, Worker(w)
    PROVE  /\ req' = req /\ ctxErr' = ctxErr
           /\ \/ /\ next' = next /\ task' = task /\ outcome' = outcome
                 /\ \A v \in Workers : pc'[v] = "gone" => pc[v] = "gone" \/ next \notin Tasks
              \/ /\ next' = next /\ task' = [task EXCEPT ![w] = 0]
                 /\ \E o \in {"ok", "fail", "timeout"} : outcome' = [outcome EXCEPT ![task[w]] = o]
                 /\ \A v \in Workers : pc'[v] = "gone" => pc[v] = "gone"
              \/ /\ next \in Tasks /\ next' = next + 1 /\ task' = task
                 /\ \E o \in {"ok", "dropped"} : /\ outcome' = [outcome EXCEPT ![next] = o]
                                                 /\ o = "dropped" => ctxErr # "none"
                 /\ pc' = pc
              \/ /\ next \in Tasks /\ next' = next + 1 /\ task[w] = 0
                 /\ task' = [task EXCEPT ![w] = next] /\ outcome' = outcome
                 /\ \A v \in Workers : pc'[v] = "gone" => pc[v] = "gone"
<1> USE DEF PipelineInv
<1>0. pc \in [Workers -> {"idle", "render", "launch", "run", "failed", "gone"}]
  BY DEF PipelineTypeOK
<1>1. CASE Take(w)
  <2>1. task[w] = 0  BY <1>1 DEF Take, WorkInv, Working
  <2>2. CASE ctxErr # "none" \/ ~HasStep(1)
    BY <1>1, <2>2 DEF Take, workerVars
  <2>3. CASE ctxErr = "none" /\ HasStep(1)
    BY <1>0, <1>1, <2>1, <2>3 DEF Take
  <2>4. QED  BY <2>2, <2>3
<1>2. CASE Leave(w)  BY <1>0, <1>2 DEF Leave
<1>3. CASE RenderCall(w) \/ Rendering(w) \/ Begin(w) \/ Refused(w)
  BY <1>0, <1>3 DEF RenderCall, Rendering, Begin, Refused, BreakOff, workerVars
<1>4. ASSUME NEW o \in {"ok", "fail", "timeout"}, EndTask(w, o)
      PROVE  /\ task' = [task EXCEPT ![w] = 0] /\ outcome' = [outcome EXCEPT ![task[w]] = o]
             /\ \A v \in Workers : pc'[v] = "gone" => pc[v] = "gone"
  BY <1>0, <1>4 DEF EndTask
<1>5. CASE RenderError(w)  BY <1>4, <1>5 DEF RenderError
<1>6. CASE Fail(w)  BY <1>4, <1>6 DEF Fail
<1>7. ASSUME NEW s, NEW p, GoOn(w, s, p)
      PROVE  EndTask(w, "ok") \/ (task' = task /\ outcome' = outcome /\ pc' = [pc EXCEPT ![w] = "render"])
  BY <1>7 DEF GoOn
<1>8. CASE Rendered(w)
  <2>1. UNCHANGED <<req, next, ctxErr>>  BY <1>8 DEF Rendered
  <2>2. CASE \E s, p : GoOn(w, s, p)  BY <1>0, <1>4, <1>7, <2>1, <2>2
  <2>3. CASE ~ \E s, p : GoOn(w, s, p)
    <3>1. pc' = [pc EXCEPT ![w] = "launch"] /\ task' = task /\ outcome' = outcome
      BY <1>8, <2>3 DEF Rendered
    <3>2. QED  BY <1>0, <2>1, <3>1
  <2>4. QED  BY <2>2, <2>3
<1>9. CASE Finish(w)
  <2>1. UNCHANGED <<req, next, ctxErr>>  BY <1>9 DEF Finish
  <2>2. CASE \E s, p : GoOn(w, s, p)  BY <1>0, <1>4, <1>7, <2>1, <2>2
  <2>3. CASE ~ \E s, p : GoOn(w, s, p)
    <3>1. pc' = [pc EXCEPT ![w] = "failed"] /\ task' = task /\ outcome' = outcome
      BY <1>9, <2>3 DEF Finish, BreakOff
    <3>2. QED  BY <1>0, <2>1, <3>1
  <2>4. QED  BY <2>2, <2>3
<1>10. QED  BY <1>1, <1>2, <1>3, <1>5, <1>6, <1>8, <1>9 DEF Worker

\* A worker's step keeps the account.
LEMMA WorkerKeepsBatch ==
    ASSUME PipelineInv, BatchInv, NEW w \in Workers, Worker(w)
    PROVE  BatchInv'
<1> USE DEF BatchInv
<1>0. /\ outcome \in [Tasks -> {"todo", "dropped", "ok", "fail", "timeout"}]
      /\ task \in [Workers -> 0 .. req.iterations] /\ next \in Nat /\ Tasks \subseteq Nat \ {0}
      /\ req.iterations \in Nat /\ Tasks' = Tasks /\ ctxErr' = ctxErr
  BY SMTT(30), RequestAssumption, WorkerEffect DEF PipelineInv, PipelineTypeOK, Tasks
<1>1. CASE /\ next' = next /\ task' = task /\ outcome' = outcome
           /\ \A v \in Workers : pc'[v] = "gone" => pc[v] = "gone" \/ next \notin Tasks
  BY <1>0, <1>1
<1>2. CASE /\ next' = next /\ task' = [task EXCEPT ![w] = 0]
           /\ \E o \in {"ok", "fail", "timeout"} : outcome' = [outcome EXCEPT ![task[w]] = o]
           /\ \A v \in Workers : pc'[v] = "gone" => pc[v] = "gone"
  <2>1. PICK o \in {"ok", "fail", "timeout"} : outcome' = [outcome EXCEPT ![task[w]] = o]
    BY <1>2
  <2>2. ASSUME NEW t \in Tasks, t < next', outcome'[t] = "todo"
        PROVE  \E v \in Workers : task'[v] = t
    <3>1. t # task[w] /\ outcome[t] = "todo"  BY <1>0, <2>1, <2>2
    <3>2. PICK v \in Workers : task[v] = t  BY <3>1, <2>2, <1>2
    <3>3. task'[v] = t  BY <1>0, <1>2, <3>1, <3>2
    <3>4. QED  BY <3>3
  <2>3. ASSUME NEW t \in Tasks, outcome'[t] = "dropped"  PROVE ctxErr # "none"
    BY <1>0, <2>1, <2>3
  <2>4. \A v \in Workers : pc'[v] = "gone" => next \notin Tasks  BY <1>2
  <2>5. QED  BY <1>0, <1>2, <2>2, <2>3, <2>4
<1>3. CASE /\ next \in Tasks /\ next' = next + 1 /\ task' = task
           /\ \E o \in {"ok", "dropped"} : /\ outcome' = [outcome EXCEPT ![next] = o]
                                           /\ o = "dropped" => ctxErr # "none"
           /\ pc' = pc
  <2>1. PICK o \in {"ok", "dropped"} : /\ outcome' = [outcome EXCEPT ![next] = o]
                                       /\ o = "dropped" => ctxErr # "none"
    BY <1>3
  <2>2. ASSUME NEW t \in Tasks, t < next', outcome'[t] = "todo"
        PROVE  \E v \in Workers : task'[v] = t
    <3>1. t # next /\ outcome[t] = "todo" /\ t < next  BY <1>0, <1>3, <2>1, <2>2
    <3>2. QED  BY <3>1, <1>3
  <2>3. ASSUME NEW t \in Tasks, outcome'[t] = "dropped"  PROVE ctxErr # "none"
    BY <1>0, <1>3, <2>1, <2>3
  <2>4. \A v \in Workers : pc'[v] # "gone"  BY <1>3
  <2>5. QED  BY <1>0, <2>2, <2>3, <2>4
<1>4. CASE /\ next \in Tasks /\ next' = next + 1 /\ task[w] = 0
           /\ task' = [task EXCEPT ![w] = next] /\ outcome' = outcome
           /\ \A v \in Workers : pc'[v] = "gone" => pc[v] = "gone"
  <2>1. ASSUME NEW t \in Tasks, t < next', outcome'[t] = "todo"
        PROVE  \E v \in Workers : task'[v] = t
    <3>1. CASE t = next
      <4>1. task'[w] = t  BY <3>1, <1>0, <1>4
      <4>2. QED  BY <4>1
    <3>2. CASE t # next
      <4>1. t < next  BY <3>2, <2>1, <1>0, <1>4
      <4>2. PICK v \in Workers : task[v] = t  BY <4>1, <2>1, <1>4
      <4>3. v # w  BY <4>2, <1>0, <1>4
      <4>4. task'[v] = t  BY <4>2, <4>3, <1>0, <1>4
      <4>5. QED  BY <4>4
    <3>3. QED  BY <3>1, <3>2
  <2>2. \A v \in Workers : pc'[v] # "gone"  BY <1>4
  <2>3. QED  BY <1>0, <1>4, <2>1, <2>2
<1>5. QED  BY <1>1, <1>2, <1>3, <1>4, WorkerEffect

\* When all workers are gone, every task is counted.
LEMMA AllCounted ==
    ASSUME PipelineInv, BatchInv, BatchOver, NEW t \in Tasks
    PROVE  outcome[t] \in {"dropped", "ok", "fail", "timeout"}
<1>1. /\ outcome[t] \in {"todo", "dropped", "ok", "fail", "timeout"}
      /\ next \in 1 .. req.iterations + 1 /\ req.iterations \in Nat
  BY RequestAssumption DEF PipelineInv, PipelineTypeOK
<1>2. next \notin Tasks  BY WorkerAssumption DEF BatchInv, BatchOver
<1>3. t < next  BY <1>1, <1>2 DEF Tasks
<1>4. \A w \in Workers : task[w] = 0  BY DEF PipelineInv, WorkInv, Working, BatchOver
<1>5. QED  BY <1>1, <1>3, <1>4 DEF BatchInv, Tasks

-----------------------------------------------------------------------------
(* The job and its webhook. *)

AllOk == \A t \in Tasks : outcome[t] = "ok"

\* The verdict is settled when the batch is over, and saved before the webhook starts;
\* from then on only a cancel request writes the record.
JobInv ==
    /\ jobPc # "pool" => BatchOver
    /\ jobPc = "settle" /\ poolErr = "none" => AllOk
    /\ jobPc \in {"save", "hook", "left"} => verdict \in {"completed", "failed", "cancelled"}
    /\ jobPc \in {"save", "hook", "left"} /\ verdict = "completed" => AllOk
    /\ stored.status = "running" => ~stored.report
    /\ jobPc \in {"hook", "left"} =>
         stored.status = verdict \/ (stored.status = "cancelled" /\ cancelPc = "cancelled")

\* Attempts are made one after the other, each with the verdict in its payload, and
\* only after those before it have failed.
HookInv ==
    /\ hookPc # "none" => jobPc = "left"
    /\ \A i \in Attempts :
         /\ request[i] # "none" => hookPc # "none" /\ request[i] = verdict /\ i <= attempt
         /\ told[i] # "none" => request[i] # "none" /\ told[i] = verdict
         /\ answer[i] # "none" => told[i] # "none"
         /\ i < attempt => ended[i] \in {"other", "error"}
    /\ hookPc \in {"retry", "gave up"} => ended[attempt] \in {"other", "error"}
    /\ hookPc = "gave up" => attempt = MaxRetries
    /\ hookPc = "delivered" => told[attempt] = verdict

\* The inductive invariant.
DeliveryInv == /\ PipelineInv /\ BatchInv /\ DeliveryTypeOK /\ JobInv /\ HookInv

\* The number of repetitions, whatever --callback-retry is.
LEMMA AttemptFacts == MaxRetries \in Nat /\ Attempts = 0 .. MaxRetries /\ 0 \in Attempts
BY RetryAssumption DEF MaxRetries, Attempts

LEMMA DeliveryInitially == DeliveryInit => DeliveryInv
<1> SUFFICES ASSUME DeliveryInit  PROVE DeliveryInv
  OBVIOUS
<1>1. PipelineInit  BY DEF DeliveryInit
<1>2. BatchInv  BY <1>1, RequestAssumption DEF PipelineInit, BatchInv, Tasks
<1>3. DeliveryTypeOK
  BY AttemptFacts DEF DeliveryInit, DeliveryTypeOK, JobStatuses, Stored
<1>4. JobInv  BY DEF DeliveryInit, JobInv, Stored
<1>5. HookInv
  <2>1. ~ \E i \in Attempts : i < attempt  BY AttemptFacts DEF DeliveryInit
  <2>2. QED  BY <2>1 DEF DeliveryInit, HookInv
<1>6. QED  BY <1>1, <1>2, <1>3, <1>4, <1>5, PipelineInitially DEF DeliveryInv

\* The webhook is not touched by the batch; the job's goroutine and a cancel request
\* leave alone all of it that matters as long as the verdict stays.
LEMMA HookUntouched ==
    ASSUME DeliveryTypeOK, HookInv, UNCHANGED <<jobPc, verdict, hookVars>>
    PROVE  /\ HookInv'
           /\ UNCHANGED <<poolErr, stored, cancelPc>> => DeliveryTypeOK'
<1>1. /\ jobPc' = jobPc /\ verdict' = verdict /\ hookPc' = hookPc /\ attempt' = attempt
      /\ request' = request /\ told' = told /\ answer' = answer /\ ended' = ended
  BY DEF hookVars
<1>2. HookInv'
  <2>1. HookInv' <=> HookInv  BY <1>1 DEF HookInv
  <2>2. QED  BY <2>1
<1>3. ASSUME poolErr' = poolErr, stored' = stored, cancelPc' = cancelPc
      PROVE  DeliveryTypeOK'
  <2>1. DeliveryTypeOK' <=> DeliveryTypeOK  BY ZenonT(30), <1>1, <1>3 DEF DeliveryTypeOK
  <2>2. QED  BY <2>1
<1>4. QED  BY <1>2, <1>3

\* The batch below takes a step, or the cancel request ends its context.
LEMMA BatchPreserves ==
    ASSUME DeliveryInv, Batch
    PROVE  DeliveryInv'
<1> USE DEF DeliveryInv
<1>1. UNCHANGED <<jobVars, hookVars>>  BY DEF Batch
<1>2. PipelineNext  BY DEF Batch, PipelineNext
<1>3. PipelineInv'  BY <1>2, PipelineStepPreserves
<1>4. /\ DeliveryTypeOK' /\ HookInv'  BY <1>1, HookUntouched DEF jobVars
<1>5. CASE \E w \in Workers : Worker(w)
  <2>1. PICK w \in Workers : Worker(w)  BY <1>5
  <2>2. BatchInv'  BY <2>1, WorkerKeepsBatch
  <2>3. JobInv'
    <3>1. CASE jobPc = "pool"  BY <1>1, <3>1 DEF JobInv, jobVars
    <3>2. CASE jobPc # "pool"
      <4>1. pc[w] = "gone"  BY <3>2 DEF JobInv, BatchOver
      <4>2. Rendering(w)
        BY <2>1, <4>1
           DEF Worker, Take, Leave, RenderCall, RenderError, Rendered, Begin, Refused, Finish,
               Fail
      <4>3. UNCHANGED <<req, pc, outcome>>  BY <4>2 DEF Rendering, workerVars
      <4>4. QED  BY <1>1, <4>3 DEF JobInv, jobVars, BatchOver, AllOk, Tasks
    <3>3. QED  BY <3>1, <3>2
  <2>4. QED  BY <1>3, <1>4, <2>2, <2>3
<1>6. CASE CtxEnd \/ \E w \in Workers : TimeOut(w)
  <2>1. UNCHANGED <<req, next, pc, task, outcome>> /\ (ctxErr # "none" => ctxErr' = ctxErr)
    BY <1>6 DEF CtxEnd, TimeOut, workerVars
  <2>2. BatchInv' /\ JobInv'
    BY <1>1, <2>1 DEF BatchInv, JobInv, BatchOver, AllOk, Tasks, jobVars
  <2>3. QED  BY <1>3, <1>4, <2>2
<1>7. QED  BY <1>5, <1>6 DEF Batch

\* The batch is not touched by the job's end, the webhook or the receiver.
LEMMA BatchUntouched ==
    ASSUME PipelineInv, BatchInv, UNCHANGED pipelineVars
    PROVE  PipelineInv' /\ BatchInv'
<1>1. PipelineInv'  BY PipelineStepPreserves
<1>2. BatchInv'  BY DEF BatchInv, pipelineVars, workerVars, Tasks
<1>3. QED  BY <1>1, <1>2

\* The goroutine of the job goes on: it settles the verdict of a batch that is over.
LEMMA JobPreserves ==
    ASSUME DeliveryInv, Job
    PROVE  DeliveryInv'
<1> USE DEF DeliveryInv
<1>1. UNCHANGED pipelineVars  BY DEF Job, PoolReturns, Settle, Save, StartHook
<1>2. PipelineInv' /\ BatchInv'  BY <1>1, BatchUntouched
<1>3. /\ BatchOver' = BatchOver /\ AllOk' = AllOk /\ ctxErr' = ctxErr
  BY <1>1 DEF pipelineVars, workerVars, BatchOver, AllOk, Tasks
<1>4. CASE PoolReturns
  <2>1. DeliveryTypeOK'  BY <1>4 DEF PoolReturns, PoolErr, DeliveryTypeOK, hookVars
  <2>2. poolErr' = "none" => AllOk
    <3>1. ASSUME poolErr' = "none", NEW t \in Tasks  PROVE outcome[t] = "ok"
      <4>1. outcome[t] \in {"dropped", "ok", "fail", "timeout"}
        BY <1>4, AllCounted DEF PoolReturns
      <4>2. ctxErr = "none" /\ outcome[t] \notin {"fail", "timeout"}
        BY <1>4, <3>1 DEF PoolReturns, PoolErr
      <4>3. QED  BY <4>1, <4>2 DEF BatchInv
    <3>2. QED  BY <3>1 DEF AllOk
  <2>3. JobInv'  BY <1>3, <1>4, <2>2 DEF PoolReturns, JobInv
  <2>4. HookInv'  BY <1>4 DEF PoolReturns, HookInv, hookVars
  <2>5. QED  BY <1>2, <2>1, <2>3, <2>4
<1>5. CASE Settle
  <2>1. /\ Verdict \in {"completed", "failed", "cancelled"}
        /\ Verdict = "completed" => poolErr = "none"
    BY DEF Verdict, DeliveryTypeOK
  <2>2. DeliveryTypeOK'
    <3>1. verdict' \in JobStatuses  BY <1>5, <2>1 DEF Settle, JobStatuses
    <3>2. QED  BY <1>5, <3>1 DEF Settle, DeliveryTypeOK, hookVars
  <2>3. JobInv'  BY <1>3, <1>5, <2>1 DEF Settle, JobInv
  <2>4. HookInv'
    <3>1. \A i \in Attempts : request[i] = "none" /\ told[i] = "none" /\ answer[i] = "none"
      BY <1>5 DEF Settle, HookInv
    <3>2. QED  BY <1>5, <3>1 DEF Settle, HookInv, hookVars
  <2>5. QED  BY <1>2, <2>2, <2>3, <2>4
<1>6. CASE Save
  <2>1. DeliveryTypeOK' /\ HookInv'
    BY <1>6 DEF Save, Stored, DeliveryTypeOK, HookInv, hookVars
  <2>2. JobInv'  BY <1>3, <1>6 DEF Save, Stored, JobInv
  <2>3. QED  BY <1>2, <2>1, <2>2
<1>7. CASE StartHook
  <2>1. DeliveryTypeOK'  BY <1>7 DEF StartHook, DeliveryTypeOK
  <2>2. JobInv'  BY <1>3, <1>7 DEF StartHook, JobInv
  <2>3. HookInv'
    <3>1. \A i \in Attempts : request[i] = "none" /\ told[i] = "none" /\ answer[i] = "none"
      BY <1>7 DEF StartHook, HookInv
    <3>2. QED  BY <1>7, <3>1 DEF StartHook, HookInv
  <2>4. QED  BY <1>2, <2>1, <2>2, <2>3
<1>8. QED  BY <1>4, <1>5, <1>6, <1>7 DEF Job

\* A cancel request ends the context or writes the record.
LEMMA CancelPreserves ==
    ASSUME DeliveryInv, Cancel
    PROVE  DeliveryInv'
<1> USE DEF DeliveryInv
<1>1. CASE CancelGet \/ CancelFind \/ CancelWrite
  <2>1. UNCHANGED pipelineVars  BY <1>1 DEF CancelGet, CancelFind, CancelWrite
  <2>2. PipelineInv' /\ BatchInv'  BY <2>1, BatchUntouched
  <2>3. BatchOver' = BatchOver /\ AllOk' = AllOk
    BY <2>1 DEF pipelineVars, workerVars, BatchOver, AllOk, Tasks
  <2>4. DeliveryTypeOK' /\ HookInv'
    <3>1. /\ UNCHANGED <<jobPc, poolErr, verdict, hookVars>>
          /\ stored' \in {stored, Stored("cancelled", FALSE)}
          /\ cancelPc' \in {"found", "cancel", "stillRunning", "cancelled"}
      BY <1>1 DEF CancelGet, CancelFind, CancelWrite
    <3>2. DeliveryTypeOK'
      <4>1. stored' \in [status : JobStatuses, report : BOOLEAN]
        <5>1. Stored("cancelled", FALSE) \in [status : JobStatuses, report : BOOLEAN]
          BY DEF Stored, JobStatuses
        <5>2. QED  BY <3>1, <5>1 DEF DeliveryTypeOK
      <4>2. cancelPc' \in {"none", "found", "cancel", "write", "cancelled", "stillRunning"}
        BY <3>1
      <4>3. QED  BY <3>1, <4>1, <4>2 DEF DeliveryTypeOK, hookVars
    <3>3. HookInv'  BY <3>1 DEF HookInv, hookVars
    <3>4. QED  BY <3>2, <3>3
  <2>5. JobInv'  BY <1>1, <2>3 DEF CancelGet, CancelFind, CancelWrite, Stored, JobInv
  <2>6. QED  BY <2>2, <2>4, <2>5
<1>2. CASE CancelCtx
  <2>1. /\ UNCHANGED <<templateVars, req, next, workerVars, outcome, log, jobPc, poolErr,
                       verdict, stored, hookVars>>
        /\ ctxErr' \in {ctxErr, "canceled"} /\ (ctxErr # "none" => ctxErr' = ctxErr)
        /\ cancelPc = "cancel" /\ cancelPc' = "write"
    BY <1>2 DEF CancelCtx
  <2>2. PipelineTypeOK'
    BY <2>1 DEF PipelineInv, PipelineTypeOK, workerVars, Tasks, Steps
  <2>3. PipelineInv'
    BY <2>1, <2>2, QuietPreserves DEF workerVars
  <2>4. BatchInv'  BY <2>1 DEF BatchInv, Tasks, workerVars
  <2>5. BatchOver' = BatchOver /\ AllOk' = AllOk
    BY <2>1 DEF workerVars, BatchOver, AllOk, Tasks
  <2>6. DeliveryTypeOK' /\ HookInv'
    <3>1. HookInv'  BY <2>1, HookUntouched
    <3>2. DeliveryTypeOK'  BY <2>1 DEF DeliveryTypeOK, hookVars
    <3>3. QED  BY <3>1, <3>2
  <2>7. JobInv'  BY <2>1, <2>5 DEF JobInv
  <2>8. QED  BY <2>3, <2>4, <2>6, <2>7
<1>3. QED  BY <1>1, <1>2 DEF Cancel

\* The webhook makes an attempt, or learns what became of it.
LEMMA HookPreserves ==
    ASSUME DeliveryInv, Hook
    PROVE  DeliveryInv'
<1> USE DEF DeliveryInv
<1>1. UNCHANGED <<pipelineVars, jobVars>>  BY DEF Hook, Send, HookAnswered, HookFailed, Retry
<1>2. PipelineInv' /\ BatchInv'  BY <1>1, BatchUntouched
<1>3. JobInv'
  BY <1>1 DEF JobInv, jobVars, pipelineVars, workerVars, BatchOver, AllOk, Tasks
<1>4. attempt \in Attempts /\ attempt \in Nat
  <2>1. attempt \in Attempts  BY DEF DeliveryTypeOK
  <2>2. QED  BY <2>1, AttemptFacts
<1>5. CASE Send
  <2>1. jobPc = "left"  BY <1>5 DEF Send, HookInv
  <2>2. DeliveryTypeOK'  BY <1>1, <1>5 DEF Send, Payload, DeliveryTypeOK, jobVars
  <2>3. HookInv'  BY <1>1, <1>4, <1>5, <2>1 DEF Send, Payload, DeliveryTypeOK, HookInv, jobVars
  <2>4. QED  BY <1>2, <1>3, <2>2, <2>3
<1>6. CASE HookAnswered
  <2>1. /\ answer[attempt] \in {"2xx", "other"} /\ told[attempt] = verdict
        /\ (~Accepted(answer[attempt]) => answer[attempt] = "other")
    BY <1>4, <1>6 DEF HookAnswered, DeliveryTypeOK, HookInv, Accepted
  <2>2. DeliveryTypeOK'  BY <1>1, <1>4, <1>6, <2>1 DEF HookAnswered, DeliveryTypeOK, jobVars
  <2>3. HookInv'
    BY <1>1, <1>4, <1>6, <2>1 DEF HookAnswered, DeliveryTypeOK, HookInv, jobVars
  <2>4. QED  BY <1>2, <1>3, <2>2, <2>3
<1>7. CASE HookFailed
  <2>1. DeliveryTypeOK'  BY <1>1, <1>4, <1>7 DEF HookFailed, DeliveryTypeOK, jobVars
  <2>2. HookInv'  BY <1>1, <1>4, <1>7 DEF HookFailed, DeliveryTypeOK, HookInv, jobVars
  <2>3. QED  BY <1>2, <1>3, <2>1, <2>2
<1>8. CASE Retry
  <2>1. CASE attempt' = attempt + 1 /\ MoreAttempts(attempt) /\ hookPc' = "send"
    <3>1. attempt + 1 \in Attempts  BY <1>4, <2>1, AttemptFacts DEF MoreAttempts
    <3>2. DeliveryTypeOK'  BY <1>1, <1>8, <2>1, <3>1 DEF Retry, DeliveryTypeOK, jobVars
    <3>3. \A i \in Attempts : i < attempt + 1 => ended[i] \in {"other", "error"}
      <4>1. \A i \in Attempts : i < attempt + 1 => i < attempt \/ i = attempt
        BY <1>4, AttemptFacts
      <4>2. ended[attempt] \in {"other", "error"}  BY <1>8 DEF Retry, HookInv
      <4>3. QED  BY <4>1, <4>2 DEF HookInv
    <3>4. \A i \in Attempts : i <= attempt => i <= attempt + 1  BY <1>4, AttemptFacts
    <3>5. HookInv'  BY <1>1, <1>8, <2>1, <3>3, <3>4 DEF Retry, HookInv, jobVars
    <3>6. QED  BY <1>2, <1>3, <3>2, <3>5
  <2>2. CASE attempt' = attempt /\ ~MoreAttempts(attempt) /\ hookPc' = "gave up"
    <3>1. attempt = MaxRetries
      <4>1. attempt \in 0 .. MaxRetries /\ MaxRetries \in Nat  BY <1>4, AttemptFacts
      <4>2. ~(attempt + 1 <= MaxRetries)  BY <2>2 DEF MoreAttempts
      <4>3. QED  BY <4>1, <4>2
    <3>2. DeliveryTypeOK'  BY <1>1, <1>8, <2>2 DEF Retry, DeliveryTypeOK, jobVars
    <3>3. HookInv'  BY <1>1, <1>8, <2>2, <3>1 DEF Retry, HookInv, jobVars
    <3>4. QED  BY <1>2, <1>3, <3>2, <3>3
  <2>3. QED  BY <1>8, <2>1, <2>2 DEF Retry
<1>9. QED  BY <1>5, <1>6, <1>7, <1>8 DEF Hook

\* The receiver is told, however late.
LEMMA HandlePreserves ==
    ASSUME DeliveryInv, NEW i \in Attempts, Handle(i)
    PROVE  DeliveryInv'
<1> USE DEF DeliveryInv
<1>1. UNCHANGED <<pipelineVars, jobVars, hookPc, attempt, request, ended>>  BY DEF Handle
<1>2. PipelineInv' /\ BatchInv'  BY <1>1, BatchUntouched
<1>3. JobInv'
  BY <1>1 DEF JobInv, jobVars, pipelineVars, workerVars, BatchOver, AllOk, Tasks
<1>4. request[i] = verdict /\ request[i] # "none" /\ told[i] = "none"  BY DEF Handle, HookInv
<1>5. PICK a \in {"2xx", "other"} : answer' = [answer EXCEPT ![i] = a]  BY DEF Handle
<1>6. told' = [told EXCEPT ![i] = verdict]  BY <1>4 DEF Handle
<1>7. DeliveryTypeOK'
  <2>1. told' \in [Attempts -> JobStatuses \union {"none"}]  BY <1>6 DEF DeliveryTypeOK
  <2>2. answer' \in [Attempts -> {"none", "2xx", "other"}]  BY <1>5 DEF DeliveryTypeOK
  <2>3. QED  BY ZenonT(30), <1>1, <2>1, <2>2 DEF DeliveryTypeOK, jobVars
<1>8. HookInv'
  BY ZenonT(30), <1>1, <1>4, <1>5, <1>6 DEF HookInv, DeliveryTypeOK, jobVars, JobStatuses
<1>9. QED  BY <1>2, <1>3, <1>7, <1>8

LEMMA DeliveryStepPreserves ==
    ASSUME DeliveryInv, [DeliveryNext]_deliveryVars
    PROVE  DeliveryInv'
<1>1. CASE Rest \/ UNCHANGED deliveryVars
  <2>1. UNCHANGED <<pipelineVars, jobVars, hookVars>>  BY <1>1 DEF Rest, deliveryVars
  <2>2. PipelineInv' /\ BatchInv'  BY <2>1, BatchUntouched DEF DeliveryInv
  <2>3. DeliveryTypeOK' /\ HookInv'  BY <2>1, HookUntouched DEF DeliveryInv, jobVars
  <2>4. JobInv'
    BY <2>1 DEF DeliveryInv, JobInv, jobVars, pipelineVars, workerVars, BatchOver, AllOk, Tasks
  <2>5. QED  BY <2>2, <2>3, <2>4 DEF DeliveryInv
<1>2. CASE ~(Rest \/ UNCHANGED deliveryVars)
  BY <1>2, BatchPreserves, JobPreserves, CancelPreserves, HookPreserves, HandlePreserves
     DEF DeliveryNext
<1>3. QED  BY <1>1, <1>2

\* The invariant holds in every reachable state.
THEOREM DeliveryInvariant == DeliverySpec => []DeliveryInv
<1>1. DeliveryInit => DeliveryInv  BY DeliveryInitially
<1>2. DeliveryInv /\ [DeliveryNext]_deliveryVars => DeliveryInv'  BY DeliveryStepPreserves
<1>3. QED  BY <1>1, <1>2, PTL DEF DeliverySpec

-----------------------------------------------------------------------------
(* Theorems. *)

\* The end of a job and its webhook are always well typed.
THEOREM DeliveryTypeCorrect == DeliverySpec => []DeliveryTypeOK
<1>1. DeliveryInv => DeliveryTypeOK  BY DEF DeliveryInv
<1>2. QED  BY <1>1, DeliveryInvariant, PTL

\* The receiver is told one verdict, the saved one (sendWebhook).
THEOREM OneVerdictTold == DeliverySpec => []ToldOneVerdict
<1>1. DeliveryInv => ToldOneVerdict
  <2> SUFFICES ASSUME DeliveryInv, NEW i \in Attempts, told[i] # "none"
               PROVE  /\ told[i] = verdict
                      /\ verdict \in {"completed", "failed", "cancelled"}
                      /\ \/ stored.status = told[i]
                         \/ stored.status = "cancelled" /\ cancelPc = "cancelled"
    BY DEF ToldOneVerdict
  <2>1. told[i] = verdict /\ jobPc = "left"  BY DEF DeliveryInv, HookInv
  <2>2. QED  BY <2>1 DEF DeliveryInv, JobInv
<1>2. QED  BY <1>1, DeliveryInvariant, PTL

\* "completed" is told only of a batch whose every task got through all its steps
\* (runAsyncJob, RunJobPool and RunPipeline together).
THEOREM CompletedIsDone == DeliverySpec => []CompletedMeansDone
<1>1. DeliveryInv => CompletedMeansDone
  <2> SUFFICES ASSUME DeliveryInv, NEW i \in Attempts, told[i] = "completed", NEW t \in Tasks
               PROVE  /\ outcome[t] = "ok"
                      /\ \A s \in DOMAIN Steps : \E j \in DOMAIN log[t] :
                           log[t][j][1] = s /\ log[t][j][2] \in {"empty", "slept", "ok"}
    BY DEF CompletedMeansDone
  <2>1. verdict = "completed" /\ jobPc = "left"  BY DEF DeliveryInv, HookInv
  <2>2. outcome[t] = "ok"  BY <2>1 DEF DeliveryInv, JobInv, AllOk
  <2>3. log[t] \in Seq(Entries)  BY DEF DeliveryInv, PipelineInv, PipelineTypeOK, Entries
  <2>4. ASSUME NEW s \in DOMAIN Steps
        PROVE  \E j \in DOMAIN log[t] :
                 log[t][j][1] = s /\ log[t][j][2] \in {"empty", "slept", "ok"}
    <3>1. Behind(log[t], s)  BY <2>2 DEF DeliveryInv, PipelineInv
    <3>2. \E e \in {"empty", "slept", "ok"} : In(log[t], s, e)  BY <3>1 DEF Behind
    <3>3. DOMAIN log[t] = 1 .. Len(log[t]) + 1 - 1  BY <2>3
    <3>4. QED  BY <3>2, <3>3 DEF In, HasBefore
  <2>5. QED  BY <2>2, <2>4
<1>2. QED  BY <1>1, DeliveryInvariant, PTL

\* The event is repeated only after an attempt that failed, and given up only after
\* all of them did (sendWebhook).
THEOREM RepeatsAreJustified == DeliverySpec => []RepeatedOnlyUnaccepted
<1>1. DeliveryInv => RepeatedOnlyUnaccepted
  <2> SUFFICES ASSUME DeliveryInv  PROVE RepeatedOnlyUnaccepted
    OBVIOUS
  <2>1. attempt \in Attempts /\ MaxRetries \in Nat /\ Attempts = 0 .. MaxRetries
    <3>1. attempt \in Attempts  BY DEF DeliveryInv, DeliveryTypeOK
    <3>2. QED  BY <3>1, AttemptFacts
  <2>2. ASSUME NEW i \in Attempts, request[i] # "none", NEW j \in 0 .. i - 1
        PROVE  ended[j] \in {"other", "error"}
    <3>1. i <= attempt  BY <2>2 DEF DeliveryInv, HookInv
    <3>2. j \in Attempts /\ j < attempt  BY <2>1, <3>1
    <3>3. QED  BY <3>2 DEF DeliveryInv, HookInv
  <2>3. ASSUME hookPc = "gave up", NEW i \in Attempts  PROVE ended[i] \in {"other", "error"}
    <3>1. attempt = MaxRetries /\ ended[attempt] \in {"other", "error"}
      BY <2>3 DEF DeliveryInv, HookInv
    <3>2. i < attempt \/ i = attempt  BY <2>1, <3>1
    <3>3. QED  BY <3>1, <3>2 DEF DeliveryInv, HookInv
  <2>4. hookPc = "delivered" => told[attempt] = verdict  BY DEF DeliveryInv, HookInv
  <2>5. QED  BY <2>2, <2>3, <2>4 DEF RepeatedOnlyUnaccepted
<1>2. QED  BY <1>1, DeliveryInvariant, PTL

\* A batch under a job, with a cancel request beside it, still uses the templates as
\* module Templates says, and keeps its steps in order.
THEOREM DeliveryImplementsTemplates == DeliverySpec => TemplateSpec
<1>1. DeliveryInit => TemplateInit  BY DEF DeliveryInit, PipelineInit
<1>2. ASSUME DeliveryInv, [DeliveryNext]_deliveryVars  PROVE [TemplateNext]_templateVars
  <2>1. CASE Batch
    <3>1. PipelineNext  BY <2>1 DEF Batch, PipelineNext
    <3>2. QED  BY <1>2, <3>1, TemplateStep DEF DeliveryInv
  <2>2. CASE ~Batch
    BY <1>2, <2>2 DEF DeliveryNext, Job, PoolReturns, Settle, Save, StartHook, Cancel, CancelGet,
       CancelFind, CancelCtx, CancelWrite, Hook, Send, HookAnswered, HookFailed, Retry, Handle, Rest,
       deliveryVars, pipelineVars
  <2>3. QED  BY <2>1, <2>2
<1>3. QED  BY <1>1, <1>2, DeliveryInvariant, PTL DEF DeliverySpec, TemplateSpec

\* What module Pipeline promises of a batch holds under a job as well.
THEOREM JobKeepsPipeline ==
    DeliverySpec => []PipelineTypeOK /\ []StepsInOrder /\ []OkMeansRun
<1>1. DeliveryInv => PipelineTypeOK /\ StepsInOrder /\ OkMeansRun
  BY DEF DeliveryInv, PipelineInv, StepsInOrder, OkMeansRun, Before, Ordered, BeginsInOrder,
         Behind, In, HasBefore
<1>2. QED  BY <1>1, DeliveryInvariant, PTL

\* No step of a job begins after its timeout or after the job was cancelled.
THEOREM JobStepsInTime == DeliverySpec => NoStepAfterCtxEnd
<1> DEFINE InTime == \A w \in Workers :
                       pc[w] # "run" /\ pc'[w] = "run" /\ client'[w] # ".sleep"
                         => ctxErr = "none" /\ ~timedOut[w]
<1>1. ASSUME DeliveryInv, [DeliveryNext]_deliveryVars  PROVE [InTime]_pipelineVars
  <2>1. CASE Batch
    <3>1. PipelineNext  BY <2>1 DEF Batch, PipelineNext
    <3>2. QED  BY <1>1, <3>1, BeginsInTime DEF DeliveryInv
  <2>2. CASE ~Batch
    <3>1. pc' = pc
      BY <1>1, <2>2 DEF DeliveryNext, Job, PoolReturns, Settle, Save, StartHook, Cancel,
         CancelGet, CancelFind, CancelCtx, CancelWrite, Hook, Send, HookAnswered, HookFailed, Retry, Handle,
         Rest, deliveryVars, pipelineVars, workerVars
    <3>2. QED  BY <3>1
  <2>3. QED  BY <2>1, <2>2
<1>2. QED  BY <1>1, DeliveryInvariant, PTL DEF DeliverySpec, NoStepAfterCtxEnd

\* Hence the counters count and the lines of files go in turn in every job.
THEOREM JobSharesTemplates ==
    DeliverySpec => []TemplateTypeOK /\ []CountsOnce /\ []LinesInTurn /\ CachedOnce
BY DeliveryImplementsTemplates, TemplateTypeCorrect, CountersCountOnce, FileLinesInTurn,
   FilesCachedOnce, PTL

\* Likewise the calls of the templates are atomic in every job.
THEOREM JobCallsAreAtomic == DeliverySpec => ImplementsDispenser
BY DeliveryImplementsTemplates, CallsAreAtomic, PTL

-----------------------------------------------------------------------------
(* A job runs its batch as module Pipeline says: to the batch a cancel       *)
(* request is one more way in which its context may end.                     *)

Cancellable == INSTANCE Pipeline WITH CtxEnds <- CtxEnds \union {"canceled"}

\* The instance differs from Pipeline in how the context may end, and in nothing else.
LEMMA CancellableSame ==
    /\ Cancellable!PipelineInit <=> PipelineInit
    /\ \A w \in Workers : Cancellable!Worker(w) <=> Worker(w)
    /\ \A w \in Workers : Cancellable!TimeOut(w) <=> TimeOut(w)
    /\ CtxEnd => Cancellable!CtxEnd
<1>1. \A w \in Workers : Cancellable!Take(w) <=> Take(w)
  BY DEF Take, Cancellable!Take, HasStep, Cancellable!HasStep, Steps,
         Cancellable!Steps, Tasks, Cancellable!Tasks, workerVars,
         Cancellable!workerVars, templateVars, Cancellable!templateVars
<1>2. \A w \in Workers : Cancellable!Leave(w) <=> Leave(w)
  BY DEF Leave, Cancellable!Leave, Tasks, Cancellable!Tasks, templateVars,
         Cancellable!templateVars
<1>3. \A w \in Workers : Cancellable!RenderCall(w) <=> RenderCall(w)
  BY DEF RenderCall, Cancellable!RenderCall, StepCalls, Cancellable!StepCalls, Steps,
         Cancellable!Steps, Enter, Cancellable!Enter, CallGoto, Cancellable!CallGoto
<1>4. \A w \in Workers : Cancellable!RenderError(w) <=> RenderError(w)
  BY DEF RenderError, Cancellable!RenderError, EndTask, Cancellable!EndTask,
         templateVars, Cancellable!templateVars
<1>5. \A w \in Workers : Cancellable!Rendered(w) <=> Rendered(w)
  BY DEF Rendered, Cancellable!Rendered, StepCalls, Cancellable!StepCalls, Steps,
         Cancellable!Steps, GoOn, Cancellable!GoOn, HasStep, Cancellable!HasStep,
         EndTask, Cancellable!EndTask, Log, Cancellable!Log, templateVars,
         Cancellable!templateVars
<1>6. \A w \in Workers : Cancellable!Rendering(w) <=> Rendering(w)
  BY DEF Rendering, Cancellable!Rendering, CallStep, Cancellable!CallStep, LoadOrStore,
         Cancellable!LoadOrStore, Add, Cancellable!Add, Lookup, Cancellable!Lookup,
         Lock, Cancellable!Lock, Recheck, Cancellable!Recheck, Read, Cancellable!Read,
         Unlock, Cancellable!Unlock, LoadOrStored, Cancellable!LoadOrStored, LineAt,
         Cancellable!LineAt, Loaded, Cancellable!Loaded, CachedByNow,
         Cancellable!CachedByNow, Released, Cancellable!Released, Returns,
         Cancellable!Returns, GoesOn, Cancellable!GoesOn, CallGoto,
         Cancellable!CallGoto, Name, Cancellable!Name, Key, Cancellable!Key, NoCall,
         Cancellable!NoCall, Missing, Cancellable!Missing, workerVars,
         Cancellable!workerVars
<1>7. \A w \in Workers : Cancellable!Begin(w) <=> Begin(w)
  BY DEF Begin, Cancellable!Begin, MayBegin, Cancellable!MayBegin, CtxErr,
         Cancellable!CtxErr, Log, Cancellable!Log, templateVars,
         Cancellable!templateVars
<1>8. \A w \in Workers : Cancellable!Refused(w) <=> Refused(w)
  BY DEF Refused, Cancellable!Refused, RefusedResults, Cancellable!RefusedResults,
         Result, Cancellable!Result, CtxErr, Cancellable!CtxErr, BreakOff,
         Cancellable!BreakOff, Log, Cancellable!Log, Seen, Cancellable!Seen,
         templateVars, Cancellable!templateVars
<1>9. \A w \in Workers : Cancellable!Finish(w) <=> Finish(w)
  BY DEF Finish, Cancellable!Finish, Results, Cancellable!Results, ShellResults,
         Cancellable!ShellResults, SleepResults, Cancellable!SleepResults, HttpResults,
         Cancellable!HttpResults, TcpResults, Cancellable!TcpResults, Result,
         Cancellable!Result, CtxErr, Cancellable!CtxErr, Passes, Cancellable!Passes,
         PrevAfter, Cancellable!PrevAfter, GoOn, Cancellable!GoOn, HasStep,
         Cancellable!HasStep, Steps, Cancellable!Steps, EndTask, Cancellable!EndTask,
         BreakOff, Cancellable!BreakOff, Log, Cancellable!Log, Seen, Cancellable!Seen,
         templateVars, Cancellable!templateVars
<1>10. \A w \in Workers : Cancellable!Fail(w) <=> Fail(w)
  BY DEF Fail, Cancellable!Fail, CtxErr, Cancellable!CtxErr, EndTask,
         Cancellable!EndTask, templateVars, Cancellable!templateVars
<1>11. \A w \in Workers : Cancellable!Worker(w) <=> Worker(w)
  BY <1>1, <1>2, <1>3, <1>4, <1>5, <1>6, <1>7, <1>8, <1>9, <1>10 DEF Worker, Cancellable!Worker
<1>12. \A w \in Workers : Cancellable!TimeOut(w) <=> TimeOut(w)
  BY DEF TimeOut, Cancellable!TimeOut, CtxErr, Cancellable!CtxErr, templateVars,
         Cancellable!templateVars
<1>13. CtxEnd => Cancellable!CtxEnd
  BY DEF CtxEnd, Cancellable!CtxEnd, templateVars, Cancellable!templateVars, workerVars,
         Cancellable!workerVars
<1>14. Cancellable!PipelineInit <=> PipelineInit
  BY DEF PipelineInit, Cancellable!PipelineInit, TemplateInit, Cancellable!TemplateInit, Tasks,
         Cancellable!Tasks, Keys, Cancellable!Keys, NoCall, Cancellable!NoCall, Missing,
         Cancellable!Missing
<1>15. QED  BY <1>11, <1>12, <1>13, <1>14

\* A cancel request that calls the cancel function ends the context as a signal would.
LEMMA CancelEndsContext ==
    ASSUME CancelCtx
    PROVE  (UNCHANGED pipelineVars) \/ Cancellable!CtxEnd
BY DEF CancelCtx, pipelineVars, Cancellable!CtxEnd, templateVars, Cancellable!templateVars,
       workerVars, Cancellable!workerVars

\* Every job is, as to its workers, steps and templates, a batch of module Pipeline whose
\* context may also be cancelled (runAsyncJob and RunPipeline).
THEOREM DeliveryImplementsPipeline == DeliverySpec => Cancellable!PipelineSpec
<1>1. DeliveryInit => Cancellable!PipelineInit  BY CancellableSame DEF DeliveryInit
<1>2. [DeliveryNext]_deliveryVars => [Cancellable!PipelineNext]_(Cancellable!pipelineVars)
  <2> SUFFICES ASSUME [DeliveryNext]_deliveryVars
               PROVE  Cancellable!PipelineNext \/ UNCHANGED pipelineVars
    BY DEF pipelineVars, Cancellable!pipelineVars, templateVars, Cancellable!templateVars,
           workerVars, Cancellable!workerVars
  <2>1. CASE Batch  BY <2>1, CancellableSame DEF Batch, Cancellable!PipelineNext
  <2>2. CASE CancelCtx  BY <2>2, CancelEndsContext DEF Cancellable!PipelineNext
  <2>3. CASE ~Batch /\ ~CancelCtx
    BY <2>3 DEF DeliveryNext, Job, PoolReturns, Settle, Save, StartHook, Cancel, CancelGet,
       CancelFind, CancelWrite, Hook, Send, HookAnswered, HookFailed, Retry, Handle, Rest, deliveryVars
  <2>4. QED  BY <2>1, <2>2, <2>3
<1>3. QED  BY <1>1, <1>2, PTL DEF DeliverySpec, Cancellable!PipelineSpec

-----------------------------------------------------------------------------
(* A job keeps the promise of a batch, which module Batch states without workers,    *)
(* steps or templates and module JobPool keeps too: its verdict speaks for its tasks. *)

\* A job as Batch sees it.  The context speaks for the batch only until RunJobPool
\* has returned; what ends it later does not change what was returned.
TaskEnd(o) == IF o = "timeout" THEN "fail" ELSE o
Interrupted == IF jobPc = "pool" THEN ctxErr # "none" ELSE poolErr = "interrupted"
PoolVerdict == IF jobPc = "pool" THEN "none"
               ELSE IF poolErr = "none" THEN "success"
               ELSE IF poolErr = "failed" THEN "failure" ELSE poolErr

Promise(n) == INSTANCE Batch WITH Tasks <- 1 .. n,
                                  outcome <- [t \in 1 .. n |-> TaskEnd(outcome[t])],
                                  interrupted <- Interrupted,
                                  verdict <- PoolVerdict

\* A worker's step ends one task, which had not ended, or none.
LEMMA TaskEndsOnce ==
    ASSUME DeliveryInv, jobPc = "pool", NEW n \in Nat, req.iterations = n,
           NEW w \in Workers, Worker(w), UNCHANGED jobVars
    PROVE  (\E t \in 1 .. n : Promise(n)!Finish(t)) \/ UNCHANGED Promise(n)!vars
<1>0. /\ PipelineInv /\ Tasks = 1 .. n
      /\ outcome \in [Tasks -> {"todo", "dropped", "ok", "fail", "timeout"}]
  BY DEF DeliveryInv, PipelineInv, PipelineTypeOK, Tasks
<1>1. /\ Interrupted = (ctxErr # "none") /\ PoolVerdict = "none"
      /\ Interrupted' = Interrupted /\ PoolVerdict' = PoolVerdict
  BY <1>0, WorkerEffect DEF Interrupted, PoolVerdict, jobVars
<1>2. ASSUME NEW t \in 1 .. n, outcome[t] = "todo", NEW o \in {"ok", "fail", "timeout", "dropped"},
             outcome' = [outcome EXCEPT ![t] = o], o = "dropped" => ctxErr # "none"
      PROVE  Promise(n)!Finish(t)
  <2>1. TaskEnd("todo") = "todo" /\ TaskEnd(o) \in {"ok", "fail", "dropped"}
        /\ (TaskEnd(o) = "dropped" => Interrupted)
    BY <1>1, <1>2 DEF TaskEnd
  <2>2. [u \in 1 .. n |-> TaskEnd(outcome'[u])]
        = [[u \in 1 .. n |-> TaskEnd(outcome[u])] EXCEPT ![t] = TaskEnd(o)]
    BY <1>0, <1>2
  <2>3. QED  BY <1>1, <1>2, <2>1, <2>2 DEF Promise!Finish
<1>3. ASSUME outcome' = outcome  PROVE UNCHANGED Promise(n)!vars
  BY <1>1, <1>3 DEF Promise!vars
<1>4. CASE \E o \in {"ok", "fail", "timeout"} : outcome' = [outcome EXCEPT ![task[w]] = o]
  <2>1. PICK o \in {"ok", "fail", "timeout"} : outcome' = [outcome EXCEPT ![task[w]] = o]
    BY <1>4
  <2>2. CASE Working(w)
    <3>1. task[w] \in Tasks /\ outcome[task[w]] = "todo"
      BY <1>0, <2>2 DEF PipelineInv, WorkInv
    <3>2. QED  BY <1>0, <1>2, <2>1, <3>1
  <2>3. CASE ~Working(w)
    <3>1. task[w] \notin Tasks  BY <1>0, <2>3 DEF PipelineInv, WorkInv
    <3>2. outcome' = outcome  BY <1>0, <2>1, <3>1
    <3>3. QED  BY <1>3, <3>2
  <2>4. QED  BY <2>2, <2>3
<1>5. CASE /\ next \in Tasks
           /\ \E o \in {"ok", "dropped"} : /\ outcome' = [outcome EXCEPT ![next] = o]
                                           /\ o = "dropped" => ctxErr # "none"
  <2>1. PICK o \in {"ok", "dropped"} : /\ outcome' = [outcome EXCEPT ![next] = o]
                                       /\ o = "dropped" => ctxErr # "none"
    BY <1>5
  <2>2. outcome[next] = "todo"
    <3>1. next \in Nat  BY <1>5 DEF Tasks
    <3>2. QED  BY <1>0, <1>5, <3>1 DEF PipelineInv, FreshInv
  <2>3. QED  BY <1>0, <1>2, <1>5, <2>1, <2>2
<1>6. QED  BY <1>0, <1>3, <1>4, <1>5, WorkerEffect

\* RunJobPool concludes the batch: what it returns is the verdict on the tasks.
LEMMA PoolConcludes ==
    ASSUME DeliveryInv, PoolReturns, NEW n \in Nat, req.iterations = n
    PROVE  Promise(n)!ConcludeInterrupted \/ Promise(n)!Conclude
<1>1. /\ PipelineInv /\ BatchInv /\ Tasks = 1 .. n /\ BatchOver
      /\ jobPc = "pool" /\ jobPc' = "settle" /\ outcome' = outcome /\ poolErr' = PoolErr
  BY DEF DeliveryInv, PoolReturns, pipelineVars, Tasks
<1>2. Interrupted = (ctxErr # "none") /\ PoolVerdict = "none"
  BY <1>1 DEF Interrupted, PoolVerdict
<1>3. Interrupted' = (PoolErr = "interrupted")  BY <1>1 DEF Interrupted
<1>4. CASE ctxErr # "none"
  <2>1. PoolErr = "interrupted"  BY <1>4 DEF PoolErr
  <2>2. PoolVerdict' = "interrupted"  BY <1>1, <2>1 DEF PoolVerdict
  <2>3. QED  BY <1>1, <1>2, <1>3, <1>4, <2>1, <2>2 DEF Promise!ConcludeInterrupted
<1>5. CASE ctxErr = "none"
  <2> DEFINE end == [t \in 1 .. n |-> TaskEnd(outcome[t])]
  <2>1. \A t \in 1 .. n : outcome[t] \in {"ok", "fail", "timeout"}
    BY <1>1, <1>5, AllCounted DEF BatchInv
  <2>2. \A t \in 1 .. n : /\ end[t] \in {"ok", "fail"}
                          /\ end[t] = "ok" <=> outcome[t] = "ok"
                          /\ end[t] = "fail" <=> outcome[t] \in {"fail", "timeout"}
    BY <2>1 DEF TaskEnd
  <2>3. /\ PoolErr \in {"none", "failed", "partial"}
        /\ PoolErr = "none" <=> \A t \in 1 .. n : end[t] = "ok"
        /\ PoolErr # "none" => (PoolErr = "failed" <=> \A t \in 1 .. n : end[t] = "fail")
    <3> HIDE DEF end
    <3>1. {t \in Tasks : outcome[t] \in {"fail", "timeout"}} = {}
          <=> \A t \in 1 .. n : end[t] = "ok"
      BY <1>1, <2>1, <2>2
    <3>2. (\E t \in Tasks : outcome[t] = "ok") <=> ~ \A t \in 1 .. n : end[t] = "fail"
      BY <1>1, <2>1, <2>2
    <3>3. QED  BY <1>5, <3>1, <3>2 DEF PoolErr
  <2>4. PoolVerdict' = IF \A t \in 1 .. n : end[t] = "ok" THEN "success"
                       ELSE IF \A t \in 1 .. n : end[t] = "fail" THEN "failure" ELSE "partial"
    <3> HIDE DEF end
    <3>1. QED  BY <1>1, <2>3 DEF PoolVerdict
  <2>5. Interrupted' = Interrupted  BY <1>2, <1>3, <1>5, <2>3
  <2>6. end' = end  BY <1>1
  <2>7. QED
    BY <1>2, <1>5, <2>2, <2>4, <2>5, <2>6 DEF Promise!Conclude, Promise!Judged
<1>6. QED  BY <1>4, <1>5

\* The request is what it was.
LEMMA RequestStays ==
    ASSUME DeliveryInv, [DeliveryNext]_deliveryVars
    PROVE  req' = req
<1>1. CASE Batch
  <2>1. CASE \E w \in Workers : Worker(w)  BY <2>1, WorkerEffect DEF DeliveryInv
  <2>2. CASE CtxEnd \/ \E w \in Workers : TimeOut(w)  BY <2>2 DEF CtxEnd, TimeOut
  <2>3. QED  BY <1>1, <2>1, <2>2 DEF Batch
<1>2. CASE ~Batch
  BY <1>2 DEF DeliveryNext, Job, PoolReturns, Settle, Save, StartHook, Cancel, CancelGet,
     CancelFind, CancelCtx, CancelWrite, Hook, Send, HookAnswered, HookFailed, Retry, Handle,
     Rest, deliveryVars, pipelineVars
<1>3. QED  BY <1>1, <1>2

\* Every step of a job is a step of the promise, or nothing to it.
LEMMA JobKeepsPromise ==
    ASSUME DeliveryInv, [DeliveryNext]_deliveryVars, NEW n \in Nat, req.iterations = n
    PROVE  [Promise(n)!Next]_(Promise(n)!vars)
<1>1. ASSUME UNCHANGED <<outcome, ctxErr, poolErr>>, jobPc' = "pool" <=> jobPc = "pool"
      PROVE  UNCHANGED Promise(n)!vars
  BY <1>1 DEF Promise!vars, Interrupted, PoolVerdict
<1>2. ASSUME UNCHANGED <<outcome, jobPc, poolErr>>, ctxErr # "none" => ctxErr' = ctxErr
      PROVE  Promise(n)!Interrupt \/ UNCHANGED Promise(n)!vars
  <2>1. PoolVerdict' = PoolVerdict  BY <1>2 DEF PoolVerdict
  <2>2. CASE Interrupted' = Interrupted  BY <1>2, <2>1, <2>2 DEF Promise!vars
  <2>3. CASE Interrupted' # Interrupted
    <3>1. jobPc = "pool" /\ Interrupted' = TRUE /\ PoolVerdict = "none"
      BY <1>2, <2>3 DEF Interrupted, PoolVerdict
    <3>2. QED  BY <1>2, <2>1, <3>1 DEF Promise!Interrupt
  <2>4. QED  BY <2>2, <2>3
<1>3. CASE Batch
  <2>1. UNCHANGED jobVars  BY <1>3 DEF Batch
  <2>2. CASE \E w \in Workers : Worker(w)
    <3>1. PICK w \in Workers : Worker(w)  BY <2>2
    <3>2. CASE jobPc = "pool"  BY <2>1, <3>1, <3>2, TaskEndsOnce DEF Promise!Next
    <3>3. CASE jobPc # "pool"
      <4>1. pc[w] = "gone"  BY <3>3 DEF DeliveryInv, JobInv, BatchOver
      <4>2. Rendering(w)
        BY <3>1, <4>1
           DEF Worker, Take, Leave, RenderCall, RenderError, Rendered, Begin, Refused, Finish,
               Fail
      <4>3. QED  BY <1>1, <2>1, <4>2 DEF Rendering, jobVars
    <3>4. QED  BY <3>2, <3>3
  <2>3. CASE CtxEnd \/ \E w \in Workers : TimeOut(w)
    <3>1. outcome' = outcome /\ (ctxErr # "none" => ctxErr' = ctxErr)
      BY <2>3 DEF CtxEnd, TimeOut
    <3>2. QED  BY <1>2, <2>1, <3>1 DEF Promise!Next, jobVars
  <2>4. QED  BY <1>3, <2>2, <2>3 DEF Batch
<1>4. CASE PoolReturns  BY <1>4, PoolConcludes DEF Promise!Next
<1>5. CASE CancelCtx
  <2>1. /\ UNCHANGED <<outcome, jobPc, poolErr>>
        /\ ctxErr # "none" => ctxErr' = ctxErr
    BY <1>5 DEF CancelCtx
  <2>2. QED  BY <1>2, <2>1 DEF Promise!Next
<1>6. CASE ~Batch /\ ~PoolReturns /\ ~CancelCtx
  <2>1. /\ UNCHANGED <<outcome, ctxErr, poolErr>>
        /\ jobPc' = "pool" <=> jobPc = "pool"
    BY <1>6 DEF DeliveryNext, Job, Settle, Save, StartHook, Cancel, CancelGet, CancelFind,
       CancelWrite, Hook, Send, HookAnswered, HookFailed, Retry, Handle, Rest, deliveryVars,
       pipelineVars, jobVars
  <2>2. QED  BY <1>1, <2>1
<1>7. QED  BY <1>3, <1>4, <1>5, <1>6

\* A job of n iterations keeps the promise of a batch of n tasks, although its workers
\* share a template state, tasks time out in the middle and a cancel request comes between
\* (runAsyncJob, RunJobPool and RunPipeline).
THEOREM JobImplementsBatch ==
    ASSUME NEW n \in Nat
    PROVE  DeliverySpec /\ req.iterations = n => Promise(n)!Spec
<1>1. DeliveryInit /\ req.iterations = n => Promise(n)!Init
  <2> SUFFICES ASSUME DeliveryInit, req.iterations = n  PROVE Promise(n)!Init
    OBVIOUS
  <2>1. /\ outcome = [t \in 1 .. n |-> "todo"] /\ ctxErr = "none" /\ jobPc = "pool"
    BY DEF DeliveryInit, PipelineInit, Tasks
  <2>2. [t \in 1 .. n |-> TaskEnd(outcome[t])] = [t \in 1 .. n |-> "todo"]
    BY <2>1 DEF TaskEnd
  <2>3. QED  BY <2>1, <2>2 DEF Promise!Init, Interrupted, PoolVerdict
<1>2. DeliveryInv /\ [DeliveryNext]_deliveryVars => req' = req
  BY RequestStays
<1>3. DeliveryInv /\ req.iterations = n /\ [DeliveryNext]_deliveryVars
      => [Promise(n)!Next]_(Promise(n)!vars)
  BY JobKeepsPromise
<1>4. req.iterations = n /\ req' = req => (req.iterations = n)'
  OBVIOUS
<1>5. QED  BY <1>1, <1>2, <1>3, <1>4, DeliveryInvariant, PTL DEF DeliverySpec, Promise!Spec

-----------------------------------------------------------------------------
(* The server's view of the same job.  Module JobServer takes RunJobPool as one step *)
(* and knows no tasks; its steps from there on are the ones taken here.              *)

ServerRecord(status, report) == [status |-> status, report |-> report, createdAt |-> 1]
NoRecord == [status |-> "absent", report |-> FALSE, createdAt |-> 0]

\* Where JobServer says that the goroutine and the cancel request are.
RunnerAt == CASE jobPc = "pool"   -> "pool"
              [] jobPc = "settle" -> IF poolErr = "none" THEN "settleOk" ELSE "settleErr"
              [] jobPc = "save"   -> "save"
              [] jobPc = "hook"   -> "unregister"
              [] jobPc = "left"   -> "leave"
CallAt == IF cancelPc = "none" THEN "get" ELSE IF cancelPc = "found" THEN "find" ELSE cancelPc

\* The one job of this module is running and its submission was accepted; the cancel
\* request is one call of cancelJobInternal, whose copy is the record it found.
Server == INSTANCE JobServerProofs WITH
    Submissions <- {"job"}, SyncRequests <- {}, CancelCalls <- {"call"}, Keys <- {},
    KeyOf <- [r \in {"job"} |-> "no key"], WithCallback <- {"job"}, Timed <- {"job"},
    MayAbort <- FALSE, MaxConcurrentJobs <- 0, JobHistory <- 0, JobTTL <- FALSE,
    Stores <- {"memory"}, NoKey <- "no key", NoJob <- "no job",
    subPc <- [r \in {"job"} |-> "accepted"],
    found <- [r \in {"job"} |-> "no job"],
    store <- "memory",
    jobs <- [r \in {"job"} |-> ServerRecord(stored.status, stored.report)],
    idempotency <- [k \in {} |-> "no job"],
    surplus <- 0,
    runPc <- [r \in {"job"} |-> RunnerAt],
    local <- [r \in {"job"} |-> ServerRecord(verdict, jobPc # "pool")],
    ctxErr <- [r \in {"job"} |-> ctxErr],
    jobCancels <- IF jobPc = "left" THEN {} ELSE {"job"},
    activeJobs <- 1,
    syncPc <- [s \in {} |-> "limit"],
    cancelPc <- [c \in {"call"} |-> CallAt],
    target <- [c \in {"call"} |-> IF cancelPc = "none" THEN "no job" ELSE "job"],
    copy <- [c \in {"call"} |-> IF cancelPc = "none" THEN NoRecord
                                ELSE ServerRecord("running", FALSE)],
    clock <- 1

\* What the server sees of the batch and the webhook is nothing.
LEMMA ServerSeesNothing ==
    ASSUME UNCHANGED jobVars, ctxErr' = ctxErr
    PROVE  UNCHANGED Server!vars
<1>1. /\ RunnerAt' = RunnerAt /\ CallAt' = CallAt /\ verdict' = verdict /\ stored' = stored
      /\ jobPc' = jobPc /\ cancelPc' = cancelPc
  BY DEF jobVars, RunnerAt, CallAt
<1>2. QED
  BY <1>1 DEF Server!vars, Server!subVars, Server!runVars, Server!cancelVars, Server!pruneVars

\* The steps of the job's goroutine.
LEMMA JobIsRunner ==
    ASSUME DeliveryInv, Job
    PROVE  Server!Runner("job")
<1>0. UNCHANGED <<ctxErr, cancelPc>> /\ CallAt' = CallAt
  BY DEF Job, PoolReturns, Settle, Save, StartHook, pipelineVars, CallAt
<1>1. CASE PoolReturns
  <2>1. /\ jobPc = "pool" /\ jobPc' = "settle" /\ poolErr' = PoolErr
        /\ UNCHANGED <<verdict, stored>>
    BY <1>1 DEF PoolReturns
  <2>2. RunnerAt = "pool" /\ RunnerAt' = IF PoolErr = "none" THEN "settleOk" ELSE "settleErr"
    BY <2>1 DEF RunnerAt
  <2>3. PoolErr = "none" => ctxErr = "none"  BY DEF PoolErr
  <2>4. Server!RunPool("job")
    BY <1>0, <2>1, <2>2, <2>3
       DEF Server!RunPool, Server!Goto, ServerRecord, Server!pruneVars, Server!subVars,
           Server!cancelVars
  <2>5. QED  BY <2>4 DEF Server!Runner
<1>2. CASE Settle
  <2>1. /\ jobPc = "settle" /\ jobPc' = "save" /\ verdict' = Verdict
        /\ UNCHANGED <<poolErr, stored>>
    BY <1>2 DEF Settle
  <2>2. RunnerAt = (IF poolErr = "none" THEN "settleOk" ELSE "settleErr") /\ RunnerAt' = "save"
    BY <2>1 DEF RunnerAt
  <2>3. Server!Verdict("job") = Verdict  BY <2>2 DEF Server!Verdict, Verdict
  <2>4. Server!Settle("job")
    BY <1>0, <2>1, <2>2, <2>3
       DEF Server!Settle, Server!Goto, ServerRecord, Server!pruneVars, Server!subVars,
           Server!cancelVars
  <2>5. QED  BY <2>4 DEF Server!Runner
<1>3. CASE Save
  <2>1. /\ jobPc = "save" /\ jobPc' = "hook" /\ stored' = Stored(verdict, TRUE)
        /\ UNCHANGED <<poolErr, verdict>>
    BY <1>3 DEF Save
  <2>2. RunnerAt = "save" /\ RunnerAt' = "unregister"  BY <2>1 DEF RunnerAt
  <2>3. stored'.status = verdict /\ stored'.report = TRUE  BY <2>1 DEF Stored
  <2>4. Server!Save("job")
    BY <1>0, <2>1, <2>2, <2>3
       DEF Server!Save, Server!Goto, Server!Deferred, Server!Update, ServerRecord,
           Server!pruneVars, Server!subVars, Server!cancelVars
  <2>5. QED  BY <2>4 DEF Server!Runner
<1>4. CASE StartHook
  <2>1. jobPc = "hook" /\ jobPc' = "left" /\ UNCHANGED <<poolErr, verdict, stored>>
    BY <1>4 DEF StartHook
  <2>2. RunnerAt = "unregister" /\ RunnerAt' = "leave"  BY <2>1 DEF RunnerAt
  <2>3. Server!Unregister("job")
    BY <1>0, <2>1, <2>2
       DEF Server!Unregister, Server!Goto, ServerRecord, Server!pruneVars, Server!subVars,
           Server!cancelVars
  <2>4. QED  BY <2>3 DEF Server!Runner
<1>5. QED  BY <1>1, <1>2, <1>3, <1>4 DEF Job

\* The steps of the cancel request.
LEMMA CancelIsCall ==
    ASSUME DeliveryInv, Cancel
    PROVE  Server!CancelCall("call")
<1>0. UNCHANGED <<jobPc, poolErr, verdict>> /\ RunnerAt' = RunnerAt
  BY DEF Cancel, CancelGet, CancelFind, CancelCtx, CancelWrite, RunnerAt
<1>1. CASE CancelGet
  <2>1. /\ cancelPc = "none" /\ cancelPc' = "found" /\ UNCHANGED <<ctxErr, stored>>
        /\ stored.status = "running" /\ stored.report = FALSE
    BY <1>1 DEF CancelGet, pipelineVars, DeliveryInv, DeliveryTypeOK, JobInv
  <2>2. CallAt = "get" /\ CallAt' = "find"  BY <2>1 DEF CallAt
  <2>3. Server!CancelGet("call")
    BY <1>0, <2>1, <2>2
       DEF Server!CancelGet, Server!Answer, Server!Stored, Server!Terminal, ServerRecord,
           Server!pruneVars, Server!subVars, Server!runVars
  <2>4. QED  BY <2>3 DEF Server!CancelCall
<1>2. CASE CancelFind
  <2>1. /\ cancelPc = "found" /\ UNCHANGED <<ctxErr, stored>>
        /\ cancelPc' = IF jobPc # "left" THEN "cancel" ELSE "stillRunning"
    BY <1>2 DEF CancelFind, pipelineVars
  <2>2. CallAt = "find" /\ CallAt' = cancelPc'  BY <2>1 DEF CallAt
  <2>3. Server!CancelFind("call")
    BY <1>0, <2>1, <2>2
       DEF Server!CancelFind, Server!Answer, ServerRecord, Server!pruneVars, Server!subVars,
           Server!runVars
  <2>4. QED  BY <2>3 DEF Server!CancelCall
<1>3. CASE CancelCtx
  <2>1. /\ cancelPc = "cancel" /\ cancelPc' = "write" /\ stored' = stored
        /\ ctxErr' = IF ctxErr = "none" THEN "canceled" ELSE ctxErr
    BY <1>3 DEF CancelCtx
  <2>2. CallAt = "cancel" /\ CallAt' = "write"  BY <2>1 DEF CallAt
  <2>3. Server!CancelCtx("call")
    BY <1>0, <2>1, <2>2
       DEF Server!CancelCtx, Server!Answer, ServerRecord, Server!pruneVars, Server!subVars,
           Server!runVars
  <2>4. QED  BY <2>3 DEF Server!CancelCall
<1>4. CASE CancelWrite
  <2>1. /\ cancelPc = "write" /\ cancelPc' = "cancelled" /\ ctxErr' = ctxErr
        /\ stored' = Stored("cancelled", FALSE)
    BY <1>4 DEF CancelWrite, pipelineVars
  <2>2. CallAt = "write" /\ CallAt' = "cancelled"  BY <2>1 DEF CallAt
  <2>3. stored'.status = "cancelled" /\ stored'.report = FALSE  BY <2>1 DEF Stored
  <2>4. Server!CancelWrite("call")
    BY <1>0, <2>1, <2>2, <2>3
       DEF Server!CancelWrite, Server!Answer, Server!CancelledCopy, Server!Update,
           ServerRecord, Server!pruneVars, Server!subVars, Server!runVars
  <2>5. QED  BY <2>4 DEF Server!CancelCall
<1>5. QED  BY <1>1, <1>2, <1>3, <1>4 DEF Cancel

\* The timeout of the job's context.
LEMMA TimeoutIsDeadline ==
    ASSUME CtxEnds \subseteq {"deadline"}, DeliveryInv, Batch, ctxErr' # ctxErr
    PROVE  Server!Deadline("job")
<1>1. /\ jobPc \in {"pool", "settle"} /\ ctxErr = "none" /\ ctxErr' = "deadline"
      /\ UNCHANGED jobVars
  BY WorkerEffect DEF Batch, CtxEnd, TimeOut, DeliveryInv
<1>2. RunnerAt \in {"pool", "settleOk", "settleErr"} /\ RunnerAt' = RunnerAt /\ CallAt' = CallAt
  BY <1>1 DEF RunnerAt, CallAt, jobVars
<1>3. QED
  BY <1>1, <1>2
     DEF Server!Deadline, ServerRecord, jobVars, Server!pruneVars, Server!subVars,
         Server!runVars, Server!cancelVars

\* There is one job, and there are no synchronous requests.
LEMMA OneJob ==
    /\ Server!IsFiniteSet({"job"}) /\ Server!Cardinality({"job"}) = 1
    /\ Server!IsFiniteSet({}) /\ Server!Cardinality({}) = 0
<1>1. Server!IsFiniteSet({"job"})
  <2> DEFINE one == <<"job">>
  <2>1. one \in Seq({"job"}) /\ 1 \in 1 .. Len(one) /\ one[1] = "job"  OBVIOUS
  <2> HIDE DEF one
  <2>2. \A s \in {"job"} : \E n \in 1 .. Len(one) : one[n] = s  BY <2>1
  <2>3. QED  BY <2>1, <2>2 DEF Server!IsFiniteSet
<1>2. Server!IsFiniteSet({})
  <2>1. << >> \in Seq({})  OBVIOUS
  <2>2. QED  BY <2>1 DEF Server!IsFiniteSet
<1>3. QED  BY <1>1, <1>2, Server!FS_EmptySet, Server!FS_Singleton

\* A job that has begun is where JobServer's invariant says a running job may be.
LEMMA ServerInitially ==
    ASSUME DeliveryInit
    PROVE  Server!ServerInv
<1>1. /\ ctxErr = "none" /\ jobPc = "pool" /\ verdict = "running" /\ cancelPc = "none"
      /\ stored = Stored("running", FALSE)
  BY DEF DeliveryInit, PipelineInit
<1>2. RunnerAt = "pool" /\ CallAt = "get"  BY <1>1 DEF RunnerAt, CallAt
<1>3. stored.status = "running" /\ stored.report = FALSE  BY <1>1 DEF Stored
<1>4. Server!TypeOK
  BY <1>1, <1>2, <1>3
     DEF Server!TypeOK, Server!Replies, Server!JobRecord, Server!Live, Server!Terminal,
         Server!RunnerSteps, Server!CancelReplies, ServerRecord, NoRecord
<1>5. Server!SlotInv
  <2>1. Server!Inside = {"job"}  BY <1>2 DEF Server!Inside
  <2>2. Server!InsideSync = {}  BY DEF Server!InsideSync
  <2>3. QED  BY <2>1, <2>2, OneJob DEF Server!SlotInv
<1>6. Server!JobInv("job")
  BY <1>1, <1>2, <1>3
     DEF Server!JobInv, Server!LocalInv, Server!Justified, Server!Kept, Server!OnlyCancelled,
         Server!Saved, Server!Keyed, Server!Live, Server!Terminal, Server!Stored, ServerRecord
<1>7. Server!CopyInv("call")  BY <1>2 DEF Server!CopyInv
<1>8. Server!KeyInv /\ Server!KeyKept  BY DEF Server!KeyInv, Server!KeyKept
<1>9. QED  BY <1>4, <1>5, <1>6, <1>7, <1>8 DEF Server!ServerInv

\* JobServer's steps keep its invariant: its own theorem, for this one job.
LEMMA ServerKeeps ==
    ASSUME Server!ServerInv, [Server!Next]_(Server!vars)
    PROVE  Server!ServerInv'
BY OneJob, Server!StepPreserves

\* From the moment its batch runs, every step of a job, of its webhook and of a cancel
\* request is to the server a step of JobServer, or none, and starts from a state that
\* JobServer's inductive invariant describes: to take RunJobPool as one step that yields
\* a report and an error loses nothing (runAsyncJob, cancelJobInternal).
THEOREM JobImplementsServer ==
    ASSUME CtxEnds \subseteq {"deadline"}
    PROVE  DeliverySpec => []Server!ServerInv /\ [][Server!Next]_(Server!vars)
<1>1. DeliveryInv /\ [DeliveryNext]_deliveryVars => [Server!Next]_(Server!vars)
  <2> SUFFICES ASSUME DeliveryInv, [DeliveryNext]_deliveryVars
               PROVE  [Server!Next]_(Server!vars)
    OBVIOUS
  <2>1. CASE Batch
    <3>1. CASE ctxErr' = ctxErr  BY <2>1, <3>1, ServerSeesNothing DEF Batch
    <3>2. CASE ctxErr' # ctxErr
      <4>1. Server!Deadline("job")  BY <2>1, <3>2, TimeoutIsDeadline
      <4>2. QED  BY <4>1 DEF Server!Next
    <3>3. QED  BY <3>1, <3>2
  <2>2. CASE Job
    <3>1. Server!Runner("job")  BY <2>2, JobIsRunner
    <3>2. QED  BY <3>1 DEF Server!Next
  <2>3. CASE Cancel
    <3>1. Server!CancelCall("call")  BY <2>3, CancelIsCall
    <3>2. QED  BY <3>1 DEF Server!Next
  <2>4. CASE ~Batch /\ ~Job /\ ~Cancel
    <3>1. UNCHANGED jobVars /\ ctxErr' = ctxErr
      BY <2>4 DEF DeliveryNext, Hook, Send, HookAnswered, HookFailed, Retry, Handle, Rest,
         deliveryVars, pipelineVars
    <3>2. QED  BY <3>1, ServerSeesNothing
  <2>5. QED  BY <2>1, <2>2, <2>3, <2>4
<1>2. DeliveryInit => Server!ServerInv  BY ServerInitially
<1>3. Server!ServerInv /\ [Server!Next]_(Server!vars) => Server!ServerInv'  BY ServerKeeps
<1>4. QED  BY <1>1, <1>2, <1>3, DeliveryInvariant, PTL DEF DeliverySpec

\* Hence the job keeps what JobServer promises of the stored record, also under the batch
\* and the webhook: it is the verdict or that of the cancel request, and tells the truth.
THEOREM JobKeepsServer ==
    ASSUME CtxEnds \subseteq {"deadline"}
    PROVE  DeliverySpec => []Server!VerdictKept /\ []Server!StatusJustified
<1>1. Server!ServerInv => Server!VerdictKept /\ Server!StatusJustified
  BY DEF Server!ServerInv, Server!JobInv, Server!Kept, Server!VerdictKept, Server!Justified,
         Server!StatusJustified
<1>2. QED  BY <1>1, JobImplementsServer, PTL

=============================================================================
