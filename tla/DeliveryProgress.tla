-------------------------- MODULE DeliveryProgress --------------------------
(***************************************************************************)
(* Why every job comes to its end, for every set of workers and requests,  *)
(* and every number of repetitions, as far as no fairness is needed: until *)
(* the job is over somebody can go on, also while workers wait for the     *)
(* mutex of the template state; and nobody can go on for ever, as each     *)
(* step of a worker, of the job's goroutine or of its webhook lowers what  *)
(* is left for it to do, which no other step raises.  And why a task times *)
(* out: the timeout of the request, the deadline of the batch, or a client *)
(* that has its own.                                                       *)
(***************************************************************************)
EXTENDS DeliveryProofs, WellFoundedInduction

-----------------------------------------------------------------------------
(* What a worker's step does to itself and not to the others. *)

\* A worker's step leaves the loops and calls of the other workers alone.
LEMMA OthersStay ==
    ASSUME PipelineInv, TemplateTypeOK, NEW w \in Workers, Worker(w), NEW v \in Workers, v # w
    PROVE  /\ pc'[v] = pc[v] /\ step'[v] = step[v] /\ made'[v] = made[v]
           /\ callPc'[v] = callPc[v] /\ client'[v] = client[v] /\ err'[v] = err[v]
           /\ timedOut'[v] = timedOut[v]
<1> USE DEF PipelineInv
<1>0. /\ pc \in [Workers -> {"idle", "render", "launch", "run", "failed", "gone"}]
      /\ step \in [Workers -> 0 .. Len(Steps)] /\ made \in [Workers -> Nat]
      /\ client \in [Workers -> Clients \union {"nothing"}]
      /\ err \in [Workers -> {"none", "fail", "timeout"}] /\ timedOut \in [Workers -> BOOLEAN]
      /\ callPc \in [Workers -> {"idle", "cell", "add", "lookup", "lock", "recheck", "read",
                                 "unlock"}]
  BY DEF PipelineTypeOK, TemplateTypeOK
<1>1. CASE Take(w) \/ Leave(w) \/ Begin(w)
  BY <1>0, <1>1 DEF Take, Leave, Begin, workerVars, templateVars
<1>2. CASE RenderCall(w)  BY <1>0, <1>2 DEF RenderCall, Enter, CallGoto
<1>3. CASE Rendering(w)
  BY <1>0, <1>3 DEF Rendering, CallStep, LoadOrStore, Add, Lookup, Lock, Recheck, Read, Unlock, Loaded,
     GoesOn, Returns, CallGoto, workerVars
<1>4. CASE RenderError(w) \/ Fail(w)
  BY <1>0, <1>4 DEF RenderError, Fail, EndTask, templateVars
<1>5. CASE Rendered(w)  BY <1>0, <1>5 DEF Rendered, GoOn, EndTask, templateVars
<1>6. CASE Refused(w) \/ Finish(w)
  BY <1>0, <1>6 DEF Refused, Finish, GoOn, EndTask, BreakOff, templateVars
<1>7. QED  BY <1>1, <1>2, <1>3, <1>4, <1>5, <1>6 DEF Worker

-----------------------------------------------------------------------------
(* What keeps the workers moving. *)

\* A call is under way only in a worker that renders, which makes no more calls than its
\* step has; and whoever is noted as the holder of the mutex is between Lock and Unlock.
MoveInv ==
    /\ \A w \in Workers : callPc[w] # "idle" => pc[w] = "render"
    /\ \A w \in Workers : pc[w] = "render" => made[w] <= Len(StepCalls(w))
    /\ \A w \in Workers : pc[w] = "idle" => made[w] = 0
    /\ lockedBy # NoWorker => callPc[lockedBy] \in {"recheck", "read", "unlock"}

\* A step of a pipeline has finitely many calls.
LEMMA StepHasCalls ==
    ASSUME req \in Requests, NEW s \in 1 .. Len(Steps)
    PROVE  Len(Steps) \in Nat /\ Steps[s].calls \in Seq(Calls) /\ Len(Steps[s].calls) \in Nat
<1>1. Steps \in Seq(StepTemplates)  BY RequestAssumption DEF Steps
<1>2. Steps[s] \in StepTemplates /\ Len(Steps) \in Nat  BY <1>1
<1>3. Steps[s].calls \in Seq(Calls)  BY <1>2 DEF StepTemplates
<1>4. QED  BY <1>2, <1>3

\* How a worker's step changes what MoveInv is about, in the worker itself.
LEMMA OwnMoves ==
    ASSUME PipelineInv, TemplateTypeOK, MoveInv, NEW w \in Workers, Worker(w)
    PROVE  /\ callPc'[w] # "idle" => pc'[w] = "render"
           /\ pc'[w] = "render" => made'[w] <= Len(Steps[step'[w]].calls)
           /\ pc'[w] = "idle" => made'[w] = 0
           /\ \/ lockedBy' = lockedBy /\ (callPc'[w] = callPc[w] \/ lockedBy # w)
              \/ lockedBy' = w /\ callPc'[w] \in {"recheck", "read", "unlock"}
              \/ lockedBy' = NoWorker
<1> USE DEF PipelineInv, MoveInv, StepCalls
<1>0. /\ pc \in [Workers -> {"idle", "render", "launch", "run", "failed", "gone"}]
      /\ step \in [Workers -> 0 .. Len(Steps)] /\ made \in [Workers -> Nat]
      /\ callPc \in [Workers -> {"idle", "cell", "add", "lookup", "lock", "recheck", "read",
                                 "unlock"}]
  BY DEF PipelineTypeOK, TemplateTypeOK
<1>1. CASE Take(w)
  <2>1. made' = made /\ callPc' = callPc /\ lockedBy' = lockedBy /\ pc[w] = "idle"
    BY <1>1 DEF Take, workerVars, templateVars
  <2>2. made[w] = 0  BY <2>1
  <2>3. pc'[w] = "render" => step'[w] = 1 /\ 1 \in 1 .. Len(Steps)
    <3>1. Len(Steps) \in Nat  BY RequestAssumption DEF PipelineTypeOK, Steps
    <3>2. QED  BY <1>0, <1>1, <2>1, <3>1 DEF Take, HasStep, workerVars
  <2>4. pc'[w] = "render" => 0 <= Len(Steps[step'[w]].calls)
    BY <2>3, StepHasCalls DEF PipelineTypeOK
  <2>5. QED  BY <1>0, <2>1, <2>2, <2>4
<1>2. CASE Leave(w) \/ Begin(w)
  BY <1>0, <1>2 DEF Leave, Begin, templateVars
<1>3. CASE RenderCall(w)
  <2>1. /\ made[w] < Len(StepCalls(w)) /\ made' = [made EXCEPT ![w] = @ + 1]
        /\ pc[w] = "render" /\ pc' = pc /\ step' = step /\ lockedBy' = lockedBy
        /\ callPc[w] = "idle"
    BY <1>3 DEF RenderCall, Enter
  <2>2. step[w] \in 1 .. Len(Steps)  BY <2>1 DEF WorkInv, Working
  <2>3. Len(StepCalls(w)) \in Nat  BY <2>2, StepHasCalls DEF PipelineTypeOK
  <2>4. made'[w] = made[w] + 1 /\ made[w] \in Nat  BY <1>0, <2>1
  <2>5. lockedBy # w  BY <2>1, OwnerAssumption
  <2>6. QED  BY <2>1, <2>3, <2>4, <2>5
<1>4. CASE Rendering(w)
  <2>1. /\ UNCHANGED <<pc, step, made>>
        /\ CallStep(w)
    BY <1>4 DEF Rendering, workerVars
  <2>2. callPc[w] # "idle" /\ pc[w] = "render"
    BY <2>1 DEF CallStep, LoadOrStore, Add, Lookup, Lock, Recheck, Read, Unlock
  <2>3. \/ lockedBy' = lockedBy /\ lockedBy # w
        \/ lockedBy' = w /\ callPc'[w] \in {"recheck", "read", "unlock"}
        \/ lockedBy' = NoWorker
        \/ lockedBy' = lockedBy /\ callPc'[w] \in {"read", "unlock"}
    BY <1>0, <2>1 DEF CallStep, LoadOrStore, Add, Lookup, Lock, Recheck, Read, Unlock, GoesOn,
       CallGoto, Released
  <2>4. QED  BY <2>1, <2>2, <2>3
<1>5. CASE RenderError(w) \/ Fail(w)
  <2>1. UNCHANGED <<callPc, lockedBy>> /\ pc'[w] = "idle" /\ made'[w] = 0 /\ callPc[w] = "idle"
    BY <1>0, <1>5 DEF RenderError, Fail, EndTask, templateVars
  <2>2. QED  BY <2>1
<1>6. CASE Rendered(w) \/ Finish(w)
  <2>1. UNCHANGED <<callPc, lockedBy>> /\ callPc[w] = "idle"
    BY <1>6 DEF Rendered, Finish, templateVars
  <2>2. CASE \E s, p : s = step[w] + 1 /\ GoOn(w, s, p)
    <3>1. PICK s, p : s = step[w] + 1 /\ GoOn(w, s, p)  BY <2>2
    <3>2. CASE EndTask(w, "ok")  BY <1>0, <2>1, <3>2 DEF EndTask
    <3>3. CASE HasStep(s) /\ pc' = [pc EXCEPT ![w] = "render"]
      <4>1. pc'[w] = "render" /\ made'[w] = 0 /\ step'[w] = s
        BY <1>0, <3>1, <3>3 DEF GoOn, EndTask
      <4>2. step[w] \in Nat /\ Len(Steps) \in Nat
        BY RequestAssumption DEF PipelineTypeOK, Steps
      <4>3. s \in 1 .. Len(Steps)  BY <3>1, <3>3, <4>2 DEF HasStep
      <4>4. 0 <= Len(Steps[s].calls)  BY <4>3, StepHasCalls DEF PipelineTypeOK
      <4>5. QED  BY <2>1, <4>1, <4>4
    <3>4. QED  BY <3>1, <3>2, <3>3 DEF GoOn
  <2>3. CASE ~ \E s, p : s = step[w] + 1 /\ GoOn(w, s, p)
    <3>1. pc'[w] \in {"launch", "failed"}
      BY <1>0, <1>6, <2>3 DEF Rendered, Finish, BreakOff
    <3>2. QED  BY <2>1, <3>1
  <2>4. QED  BY <2>2, <2>3
<1>7. CASE Refused(w)
  <2>1. UNCHANGED <<callPc, lockedBy>> /\ pc'[w] = "failed" /\ callPc[w] = "idle"
    BY <1>0, <1>7 DEF Refused, BreakOff, templateVars
  <2>2. QED  BY <2>1
<1>8. QED  BY <1>1, <1>2, <1>3, <1>4, <1>5, <1>6, <1>7 DEF Worker

\* What is left when nothing moves but the contexts and the job.
LEMMA NobodyMoves ==
    ASSUME DeliveryNext \/ UNCHANGED deliveryVars, ~ \E w \in Workers : WorkerRuns(w)
    PROVE  /\ UNCHANGED <<req, next, pc, task, step, made, client, err, outcome, callPc, lockedBy>>
           /\ \A w \in Workers : timedOut'[w] # timedOut[w] => req.timeout
           /\ ctxErr # "none" => ctxErr' = ctxErr
<1>1. CASE Batch
  <2>1. CASE \E w \in Workers : TimeOut(w)
    <3>1. PICK w \in Workers : TimeOut(w)  BY <2>1
    <3>2. QED  BY <3>1 DEF TimeOut, templateVars
  <2>2. CASE CtxEnd  BY <2>2 DEF CtxEnd, workerVars, templateVars
  <2>3. QED  BY <1>1, <2>1, <2>2 DEF Batch, WorkerRuns
<1>2. CASE CancelCtx  BY <1>2 DEF CancelCtx, workerVars, templateVars
<1>3. CASE UNCHANGED pipelineVars  BY <1>3 DEF pipelineVars, workerVars, templateVars
<1>4. QED
  BY <1>1, <1>2, <1>3 DEF DeliveryNext, Job, PoolReturns, Settle, Save, StartHook, Cancel,
     CancelGet, CancelFind, CancelWrite, Hook, Send, HookAnswered, HookFailed, Retry, Handle, Rest,
     deliveryVars

LEMMA MovePreserved ==
    ASSUME PipelineInv, TemplateTypeOK, MoveInv, [DeliveryNext]_deliveryVars
    PROVE  MoveInv'
<1>1. CASE \E w \in Workers : WorkerRuns(w)
  <2>1. PICK w \in Workers : Worker(w)  BY <1>1 DEF WorkerRuns
  <2>2. req' = req  BY <2>1, WorkerEffect
  <2> DEFINE Moves(v) == /\ callPc'[v] # "idle" => pc'[v] = "render"
                         /\ pc'[v] = "render" => made'[v] <= Len(Steps[step'[v]].calls)
                         /\ pc'[v] = "idle" => made'[v] = 0
  <2>3. Moves(w)  BY <2>1, OwnMoves
  <2>4. \A v \in Workers : v # w => Moves(v)
    BY <2>1, OthersStay DEF MoveInv, StepCalls
  <2>5. \A v \in Workers : Moves(v)  BY <2>3, <2>4
  <2>6. lockedBy' # NoWorker => callPc'[lockedBy'] \in {"recheck", "read", "unlock"}
    <3>1. CASE lockedBy' = lockedBy /\ (callPc'[w] = callPc[w] \/ lockedBy # w)
      <4>1. CASE lockedBy = w  BY <3>1, <4>1 DEF MoveInv
      <4>2. CASE lockedBy # w
        <5>1. lockedBy # NoWorker => lockedBy \in Workers  BY DEF TemplateTypeOK
        <5>2. lockedBy # NoWorker => callPc'[lockedBy] = callPc[lockedBy]
          BY <2>1, <4>2, <5>1, OthersStay
        <5>3. QED  BY <3>1, <5>2 DEF MoveInv
      <4>3. QED  BY <4>1, <4>2
    <3>2. QED  BY <2>1, <3>1, OwnMoves
  <2>7. QED  BY <2>2, <2>5, <2>6 DEF MoveInv, StepCalls, Steps
<1>2. CASE ~ \E w \in Workers : WorkerRuns(w)
  BY <1>2, NobodyMoves DEF MoveInv, StepCalls, Steps
<1>3. QED  BY <1>1, <1>2

LEMMA MoveInitially == DeliveryInit => MoveInv
BY OwnerAssumption DEF DeliveryInit, PipelineInit, TemplateInit, MoveInv

\* The workers keep moving in every reachable state.
THEOREM MoveInvariant == DeliverySpec => []MoveInv
<1>1. DeliveryInit => MoveInv  BY MoveInitially
<1>2. /\ DeliveryInv /\ TemplateInv /\ MoveInv /\ [DeliveryNext]_deliveryVars
      => MoveInv'
  BY MovePreserved DEF DeliveryInv, TemplateInv
<1>3. DeliverySpec => []TemplateInv
  BY DeliveryImplementsTemplates, TemplateInvariant, PTL
<1>4. QED  BY <1>1, <1>2, <1>3, DeliveryInvariant, PTL DEF DeliverySpec

-----------------------------------------------------------------------------
(* Somebody can go on. *)

\* A worker can go on unless it has left or waits for a mutex that somebody holds; the
\* job's goroutine waits for the batch only; the webhook for nobody, as its requests
\* time out.
CanGoOn(w) == pc[w] # "gone" /\ (callPc[w] = "lock" => lockedBy = NoWorker)
JobCan     == jobPc \in {"settle", "save", "hook"} \/ (jobPc = "pool" /\ BatchOver)
HookCan    == hookPc \in {"send", "wait", "retry"}

JobOver    == jobPc = "left" /\ hookPc \in {"none", "delivered", "gave up"}

\* No deadlock: until the job is over, a worker, its goroutine or its webhook can go on.
NeverStuck == JobOver \/ JobCan \/ HookCan \/ \E w \in Workers : CanGoOn(w)

\* Nobody waits for a mutex that no worker would release: its holder can go on.
LEMMA SomeWorkerMoves ==
    ASSUME TemplateTypeOK, MoveInv, ~BatchOver
    PROVE  \E w \in Workers : CanGoOn(w)
<1>1. PICK w \in Workers : pc[w] # "gone"  BY DEF BatchOver
<1>2. CASE lockedBy = NoWorker  BY <1>1, <1>2 DEF CanGoOn
<1>3. CASE lockedBy # NoWorker
  <2>1. lockedBy \in Workers  BY <1>3 DEF TemplateTypeOK
  <2>2. callPc[lockedBy] \in {"recheck", "read", "unlock"}  BY <1>3 DEF MoveInv
  <2>3. pc[lockedBy] = "render"  BY <2>1, <2>2 DEF MoveInv
  <2>4. CanGoOn(lockedBy)  BY <2>2, <2>3 DEF CanGoOn
  <2>5. QED  BY <2>1, <2>4
<1>4. QED  BY <1>2, <1>3

\* No job deadlocks, with any number of workers that wait for the mutex of the template
\* state (RunJobPool, getCachedLines, runAsyncJob and sendWebhook together).
THEOREM NoJobIsStuck == DeliverySpec => []NeverStuck
<1>1. DeliveryInv /\ TemplateInv /\ MoveInv => NeverStuck
  BY SomeWorkerMoves
     DEF DeliveryInv, DeliveryTypeOK, TemplateInv, NeverStuck, JobOver, JobCan, HookCan
<1>2. DeliverySpec => []TemplateInv
  BY DeliveryImplementsTemplates, TemplateInvariant, PTL
<1>3. QED  BY <1>1, <1>2, DeliveryInvariant, MoveInvariant, PTL

-----------------------------------------------------------------------------
(* Nobody goes on for ever.                                                  *)

\* What is left of a call, of a step and of a worker's loop, by where it stands.
CallRank(p) == CASE p = "lookup" -> 7 [] p = "lock" -> 6 [] p = "recheck" -> 5 [] p = "read" -> 4
                 [] p = "unlock" -> 3 [] p = "cell" -> 2 [] p = "add" -> 1 [] p = "idle" -> 0
StepRank(p) == CASE p = "render" -> 4 [] p = "launch" -> 3 [] p = "run" -> 2 [] p = "failed" -> 1
                 [] p \in {"idle", "gone"} -> 0
LoopRank(p) == CASE p \in {"render", "launch", "run", "failed"} -> 2 [] p = "idle" -> 1
                 [] p = "gone" -> 0

TasksLeft    == req.iterations + 1 - next
StepsLeft(w) == Len(Steps) - step[w]
CallsLeft(w) == IF pc[w] = "render" THEN Len(StepCalls(w)) - made[w] ELSE 0

\* What is left for worker w to do, the weightiest first: the tasks nobody has taken, its
\* loop, the steps of its task, its step, the calls of its template, and its call.
WorkLeft(w) == <<TasksLeft, LoopRank(pc[w]), StepsLeft(w), StepRank(pc[w]), CallsLeft(w),
                 CallRank(callPc[w])>>

\* The job's goroutine, and its webhook: the attempts left and where the last one stands.
JobLeft  == CASE jobPc = "pool" -> 4 [] jobPc = "settle" -> 3 [] jobPc = "save" -> 2
              [] jobPc = "hook" -> 1 [] jobPc = "left" -> 0
HookRank(p) == CASE p = "none" -> 4 [] p = "send" -> 3 [] p = "wait" -> 2 [] p = "retry" -> 1
                 [] p \in {"delivered", "gave up"} -> 0
HookLeft == <<MaxRetries - attempt, HookRank(hookPc)>>

\* a is below b in the lexicographic order of the n-tuples of numbers.
Less        == {p \in Nat \X Nat : p[1] < p[2]}
Below(n)    == LexProductOrdering(Less, Nat, n)

\* Every step of a worker lowers what is left for it to do, whether the task goes well or
\* not; nobody's step raises it; and the same goes for the job's goroutine and webhook.
StepCounts ==
    /\ \A w \in Workers :
         /\ WorkerRuns(w) => <<WorkLeft(w)', WorkLeft(w)>> \in Below(6)
         /\ WorkLeft(w)' = WorkLeft(w) \/ <<WorkLeft(w)', WorkLeft(w)>> \in Below(6)
    /\ Job => JobLeft' < JobLeft
    /\ ~Job => JobLeft' = JobLeft
    /\ Hook => <<HookLeft', HookLeft>> \in Below(2)
    /\ HookLeft' = HookLeft \/ <<HookLeft', HookLeft>> \in Below(2)

EveryStepCounts == [][StepCounts]_deliveryVars

\* There is no infinite descent in the order: nobody goes on for ever.
LEMMA NoDescent ==
    ASSUME NEW n \in Nat
    PROVE  IsWellFoundedOn(Below(n), [1 .. n -> Nat])
<1>1. Less = OpToRel(<, Nat)  BY DEF Less, OpToRel
<1>2. IsWellFoundedOn(Less, Nat)  BY <1>1, NatLessThanWellFounded
<1>3. QED  BY <1>2, WFLexProductOrdering DEF Below

\* How a tuple gets below another: by its i-th place, the first that differs.
LEMMA BelowAt ==
    ASSUME NEW n \in Nat, NEW a \in [1 .. n -> Nat], NEW b \in [1 .. n -> Nat], NEW i \in 1 .. n,
           a[i] < b[i], \A j \in 1 .. i - 1 : a[j] = b[j]
    PROVE  <<a, b>> \in Below(n)
<1>1. <<a[i], b[i]>> \in Less  BY DEF Less
<1>2. \E j \in 1 .. n : (\A k \in 1 .. (j - 1) : a[k] = b[k]) /\ <<a[j], b[j]>> \in Less
  BY <1>1
<1>3. QED  BY <1>2 DEF Below, LexProductOrdering

\* The same for six numbers, and for two.
LEMMA SixBelow ==
    ASSUME NEW a \in [1 .. 6 -> Nat], NEW b \in [1 .. 6 -> Nat],
           a[1] < b[1] \/ (a[1] = b[1] /\
             (a[2] < b[2] \/ (a[2] = b[2] /\
               (a[3] < b[3] \/ (a[3] = b[3] /\
                 (a[4] < b[4] \/ (a[4] = b[4] /\
                   (a[5] < b[5] \/ (a[5] = b[5] /\ a[6] < b[6])))))))))
    PROVE  <<a, b>> \in Below(6)
<1>1. \E i \in 1 .. 6 : a[i] < b[i] /\ \A j \in 1 .. i - 1 : a[j] = b[j]
  <2> DEFINE First(i) == a[i] < b[i] /\ \A j \in 1 .. i - 1 : a[j] = b[j]
  <2>1. CASE a[1] < b[1]
    <3>1. First(1)  BY <2>1
    <3>2. QED  BY <3>1
  <2>2. CASE a[1] = b[1] /\ a[2] < b[2]
    <3>1. First(2)  BY <2>2
    <3>2. QED  BY <3>1
  <2>3. CASE a[1] = b[1] /\ a[2] = b[2] /\ a[3] < b[3]
    <3>1. \A j \in 1 .. 2 : j = 1 \/ j = 2  OBVIOUS
    <3>2. First(3)  BY <2>3, <3>1
    <3>3. QED  BY <3>2
  <2>4. CASE a[1] = b[1] /\ a[2] = b[2] /\ a[3] = b[3] /\ a[4] < b[4]
    <3>1. \A j \in 1 .. 3 : j = 1 \/ j = 2 \/ j = 3  OBVIOUS
    <3>2. First(4)  BY <2>4, <3>1
    <3>3. QED  BY <3>2
  <2>5. CASE a[1] = b[1] /\ a[2] = b[2] /\ a[3] = b[3] /\ a[4] = b[4] /\ a[5] < b[5]
    <3>1. \A j \in 1 .. 4 : j = 1 \/ j = 2 \/ j = 3 \/ j = 4  OBVIOUS
    <3>2. First(5)  BY <2>5, <3>1
    <3>3. QED  BY <3>2
  <2>6. CASE a[1] = b[1] /\ a[2] = b[2] /\ a[3] = b[3] /\ a[4] = b[4] /\ a[5] = b[5] /\ a[6] < b[6]
    <3>1. \A j \in 1 .. 5 : j = 1 \/ j = 2 \/ j = 3 \/ j = 4 \/ j = 5  OBVIOUS
    <3>2. First(6)  BY <2>6, <3>1
    <3>3. QED  BY <3>2
  <2>7. QED  BY <2>1, <2>2, <2>3, <2>4, <2>5, <2>6
<1>2. PICK i \in 1 .. 6 : a[i] < b[i] /\ \A j \in 1 .. i - 1 : a[j] = b[j]  BY <1>1
<1>3. QED  BY <1>2, BelowAt

LEMMA TwoBelow ==
    ASSUME NEW a \in [1 .. 2 -> Nat], NEW b \in [1 .. 2 -> Nat],
           a[1] < b[1] \/ (a[1] = b[1] /\ a[2] < b[2])
    PROVE  <<a, b>> \in Below(2)
<1>1. \E i \in 1 .. 2 : a[i] < b[i] /\ \A j \in 1 .. i - 1 : a[j] = b[j]
  <2>1. CASE a[1] < b[1]  BY <2>1
  <2>2. CASE a[1] = b[1] /\ a[2] < b[2]
    <3>1. a[2] < b[2] /\ \A j \in 1 .. 2 - 1 : a[j] = b[j]  BY <2>2
    <3>2. QED  BY <3>1
  <2>3. QED  BY <2>1, <2>2
<1>2. PICK i \in 1 .. 2 : a[i] < b[i] /\ \A j \in 1 .. i - 1 : a[j] = b[j]  BY <1>1
<1>3. QED  BY <1>2, BelowAt

\* What is left is counted in natural numbers.
WorkTypeOK ==
    /\ \A w \in Workers : /\ LoopRank(pc[w]) \in Nat /\ StepRank(pc[w]) \in Nat
                          /\ StepsLeft(w) \in Nat /\ CallsLeft(w) \in Nat
                          /\ CallRank(callPc[w]) \in Nat
    /\ TasksLeft \in Nat
    /\ JobLeft \in Nat
    /\ MaxRetries - attempt \in Nat /\ HookRank(hookPc) \in Nat

LEMMA WorkTyped ==
    ASSUME DeliveryInv, TemplateTypeOK, MoveInv
    PROVE  WorkTypeOK
<1> USE DEF DeliveryInv
<1>1. ASSUME NEW w \in Workers
      PROVE  /\ LoopRank(pc[w]) \in Nat /\ StepRank(pc[w]) \in Nat
             /\ StepsLeft(w) \in Nat /\ CallsLeft(w) \in Nat
             /\ CallRank(callPc[w]) \in Nat
  <2>1. /\ pc[w] \in {"idle", "render", "launch", "run", "failed", "gone"}
        /\ step[w] \in 0 .. Len(Steps) /\ made[w] \in Nat /\ req \in Requests
    BY DEF PipelineInv, PipelineTypeOK
  <2>2. callPc[w] \in {"idle", "cell", "add", "lookup", "lock", "recheck", "read", "unlock"}
    BY DEF TemplateTypeOK
  <2>3. Len(Steps) \in Nat  BY <2>1, RequestAssumption DEF Steps
  <2>4. CallsLeft(w) \in Nat
    <3>1. CASE pc[w] = "render"
      <4>1. step[w] \in 1 .. Len(Steps)  BY <3>1 DEF PipelineInv, WorkInv, Working
      <4>2. Len(StepCalls(w)) \in Nat  BY <2>1, <4>1, StepHasCalls DEF StepCalls
      <4>3. made[w] <= Len(StepCalls(w))  BY <3>1 DEF MoveInv
      <4>4. QED  BY <2>1, <3>1, <4>2, <4>3 DEF CallsLeft
    <3>2. QED  BY <3>1 DEF CallsLeft
  <2>5. QED  BY <2>1, <2>2, <2>3, <2>4 DEF LoopRank, StepRank, CallRank, StepsLeft
<1>2. TasksLeft \in Nat
  <2>1. next \in 1 .. req.iterations + 1 /\ req.iterations \in Nat
    BY RequestAssumption DEF PipelineInv, PipelineTypeOK
  <2>2. QED  BY <2>1 DEF TasksLeft
<1>3. JobLeft \in Nat /\ HookRank(hookPc) \in Nat
  BY DEF DeliveryTypeOK, JobLeft, HookRank
<1>4. MaxRetries - attempt \in Nat
  <2>1. attempt \in Attempts  BY DEF DeliveryTypeOK
  <2>2. attempt \in 0 .. MaxRetries /\ MaxRetries \in Nat  BY <2>1, AttemptFacts
  <2>3. QED  BY <2>2
<1>5. QED  BY <1>1, <1>2, <1>3, <1>4 DEF WorkTypeOK

\* What a worker has left falls when it goes on.
LEMMA WorkFalls ==
    ASSUME DeliveryInv, TemplateTypeOK, MoveInv, WorkTypeOK, WorkTypeOK',
           NEW w \in Workers, Worker(w)
    PROVE  <<WorkLeft(w)', WorkLeft(w)>> \in Below(6)
<1>0. /\ pc \in [Workers -> {"idle", "render", "launch", "run", "failed", "gone"}]
      /\ step \in [Workers -> 0 .. Len(Steps)] /\ made \in [Workers -> Nat]
      /\ callPc \in [Workers -> {"idle", "cell", "add", "lookup", "lock", "recheck", "read",
                                 "unlock"}]
      /\ Len(Steps) \in Nat /\ next \in Nat /\ req.iterations \in Nat /\ req \in Requests
  BY SMTT(30), RequestAssumption DEF DeliveryInv, PipelineInv, PipelineTypeOK, TemplateTypeOK, Steps
<1>1. req' = req /\ Steps' = Steps  BY WorkerEffect DEF DeliveryInv, Steps
<1> SUFFICES
      TasksLeft' < TasksLeft \/ (TasksLeft' = TasksLeft /\
        (LoopRank(pc'[w]) < LoopRank(pc[w]) \/ (LoopRank(pc'[w]) = LoopRank(pc[w]) /\
          (StepsLeft(w)' < StepsLeft(w) \/ (StepsLeft(w)' = StepsLeft(w) /\
            (StepRank(pc'[w]) < StepRank(pc[w]) \/ (StepRank(pc'[w]) = StepRank(pc[w]) /\
              (CallsLeft(w)' < CallsLeft(w) \/ (CallsLeft(w)' = CallsLeft(w) /\
                CallRank(callPc'[w]) < CallRank(callPc[w]))))))))))
  <2>1. /\ TasksLeft \in Nat /\ LoopRank(pc[w]) \in Nat /\ StepsLeft(w) \in Nat
        /\ StepRank(pc[w]) \in Nat /\ CallsLeft(w) \in Nat /\ CallRank(callPc[w]) \in Nat
    BY DEF WorkTypeOK
  <2>2. /\ TasksLeft' \in Nat /\ LoopRank(pc'[w]) \in Nat /\ StepsLeft(w)' \in Nat
        /\ StepRank(pc'[w]) \in Nat /\ CallsLeft(w)' \in Nat /\ CallRank(callPc'[w]) \in Nat
    BY DEF WorkTypeOK
  <2>3. /\ WorkLeft(w) \in [1 .. 6 -> Nat] /\ WorkLeft(w)' \in [1 .. 6 -> Nat]
        /\ WorkLeft(w)[1] = TasksLeft /\ WorkLeft(w)'[1] = TasksLeft'
        /\ WorkLeft(w)[2] = LoopRank(pc[w]) /\ WorkLeft(w)'[2] = LoopRank(pc'[w])
        /\ WorkLeft(w)[3] = StepsLeft(w) /\ WorkLeft(w)'[3] = StepsLeft(w)'
        /\ WorkLeft(w)[4] = StepRank(pc[w]) /\ WorkLeft(w)'[4] = StepRank(pc'[w])
        /\ WorkLeft(w)[5] = CallsLeft(w) /\ WorkLeft(w)'[5] = CallsLeft(w)'
        /\ WorkLeft(w)[6] = CallRank(callPc[w]) /\ WorkLeft(w)'[6] = CallRank(callPc'[w])
    BY <2>1, <2>2 DEF WorkLeft
  <2>4. QED  BY <2>3, SixBelow
<1>2. CASE Take(w)
  <2>1. next' = next + 1  BY <1>2 DEF Take
  <2>2. QED  BY <1>0, <1>1, <2>1 DEF TasksLeft
<1>3. ASSUME next' = next  PROVE TasksLeft' = TasksLeft  BY <1>1, <1>3 DEF TasksLeft
<1>4. ASSUME next' = next, pc[w] \notin {"idle", "gone"}, pc'[w] = "idle"
      PROVE  TasksLeft' = TasksLeft /\ LoopRank(pc'[w]) < LoopRank(pc[w])
  <2>1. pc[w] \in {"render", "launch", "run", "failed"}  BY <1>0, <1>4
  <2>2. LoopRank(pc[w]) = 2 /\ LoopRank(pc'[w]) = 1  BY <1>4, <2>1 DEF LoopRank
  <2>3. QED  BY <1>3, <1>4, <2>2
<1>5. CASE Leave(w)
  <2>1. pc[w] = "idle" /\ pc'[w] = "gone" /\ next' = next  BY <1>0, <1>5 DEF Leave
  <2>2. LoopRank(pc'[w]) < LoopRank(pc[w])  BY <2>1 DEF LoopRank
  <2>3. QED  BY <1>3, <2>1, <2>2
<1>6. CASE RenderCall(w)
  <2>1. /\ pc' = pc /\ step' = step /\ next' = next /\ pc[w] = "render"
        /\ made' = [made EXCEPT ![w] = @ + 1]
    BY <1>6 DEF RenderCall
  <2>2. step[w] \in 1 .. Len(Steps)  BY <2>1 DEF DeliveryInv, PipelineInv, WorkInv, Working
  <2>3. Len(StepCalls(w)) \in Nat  BY <1>0, <2>2, StepHasCalls DEF StepCalls
  <2>4. StepCalls(w)' = StepCalls(w)  BY <1>1, <2>1 DEF StepCalls
  <2>5. made'[w] = made[w] + 1 /\ made[w] \in Nat  BY <1>0, <2>1
  <2>6. CallsLeft(w)' < CallsLeft(w)  BY <2>1, <2>3, <2>4, <2>5 DEF CallsLeft
  <2>7. StepsLeft(w)' = StepsLeft(w)  BY <1>1, <2>1 DEF StepsLeft
  <2>8. QED  BY <1>3, <2>1, <2>6, <2>7
<1>7. CASE Rendering(w)
  <2>1. pc' = pc /\ step' = step /\ next' = next /\ made' = made /\ CallStep(w)
    BY <1>7 DEF Rendering, workerVars
  <2>2. CallRank(callPc'[w]) < CallRank(callPc[w])
    BY <1>0, <2>1 DEF CallStep, LoadOrStore, Add, Lookup, Lock, Recheck, Read, Unlock, Loaded,
       GoesOn, Returns, CallGoto, CallRank
  <2>3. StepCalls(w)' = StepCalls(w)  BY <1>1, <2>1 DEF StepCalls
  <2>4. CallsLeft(w)' = CallsLeft(w) /\ StepsLeft(w)' = StepsLeft(w)
    BY <1>1, <2>1, <2>3 DEF CallsLeft, StepsLeft
  <2>5. QED  BY <1>3, <2>1, <2>2, <2>4
<1>8. CASE RenderError(w) \/ Fail(w)
  <2>1. next' = next /\ pc[w] \notin {"idle", "gone"} /\ pc'[w] = "idle"
    BY <1>0, <1>8 DEF RenderError, Fail, EndTask
  <2>2. QED  BY <1>4, <2>1
<1>9. ASSUME next' = next, step'[w] = step[w], pc[w] \in {"render", "launch", "run"},
             pc'[w] \in {"launch", "run", "failed"}, StepRank(pc'[w]) < StepRank(pc[w])
      PROVE  /\ TasksLeft' = TasksLeft /\ LoopRank(pc'[w]) = LoopRank(pc[w])
             /\ StepsLeft(w)' = StepsLeft(w) /\ StepRank(pc'[w]) < StepRank(pc[w])
  <2>1. LoopRank(pc'[w]) = 2 /\ LoopRank(pc[w]) = 2  BY <1>9 DEF LoopRank
  <2>2. StepsLeft(w)' = StepsLeft(w)  BY <1>1, <1>9 DEF StepsLeft
  <2>3. QED  BY <1>3, <1>9, <2>1, <2>2
<1>10. CASE Begin(w) \/ Refused(w)
  <2>1. /\ next' = next /\ step'[w] = step[w] /\ pc[w] = "launch"
        /\ pc'[w] \in {"run", "failed"}
    BY <1>0, <1>10 DEF Begin, Refused, BreakOff
  <2>2. StepRank(pc'[w]) < StepRank(pc[w])  BY <2>1 DEF StepRank
  <2>3. QED  BY <1>9, <2>1, <2>2
<1>11. CASE Rendered(w) \/ Finish(w)
  <2>1. next' = next /\ pc[w] \in {"render", "run"}  BY <1>11 DEF Rendered, Finish
  <2>2. CASE \E s, p : s = step[w] + 1 /\ GoOn(w, s, p)
    <3>1. PICK s, p : s = step[w] + 1 /\ GoOn(w, s, p)  BY <2>2
    <3>2. CASE EndTask(w, "ok")
      <4>1. pc'[w] = "idle"  BY <1>0, <3>2 DEF EndTask
      <4>2. QED  BY <1>4, <2>1, <4>1
    <3>3. CASE HasStep(s) /\ pc' = [pc EXCEPT ![w] = "render"] /\ step' = [step EXCEPT ![w] = s]
      <4>1. pc'[w] = "render" /\ step'[w] = step[w] + 1  BY <1>0, <3>1, <3>3
      <4>2. LoopRank(pc'[w]) = 2 /\ LoopRank(pc[w]) = 2  BY <2>1, <4>1 DEF LoopRank
      <4>3. StepsLeft(w)' < StepsLeft(w)  BY <1>0, <1>1, <4>1 DEF StepsLeft
      <4>4. QED  BY <1>3, <2>1, <4>2, <4>3
    <3>4. QED  BY <3>1, <3>2, <3>3 DEF GoOn
  <2>3. CASE ~ \E s, p : s = step[w] + 1 /\ GoOn(w, s, p)
    <3>1. /\ step'[w] = step[w]
          /\ (pc[w] = "render" /\ pc'[w] = "launch") \/ (pc[w] = "run" /\ pc'[w] = "failed")
      BY <1>0, <1>11, <2>3 DEF Rendered, Finish, BreakOff
    <3>2. StepRank(pc'[w]) < StepRank(pc[w])  BY <3>1 DEF StepRank
    <3>3. QED  BY <1>9, <2>1, <3>1, <3>2
  <2>4. QED  BY <2>2, <2>3
<1>12. QED  BY <1>2, <1>5, <1>6, <1>7, <1>8, <1>10, <1>11 DEF Worker

\* What the other workers have left does not rise by it.
LEMMA OthersDoNotRise ==
    ASSUME DeliveryInv, TemplateTypeOK, WorkTypeOK, WorkTypeOK', NEW w \in Workers, Worker(w),
           NEW v \in Workers, v # w
    PROVE  WorkLeft(v)' = WorkLeft(v) \/ <<WorkLeft(v)', WorkLeft(v)>> \in Below(6)
<1>1. PipelineInv  BY DEF DeliveryInv
<1>2. req' = req /\ (next' = next \/ next' = next + 1)  BY <1>1, WorkerEffect
<1>3. Steps' = Steps  BY <1>2 DEF Steps
<1>4. pc'[v] = pc[v] /\ step'[v] = step[v] /\ made'[v] = made[v] /\ callPc'[v] = callPc[v]
  BY <1>1, OthersStay
<1>5. StepsLeft(v)' = StepsLeft(v) /\ CallsLeft(v)' = CallsLeft(v)
  BY <1>3, <1>4 DEF StepsLeft, CallsLeft, StepCalls
<1>6. CASE next' = next  BY <1>2, <1>4, <1>5, <1>6 DEF WorkLeft, TasksLeft
<1>7. CASE next' = next + 1
  <2>1. /\ WorkLeft(v) \in [1 .. 6 -> Nat] /\ WorkLeft(v)' \in [1 .. 6 -> Nat]
        /\ WorkLeft(v)[1] = TasksLeft /\ WorkLeft(v)'[1] = TasksLeft'
    BY DEF WorkTypeOK, WorkLeft
  <2>2. req.iterations \in Nat /\ next \in Nat
    BY <1>1, RequestAssumption DEF PipelineInv, PipelineTypeOK
  <2>3. TasksLeft' < TasksLeft  BY <1>2, <1>7, <2>2 DEF TasksLeft
  <2>4. QED  BY <2>1, <2>3, SixBelow
<1>8. QED  BY <1>2, <1>6, <1>7

\* So do the steps of the goroutine and of the webhook lower what is left for them.
LEMMA RoundsFall ==
    ASSUME DeliveryInv, WorkTypeOK, WorkTypeOK', [DeliveryNext]_deliveryVars
    PROVE  /\ Job => JobLeft' < JobLeft
           /\ ~Job => JobLeft' = JobLeft
           /\ Hook => <<HookLeft', HookLeft>> \in Below(2)
           /\ HookLeft' = HookLeft \/ <<HookLeft', HookLeft>> \in Below(2)
<1>1. ASSUME Job  PROVE JobLeft' < JobLeft
  <2>1. CASE PoolReturns
    <3>1. jobPc = "pool" /\ jobPc' = "settle"  BY <2>1 DEF PoolReturns
    <3>2. QED  BY <3>1 DEF JobLeft
  <2>2. CASE Settle
    <3>1. jobPc = "settle" /\ jobPc' = "save"  BY <2>2 DEF Settle
    <3>2. QED  BY <3>1 DEF JobLeft
  <2>3. CASE Save
    <3>1. jobPc = "save" /\ jobPc' = "hook"  BY <2>3 DEF Save
    <3>2. QED  BY <3>1 DEF JobLeft
  <2>4. CASE StartHook
    <3>1. jobPc = "hook" /\ jobPc' = "left"  BY <2>4 DEF StartHook
    <3>2. QED  BY <3>1 DEF JobLeft
  <2>5. QED  BY <1>1, <2>1, <2>2, <2>3, <2>4 DEF Job
<1>2. ~Job => JobLeft' = JobLeft
  <2>1. ~Job => jobPc' = jobPc
    BY DEF DeliveryNext, Batch, Cancel, CancelGet, CancelFind, CancelCtx, CancelWrite, Hook,
       Send, HookAnswered, HookFailed, Retry, Handle, Rest, deliveryVars, jobVars
  <2>2. QED  BY <2>1 DEF JobLeft
<1>3. /\ HookLeft \in [1 .. 2 -> Nat] /\ HookLeft' \in [1 .. 2 -> Nat]
      /\ HookLeft[1] = MaxRetries - attempt /\ HookLeft'[1] = MaxRetries - attempt'
      /\ HookLeft[2] = HookRank(hookPc) /\ HookLeft'[2] = HookRank(hookPc')
  BY DEF WorkTypeOK, HookLeft
<1>4. CASE Hook
  <2>1. attempt \in Int /\ MaxRetries \in Int
    <3>1. attempt \in Attempts  BY DEF DeliveryInv, DeliveryTypeOK
    <3>2. QED  BY <3>1, AttemptFacts
  <2>2. CASE attempt' = attempt
    <3>1. \/ hookPc = "send" /\ hookPc' = "wait"
          \/ hookPc = "wait" /\ hookPc' \in {"delivered", "retry"}
          \/ hookPc = "retry" /\ hookPc' = "gave up"
      <4>1. CASE Send  BY <4>1 DEF Send
      <4>2. CASE HookAnswered  BY <4>2 DEF HookAnswered
      <4>3. CASE HookFailed  BY <4>3 DEF HookFailed
      <4>4. CASE Retry
        <5>1. attempt' # attempt + 1  BY <2>1, <2>2
        <5>2. QED  BY <4>4, <5>1 DEF Retry
      <4>5. QED  BY <1>4, <4>1, <4>2, <4>3, <4>4 DEF Hook
    <3>2. HookRank(hookPc') < HookRank(hookPc)
      <4>1. CASE hookPc = "send" /\ hookPc' = "wait"  BY <4>1 DEF HookRank
      <4>2. CASE hookPc = "wait" /\ hookPc' \in {"delivered", "retry"}
        <5>1. HookRank(hookPc) = 2 /\ HookRank(hookPc') \in {0, 1}  BY <4>2 DEF HookRank
        <5>2. QED  BY <5>1
      <4>3. CASE hookPc = "retry" /\ hookPc' = "gave up"
        <5>1. HookRank(hookPc) = 1 /\ HookRank(hookPc') = 0  BY <4>3 DEF HookRank
        <5>2. QED  BY <5>1
      <4>4. QED  BY <3>1, <4>1, <4>2, <4>3
    <3>3. <<HookLeft', HookLeft>> \in Below(2)  BY <1>3, <2>2, <3>2, TwoBelow
    <3>4. QED  BY <1>1, <1>2, <3>3
  <2>3. CASE attempt' # attempt
    <3>1. attempt' = attempt + 1
      BY <1>4, <2>3 DEF Hook, Send, HookAnswered, HookFailed, Retry
    <3>2. HookLeft'[1] < HookLeft[1]  BY <1>3, <2>1, <3>1
    <3>3. <<HookLeft', HookLeft>> \in Below(2)  BY <1>3, <3>2, TwoBelow
    <3>4. QED  BY <1>1, <1>2, <3>3
  <2>4. QED  BY <2>2, <2>3
<1>5. CASE StartHook
  <2>1. hookPc = "none" /\ attempt' = attempt /\ hookPc' \in {"none", "send"}
    BY <1>5 DEF StartHook, DeliveryInv, HookInv
  <2>2. CASE hookPc' = "none"
    <3>1. HookLeft' = HookLeft  BY <2>1, <2>2 DEF HookLeft
    <3>2. ~Hook  BY <2>1 DEF Hook, Send, HookAnswered, HookFailed, Retry
    <3>3. QED  BY <1>1, <1>2, <3>1, <3>2
  <2>3. CASE hookPc' = "send"
    <3>1. HookRank(hookPc') < HookRank(hookPc)  BY <2>1, <2>3 DEF HookRank
    <3>2. QED
      <4>1. <<HookLeft', HookLeft>> \in Below(2)  BY <1>3, <2>1, <3>1, TwoBelow
      <4>2. ~Hook  BY <2>1 DEF Hook, Send, HookAnswered, HookFailed, Retry
      <4>3. QED  BY <1>1, <1>2, <4>1, <4>2
  <2>4. QED  BY <2>1, <2>2, <2>3
<1>6. CASE ~Hook /\ ~StartHook
  <2>1. hookPc' = hookPc /\ attempt' = attempt
    BY <1>6 DEF DeliveryNext, Batch, Job, PoolReturns, Settle, Save, Cancel, CancelGet,
       CancelFind, CancelCtx, CancelWrite, Handle, Rest, deliveryVars, hookVars
  <2>2. HookLeft' = HookLeft  BY <2>1 DEF HookLeft
  <2>3. QED  BY <1>1, <1>2, <1>6, <2>2
<1>7. QED  BY <1>1, <1>2, <1>4, <1>5, <1>6

\* What is left is a natural number, or a tuple of them, in every reachable state.
LEMMA WorkIsTyped == DeliverySpec => []WorkTypeOK
<1>1. DeliveryInv /\ TemplateInv /\ MoveInv => WorkTypeOK  BY WorkTyped DEF TemplateInv
<1>2. DeliverySpec => []TemplateInv
  BY DeliveryImplementsTemplates, TemplateInvariant, PTL
<1>3. QED  BY <1>1, <1>2, DeliveryInvariant, MoveInvariant, PTL

\* Every step of a worker, a job's goroutine or its webhook brings it nearer to its end,
\* and nobody's step takes another away from it (RunJobPool, RunPipeline, sendWebhook).
THEOREM NobodyRunsForever ==
    /\ DeliverySpec => EveryStepCounts
    /\ \A n \in Nat : IsWellFoundedOn(Below(n), [1 .. n -> Nat])
<1>1. /\ DeliveryInv /\ TemplateInv /\ MoveInv /\ WorkTypeOK /\ WorkTypeOK'
      /\ [DeliveryNext]_deliveryVars
      => [StepCounts]_deliveryVars
  <2> SUFFICES ASSUME DeliveryInv, TemplateInv, MoveInv, WorkTypeOK, WorkTypeOK',
                      [DeliveryNext]_deliveryVars
               PROVE  StepCounts
    OBVIOUS
  <2>0. TemplateTypeOK  BY DEF TemplateInv
  <2>1. ASSUME NEW w \in Workers, WorkerRuns(w)
        PROVE  <<WorkLeft(w)', WorkLeft(w)>> \in Below(6)
    BY <2>0, <2>1, WorkFalls DEF WorkerRuns
  <2>2. ASSUME NEW v \in Workers
        PROVE  WorkLeft(v)' = WorkLeft(v) \/ <<WorkLeft(v)', WorkLeft(v)>> \in Below(6)
    <3>1. CASE \E w \in Workers : WorkerRuns(w)
      <4>1. PICK w \in Workers : WorkerRuns(w)  BY <3>1
      <4>2. CASE v = w  BY <2>1, <4>1, <4>2
      <4>3. CASE v # w  BY <2>0, <4>1, <4>3, OthersDoNotRise DEF WorkerRuns
      <4>4. QED  BY <4>2, <4>3
    <3>2. CASE ~ \E w \in Workers : WorkerRuns(w)
      <4>1. UNCHANGED <<req, next, pc, step, made, callPc>>  BY <3>2, NobodyMoves
      <4>2. WorkLeft(v)' = WorkLeft(v)
        BY <4>1 DEF WorkLeft, TasksLeft, StepsLeft, CallsLeft, StepCalls, Steps
      <4>3. QED  BY <4>2
    <3>3. QED  BY <3>1, <3>2
  <2>3. QED  BY <2>1, <2>2, RoundsFall DEF StepCounts
<1>2. DeliverySpec => []TemplateInv
  BY DeliveryImplementsTemplates, TemplateInvariant, PTL
<1>3. DeliverySpec => EveryStepCounts
  BY <1>1, <1>2, DeliveryInvariant, MoveInvariant, WorkIsTyped, PTL
     DEF DeliverySpec, EveryStepCounts
<1>4. QED  BY <1>3, NoDescent

-----------------------------------------------------------------------------
(* Why a task times out.                                                     *)

\* The only reasons: the request's timeout, the deadline of the batch, or a step that may
\* turn out to be for a client with a timeout of its own.
HasReason == \/ req.timeout
             \/ ctxErr = "deadline"
             \/ \E s \in DOMAIN Steps : Steps[s].yields \intersect {".http", ".tcp"} # {}

\* A task that is counted as timed out has one, wherever in its steps it came to an end.
TimeoutsExplained == \A t \in Tasks : outcome[t] = "timeout" => HasReason

\* Also while the task is under way: its client is one the step may yield, its own timeout
\* passes only if the request has one, and so an error that says so has a reason.
TimeoutInv == /\ \A w \in Workers : client[w] # "nothing" => client[w] \in Steps[step[w]].yields
              /\ \A w \in Workers : pc[w] = "idle" => client[w] = "nothing"
              /\ \A w \in Workers : timedOut[w] => req.timeout
              /\ \A w \in Workers : err[w] = "timeout" => HasReason
              /\ TimeoutsExplained

\* Only a client with a timeout, or a deadline, makes for an error that is a timeout.
LEMMA TimeoutResult ==
    ASSUME PipelineInv, TimeoutInv, NEW w \in Workers, pc[w] \in {"launch", "run"},
           NEW r \in Results(w) \union RefusedResults(w), r.err = "timeout"
    PROVE  HasReason
<1>1. client[w] \in Clients /\ step[w] \in 1 .. Len(Steps)
  BY DEF PipelineInv, WorkInv, Working
<1>2. client[w] \in {".http", ".tcp"}
  BY <1>1 DEF Results, RefusedResults, ShellResults, SleepResults, HttpResults, TcpResults, Result,
     Clients
<1>3. client[w] \in Steps[step[w]].yields  BY <1>2 DEF TimeoutInv
<1>4. step[w] \in DOMAIN Steps
  BY <1>1, RequestAssumption DEF PipelineInv, PipelineTypeOK, Steps
<1>5. QED  BY <1>2, <1>3, <1>4 DEF HasReason

\* What a worker's step does to what TimeoutInv says of itself, and to the outcomes.
LEMMA OwnTimeouts ==
    ASSUME PipelineInv, TimeoutInv, NEW w \in Workers, Worker(w)
    PROVE  /\ client'[w] # "nothing" => client'[w] \in Steps[step'[w]].yields
           /\ pc'[w] = "idle" => client'[w] = "nothing"
           /\ timedOut'[w] => req.timeout
           /\ err'[w] = "timeout" => HasReason
           /\ \A t \in Tasks : outcome'[t] = "timeout" => outcome[t] = "timeout" \/ HasReason
<1> USE DEF PipelineInv, TimeoutInv, TimeoutsExplained
<1>0. /\ pc \in [Workers -> {"idle", "render", "launch", "run", "failed", "gone"}]
      /\ step \in [Workers -> 0 .. Len(Steps)] /\ timedOut \in [Workers -> BOOLEAN]
      /\ client \in [Workers -> Clients \union {"nothing"}]
      /\ err \in [Workers -> {"none", "fail", "timeout"}]
      /\ outcome \in [Tasks -> {"todo", "dropped", "ok", "fail", "timeout"}]
      /\ next \in Tasks \/ next \notin Tasks
  BY DEF PipelineTypeOK
<1>a. Working(w) => task[w] \in Tasks  BY DEF WorkInv
<1>1. CASE Take(w)
  <2>1. pc[w] = "idle"  BY <1>1 DEF Take
  <2>2. client[w] = "nothing"  BY <2>1
  <2>3. QED  BY <1>0, <1>1, <2>2 DEF Take, workerVars
<1>2. CASE Leave(w) \/ RenderCall(w) \/ Begin(w)
  BY <1>0, <1>2 DEF Leave, RenderCall, Begin
<1>3. CASE Rendering(w)  BY <1>0, <1>3 DEF Rendering, workerVars
<1>4. ASSUME NEW o \in {"ok", "fail", "timeout"}, EndTask(w, o), o = "timeout" => HasReason
      PROVE  /\ client'[w] = "nothing" /\ timedOut'[w] = FALSE /\ err'[w] = "none"
             /\ \A t \in Tasks : outcome'[t] = "timeout" => outcome[t] = "timeout" \/ HasReason
  BY <1>0, <1>4 DEF EndTask
<1>5. ASSUME NEW s, NEW p, GoOn(w, s, p)
      PROVE  /\ client'[w] = "nothing" /\ (timedOut'[w] => req.timeout)
             /\ err'[w] = "timeout" => HasReason
             /\ \A t \in Tasks : outcome'[t] = "timeout" => outcome[t] = "timeout" \/ HasReason
  <2>1. CASE EndTask(w, "ok")  BY <1>4, <2>1
  <2>2. CASE ~EndTask(w, "ok")  BY <1>0, <1>5, <2>2 DEF GoOn
  <2>3. QED  BY <2>1, <2>2
<1>6. ASSUME NEW r \in Results(w) \union RefusedResults(w), pc[w] \in {"launch", "run"},
             BreakOff(w, r)
      PROVE  /\ pc'[w] = "failed" /\ client' = client /\ step' = step /\ timedOut' = timedOut /\ outcome' = outcome
             /\ err'[w] = "timeout" => HasReason
  BY <1>0, <1>6, TimeoutResult DEF BreakOff
<1>7. CASE RenderError(w)  BY <1>4, <1>7 DEF RenderError
<1>8. CASE Rendered(w)
  <2>1. PICK c \in Steps[step[w]].yields :
          \/ GoOn(w, step[w] + 1, prev[w])
          \/ /\ pc' = [pc EXCEPT ![w] = "launch"] /\ client' = [client EXCEPT ![w] = c]
             /\ UNCHANGED <<step, timedOut, err, outcome>>
    BY <1>8 DEF Rendered
  <2>2. CASE GoOn(w, step[w] + 1, prev[w])  BY <1>5, <2>2
  <2>3. CASE /\ pc' = [pc EXCEPT ![w] = "launch"] /\ client' = [client EXCEPT ![w] = c]
             /\ UNCHANGED <<step, timedOut, err, outcome>>
    BY <1>0, <2>3
  <2>4. QED  BY <2>1, <2>2, <2>3
<1>9. CASE Refused(w)
  <2>1. PICK r \in RefusedResults(w) : BreakOff(w, r)  BY <1>9 DEF Refused
  <2>2. QED  BY <1>6, <1>9, <2>1 DEF Refused
<1>10. CASE Finish(w)
  <2>1. PICK r \in Results(w) : GoOn(w, step[w] + 1, PrevAfter(w)) \/ BreakOff(w, r)
    BY <1>10 DEF Finish
  <2>2. CASE GoOn(w, step[w] + 1, PrevAfter(w))  BY <1>5, <2>2
  <2>3. CASE BreakOff(w, r)  BY <1>6, <1>10, <2>1, <2>3 DEF Finish
  <2>4. QED  BY <2>1, <2>2, <2>3
<1>11. CASE Fail(w)
  <2> DEFINE e == IF CtxErr(w) = "none" THEN err[w] ELSE CtxErr(w)
             o == IF e \in {"timeout", "deadline"} THEN "timeout" ELSE "fail"
  <2>1. EndTask(w, o)  BY <1>11 DEF Fail
  <2>2. e \in {"timeout", "deadline"} => HasReason
    BY <1>0 DEF CtxErr, HasReason, PipelineTypeOK
  <2>3. o \in {"ok", "fail", "timeout"} /\ (o = "timeout" => HasReason)  BY <2>2
  <2> HIDE DEF o
  <2>4. QED  BY <1>4, <2>1, <2>3
<1>12. QED
  BY <1>1, <1>2, <1>3, <1>7, <1>8, <1>9, <1>10, <1>11 DEF Worker

LEMMA TimeoutPreserved ==
    ASSUME PipelineInv, TemplateTypeOK, TimeoutInv, [DeliveryNext]_deliveryVars
    PROVE  TimeoutInv'
<1>1. CASE \E w \in Workers : WorkerRuns(w)
  <2>1. PICK w \in Workers : Worker(w)  BY <1>1 DEF WorkerRuns
  <2>2. req' = req /\ ctxErr' = ctxErr  BY <2>1, WorkerEffect
  <2>3. Steps' = Steps /\ Tasks' = Tasks /\ HasReason' = HasReason
    BY <2>2 DEF Steps, Tasks, HasReason
  <2> DEFINE Explained(v) == /\ client'[v] # "nothing" => client'[v] \in Steps[step'[v]].yields
                             /\ pc'[v] = "idle" => client'[v] = "nothing"
                             /\ timedOut'[v] => req.timeout
                             /\ err'[v] = "timeout" => HasReason
  <2>4. Explained(w)  BY <2>1, OwnTimeouts
  <2>5. \A v \in Workers : v # w => Explained(v)  BY <2>1, OthersStay DEF TimeoutInv
  <2>6. \A v \in Workers : Explained(v)  BY <2>4, <2>5
  <2>7. \A t \in Tasks : outcome'[t] = "timeout" => HasReason
    BY <2>1, OwnTimeouts DEF TimeoutInv, TimeoutsExplained
  <2>8. QED  BY <2>2, <2>3, <2>6, <2>7 DEF TimeoutInv, TimeoutsExplained
<1>2. CASE ~ \E w \in Workers : WorkerRuns(w)
  <2>1. /\ UNCHANGED <<req, pc, step, client, err, outcome>>
        /\ \A w \in Workers : timedOut'[w] # timedOut[w] => req.timeout
        /\ ctxErr # "none" => ctxErr' = ctxErr
    BY <1>2, NobodyMoves
  <2>2. Steps' = Steps /\ Tasks' = Tasks /\ (HasReason => HasReason')
    BY <2>1 DEF Steps, Tasks, HasReason
  <2>3. \A w \in Workers : timedOut'[w] => req'.timeout  BY <2>1 DEF TimeoutInv
  <2>4. QED  BY <2>1, <2>2, <2>3 DEF TimeoutInv, TimeoutsExplained
<1>3. QED  BY <1>1, <1>2

\* No task is counted as timed out without a timeout, a deadline or a client of its own
\* that times out (RunPipeline); the pool's model takes this for granted (JobPool's Execute).
THEOREM TimeoutsHaveReasons == DeliverySpec => []TimeoutsExplained
<1>1. DeliveryInit => TimeoutInv
  BY DEF DeliveryInit, PipelineInit, TimeoutInv, TimeoutsExplained
<1>2. DeliveryInv /\ TemplateInv /\ TimeoutInv /\ [DeliveryNext]_deliveryVars => TimeoutInv'
  BY TimeoutPreserved DEF DeliveryInv, TemplateInv
<1>3. TimeoutInv => TimeoutsExplained  BY DEF TimeoutInv
<1>4. DeliverySpec => []TemplateInv
  BY DeliveryImplementsTemplates, TemplateInvariant, PTL
<1>5. QED  BY <1>1, <1>2, <1>3, <1>4, DeliveryInvariant, PTL DEF DeliverySpec

=============================================================================
