------------------------------ MODULE Pipeline ------------------------------
(***************************************************************************)
(* How the workers of a batch execute a task step by step (RunPipeline in  *)
(* internal/engine/exec.go): each step is rendered, which calls the shared *)
(* template state of module Templates, parsed, and run by the shell or by  *)
(* a built-in client (.sleep, .http, .tcp); the steps share one context    *)
(* that the task's timeout or the batch may end at any moment.             *)
(*                                                                         *)
(* The tasks of a batch are rendered from one template.  A step is the     *)
(* calls its template makes and what its text may turn out to be.  A       *)
(* command is abstracted to its error and whether it left output.  The     *)
(* pool around the workers is module JobPool; here a worker takes the next *)
(* task, and drops it if the context has ended.                            *)
(***************************************************************************)
EXTENDS Templates

CONSTANTS
    Requests,  \* the requests that may be executed, see RequestAssumption
    CtxEnds    \* how the batch's context may end, a subset of {"canceled", "deadline"}

Clients == {"shell", ".sleep", ".http", ".tcp"}

\* The text of a step names its client, and may depend on what the template
\* functions return; it may also be empty.
StepTemplates == [calls: Seq(Calls), yields: SUBSET (Clients \union {"nothing"})]

\* The fields of a request that matter here: timeout and callback are TRUE iff set.
ASSUME RequestAssumption ==
    \A r \in Requests : /\ r.iterations \in Nat
                        /\ r.exec \in Seq(StepTemplates)
                        /\ r.timeout \in BOOLEAN
                        /\ r.callback \in BOOLEAN
ASSUME ContextAssumption == CtxEnds \subseteq {"canceled", "deadline"}

Events == {"empty", "begin", "print", "ok", "slept"}

VARIABLES
    req,      \* the request, which no step changes
    next,     \* the task that the channel gives next
    ctxErr,   \* the batch's ctx.Err(), "none" while it is live
    pc,       \* each worker: "idle", "render", "launch", "run", "failed", "gone"
    task,     \* each worker: its task
    timedOut, \* each worker: the timeout of its task passed while its context was live
    step,     \* each worker: the step of its task
    made,     \* each worker: how many calls the rendering of the step has made
    client,   \* each worker: the client that runs the rendered step
    prev,     \* each worker: the step whose output .Prev has, 0 for none
    err,      \* each worker: the error of its step, "none" for nil
    outcome,  \* each task: "todo", "dropped", "ok", "fail" or "timeout"
    log       \* history, each task: what happened to it, as <<step, event, .Prev>>

Tasks == 1 .. req.iterations
Steps == req.exec

workerVars == <<pc, task, timedOut, step, made, client, prev, err>>
pipelineVars == <<templateVars, req, next, ctxErr, workerVars, outcome, log>>

PipelineInit ==
    /\ TemplateInit
    /\ req \in Requests
    /\ next = 1
    /\ ctxErr = "none"
    /\ pc = [w \in Workers |-> "idle"]
    /\ task = [w \in Workers |-> 0]
    /\ timedOut = [w \in Workers |-> FALSE]
    /\ step = [w \in Workers |-> 0]
    /\ made = [w \in Workers |-> 0]
    /\ client = [w \in Workers |-> "nothing"]
    /\ prev = [w \in Workers |-> 0]
    /\ err = [w \in Workers |-> "none"]
    /\ outcome = [t \in Tasks |-> "todo"]
    /\ log = [t \in Tasks |-> <<>>]

-----------------------------------------------------------------------------
(* Mutated forms of the definitions below, one per bug the properties are    *)
(* meant to catch.  Nothing in the specification uses them.                  *)
BatchErr(w)       == ctxErr
PastTheEnd(s)     == s <= Len(Steps) + 1
SleepResult(w)    == IF client[w] = ".sleep" THEN 0 ELSE step[w]
PrintedPasses(r)  == r.err = "none" \/ r.prints

-----------------------------------------------------------------------------
\* The error of the context that the steps of w's task run under.
CtxErr(w) == IF timedOut[w] THEN "deadline" ELSE ctxErr

(* Results of a client: its error, and whether it left output to print. *)

Result(e, prints) == [err |-> e, prints |-> prints]

\* The error is the exit status, or that the process was killed.
ShellResults(w) == {Result("none", TRUE), Result("fail", TRUE)}

SleepResults(w) ==
    {Result("none", FALSE)} \union
    (IF CtxErr(w) = "none" THEN {} ELSE {Result("fail", FALSE)})

\* Every error but a cancelled request is a result too, with a line of output.
\* The client's own timeout is one.
HttpResults(w) ==
    {Result("none", TRUE), Result("fail", TRUE), Result("timeout", TRUE)} \union
    (IF CtxErr(w) = "canceled" THEN {Result("fail", FALSE)} ELSE {})

\* Only dialling looks at the context: a connection is read for its two seconds.
TcpResults(w) ==
    {Result("none", TRUE), Result("fail", TRUE), Result("timeout", TRUE)} \union
    (IF CtxErr(w) = "canceled" THEN {Result("fail", FALSE)} ELSE {})

Results(w) == CASE client[w] = "shell"  -> ShellResults(w)
                [] client[w] = ".sleep" -> SleepResults(w)
                [] client[w] = ".http"  -> HttpResults(w)
                [] client[w] = ".tcp"   -> TcpResults(w)

\* A client that fails before it does anything: a built-in refuses its arguments,
\* or the context has ended.  A request whose deadline has passed still reports.
RefusedResults(w) ==
    (IF client[w] = "shell" THEN {} ELSE {Result("fail", FALSE)}) \union
    (IF CtxErr(w) = "none" THEN {}
     ELSE IF CtxErr(w) = "deadline" /\ client[w] \in {".http", ".tcp"}
          THEN {Result("timeout", TRUE)} ELSE {Result("fail", FALSE)})

\* The context a client is given lets it begin.  The select of .sleep may choose
\* a timer that has fired over a context that has ended.
MayBegin(w) == CtxErr(w) = "none" \/ client[w] = ".sleep"

-----------------------------------------------------------------------------
(* The loop over the steps. *)

HasStep(s) == s <= Len(Steps)

Log(w, events) ==
    log' = [log EXCEPT ![task[w]] = @ \o [i \in DOMAIN events |-> <<step[w], events[i], prev[w]>>]]

\* The task of w is over with outcome o: the worker comes back for another.
EndTask(w, o) ==
    /\ outcome' = [outcome EXCEPT ![task[w]] = o]
    /\ pc' = [pc EXCEPT ![w] = "idle"]
    /\ task' = [task EXCEPT ![w] = 0]
    /\ timedOut' = [timedOut EXCEPT ![w] = FALSE]
    /\ step' = [step EXCEPT ![w] = 0]
    /\ made' = [made EXCEPT ![w] = 0]
    /\ client' = [client EXCEPT ![w] = "nothing"]
    /\ prev' = [prev EXCEPT ![w] = 0]
    /\ err' = [err EXCEPT ![w] = "none"]

\* Step s comes next, with p in .Prev, or the task has succeeded.
GoOn(w, s, p) ==
    \/ /\ HasStep(s)
       /\ pc' = [pc EXCEPT ![w] = "render"]
       /\ step' = [step EXCEPT ![w] = s]
       /\ made' = [made EXCEPT ![w] = 0]
       /\ client' = [client EXCEPT ![w] = "nothing"]
       /\ prev' = [prev EXCEPT ![w] = p]
       /\ UNCHANGED <<task, timedOut, err, outcome>>
    \/ ~HasStep(s) /\ EndTask(w, "ok")

\* A worker receives a task and looks at the context.  A template such as "|>", which
\* has no steps, has succeeded at once.
Take(w) ==
    /\ pc[w] = "idle"
    /\ next \in Tasks
    /\ next' = next + 1
    /\ \/ /\ ctxErr # "none" \/ ~HasStep(1)
          /\ outcome' = [outcome EXCEPT ![next] = IF ctxErr # "none" THEN "dropped" ELSE "ok"]
          /\ UNCHANGED workerVars
       \/ /\ ctxErr = "none" /\ HasStep(1)
          /\ task' = [task EXCEPT ![w] = next]
          /\ pc' = [pc EXCEPT ![w] = "render"]
          /\ step' = [step EXCEPT ![w] = 1]
          /\ UNCHANGED <<timedOut, made, client, prev, err, outcome>>
    /\ UNCHANGED <<templateVars, req, ctxErr, log>>

\* The channel is closed and empty.
Leave(w) ==
    /\ pc[w] = "idle"
    /\ next \notin Tasks
    /\ pc' = [pc EXCEPT ![w] = "gone"]
    /\ UNCHANGED <<templateVars, req, next, ctxErr, task, timedOut, step, made, client, prev, err,
                   outcome, log>>

StepCalls(w) == Steps[step[w]].calls

\* renderTemplate executes the next function call of the step's template.
RenderCall(w) ==
    /\ pc[w] = "render"
    /\ made[w] < Len(StepCalls(w))
    /\ Enter(w, StepCalls(w)[made[w] + 1])
    /\ made' = [made EXCEPT ![w] = @ + 1]
    /\ UNCHANGED <<req, next, ctxErr, pc, task, timedOut, step, client, prev, err, outcome, log>>

\* The template is wrong, which shows before a call or after it.
RenderError(w) ==
    /\ pc[w] = "render"
    /\ callPc[w] = "idle"
    /\ EndTask(w, "fail")
    /\ UNCHANGED <<templateVars, req, next, ctxErr, log>>

\* The step is rendered: it is empty and left out, or its first word names a client.
Rendered(w) ==
    /\ pc[w] = "render"
    /\ callPc[w] = "idle"
    /\ made[w] = Len(StepCalls(w))
    /\ \E c \in Steps[step[w]].yields :
         \/ /\ c = "nothing"
            /\ GoOn(w, step[w] + 1, prev[w])
            /\ Log(w, <<"empty">>)
         \/ /\ c # "nothing"
            /\ pc' = [pc EXCEPT ![w] = "launch"]
            /\ client' = [client EXCEPT ![w] = c]
            /\ UNCHANGED <<task, timedOut, step, made, prev, err, outcome, log>>
    /\ UNCHANGED <<templateVars, req, next, ctxErr>>

\* The client takes effect from here on.
Begin(w) ==
    /\ pc[w] = "launch"
    /\ MayBegin(w)
    /\ pc' = [pc EXCEPT ![w] = "run"]
    /\ Log(w, <<"begin">>)
    /\ UNCHANGED <<templateVars, req, next, ctxErr, task, timedOut, step, made, client, prev, err, outcome>>

Passes(r) == r.err = "none"

\* .sleep hands on the output of the step before it.
PrevAfter(w) == IF client[w] = ".sleep" THEN prev[w] ELSE step[w]

\* What a reader of the output and of the exit status sees of the step.
Seen(r) == (IF r.prints THEN <<"print">> ELSE <<>>) \o
           (IF r.err # "none" THEN <<>> ELSE IF r.prints THEN <<"ok">> ELSE <<"slept">>)

\* The client returned an error: its output is printed, and the loop breaks off.
BreakOff(w, r) ==
    /\ Log(w, Seen(r))
    /\ pc' = [pc EXCEPT ![w] = "failed"]
    /\ err' = [err EXCEPT ![w] = r.err]
    /\ UNCHANGED <<task, timedOut, step, made, client, prev, outcome>>

Refused(w) ==
    /\ pc[w] = "launch"
    /\ \E r \in RefusedResults(w) : BreakOff(w, r)
    /\ UNCHANGED <<templateVars, req, next, ctxErr>>

Finish(w) ==
    /\ pc[w] = "run"
    /\ \E r \in Results(w) :
         \/ Passes(r) /\ GoOn(w, step[w] + 1, PrevAfter(w)) /\ Log(w, Seen(r))
         \/ ~Passes(r) /\ BreakOff(w, r)
    /\ UNCHANGED <<templateVars, req, next, ctxErr>>

\* The error is replaced by the context's, should that have ended in the meantime.
Fail(w) ==
    /\ pc[w] = "failed"
    /\ LET e == IF CtxErr(w) = "none" THEN err[w] ELSE CtxErr(w)
       IN  EndTask(w, IF e \in {"timeout", "deadline"} THEN "timeout" ELSE "fail")
    /\ UNCHANGED <<templateVars, req, next, ctxErr, log>>

Rendering(w) ==
    /\ CallStep(w)
    /\ UNCHANGED <<req, next, ctxErr, workerVars, outcome, log>>

Worker(w) == \/ Take(w) \/ Leave(w) \/ RenderCall(w) \/ RenderError(w) \/ Rendered(w)
             \/ Rendering(w) \/ Begin(w) \/ Refused(w) \/ Finish(w) \/ Fail(w)

-----------------------------------------------------------------------------
(* The contexts. *)

CtxEnd ==
    /\ ctxErr = "none"
    /\ ctxErr' \in CtxEnds
    /\ UNCHANGED <<templateVars, req, next, workerVars, outcome, log>>

TimeOut(w) ==
    /\ req.timeout
    /\ task[w] # 0
    /\ CtxErr(w) = "none"
    /\ timedOut' = [timedOut EXCEPT ![w] = TRUE]
    /\ UNCHANGED <<templateVars, req, next, ctxErr, pc, task, step, made, client, prev, err, outcome, log>>

\* wg.Wait(): all workers have left.
BatchOver == \A w \in Workers : pc[w] = "gone"

PipelineNext == (\E w \in Workers : Worker(w) \/ TimeOut(w)) \/ CtxEnd

PipelineSpec == PipelineInit /\ [][PipelineNext]_pipelineVars

-----------------------------------------------------------------------------
(* Properties. *)

\* Type correctness of the workers' loops over the steps.
PipelineTypeOK ==
    /\ req \in Requests
    /\ next \in 1 .. req.iterations + 1
    /\ ctxErr \in {"none", "canceled", "deadline"}
    /\ pc \in [Workers -> {"idle", "render", "launch", "run", "failed", "gone"}]
    /\ task \in [Workers -> 0 .. req.iterations]
    /\ timedOut \in [Workers -> BOOLEAN]
    /\ step \in [Workers -> 0 .. Len(Steps)]
    /\ made \in [Workers -> Nat]
    /\ client \in [Workers -> Clients \union {"nothing"}]
    /\ prev \in [Workers -> 0 .. Len(Steps)]
    /\ err \in [Workers -> {"none", "fail", "timeout"}]
    /\ outcome \in [Tasks -> {"todo", "dropped", "ok", "fail", "timeout"}]
    /\ log \in [Tasks -> Seq((1 .. Len(Steps)) \X Events \X (0 .. Len(Steps)))]

\* What the log of a task has, before its i-th entry, of event e in step s.
Before(t, i, s, e) == \E j \in 1 .. i - 1 : log[t][j][1] = s /\ log[t][j][2] = e

\* A step begins once, after every step before it has come out empty or succeeded,
\* and finds in .Prev the output of the last one that ran a command other than
\* .sleep: of its own task, whatever the other workers do, and through any .sleep.
StepsInOrder ==
    \A t \in Tasks : \A i \in DOMAIN log[t] :
      LET s == log[t][i][1]
          p == log[t][i][3]
      IN  log[t][i][2] = "begin" =>
            /\ ~Before(t, i, s, "begin")
            /\ \A q \in 1 .. s - 1 :
                 \/ Before(t, i, q, "empty") \/ Before(t, i, q, "slept")
                 \/ Before(t, i, q, "ok") /\ q <= p
            /\ p # 0 => Before(t, i, p, "ok")

\* A task that is counted as a success has every step behind it: it came out empty,
\* slept, or ran, was printed and succeeded.
OkMeansRun ==
    \A t \in Tasks : outcome[t] = "ok" =>
      \A s \in DOMAIN Steps :
        LET n == Len(log[t]) + 1
        IN  \/ Before(t, n, s, "empty") \/ Before(t, n, s, "slept")
            \/ Before(t, n, s, "begin") /\ Before(t, n, s, "print") /\ Before(t, n, s, "ok")

\* Once the batch's context has ended or the timeout of a task has passed, no step
\* of it begins, even behind a .tcp that did not notice; only a .sleep may.
NoStepAfterCtxEnd ==
    [][\A w \in Workers :
         pc[w] # "run" /\ pc'[w] = "run" /\ client'[w] # ".sleep"
           => ctxErr = "none" /\ ~timedOut[w]]_pipelineVars

=============================================================================
