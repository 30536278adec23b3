------------------------------- MODULE JobPool -------------------------------
(***************************************************************************)
(* One batch of command executions: the goroutine that generates the tasks *)
(* (startTaskGenerator in cli/root.go, generateTasks in server/server.go)  *)
(* and the worker pool that consumes them (RunJobPool in engine/exec.go).  *)
(*                                                                         *)
(* A task is its index 1..NumTasks.  What a command does is abstracted to  *)
(* its outcome: "ok", "fail", or "timeout" for an error that wraps         *)
(* context.DeadlineExceeded.  The context is abstracted to the error it    *)
(* reports.  Output, durations, the error breakdown by category and the    *)
(* purely informative ActiveCount are left out.                            *)
(***************************************************************************)
EXTENDS Integers, Sequences, FiniteSets

CONSTANTS
    NumWorkers,   \* concurrency, the number of workers of the pool
    NumTasks,     \* iterations, the number of tasks to generate
    Cap,          \* capacity of the tasks channel: min(-c, -n) in the CLI, -n in the server
    RampUp,       \* TRUE iff the interval between two worker starts is positive
    Paced,        \* TRUE iff a rate limit, delay or jitter may make the generator wait
    TaskTimeout,  \* TRUE iff an execution can time out by itself (its timeout, or .http's)
    CtxEnds       \* the ways the context may end: a subset of {"canceled", "deadline"}

ASSUME SizesAssumption  == /\ NumWorkers \in Nat \ {0}
                           /\ NumTasks \in Nat \ {0}
                           /\ Cap \in Nat \ {0}
ASSUME OptionAssumption == /\ RampUp \in BOOLEAN
                           /\ Paced \in BOOLEAN
                           /\ TaskTimeout \in BOOLEAN
                           /\ CtxEnds \subseteq {"canceled", "deadline"}
\* RunJobPool leaves the interval at zero for a pool of one worker.
ASSUME RampAssumption   == RampUp => NumWorkers > 1

Workers == 1 .. NumWorkers
Tasks   == 1 .. NumTasks
NoTask  == 0

Executed == {"ok", "fail", "timeout"}   \* the outcomes of RunPipeline
Failed   == {"fail", "timeout"}

VARIABLES
    genPc,         \* the generator: "pause", "send", or "done" once it closed the channel
    next,          \* the index the generator sends next
    tasks,         \* the buffer of the tasks channel
    ctxErr,        \* ctx.Err(): "none" while the context is live
    poolPc,        \* RunJobPool: "spawn", "ramp", "wait", "report", "returned"
    spawned,       \* how many workers it has started
    workerPc,      \* each worker: where its goroutine stands
    held,          \* each worker: the task of its current loop iteration
    fate,          \* each task: "none", "skip", or the outcome of its execution
    announced,     \* the tasks whose result went to the OnResult callback
    successCount, failCount, timeoutCount,
    firstErr,      \* the task whose error was stored first, NoTask for nil
    latencies,     \* length of the latencies slice
    exit           \* the exit status of the batch, Unset before RunJobPool returns

genVars    == <<genPc, next>>
poolVars   == <<poolPc, spawned, exit>>
resultVars == <<announced, successCount, failCount, timeoutCount, firstErr, latencies>>
vars == <<genVars, tasks, ctxErr, poolVars, workerPc, held, fate, resultVars>>

Unset      == -1
PlainError == 10    \* Execute's fallback for an error that is no ExitError

-----------------------------------------------------------------------------
(* Mutated forms of the definitions below, one per bug the properties are    *)
(* meant to catch.  Nothing in the specification uses them.                  *)
GenStageOffByOne(i) == IF i > NumTasks + 1 THEN {"done"} ELSE {"send"}
GenStageNoClose(i)  == IF i > NumTasks THEN {"left"} ELSE {"send"}
StopNoClose         == "left"
RestOfQueue         == tasks
ContextIgnored      == FALSE
LoopEndsWhenIdle    == tasks = <<>>
WaitForRunning      == \A w \in Workers : workerPc[w] \notin {"check", "run", "unborn"}
LastErr(w)          == IF fate[held[w]] = "fail" THEN held[w] ELSE firstErr
CountersFirst       == IF failCount > 0 THEN (IF successCount = 0 THEN 2 ELSE 1)
                       ELSE IF ctxErr = "canceled" THEN 130
                       ELSE 0

-----------------------------------------------------------------------------
\* Where the generator's loop stands when it comes to index i: it may have to
\* wait before every task but the first, and it closes the channel when it leaves.
GenStage(i) == IF i > NumTasks THEN {"done"}
               ELSE IF Paced /\ i > 1 THEN {"pause", "send"} ELSE {"send"}

\* Where it stands when it has returned because the context ended.
GenStopped == "done"

Init ==
    /\ genPc = "send" /\ next = 1
    /\ tasks = <<>>
    /\ ctxErr = "none"
    /\ poolPc = "spawn" /\ spawned = 0 /\ exit = Unset
    /\ workerPc = [w \in Workers |-> "unborn"]
    /\ held = [w \in Workers |-> NoTask]
    /\ fate = [t \in Tasks |-> "none"]
    /\ announced = {}
    /\ successCount = 0 /\ failCount = 0 /\ timeoutCount = 0
    /\ firstErr = NoTask /\ latencies = 0

-----------------------------------------------------------------------------
(* The task generator. *)

\* The timer of the pacing wait fires.
GenResume ==
    /\ genPc = "pause"
    /\ genPc' = "send"
    /\ UNCHANGED <<next, tasks, ctxErr, poolVars, workerPc, held, fate, resultVars>>

\* The channel has room: send, and go round the loop.
GenSend ==
    /\ genPc = "send"
    /\ Len(tasks) < Cap
    /\ tasks' = Append(tasks, next)
    /\ next' = next + 1
    /\ genPc' \in GenStage(next + 1)
    /\ UNCHANGED <<ctxErr, poolVars, workerPc, held, fate, resultVars>>

\* Either select sees ctx.Done(): return, which closes the channel.
GenStop ==
    /\ genPc \in {"pause", "send"}
    /\ ctxErr # "none"
    /\ genPc' = GenStopped
    /\ UNCHANGED <<next, tasks, ctxErr, poolVars, workerPc, held, fate, resultVars>>

Generator == GenResume \/ GenSend \/ GenStop

-----------------------------------------------------------------------------
(* The workers: for task := range tasks { ... } *)

Goto(w, pc) == workerPc' = [workerPc EXCEPT ![w] = pc]
Drop(w)     == held' = [held EXCEPT ![w] = NoTask]

\* What the receive leaves in the channel.
Received == Tail(tasks)

Receive(w) ==
    /\ workerPc[w] = "range"
    /\ tasks # <<>>
    /\ held' = [held EXCEPT ![w] = Head(tasks)]
    /\ tasks' = Received
    /\ Goto(w, "check")
    /\ UNCHANGED <<genVars, ctxErr, poolVars, fate, resultVars>>

CtxEnded == ctxErr # "none"

\* The context has ended: continue, so the channel is drained without executing.
Skip(w) ==
    /\ workerPc[w] = "check"
    /\ CtxEnded
    /\ fate' = [fate EXCEPT ![held[w]] = "skip"]
    /\ Drop(w)
    /\ Goto(w, "range")
    /\ UNCHANGED <<genVars, tasks, ctxErr, poolVars, resultVars>>

Start(w) ==
    /\ workerPc[w] = "check"
    /\ ~CtxEnded
    /\ Goto(w, "run")
    /\ UNCHANGED <<genVars, tasks, ctxErr, poolVars, held, fate, resultVars>>

\* RunPipeline returns.  Its error wraps DeadlineExceeded only when the execution
\* timed out by itself or the deadline of the surrounding context has passed.
Execute(w) ==
    /\ workerPc[w] = "run"
    /\ \E out \in Executed :
         /\ out = "timeout" => TaskTimeout \/ ctxErr = "deadline"
         /\ fate' = [fate EXCEPT ![held[w]] = out]
    /\ Goto(w, "announce")
    /\ UNCHANGED <<genVars, tasks, ctxErr, poolVars, held, resultVars>>

\* opts.OnResult(detail)
Announce(w) ==
    /\ workerPc[w] = "announce"
    /\ announced' = announced \union {held[w]}
    /\ Goto(w, "record")
    /\ UNCHANGED <<genVars, tasks, ctxErr, poolVars, held, fate, successCount, failCount,
                   timeoutCount, firstErr, latencies>>

CountSuccess(w) ==
    /\ workerPc[w] = "record"
    /\ fate[held[w]] = "ok"
    /\ successCount' = successCount + 1
    /\ Goto(w, "sample")
    /\ UNCHANGED <<genVars, tasks, ctxErr, poolVars, held, fate, announced, failCount,
                   timeoutCount, firstErr, latencies>>

\* Under latMu.
AppendLatency(w) ==
    /\ workerPc[w] = "sample"
    /\ latencies' = latencies + 1
    /\ Drop(w)
    /\ Goto(w, "range")
    /\ UNCHANGED <<genVars, tasks, ctxErr, poolVars, fate, announced, successCount,
                   failCount, timeoutCount, firstErr>>

CountFailure(w) ==
    /\ workerPc[w] = "record"
    /\ fate[held[w]] \in Failed
    /\ failCount' = failCount + 1
    /\ Goto(w, "classify")
    /\ UNCHANGED <<genVars, tasks, ctxErr, poolVars, held, fate, announced, successCount,
                   timeoutCount, firstErr, latencies>>

StoredErr(w) == IF firstErr = NoTask THEN held[w] ELSE firstErr

\* Under errMu.
Classify(w) ==
    /\ workerPc[w] = "classify"
    /\ firstErr' = StoredErr(w)
    /\ timeoutCount' = IF fate[held[w]] = "timeout" THEN timeoutCount + 1 ELSE timeoutCount
    /\ Drop(w)
    /\ Goto(w, "range")
    /\ UNCHANGED <<genVars, tasks, ctxErr, poolVars, fate, announced, successCount,
                   failCount, latencies>>

\* The channel is closed and empty.
LoopEnds == tasks = <<>> /\ genPc = "done"

\* The loop ends and wg.Done() runs.
WorkerExit(w) ==
    /\ workerPc[w] = "range"
    /\ LoopEnds
    /\ Goto(w, "gone")
    /\ UNCHANGED <<genVars, tasks, ctxErr, poolVars, held, fate, resultVars>>

Worker(w) ==
    \/ Receive(w) \/ Skip(w) \/ Start(w) \/ Execute(w) \/ Announce(w)
    \/ CountSuccess(w) \/ AppendLatency(w) \/ CountFailure(w) \/ Classify(w)
    \/ WorkerExit(w)

-----------------------------------------------------------------------------
(* RunJobPool itself. *)

Spawn ==
    /\ poolPc = "spawn"
    /\ spawned' = spawned + 1
    /\ Goto(spawned + 1, "range")
    /\ poolPc' = IF spawned + 1 = NumWorkers THEN "wait"
                 ELSE IF RampUp THEN "ramp" ELSE "spawn"
    /\ UNCHANGED <<genVars, tasks, ctxErr, exit, held, fate, resultVars>>

\* The ramp-up timer fires.
RampElapsed ==
    /\ poolPc = "ramp"
    /\ poolPc' = "spawn"
    /\ UNCHANGED <<genVars, tasks, ctxErr, spawned, exit, workerPc, held, fate, resultVars>>

\* The context ends between two worker starts: RunJobPool returns the bare
\* ctx.Err() at once and leaves the workers it has started behind.
RampAborted ==
    /\ poolPc = "ramp"
    /\ ctxErr # "none"
    /\ poolPc' = "returned"
    /\ exit' = PlainError
    /\ UNCHANGED <<genVars, tasks, ctxErr, spawned, workerPc, held, fate, resultVars>>

WaitOver == \A w \in Workers : workerPc[w] = "gone"

\* wg.Wait()
AllDone ==
    /\ poolPc = "wait"
    /\ WaitOver
    /\ poolPc' = "report"
    /\ UNCHANGED <<genVars, tasks, ctxErr, spawned, exit, workerPc, held, fate, resultVars>>

\* The exit status for the context's error and the two counters.
ExitCode == CASE ctxErr = "deadline" -> 124
              [] ctxErr = "canceled" -> 130
              [] ctxErr = "none"     -> IF failCount = 0 THEN 0
                                        ELSE IF successCount = 0 THEN 2 ELSE 1

\* The report is built; the context is read once more to choose the result.
Return ==
    /\ poolPc = "report"
    /\ poolPc' = "returned"
    /\ exit' = ExitCode
    /\ UNCHANGED <<genVars, tasks, ctxErr, spawned, workerPc, held, fate, resultVars>>

Pool == Spawn \/ RampElapsed \/ RampAborted \/ AllDone \/ Return

-----------------------------------------------------------------------------
(* A signal, a cancel request or the global timeout.  The context keeps the  *)
(* first error it was given.  After RunJobPool has returned its caller lets  *)
(* go of the context.                                                        *)
CtxEnd ==
    /\ ctxErr = "none"
    /\ poolPc # "returned"
    /\ ctxErr' \in CtxEnds
    /\ UNCHANGED <<genVars, tasks, poolVars, workerPc, held, fate, resultVars>>

\* Every goroutine has ended and the call has returned: the batch is over.
Quiet == /\ poolPc = "returned"
         /\ genPc = "done"
         /\ \A w \in 1 .. spawned : workerPc[w] = "gone"

Terminated == Quiet /\ UNCHANGED vars

Next ==
    \/ Generator
    \/ \E w \in Workers : Worker(w)
    \/ Pool
    \/ CtxEnd
    \/ Terminated

Spec == Init /\ [][Next]_vars

\* Every goroutine that can run does run, timers fire and commands end; nothing
\* forces the context to end.
Fairness == /\ WF_vars(Generator)
            /\ WF_vars(Pool)
            /\ \A w \in Workers : WF_vars(Worker(w))
FairSpec == Spec /\ Fairness

-----------------------------------------------------------------------------
(* Properties. *)

\* A worker between the outcome of an execution and the end of its bookkeeping.
Reporting == {"announce", "record", "sample", "classify"}
WithFate(S) == {t \in Tasks : fate[t] \in S}

\* Type correctness of the state of the batch.
TypeOK ==
    /\ genPc \in {"pause", "send", "done"}
    /\ next \in 1 .. NumTasks + 1
    /\ tasks \in Seq(Tasks)
    /\ Len(tasks) <= Cap
    /\ ctxErr \in {"none", "canceled", "deadline"}
    /\ poolPc \in {"spawn", "ramp", "wait", "report", "returned"}
    /\ spawned \in 0 .. NumWorkers
    /\ workerPc \in [Workers -> {"unborn", "range", "check", "run", "gone"} \union Reporting]
    /\ held \in [Workers -> Tasks \union {NoTask}]
    /\ fate \in [Tasks -> Executed \union {"none", "skip"}]
    /\ announced \subseteq Tasks
    /\ {successCount, failCount, timeoutCount, latencies} \subseteq Nat
    /\ firstErr \in Tasks \union {NoTask}
    /\ exit \in {Unset, 0, 1, 2, PlainError, 124, 130}

\* Every task the generator has sent is in one place: in the channel, in the
\* hands of one worker, or settled.  No task is lost between the channel and the
\* workers, and none is executed twice, however the workers interleave.
TaskInOnePlace ==
    \A t \in Tasks :
      LET places == {<<"queue", i>> : i \in {i \in DOMAIN tasks : tasks[i] = t}}
                      \union {<<"worker", w>> : w \in {w \in Workers : held[w] = t}}
      IN  /\ t >= next => places = {} /\ fate[t] = "none"
          /\ t < next /\ fate[t] = "none" => Cardinality(places) = 1
          /\ fate[t] # "none" => places \subseteq {<<"worker", w>> : w \in
                                    {w \in Workers : workerPc[w] \in Reporting}}

\* The documented exit codes: 0, 1 and 2 are given only to a batch of which every
\* task was executed, and tell whether all, some or none of them succeeded.
ExitCodeFaithful ==
    exit \in {0, 1, 2} =>
      /\ \A t \in Tasks : fate[t] \in Executed
      /\ exit = 0 <=> WithFate(Failed) = {}
      /\ exit = 2 <=> WithFate({"ok"}) = {}

\* When RunJobPool returns a report, the counters, the latencies, the first error
\* and the results announced through OnResult agree with what was executed.
ReportExact ==
    exit \notin {Unset, PlainError} =>
      /\ successCount = Cardinality(WithFate({"ok"}))
      /\ failCount = Cardinality(WithFate(Failed))
      /\ timeoutCount = Cardinality(WithFate({"timeout"}))
      /\ latencies = successCount
      /\ announced = WithFate(Executed)
      /\ IF failCount = 0 THEN firstErr = NoTask ELSE firstErr \in WithFate(Failed)

\* A batch that returns a report leaves nothing running behind it: the report is
\* not modified later and no OnResult call comes after the return.
QuietOnReturn == exit \notin {Unset, PlainError} => Quiet /\ tasks = <<>>

\* What README.md says of exit code 130: an interrupted batch exits with it.
InterruptExits130 == exit # Unset /\ ctxErr = "canceled" => exit = 130

\* The tasks a worker has executed or is executing.
Committed == WithFate(Executed) \union {held[w] : w \in {w \in Workers : workerPc[w] = "run"}}

\* Once the context has ended, no further task is executed: those under way may
\* end, and what is left in the channel or in a worker's hands is dropped.
NoWorkAfterCtxEnd == [][ctxErr # "none" => Committed' \subseteq Committed]_vars

\* The batch as Batch sees it.
Outcome(f) == CASE f = "none"   -> "todo"
                [] f = "skip"   -> "dropped"
                [] f = "ok"     -> "ok"
                [] f \in Failed -> "fail"
Verdict == CASE exit = Unset -> "none"
             [] exit = 0     -> "success"
             [] exit = 1     -> "partial"
             [] exit = 2     -> "failure"
             [] exit \in {PlainError, 124, 130} -> "interrupted"

B == INSTANCE Batch WITH outcome <- [t \in Tasks |-> Outcome(fate[t])],
                         interrupted <- (ctxErr # "none"),
                         verdict <- Verdict

\* The pool implements the batch: tasks end once, are dropped only when the
\* context has ended, and the exit code speaks for all of them.
ImplementsBatch == B!Spec

\* RunJobPool returns, whether or not the context ends, if every command does.
PoolReturns == <>(exit # Unset)

\* The generator and every worker that was started end too, also when RunJobPool
\* abandons them during ramp-up: no goroutine is left blocked on the channel.
NothingLeaks == <>[]Quiet

=============================================================================
