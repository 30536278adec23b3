---------------------------- MODULE JobPoolProofs ----------------------------
(***************************************************************************)
(* Theorems about JobPool, for every number of workers and tasks, every    *)
(* capacity and every combination of options.                              *)
(***************************************************************************)
EXTENDS JobPool, FiniteSetTheorems, TLAPS

-----------------------------------------------------------------------------
(* The inductive invariant.  The generator sends 1, 2, 3, ..., so the tasks  *)
(* received are 1 .. Taken and the channel holds the ones that follow.       *)

Taken == next - 1 - Len(tasks)

QueueInv == /\ Taken \in Nat
            /\ \A i \in 1 .. Len(tasks) : tasks[i] = Taken + i

\* A worker holds a task from its receive to the end of its bookkeeping, and no
\* two workers hold the same one.
HoldInv ==
    /\ \A w \in Workers : held[w] # NoTask <=> workerPc[w] \in {"check", "run"} \union Reporting
    /\ \A w \in Workers : held[w] <= Taken
    /\ \A v, w \in Workers : v # w /\ held[v] # NoTask => held[v] # held[w]

\* A task without a fate was not received or is held by a worker.
FateInv ==
    /\ \A t \in Tasks : t > Taken => fate[t] = "none"
    /\ \A t \in Tasks : t <= Taken /\ fate[t] = "none" => \E w \in Workers : held[w] = t
    /\ \A w \in Workers : workerPc[w] \in {"check", "run"} => fate[held[w]] = "none"
    /\ \A w \in Workers : workerPc[w] \in {"announce", "record"} => fate[held[w]] \in Executed
    /\ \A w \in Workers : workerPc[w] = "sample" => fate[held[w]] = "ok"
    /\ \A w \in Workers : workerPc[w] = "classify" => fate[held[w]] \in Failed

\* Only the end of the context makes the generator stop early or a task be skipped.
StopInv ==
    /\ genPc # "done" => next <= NumTasks
    /\ genPc = "done" /\ ctxErr = "none" => next = NumTasks + 1
    /\ \A t \in Tasks : fate[t] = "skip" => ctxErr # "none"

\* A worker leaves only when the channel is closed and empty.
GoneInv == \A w \in Workers : workerPc[w] = "gone" => LoopEnds

SpawnInv ==
    /\ \A w \in Workers : workerPc[w] = "unborn" <=> w > spawned
    /\ poolPc \in {"spawn", "ramp"} => spawned < NumWorkers
    /\ poolPc \in {"wait", "report"} => spawned = NumWorkers

\* A task is counted once the worker that executed it is past the counter.
Counted(t) == \A w \in Workers : held[w] = t => workerPc[w] \notin {"announce", "record"}

CountInv ==
    /\ successCount > 0 <=> \E t \in Tasks : fate[t] = "ok" /\ Counted(t)
    /\ failCount > 0 <=> \E t \in Tasks : fate[t] \in Failed /\ Counted(t)

ReturnInv ==
    /\ exit # Unset <=> poolPc = "returned"
    /\ exit \in {0, 1, 2} => ctxErr = "none"
    /\ exit \in {PlainError, 124, 130} => ctxErr # "none"
    /\ poolPc = "report" \/ exit \in {0, 1, 2, 124, 130} => WaitOver
    /\ exit \notin {Unset, PlainError} => spawned = NumWorkers
    /\ ExitCodeFaithful

IInv == /\ TypeOK /\ QueueInv /\ HoldInv /\ FateInv /\ StopInv
        /\ GoneInv /\ SpawnInv /\ CountInv /\ ReturnInv

-----------------------------------------------------------------------------
(* Each action preserves the inductive invariant. *)

USE SizesAssumption, OptionAssumption, RampAssumption
    DEF Workers, Tasks, NoTask, Executed, Failed, Reporting, Unset, PlainError,
        genVars, poolVars, resultVars

\* The receive takes the next task in order, which no worker has held before.
LEMMA ReceivePreserves == ASSUME IInv, NEW w \in Workers, Receive(w) PROVE IInv'
<1>0. TypeOK /\ QueueInv /\ HoldInv /\ FateInv
  BY DEF IInv
<1>1. /\ Len(tasks) > 0 /\ Head(tasks) = Taken + 1 /\ Head(tasks) \in Tasks
      /\ Len(tasks') = Len(tasks) - 1 /\ tasks' \in Seq(Tasks)
      /\ \A i \in 1 .. Len(tasks') : tasks'[i] = tasks[i + 1]
      /\ Taken' = Taken + 1 /\ Taken \in Nat
  BY SMTT(30), <1>0 DEF Receive, Received, QueueInv, Taken, TypeOK
<1>2. TypeOK'
  BY SMTT(30), <1>0, <1>1 DEF Receive, Goto, TypeOK
<1>3. QueueInv'
  BY SMTT(30), <1>0 DEF Receive, Received, QueueInv, Taken, TypeOK
<1>4. /\ held' = [held EXCEPT ![w] = Taken + 1]
      /\ workerPc[w] = "range" /\ workerPc' = [workerPc EXCEPT ![w] = "check"]
      /\ fate' = fate /\ held[w] = NoTask
      /\ Taken + 1 \in Tasks /\ fate[Taken + 1] = "none"
  <2>1. Taken + 1 \in Tasks /\ Taken + 1 > Taken
    BY <1>1
  <2> QED BY ZenonT(30), <1>0, <1>1, <2>1 DEF Receive, Goto, FateInv, HoldInv, TypeOK
<1>5. HoldInv'
  <2>1. \A v \in Workers : held[v] # Taken + 1
    BY <1>0, <1>1 DEF HoldInv, TypeOK
  <2>2. \A v \in Workers : v # w => held'[v] = held[v] /\ workerPc'[v] = workerPc[v]
    BY <1>0, <1>4 DEF TypeOK
  <2>3. held'[w] = Taken + 1 /\ workerPc'[w] = "check"
    BY <1>0, <1>4 DEF TypeOK
  <2>4. \A v \in Workers : held'[v] <= Taken'
    <3> SUFFICES ASSUME NEW v \in Workers PROVE held'[v] <= Taken'
      OBVIOUS
    <3>1. held[v] \in Nat /\ held[v] <= Taken
      BY <1>0 DEF HoldInv, TypeOK
    <3> QED BY SMTT(30), <3>1, <1>1, <2>2, <2>3
  <2>5. \A u, v \in Workers : u # v /\ held'[u] # NoTask => held'[u] # held'[v]
    <3> SUFFICES ASSUME NEW u \in Workers, NEW v \in Workers, u # v, held'[u] # NoTask
                 PROVE  held'[u] # held'[v]
      OBVIOUS
    <3>1. CASE u # w /\ v # w
      BY <3>1, <1>0, <2>2 DEF HoldInv
    <3>2. CASE u = w \/ v = w
      BY <3>2, <2>1, <2>2, <2>3
    <3> QED BY <3>1, <3>2
  <2>6. \A v \in Workers : held'[v] # NoTask <=> workerPc'[v] \in {"check", "run"} \union Reporting
    BY <1>0, <1>1, <2>2, <2>3 DEF HoldInv
  <2> QED BY <2>4, <2>5, <2>6 DEF HoldInv
<1>6. FateInv'
  <2>1. \A t \in Tasks : t <= Taken' /\ fate'[t] = "none" => \E v \in Workers : held'[v] = t
    <3> SUFFICES ASSUME NEW t \in Tasks, t <= Taken + 1, fate[t] = "none"
                 PROVE  \E v \in Workers : held'[v] = t
      BY <1>1, <1>4
    <3>1. CASE t = Taken + 1
      BY <3>1, <1>0, <1>4 DEF TypeOK
    <3>2. CASE t # Taken + 1
      <4>1. PICK v \in Workers : held[v] = t
        BY <3>2, <1>0, <1>1 DEF FateInv
      <4> QED BY <4>1, <1>0, <1>4 DEF TypeOK
    <3> QED BY <3>1, <3>2
  <2>2. \A v \in Workers : v # w => held'[v] = held[v] /\ workerPc'[v] = workerPc[v]
    BY <1>0, <1>4 DEF TypeOK
  <2>3. held'[w] = Taken + 1 /\ workerPc'[w] = "check"
    BY <1>0, <1>4 DEF TypeOK
  <2>4. \A t \in Tasks : t > Taken' => fate'[t] = "none"
    BY <1>0, <1>1, <1>4 DEF FateInv
  <2>5. \A v \in Workers : workerPc'[v] \in {"check", "run"} => fate'[held'[v]] = "none"
    <3>1. fate'[held'[w]] = "none"
      BY <1>4, <2>3
    <3> QED BY <1>0, <1>4, <2>2, <3>1 DEF FateInv
  <2>6. \A v \in Workers :
          /\ workerPc'[v] \in {"announce", "record"} => fate'[held'[v]] \in Executed
          /\ workerPc'[v] = "sample" => fate'[held'[v]] = "ok"
          /\ workerPc'[v] = "classify" => fate'[held'[v]] \in Failed
    BY <1>0, <1>4, <2>2, <2>3 DEF FateInv
  <2> QED BY <2>1, <2>4, <2>5, <2>6 DEF FateInv
<1>7. StopInv' /\ GoneInv' /\ SpawnInv'
  BY SMTT(30), <1>0, <1>1 DEF IInv, TypeOK, Receive, Goto, StopInv, GoneInv, LoopEnds, SpawnInv
<1>8. CountInv'
  <2>1. \A t \in Tasks : fate[t] # "none" => (Counted(t)' <=> Counted(t))
    BY SMTT(30), <1>0, <1>4 DEF Counted, TypeOK
  <2> QED BY <1>4, <2>1 DEF IInv, Receive, CountInv
<1>9. ReturnInv'
  BY <1>0 DEF IInv, TypeOK, Receive, Goto, ReturnInv, WaitOver, ExitCodeFaithful, WithFate
<1> QED BY <1>2, <1>3, <1>5, <1>6, <1>7, <1>8, <1>9 DEF IInv

\* A task skipped was received, and its worker lets go of it.
LEMMA SkipPreserves == ASSUME IInv, NEW w \in Workers, Skip(w) PROVE IInv'
<1>0. TypeOK /\ QueueInv /\ HoldInv /\ FateInv
  BY DEF IInv
<1>1. TypeOK'
  <2>1. /\ fate' \in [Tasks -> Executed \union {"none", "skip"}]
        /\ held' \in [Workers -> Tasks \union {NoTask}]
    BY <1>0 DEF Skip, Drop, TypeOK
  <2>2. workerPc' \in [Workers -> {"unborn", "range", "check", "run", "gone"} \union Reporting]
    BY <1>0 DEF Skip, Goto, TypeOK
  <2> QED BY <1>0, <2>1, <2>2 DEF Skip, TypeOK
<1>2. QueueInv' /\ HoldInv' /\ FateInv'
  <2>1. QueueInv'
    BY <1>0 DEF Skip, TypeOK, QueueInv, Taken
  <2>2. HoldInv'
    BY SMTT(30), <1>0 DEF Skip, Goto, Drop, TypeOK, QueueInv, HoldInv, Taken
  <2>3. FateInv'
    <3>1. /\ held[w] \in Tasks /\ held[w] <= Taken /\ fate' = [fate EXCEPT ![held[w]] = "skip"]
          /\ Taken' = Taken /\ held'[w] = NoTask /\ workerPc'[w] = "range"
          /\ \A v \in Workers : v # w => held'[v] = held[v] /\ workerPc'[v] = workerPc[v]
      BY <1>0 DEF Skip, Goto, Drop, TypeOK, HoldInv, Taken
    <3>2. \A v \in Workers : v # w /\ held[v] # NoTask => held[v] \in Tasks /\ fate'[held[v]] = fate[held[v]]
      BY <1>0, <3>1 DEF TypeOK, HoldInv
    <3>3. \A t \in Tasks : t > Taken => fate'[t] = "none"
      BY <1>0, <3>1 DEF TypeOK, FateInv, QueueInv
    <3>4. \A t \in Tasks : t <= Taken /\ fate'[t] = "none" => \E v \in Workers : held'[v] = t
      <4> SUFFICES ASSUME NEW t \in Tasks, t <= Taken, fate'[t] = "none"
                   PROVE  \E v \in Workers : held'[v] = t
        OBVIOUS
      <4>1. t # held[w] /\ fate[t] = "none"
        BY <1>0, <3>1 DEF TypeOK
      <4>2. PICK v \in Workers : held[v] = t
        BY <4>1, <1>0 DEF FateInv
      <4> QED BY <4>1, <4>2, <3>1
    <3> QED BY <1>0, <3>1, <3>2, <3>3, <3>4 DEF FateInv, HoldInv
  <2> QED BY <2>1, <2>2, <2>3
<1>3. StopInv' /\ GoneInv' /\ SpawnInv'
  BY SMTT(30), <1>0 DEF IInv, Skip, CtxEnded, Goto, TypeOK, StopInv, GoneInv, LoopEnds, SpawnInv
<1>4. CountInv'
  <2>0. /\ workerPc[w] = "check" /\ fate[held[w]] = "none"
        /\ held' = [held EXCEPT ![w] = NoTask] /\ workerPc' = [workerPc EXCEPT ![w] = "range"]
        /\ fate' = [fate EXCEPT ![held[w]] = "skip"]
    BY <1>0 DEF Skip, Goto, Drop, FateInv
  <2>1. \A t \in Tasks : fate[t] \in Executed => fate'[t] = fate[t] /\ (Counted(t)' <=> Counted(t))
    BY SMTT(30), <1>0, <2>0 DEF TypeOK, Counted
  <2>2. \A t \in Tasks : fate'[t] \in Executed => fate'[t] = fate[t]
    BY <1>0 DEF Skip, TypeOK
  <2> QED BY <2>1, <2>2 DEF IInv, Skip, CountInv
<1>5. ReturnInv'
  BY <1>0 DEF IInv, TypeOK, Skip, Goto, ReturnInv, WaitOver, ExitCodeFaithful, WithFate
<1> QED BY <1>1, <1>2, <1>3, <1>4, <1>5 DEF IInv

LEMMA StartPreserves == ASSUME IInv, NEW w \in Workers, Start(w) PROVE IInv'
<1>0. TypeOK /\ QueueInv /\ HoldInv /\ FateInv
  BY DEF IInv
<1>1. TypeOK' /\ QueueInv'
  BY <1>0 DEF Start, Goto, TypeOK, QueueInv, Taken
<1>2. HoldInv' /\ FateInv'
  BY SMTT(30), <1>0 DEF Start, Goto, TypeOK, HoldInv, FateInv, Taken
<1>3. StopInv' /\ GoneInv' /\ SpawnInv'
  BY SMTT(30), <1>0 DEF IInv, Start, Goto, TypeOK, StopInv, GoneInv, LoopEnds, SpawnInv
<1>5. CountInv'
  <2>1. \A t \in Tasks : Counted(t)' <=> Counted(t)
    BY SMTT(30), <1>0 DEF Start, Goto, TypeOK, Counted
  <2> QED BY <2>1 DEF IInv, Start, CountInv
<1>4. ReturnInv'
  BY <1>0 DEF IInv, TypeOK, Start, Goto, ReturnInv, WaitOver, ExitCodeFaithful, WithFate
<1> QED BY <1>1, <1>2, <1>3, <1>4, <1>5 DEF IInv

\* The outcome of an execution is not counted yet.
LEMMA ExecutePreserves == ASSUME IInv, NEW w \in Workers, Execute(w) PROVE IInv'
<1>0. TypeOK /\ QueueInv /\ HoldInv /\ FateInv
  BY DEF IInv
<1>1. /\ workerPc[w] = "run" /\ workerPc' = [workerPc EXCEPT ![w] = "announce"]
      /\ held[w] \in Tasks /\ held' = held /\ fate[held[w]] = "none"
      /\ \A v \in Workers : v # w => held[v] # held[w]
  BY <1>0 DEF Execute, Goto, HoldInv, FateInv, TypeOK
<1>2. PICK out \in Executed : fate' = [fate EXCEPT ![held[w]] = out]
  BY DEF Execute
<1>3. TypeOK' /\ QueueInv'
  BY SMTT(30), <1>0, <1>1, <1>2 DEF Execute, TypeOK, QueueInv, Taken
<1>4. HoldInv' /\ FateInv'
  <2>1. HoldInv'
    BY <1>0, <1>1 DEF Execute, TypeOK, HoldInv, Taken
  <2>2. /\ \A t \in Tasks : t # held[w] => fate'[t] = fate[t]
        /\ fate'[held[w]] \in Executed /\ Taken' = Taken
        /\ \A v \in Workers : v # w => workerPc'[v] = workerPc[v]
        /\ workerPc'[w] = "announce"
    BY <1>0, <1>1, <1>2 DEF TypeOK, Execute, Taken
  <2>3. \A t \in Tasks : t > Taken' => fate'[t] = "none"
    <3> SUFFICES ASSUME NEW t \in Tasks, t > Taken PROVE fate'[t] = "none"
      BY <2>2
    <3>1. t # held[w]
      <4>1. held[w] <= Taken /\ Taken \in Nat
        BY <1>0 DEF HoldInv, QueueInv
      <4> QED BY <4>1, <1>1
    <3> QED BY <3>1, <1>0, <2>2 DEF FateInv
  <2>4. \A t \in Tasks : t <= Taken' /\ fate'[t] = "none" => \E v \in Workers : held'[v] = t
    BY <1>0, <1>1, <2>2 DEF FateInv
  <2>5. \A v \in Workers : v # w /\ held[v] # NoTask => held[v] \in Tasks /\ fate'[held[v]] = fate[held[v]]
    BY <1>0, <1>1, <2>2 DEF TypeOK
  <2> QED BY <1>0, <1>1, <2>1, <2>2, <2>3, <2>4, <2>5 DEF FateInv, HoldInv
<1>5. StopInv' /\ GoneInv' /\ SpawnInv'
  BY <1>0, <1>1, <1>2 DEF IInv, Execute, TypeOK, StopInv, GoneInv, LoopEnds, SpawnInv
<1>6. CountInv'
  <2>1. \A t \in Tasks : t # held[w] => fate'[t] = fate[t] /\ (Counted(t)' <=> Counted(t))
    BY SMTT(30), <1>0, <1>1, <1>2 DEF Counted, TypeOK
  <2>2. ~Counted(held[w])' /\ fate[held[w]] \notin Executed
    BY <1>0, <1>1 DEF Counted, TypeOK
  <2> QED BY <1>1, <2>1, <2>2 DEF IInv, Execute, CountInv
<1>7. ReturnInv'
  BY <1>0 DEF IInv, TypeOK, Execute, Goto, ReturnInv, WaitOver, ExitCodeFaithful, WithFate
<1> QED BY <1>3, <1>4, <1>5, <1>6, <1>7 DEF IInv

LEMMA AnnouncePreserves == ASSUME IInv, NEW w \in Workers, Announce(w) PROVE IInv'
<1>0. TypeOK /\ QueueInv /\ HoldInv /\ FateInv
  BY DEF IInv
<1>1. held[w] \in Tasks
  BY <1>0 DEF Announce, HoldInv, TypeOK
<1>2. TypeOK' /\ QueueInv'
  <2>1. announced' \subseteq Tasks
    <3>1. announced \subseteq Tasks /\ announced' = announced \union {held[w]}
      BY <1>0 DEF Announce, TypeOK
    <3> QED BY <1>1, <3>1
  <2>3. workerPc' \in [Workers -> {"unborn", "range", "check", "run", "gone"} \union Reporting]
    BY <1>0 DEF Announce, Goto, TypeOK
  <2>2. UNCHANGED <<genPc, next, tasks, ctxErr, poolPc, spawned, held, fate, successCount,
                    failCount, timeoutCount, firstErr, latencies, exit>>
    BY DEF Announce
  <2> QED BY <1>0, <2>1, <2>2, <2>3 DEF TypeOK, QueueInv, Taken
<1>3. HoldInv' /\ FateInv'
  BY <1>0 DEF Announce, Goto, TypeOK, HoldInv, FateInv, Taken
<1>4. StopInv' /\ GoneInv' /\ SpawnInv'
  BY SMTT(30), <1>0 DEF IInv, Announce, Goto, TypeOK, StopInv, GoneInv, LoopEnds, SpawnInv
<1>6. CountInv'
  <2>1. \A t \in Tasks : Counted(t)' <=> Counted(t)
    BY SMTT(30), <1>0 DEF Announce, Goto, TypeOK, Counted
  <2> QED BY <2>1 DEF IInv, Announce, CountInv
<1>5. ReturnInv'
  BY <1>0 DEF IInv, TypeOK, Announce, Goto, ReturnInv, WaitOver, ExitCodeFaithful, WithFate
<1> QED BY <1>2, <1>3, <1>4, <1>5, <1>6 DEF IInv

LEMMA CountSuccessPreserves == ASSUME IInv, NEW w \in Workers, CountSuccess(w) PROVE IInv'
<1>0. TypeOK /\ QueueInv /\ HoldInv /\ FateInv
  BY DEF IInv
<1>1. TypeOK' /\ QueueInv'
  BY SMTT(30), <1>0 DEF CountSuccess, Goto, TypeOK, QueueInv, Taken
<1>2. HoldInv' /\ FateInv'
  BY SMTT(30), <1>0 DEF CountSuccess, Goto, TypeOK, HoldInv, FateInv, Taken
<1>3. StopInv' /\ GoneInv' /\ SpawnInv'
  BY SMTT(30), <1>0 DEF IInv, CountSuccess, Goto, TypeOK, StopInv, GoneInv, LoopEnds, SpawnInv
<1>4. CountInv'
  <2>1. held[w] \in Tasks /\ fate[held[w]] = "ok" /\ successCount' > 0 /\ Counted(held[w])'
    BY SMTT(30), <1>0 DEF CountSuccess, Goto, HoldInv, TypeOK, Counted
  <2>2. \A t \in Tasks : t # held[w] => (Counted(t)' <=> Counted(t))
    BY SMTT(30), <1>0 DEF CountSuccess, Goto, TypeOK, Counted
  <2> QED BY <2>1, <2>2 DEF IInv, CountSuccess, CountInv
<1>5. ReturnInv'
  BY <1>0 DEF IInv, TypeOK, CountSuccess, Goto, ReturnInv, WaitOver, ExitCodeFaithful, WithFate
<1> QED BY <1>1, <1>2, <1>3, <1>4, <1>5 DEF IInv

LEMMA CountFailurePreserves == ASSUME IInv, NEW w \in Workers, CountFailure(w) PROVE IInv'
<1>0. TypeOK /\ QueueInv /\ HoldInv /\ FateInv
  BY DEF IInv
<1>1. TypeOK' /\ QueueInv'
  BY SMTT(30), <1>0 DEF CountFailure, Goto, TypeOK, QueueInv, Taken
<1>2. HoldInv' /\ FateInv'
  BY SMTT(30), <1>0 DEF CountFailure, Goto, TypeOK, HoldInv, FateInv, Taken
<1>3. StopInv' /\ GoneInv' /\ SpawnInv'
  BY SMTT(30), <1>0 DEF IInv, CountFailure, Goto, TypeOK, StopInv, GoneInv, LoopEnds, SpawnInv
<1>4. CountInv'
  <2>1. held[w] \in Tasks /\ fate[held[w]] \in Failed /\ failCount' > 0 /\ Counted(held[w])'
    BY <1>0 DEF CountFailure, Goto, HoldInv, TypeOK, Counted
  <2>2. \A t \in Tasks : t # held[w] => (Counted(t)' <=> Counted(t))
    BY SMTT(30), <1>0 DEF CountFailure, Goto, TypeOK, Counted
  <2> QED BY <2>1, <2>2 DEF IInv, CountFailure, CountInv
<1>5. ReturnInv'
  BY <1>0 DEF IInv, TypeOK, CountFailure, Goto, ReturnInv, WaitOver, ExitCodeFaithful, WithFate
<1> QED BY <1>1, <1>2, <1>3, <1>4, <1>5 DEF IInv

\* The last step of a worker's bookkeeping, for a success or a failure: the task
\* it lets go of has its fate and was counted.
LEMMA LetGoPreserves ==
  ASSUME IInv, NEW w \in Workers, AppendLatency(w) \/ Classify(w)
  PROVE  HoldInv' /\ FateInv' /\ CountInv'
<1>0. TypeOK /\ QueueInv /\ HoldInv /\ FateInv
  BY DEF IInv
<1>1. /\ workerPc[w] \in {"sample", "classify"} /\ held[w] \in Tasks
      /\ fate[held[w]] \in Executed
      /\ held' = [held EXCEPT ![w] = NoTask] /\ workerPc' = [workerPc EXCEPT ![w] = "range"]
      /\ UNCHANGED <<fate, tasks, next, successCount, failCount>>
  BY SMTT(30), <1>0 DEF AppendLatency, Classify, Goto, Drop, HoldInv, FateInv, TypeOK
<1>2. HoldInv'
  BY SMTT(30), <1>0, <1>1 DEF TypeOK, QueueInv, HoldInv, Taken
<1>3. FateInv'
  <2>1. \A v \in Workers : v # w => held'[v] = held[v] /\ workerPc'[v] = workerPc[v]
    BY <1>0, <1>1 DEF TypeOK
  <2>2. workerPc'[w] = "range" /\ Taken' = Taken
    BY <1>0, <1>1 DEF TypeOK, Taken
  <2>3. \A t \in Tasks : t <= Taken' /\ fate'[t] = "none" => \E v \in Workers : held'[v] = t
    <3> SUFFICES ASSUME NEW t \in Tasks, t <= Taken, fate[t] = "none"
                 PROVE  \E v \in Workers : held'[v] = t
      BY <1>1, <2>2
    <3>1. PICK v \in Workers : held[v] = t
      BY <1>0 DEF FateInv
    <3> QED BY <3>1, <1>1, <2>1
  <2> QED BY <1>0, <1>1, <2>1, <2>2, <2>3 DEF FateInv
<1>4. CountInv'
  <2>1. /\ \A v \in Workers : v # w => held'[v] = held[v] /\ workerPc'[v] = workerPc[v]
        /\ held'[w] \notin Tasks /\ workerPc[w] \notin {"announce", "record"}
    BY <1>0, <1>1 DEF TypeOK
  <2>2. \A t \in Tasks : Counted(t)' <=> Counted(t)
    BY <2>1 DEF Counted
  <2> QED BY <1>1, <2>2 DEF IInv, CountInv
<1> QED BY <1>2, <1>3, <1>4

LEMMA AppendLatencyPreserves == ASSUME IInv, NEW w \in Workers, AppendLatency(w) PROVE IInv'
<1>0. TypeOK /\ QueueInv /\ HoldInv
  BY DEF IInv
<1>1. TypeOK' /\ QueueInv'
  BY SMTT(30), <1>0 DEF AppendLatency, Goto, Drop, TypeOK, QueueInv, Taken
<1>2. StopInv' /\ GoneInv' /\ SpawnInv'
  BY SMTT(30), <1>0 DEF IInv, AppendLatency, Goto, TypeOK, StopInv, GoneInv, LoopEnds, SpawnInv
<1>3. ReturnInv'
  BY <1>0 DEF IInv, TypeOK, AppendLatency, Goto, ReturnInv, WaitOver, ExitCodeFaithful, WithFate
<1> QED BY <1>1, <1>2, <1>3, LetGoPreserves DEF IInv

LEMMA ClassifyPreserves == ASSUME IInv, NEW w \in Workers, Classify(w) PROVE IInv'
<1>0. TypeOK /\ QueueInv /\ HoldInv
  BY DEF IInv
<1>a. held[w] \in Tasks
  BY <1>0 DEF Classify, HoldInv, TypeOK
<1>b. firstErr' \in Tasks \union {NoTask} /\ timeoutCount' \in Nat
  BY SMTT(30), <1>0, <1>a DEF Classify, StoredErr, TypeOK
<1>1. TypeOK' /\ QueueInv'
  <2>1. TypeOK'
    BY SMTT(30), <1>0, <1>b DEF Classify, Goto, Drop, TypeOK
  <2>2. QueueInv'
    BY <1>0 DEF Classify, QueueInv, Taken
  <2> QED BY <2>1, <2>2
<1>2. StopInv' /\ GoneInv' /\ SpawnInv'
  BY SMTT(30), <1>0 DEF IInv, Classify, Goto, TypeOK, StopInv, GoneInv, LoopEnds, SpawnInv
<1>3. ReturnInv'
  BY <1>0 DEF IInv, TypeOK, Classify, Goto, ReturnInv, WaitOver, ExitCodeFaithful, WithFate
<1> QED BY <1>1, <1>2, <1>3, LetGoPreserves DEF IInv

LEMMA WorkerExitPreserves == ASSUME IInv, NEW w \in Workers, WorkerExit(w) PROVE IInv'
<1>0. TypeOK /\ QueueInv /\ HoldInv /\ FateInv
  BY DEF IInv
<1>1. TypeOK' /\ QueueInv'
  BY <1>0 DEF WorkerExit, Goto, TypeOK, QueueInv, Taken
<1>2. HoldInv' /\ FateInv'
  BY SMTT(30), <1>0 DEF WorkerExit, Goto, TypeOK, HoldInv, FateInv, Taken
<1>3. StopInv' /\ GoneInv' /\ SpawnInv'
  BY <1>0 DEF IInv, WorkerExit, Goto, TypeOK, StopInv, GoneInv, LoopEnds, SpawnInv
<1>5. CountInv'
  <2>1. \A t \in Tasks : Counted(t)' <=> Counted(t)
    BY SMTT(30), <1>0 DEF WorkerExit, Goto, TypeOK, Counted
  <2> QED BY <2>1 DEF IInv, WorkerExit, CountInv
<1>4. ReturnInv'
  BY <1>0 DEF IInv, TypeOK, WorkerExit, Goto, ReturnInv, WaitOver, ExitCodeFaithful, WithFate
<1> QED BY <1>1, <1>2, <1>3, <1>4, <1>5 DEF IInv

\* The generator appends the next index, which no worker has received.
LEMMA GenSendPreserves == ASSUME IInv, GenSend PROVE IInv'
<1>0. TypeOK /\ QueueInv /\ HoldInv /\ FateInv /\ StopInv
  BY DEF IInv
<1>1. /\ next \in Tasks /\ next' = next + 1 /\ Len(tasks') = Len(tasks) + 1 /\ Len(tasks') <= Cap
      /\ tasks' = Append(tasks, next) /\ Taken' = Taken /\ genPc # "done"
  BY <1>0 DEF GenSend, StopInv, TypeOK, Taken
<1>2. /\ genPc' \in {"pause", "send", "done"}
      /\ genPc' = "done" <=> next' = NumTasks + 1
  BY <1>0, <1>1 DEF GenSend, GenStage, TypeOK
<1>3. UNCHANGED <<ctxErr, poolPc, spawned, exit, workerPc, held, fate, announced, successCount,
                  failCount, timeoutCount, firstErr, latencies>>
  BY DEF GenSend
<1>4. TypeOK'
  <2>1. tasks' \in Seq(Tasks) /\ next' \in 1 .. NumTasks + 1
    BY <1>0, <1>1 DEF TypeOK
  <2> QED BY <1>0, <1>1, <1>2, <1>3, <2>1 DEF TypeOK
<1>5. QueueInv'
  <2>1. next = Taken + Len(tasks) + 1 /\ Len(tasks) \in Nat /\ Taken \in Nat
    BY <1>0 DEF QueueInv, Taken, TypeOK
  <2>2. /\ \A i \in 1 .. Len(tasks) : tasks'[i] = tasks[i]
        /\ tasks'[Len(tasks) + 1] = next
    BY <1>0, <1>1 DEF TypeOK
  <2>3. \A i \in 1 .. Len(tasks') : i \in 1 .. Len(tasks) \/ i = Len(tasks) + 1
    BY <1>1, <2>1
  <2> QED BY SMTT(30), <1>0, <1>1, <2>1, <2>2, <2>3 DEF QueueInv
<1>6. HoldInv' /\ FateInv' /\ SpawnInv' /\ CountInv'
  BY <1>1, <1>3 DEF IInv, HoldInv, FateInv, SpawnInv, CountInv, Counted
<1>7. StopInv' /\ GoneInv'
  BY <1>0, <1>1, <1>2, <1>3 DEF IInv, StopInv, GoneInv, LoopEnds, TypeOK
<1>8. ReturnInv'
  BY <1>3 DEF IInv, ReturnInv, WaitOver, ExitCodeFaithful, WithFate
<1> QED BY <1>4, <1>5, <1>6, <1>7, <1>8 DEF IInv

LEMMA GenResumePreserves == ASSUME IInv, GenResume \/ GenStop PROVE IInv'
<1>0. TypeOK /\ StopInv /\ GoneInv
  BY DEF IInv
<1>1. /\ genPc \in {"pause", "send"} /\ genPc' \in {"send", "done"}
      /\ genPc' = "done" => ctxErr # "none"
      /\ UNCHANGED <<next, tasks, ctxErr, poolPc, spawned, exit, workerPc, held, fate, announced,
                     successCount, failCount, timeoutCount, firstErr, latencies>>
  BY DEF GenResume, GenStop, GenStopped
<1>2. TypeOK' /\ QueueInv' /\ HoldInv'
  BY SMTT(30), <1>1 DEF IInv, TypeOK, QueueInv, HoldInv, Taken
<1>3. FateInv' /\ SpawnInv' /\ CountInv'
  BY <1>1 DEF IInv, FateInv, SpawnInv, CountInv, Counted, Taken
<1>4. StopInv' /\ GoneInv'
  BY <1>0, <1>1 DEF StopInv, GoneInv, LoopEnds
<1>5. ReturnInv'
  BY <1>1 DEF IInv, ReturnInv, WaitOver, ExitCodeFaithful, WithFate
<1> QED BY <1>2, <1>3, <1>4, <1>5 DEF IInv

LEMMA SpawnPreserves == ASSUME IInv, Spawn PROVE IInv'
<1>0. TypeOK /\ QueueInv /\ HoldInv /\ FateInv /\ SpawnInv
  BY DEF IInv
<1> DEFINE n == spawned + 1
<1>1. /\ n \in Workers /\ spawned' = n /\ workerPc[n] = "unborn" /\ poolPc = "spawn"
      /\ workerPc' = [workerPc EXCEPT ![n] = "range"] /\ held[n] = NoTask
      /\ poolPc' \in {"wait", "ramp", "spawn"} /\ (poolPc' = "wait" <=> n = NumWorkers)
      /\ UNCHANGED <<genPc, next, tasks, ctxErr, exit, held, fate, announced, successCount,
                     failCount, timeoutCount, firstErr, latencies>>
  <2>1. n \in Workers /\ n > spawned
    BY <1>0 DEF Spawn, SpawnInv, TypeOK
  <2>2. workerPc[n] = "unborn" /\ held[n] = NoTask
    BY <1>0, <2>1 DEF SpawnInv, HoldInv
  <2> QED BY <2>1, <2>2 DEF Spawn, Goto
<1>2. /\ workerPc'[n] = "range"
      /\ \A v \in Workers : v # n => workerPc'[v] = workerPc[v]
      /\ workerPc' \in [Workers -> {"unborn", "range", "check", "run", "gone"} \union Reporting]
  BY <1>0, <1>1 DEF TypeOK
<1>3. TypeOK' /\ QueueInv'
  <2>1. spawned' \in 0 .. NumWorkers
    BY <1>1
  <2> QED BY SMTT(30), <1>0, <1>1, <1>2, <2>1 DEF TypeOK, QueueInv, Taken
<1>4. HoldInv' /\ FateInv'
  BY <1>0, <1>1, <1>2 DEF HoldInv, FateInv, Taken
<1>5. SpawnInv' /\ GoneInv' /\ StopInv'
  <2>1. SpawnInv'
    BY <1>0, <1>1, <1>2 DEF SpawnInv, TypeOK
  <2> QED BY <1>1, <1>2, <2>1 DEF IInv, GoneInv, LoopEnds, StopInv
<1>6. CountInv'
  <2>1. \A t \in Tasks : Counted(t)' <=> Counted(t)
    BY <1>1, <1>2 DEF Counted
  <2> QED BY <1>1, <2>1 DEF IInv, CountInv
<1>7. ReturnInv'
  BY <1>1, <1>2 DEF IInv, ReturnInv, WaitOver, ExitCodeFaithful, WithFate
<1> QED BY <1>3, <1>4, <1>5, <1>6, <1>7 DEF IInv

LEMMA RampPreserves == ASSUME IInv, RampElapsed \/ RampAborted PROVE IInv'
<1>1. /\ UNCHANGED <<genPc, next, tasks, ctxErr, spawned, workerPc, held, fate, announced,
                     successCount, failCount, timeoutCount, firstErr, latencies>>
      /\ poolPc = "ramp"
      /\ \/ poolPc' = "spawn" /\ exit' = exit
         \/ poolPc' = "returned" /\ exit' = PlainError /\ ctxErr # "none"
  BY DEF RampElapsed, RampAborted
<1>2. TypeOK' /\ QueueInv' /\ HoldInv' /\ FateInv'
  BY SMTT(30), <1>1 DEF IInv, TypeOK, QueueInv, HoldInv, FateInv, Taken
<1>3. StopInv' /\ GoneInv' /\ SpawnInv' /\ CountInv'
  BY <1>1 DEF IInv, StopInv, GoneInv, LoopEnds, SpawnInv, CountInv, Counted
<1>4. ReturnInv'
  BY SMTT(30), <1>1 DEF IInv, TypeOK, ReturnInv, WaitOver, ExitCodeFaithful, WithFate
<1> QED BY <1>2, <1>3, <1>4 DEF IInv

LEMMA AllDonePreserves == ASSUME IInv, AllDone PROVE IInv'
<1>1. /\ UNCHANGED <<genPc, next, tasks, ctxErr, spawned, exit, workerPc, held, fate, announced,
                     successCount, failCount, timeoutCount, firstErr, latencies>>
      /\ poolPc = "wait" /\ poolPc' = "report" /\ WaitOver
  BY DEF AllDone
<1>2. TypeOK' /\ QueueInv' /\ HoldInv' /\ FateInv'
  BY SMTT(30), <1>1 DEF IInv, TypeOK, QueueInv, HoldInv, FateInv, Taken
<1>3. StopInv' /\ GoneInv' /\ SpawnInv' /\ CountInv'
  BY <1>1 DEF IInv, StopInv, GoneInv, LoopEnds, SpawnInv, CountInv, Counted
<1>4. ReturnInv'
  BY <1>1 DEF IInv, TypeOK, ReturnInv, WaitOver, ExitCodeFaithful, WithFate
<1> QED BY <1>2, <1>3, <1>4 DEF IInv

\* When every worker has gone and the context is live, every task was executed
\* and counted: the heart of the exit codes.
LEMMA AllExecuted ==
  ASSUME IInv, WaitOver, ctxErr = "none"
  PROVE  /\ \A t \in Tasks : fate[t] \in Executed
         /\ successCount > 0 <=> \E t \in Tasks : fate[t] = "ok"
         /\ failCount > 0 <=> \E t \in Tasks : fate[t] \in Failed
<1>0. TypeOK /\ QueueInv /\ HoldInv /\ FateInv /\ StopInv /\ GoneInv /\ CountInv
  BY DEF IInv
<1>1. LoopEnds
  <2>1. 1 \in Workers
    OBVIOUS
  <2> QED BY <2>1, <1>0 DEF GoneInv, WaitOver
<1>2. Taken = NumTasks
  BY <1>0, <1>1 DEF LoopEnds, StopInv, Taken, TypeOK
<1>3. \A w \in Workers : held[w] = NoTask
  BY <1>0 DEF WaitOver, HoldInv
<1>4. \A t \in Tasks : fate[t] \in Executed
  <2> SUFFICES ASSUME NEW t \in Tasks PROVE fate[t] \in Executed
    OBVIOUS
  <2>1. t <= Taken /\ t # NoTask
    BY <1>2
  <2>2. fate[t] # "none"
    BY <1>0, <1>3, <2>1 DEF FateInv
  <2>3. fate[t] # "skip"
    BY <1>0 DEF StopInv
  <2> QED BY <1>0, <2>2, <2>3 DEF TypeOK
<1>5. \A t \in Tasks : Counted(t)
  BY DEF WaitOver, Counted
<1> QED BY <1>0, <1>4, <1>5 DEF CountInv

LEMMA ReturnPreserves == ASSUME IInv, Return PROVE IInv'
<1>0. TypeOK /\ SpawnInv /\ ReturnInv
  BY DEF IInv
<1>1. /\ UNCHANGED <<genPc, next, tasks, ctxErr, spawned, workerPc, held, fate, announced,
                     successCount, failCount, timeoutCount, firstErr, latencies>>
      /\ poolPc = "report" /\ poolPc' = "returned" /\ WaitOver
  BY <1>0 DEF Return, ReturnInv
<1>2. /\ exit' \in {0, 1, 2, 124, 130}
      /\ exit' \in {0, 1, 2} <=> ctxErr = "none"
      /\ ctxErr = "none" => /\ exit' = 0 <=> failCount = 0
                            /\ exit' = 2 <=> failCount # 0 /\ successCount = 0
  BY SMTT(30), <1>0 DEF Return, ExitCode, TypeOK
<1>3. TypeOK' /\ QueueInv' /\ HoldInv' /\ FateInv'
  BY <1>1, <1>2 DEF IInv, TypeOK, QueueInv, HoldInv, FateInv, Taken
<1>4. StopInv' /\ GoneInv' /\ SpawnInv' /\ CountInv'
  BY <1>1 DEF IInv, StopInv, GoneInv, LoopEnds, SpawnInv, CountInv, Counted
<1>5. ExitCodeFaithful'
  <2> SUFFICES ASSUME ctxErr = "none" PROVE ExitCodeFaithful'
    BY <1>2 DEF ExitCodeFaithful
  <2>1. /\ \A t \in Tasks : fate[t] \in Executed
        /\ successCount = 0 <=> WithFate({"ok"}) = {}
        /\ failCount = 0 <=> WithFate(Failed) = {}
    <3>1. {successCount, failCount} \subseteq Nat
      BY <1>0 DEF TypeOK
    <3> QED BY <1>1, <3>1, AllExecuted DEF WithFate
  <2>2. \E t \in Tasks : fate[t] = "ok" \/ fate[t] \in Failed
    <3>1. 1 \in Tasks
      OBVIOUS
    <3> QED BY <3>1, <2>1
  <2>3. failCount = 0 => successCount # 0
    BY <2>1, <2>2 DEF WithFate
  <2> QED BY <1>1, <1>2, <2>1, <2>3 DEF ExitCodeFaithful, WithFate
<1>6. ReturnInv'
  BY <1>0, <1>1, <1>2, <1>5 DEF ReturnInv, WaitOver, SpawnInv
<1> QED BY <1>3, <1>4, <1>5, <1>6 DEF IInv

LEMMA CtxEndPreserves == ASSUME IInv, CtxEnd PROVE IInv'
<1>1. /\ UNCHANGED <<genPc, next, tasks, poolPc, spawned, exit, workerPc, held, fate, announced,
                     successCount, failCount, timeoutCount, firstErr, latencies>>
      /\ ctxErr' \in {"canceled", "deadline"} /\ ctxErr = "none" /\ poolPc # "returned"
  BY DEF CtxEnd
<1>2. TypeOK' /\ QueueInv' /\ HoldInv' /\ FateInv'
  BY <1>1 DEF IInv, TypeOK, QueueInv, HoldInv, FateInv, Taken
<1>3. StopInv' /\ GoneInv' /\ SpawnInv' /\ CountInv'
  BY <1>1 DEF IInv, StopInv, GoneInv, LoopEnds, SpawnInv, CountInv, Counted
<1>4. ReturnInv'
  BY <1>1 DEF IInv, TypeOK, ReturnInv, WaitOver, ExitCodeFaithful, WithFate
<1> QED BY <1>2, <1>3, <1>4 DEF IInv

-----------------------------------------------------------------------------
(* The theorems. *)

LEMMA InitIInv == Init => IInv
<1> SUFFICES ASSUME Init PROVE IInv
  OBVIOUS
<1>1. TypeOK
  BY DEF Init, TypeOK
<1>2. QueueInv /\ HoldInv /\ FateInv
  BY DEF Init, QueueInv, HoldInv, FateInv, Taken
<1>3. StopInv /\ GoneInv /\ SpawnInv /\ CountInv
  BY DEF Init, StopInv, GoneInv, SpawnInv, CountInv, Counted
<1>4. ReturnInv
  BY DEF Init, ReturnInv, WaitOver, ExitCodeFaithful
<1> QED BY <1>1, <1>2, <1>3, <1>4 DEF IInv

LEMMA NextIInv == IInv /\ [Next]_vars => IInv'
<1> SUFFICES ASSUME IInv, [Next]_vars PROVE IInv'
  OBVIOUS
<1>1. CASE Generator
  BY <1>1, GenSendPreserves, GenResumePreserves DEF Generator
<1>2. ASSUME NEW w \in Workers, Worker(w) PROVE IInv'
  BY <1>2, ReceivePreserves, SkipPreserves, StartPreserves, ExecutePreserves, AnnouncePreserves,
     CountSuccessPreserves, AppendLatencyPreserves, CountFailurePreserves, ClassifyPreserves,
     WorkerExitPreserves DEF Worker
<1>3. CASE Pool
  BY <1>3, SpawnPreserves, RampPreserves, AllDonePreserves, ReturnPreserves DEF Pool
<1>4. CASE CtxEnd
  BY <1>4, CtxEndPreserves
<1>5. CASE UNCHANGED vars
  <2>1. TypeOK' /\ QueueInv' /\ HoldInv' /\ FateInv'
    BY <1>5 DEF vars, IInv, TypeOK, QueueInv, Taken, HoldInv, FateInv
  <2>2. StopInv' /\ GoneInv' /\ SpawnInv' /\ CountInv'
    BY <1>5 DEF vars, IInv, StopInv, GoneInv, LoopEnds, SpawnInv, CountInv, Counted
  <2>3. ReturnInv'
    BY <1>5 DEF vars, IInv, ReturnInv, WaitOver, ExitCodeFaithful, WithFate
  <2> QED BY <2>1, <2>2, <2>3 DEF IInv
<1> QED BY <1>1, <1>2, <1>3, <1>4, <1>5 DEF Next, Terminated

\* IInv holds in every reachable state of a batch.
THEOREM Invariance == Spec => []IInv
<1> QED BY InitIInv, NextIInv, PTL DEF Spec

\* Every variable of the batch keeps its type.
THEOREM TypeCorrect == Spec => []TypeOK
<1>1. IInv => TypeOK
  BY DEF IInv
<1> QED BY <1>1, Invariance, PTL

\* Exit codes 0, 1 and 2 are given only when every task was executed, and tell
\* whether all, some or none succeeded (RunJobPool, exec.go).
THEOREM ExitCodes == Spec => []ExitCodeFaithful
<1>1. IInv => ExitCodeFaithful
  BY DEF IInv, ReturnInv
<1> QED BY <1>1, Invariance, PTL

\* When RunJobPool returns a report, the generator and all workers have ended and
\* the channel is empty.
THEOREM QuietReturn == Spec => []QuietOnReturn
<1>1. IInv => QuietOnReturn
  <2> SUFFICES ASSUME IInv, exit \notin {Unset, PlainError} PROVE Quiet /\ tasks = <<>>
    BY DEF QuietOnReturn
  <2>1. poolPc = "returned" /\ WaitOver
    BY DEF IInv, ReturnInv, TypeOK
  <2>2. 1 \in Workers
    OBVIOUS
  <2>3. LoopEnds
    BY <2>1, <2>2 DEF IInv, GoneInv, WaitOver
  <2> QED BY <2>1, <2>3 DEF IInv, TypeOK, Quiet, LoopEnds, WaitOver
<1> QED BY <1>1, Invariance, PTL

\* Once the context has ended, no task is executed but those under way.
THEOREM DrainsWithoutExecuting == Spec => NoWorkAfterCtxEnd
<1>1. ASSUME IInv, [Next]_vars, ctxErr # "none" PROVE Committed' \subseteq Committed
  <2>0. TypeOK /\ HoldInv /\ FateInv
    BY <1>1 DEF IInv
  <2> DEFINE Grows(t) == fate'[t] \in Executed /\ fate[t] \notin Executed
             Begins(w) == workerPc'[w] = "run"
  <2>1. ASSUME NEW t \in Tasks, Grows(t) PROVE t \in Committed
    <3>1. PICK w \in Workers : Execute(w) \/ Skip(w)
      BY <2>1, <1>1 DEF Next, Generator, GenResume, GenSend, GenStop, Worker, Receive, Start,
                        Announce, CountSuccess, AppendLatency, CountFailure, Classify, WorkerExit,
                        Pool, Spawn, RampElapsed, RampAborted, AllDone, Return, CtxEnd,
                        Terminated, vars
    <3>2. CASE Execute(w)
      BY <3>2, <2>0, <2>1 DEF Execute, TypeOK, Committed, WithFate
    <3>3. CASE Skip(w)
      BY <3>3, <2>0, <2>1 DEF Skip, TypeOK, FateInv
    <3> QED BY <3>1, <3>2, <3>3
  <2>2. ASSUME NEW w \in Workers, Begins(w) PROVE held'[w] = held[w] /\ workerPc[w] = "run"
    <3>1. CASE UNCHANGED <<workerPc, held>>
      BY <3>1, <2>2
    <3>2. ASSUME NEW v \in Workers, Worker(v) PROVE held'[w] = held[w] /\ workerPc[w] = "run"
      <4>1. CASE v # w
        BY SMTT(30), <3>2, <4>1, <2>0, <2>2 DEF Worker, Receive, Skip, Start, Execute, Announce,
             CountSuccess, AppendLatency, CountFailure, Classify, WorkerExit, Goto, Drop, TypeOK
      <4>2. CASE v = w
        BY SMTT(30), <3>2, <4>2, <1>1, <2>0, <2>2 DEF Worker, Receive, Skip, Start, Execute, Announce,
             CountSuccess, AppendLatency, CountFailure, Classify, WorkerExit, Goto, Drop, TypeOK,
             CtxEnded
      <4> QED BY <4>1, <4>2
    <3>3. CASE Spawn
      BY <3>3, <2>0, <2>2 DEF Spawn, Goto, TypeOK
    <3> QED BY <3>1, <3>2, <3>3, <1>1 DEF Next, Generator, GenResume, GenSend, GenStop, Pool,
              RampElapsed, RampAborted, AllDone, Return, CtxEnd, Terminated, vars
  <2>3. WithFate(Executed)' \subseteq Committed
    BY <2>1 DEF WithFate, Committed
  <2>4. {held[w] : w \in {w \in Workers : workerPc[w] = "run"}}' \subseteq Committed
    BY <2>2 DEF Committed
  <2> QED BY <2>3, <2>4 DEF Committed
<1>2. IInv /\ [Next]_vars => (ctxErr # "none" => Committed' \subseteq Committed)
  BY <1>1
<1> QED BY <1>2, Invariance, PTL DEF Spec, NoWorkAfterCtxEnd

\* Every task sent is in the channel, in the hands of one worker, or settled; no task
\* is lost between the channel and the workers, and none is executed twice.
THEOREM TasksInOnePlace == Spec => []TaskInOnePlace
<1>1. ASSUME IInv, NEW t \in Tasks
      PROVE  LET places == {<<"queue", i>> : i \in {i \in DOMAIN tasks : tasks[i] = t}}
                              \union {<<"worker", w>> : w \in {w \in Workers : held[w] = t}}
             IN  /\ t >= next => places = {} /\ fate[t] = "none"
                 /\ t < next /\ fate[t] = "none" => Cardinality(places) = 1
                 /\ fate[t] # "none" => places \subseteq {<<"worker", w>> : w \in
                                           {w \in Workers : workerPc[w] \in Reporting}}
  <2> DEFINE Queued == {i \in DOMAIN tasks : tasks[i] = t}
             Holders == {w \in Workers : held[w] = t}
             places == {<<"queue", i>> : i \in Queued} \union {<<"worker", w>> : w \in Holders}
  <2>0. /\ TypeOK /\ QueueInv /\ HoldInv /\ FateInv
        /\ Taken \in Nat /\ next \in Nat /\ next - 1 = Taken + Len(tasks) /\ Len(tasks) \in Nat
        /\ DOMAIN tasks = 1 .. Len(tasks)
    BY <1>1 DEF IInv, TypeOK, QueueInv, Taken
  <2>1. \A i \in Queued : t = Taken + i /\ fate[t] = "none" /\ t < next
    BY SMTT(30), <2>0 DEF QueueInv, FateInv, TypeOK
  <2>2. \A w \in Holders : t <= Taken /\ t < next
    <3>1. \A w \in Holders : t <= Taken
      BY <2>0 DEF HoldInv
    <3> QED BY <2>0, <3>1
  <2>3. ASSUME t >= next  PROVE places = {} /\ fate[t] = "none"
    <3>1. Queued = {} /\ Holders = {}
      BY <2>0, <2>1, <2>2, <2>3
    <3>2. fate[t] = "none"
      BY <2>0, <2>3 DEF FateInv
    <3> QED BY <3>1, <3>2, Zenon
  <2>4. ASSUME t < next, fate[t] = "none"  PROVE Cardinality(places) = 1
    <3>1. CASE t > Taken
      <4>1. Holders = {}
        BY <3>1, <2>0, <2>2
      <4>2. t - Taken \in Queued
        <5>1. t - Taken \in 1 .. Len(tasks)
          BY <3>1, <2>0, <2>4
        <5> QED BY <5>1, <2>0 DEF QueueInv
      <4>3. Queued = {t - Taken}
        BY <4>2, <2>0, <2>1
      <4>4. places = {<<"queue", t - Taken>>}
        BY <4>1, <4>3, Zenon
      <4> QED BY <4>4, FS_Singleton
    <3>2. CASE t <= Taken
      <4>1. Queued = {}
        BY <3>2, <2>0, <2>1
      <4>2. PICK w \in Workers : held[w] = t
        BY <3>2, <2>0, <2>4 DEF FateInv
      <4>3. Holders = {w}
        BY <4>2, <2>0 DEF HoldInv
      <4>4. places = {<<"worker", w>>}
        BY <4>1, <4>3, Zenon
      <4> QED BY <4>4, FS_Singleton
    <3> QED BY <3>1, <3>2, <2>0
  <2>5. ASSUME fate[t] # "none"
        PROVE  places \subseteq {<<"worker", w>> : w \in {w \in Workers : workerPc[w] \in Reporting}}
    <3>1. Queued = {}
      BY <2>1, <2>5
    <3>2. Holders \subseteq {w \in Workers : workerPc[w] \in Reporting}
      BY <2>0, <2>5 DEF HoldInv, FateInv
    <3> QED BY <3>1, <3>2
  <2> QED BY <2>3, <2>4, <2>5
<1>2. IInv => TaskInOnePlace
  BY <1>1, Zenon DEF TaskInOnePlace
<1> QED BY <1>2, Invariance, PTL

-----------------------------------------------------------------------------
(* The report.  While workers run, each of its fields is about the tasks     *)
(* whose worker is past the statement that writes it.                        *)

Announced(t) == \A w \in Workers : held[w] = t => workerPc[w] # "announce"
LetGo(t)     == \A w \in Workers : held[w] # t

CountedWith(S) == {t \in Tasks : fate[t] \in S /\ Counted(t)}
SettledWith(S) == {t \in Tasks : fate[t] \in S /\ LetGo(t)}

ReportInv ==
    /\ announced = {t \in Tasks : fate[t] \in Executed /\ Announced(t)}
    /\ successCount = Cardinality(CountedWith({"ok"}))
    /\ failCount = Cardinality(CountedWith(Failed))
    /\ timeoutCount = Cardinality(SettledWith({"timeout"}))
    /\ latencies = Cardinality(SettledWith({"ok"}))
    /\ IF SettledWith(Failed) = {} THEN firstErr = NoTask ELSE firstErr \in SettledWith(Failed)

\* One more task makes a set of tasks larger by one.
LEMMA OneMore ==
    ASSUME NEW S \in SUBSET Tasks, NEW t \in Tasks, t \notin S
    PROVE  Cardinality(S \union {t}) = Cardinality(S) + 1
<1>1. IsFiniteSet(Tasks)
  BY FS_Interval
<1>2. IsFiniteSet(S)
  BY <1>1, FS_Subset
<1> QED BY <1>2, FS_AddElement

\* A worker that has no executed task in hands, or executes one just now, changes
\* nothing about the report.
LEMMA ReportFrame ==
    ASSUME ReportInv, NEW w \in Workers, UNCHANGED resultVars,
           \A v \in Workers : v # w => held'[v] = held[v] /\ workerPc'[v] = workerPc[v],
           \A t \in Tasks : fate[t] \in Executed =>
             fate'[t] = fate[t] /\ held[w] # t /\ held'[w] # t,
           \A t \in Tasks : fate'[t] \in Executed /\ fate[t] \notin Executed =>
             held'[w] = t /\ workerPc'[w] = "announce"
    PROVE  ReportInv'
<1>1. \A t \in Tasks : fate[t] \in Executed =>
        (Counted(t)' <=> Counted(t)) /\ (LetGo(t)' <=> LetGo(t)) /\ (Announced(t)' <=> Announced(t))
  BY DEF Counted, LetGo, Announced
<1>2. \A t \in Tasks : fate'[t] \in Executed /\ fate[t] \notin Executed =>
        ~Counted(t)' /\ ~LetGo(t)' /\ ~Announced(t)'
  BY DEF Counted, LetGo, Announced
<1>3. ASSUME NEW S \in SUBSET Executed
      PROVE  CountedWith(S)' = CountedWith(S) /\ SettledWith(S)' = SettledWith(S)
  <2>1. \A t \in Tasks : fate'[t] \in S /\ Counted(t)' <=> fate[t] \in S /\ Counted(t)
    BY <1>1, <1>2
  <2>2. \A t \in Tasks : fate'[t] \in S /\ LetGo(t)' <=> fate[t] \in S /\ LetGo(t)
    BY <1>1, <1>2
  <2> QED BY <2>1, <2>2 DEF CountedWith, SettledWith
<1>4. {t \in Tasks : fate[t] \in Executed /\ Announced(t)}'
        = {t \in Tasks : fate[t] \in Executed /\ Announced(t)}
  BY <1>1, <1>2
<1>5. {"ok"} \subseteq Executed /\ {"timeout"} \subseteq Executed /\ Failed \subseteq Executed
  OBVIOUS
<1> QED BY <1>3, <1>4, <1>5 DEF ReportInv

\* A worker holds an executed task when it writes a field, and goes on to the next one.
LEMMA WriterFacts ==
    ASSUME IInv, NEW w \in Workers, workerPc[w] \in Reporting
    PROVE  /\ held[w] \in Tasks /\ fate[held[w]] \in Executed
           /\ \A v \in Workers : v # w => held[v] # held[w]
BY DEF IInv, TypeOK, HoldInv, FateInv

LEMMA AnnounceReports == ASSUME IInv, ReportInv, NEW w \in Workers, Announce(w) PROVE ReportInv'
<1>1. TypeOK /\ workerPc[w] = "announce" /\ workerPc' = [workerPc EXCEPT ![w] = "record"]
  BY DEF IInv, Announce, Goto
<1>2. /\ held[w] \in Tasks /\ fate[held[w]] \in Executed
      /\ \A v \in Workers : v # w => held[v] # held[w]
  BY <1>1, WriterFacts
<1>3. /\ CountedWith({"ok"})' = CountedWith({"ok"})
      /\ CountedWith(Failed)' = CountedWith(Failed)
  BY <1>1 DEF Announce, CountedWith, Counted, TypeOK
<1>4. \A S : SettledWith(S)' = SettledWith(S)
  BY DEF Announce, SettledWith, LetGo
<1>5. {t \in Tasks : fate[t] \in Executed /\ Announced(t)}'
        = {t \in Tasks : fate[t] \in Executed /\ Announced(t)} \union {held[w]}
  BY SMTT(30), <1>1, <1>2 DEF Announce, Announced, TypeOK
<1> QED BY <1>3, <1>4, <1>5 DEF ReportInv, Announce

LEMMA CountReports ==
    ASSUME IInv, ReportInv, NEW w \in Workers, CountSuccess(w) \/ CountFailure(w)
    PROVE  ReportInv'
<1> DEFINE t == held[w]
<1>1. /\ TypeOK /\ workerPc[w] = "record" /\ held' = held /\ fate' = fate
      /\ \E pc \in {"sample", "classify"} : workerPc' = [workerPc EXCEPT ![w] = pc]
  BY DEF IInv, CountSuccess, CountFailure, Goto
<1>2. t \in Tasks /\ \A v \in Workers : v # w => held[v] # t
  BY <1>1, WriterFacts
<1>3. /\ \A u \in Tasks : u # t => (Counted(u)' <=> Counted(u))
      /\ ~Counted(t) /\ Counted(t)'
  BY <1>1, <1>2 DEF Counted, TypeOK
<1>4. ASSUME NEW S, fate[t] \in S
      PROVE  Cardinality(CountedWith(S)') = Cardinality(CountedWith(S)) + 1
  <2>1. CountedWith(S)' = CountedWith(S) \union {t}
    BY <1>1, <1>2, <1>3, <1>4 DEF CountedWith
  <2>2. t \notin CountedWith(S)
    BY <1>3 DEF CountedWith
  <2> QED BY <2>1, <2>2, <1>2, OneMore DEF CountedWith
<1>5. ASSUME NEW S, fate[t] \notin S  PROVE CountedWith(S)' = CountedWith(S)
  BY <1>1, <1>2, <1>3, <1>5 DEF CountedWith
<1>6. \A S : SettledWith(S)' = SettledWith(S)
  BY <1>1 DEF SettledWith, LetGo
<1>7. {u \in Tasks : fate[u] \in Executed /\ Announced(u)}'
        = {u \in Tasks : fate[u] \in Executed /\ Announced(u)}
  BY <1>1 DEF Announced, TypeOK
<1>8. CASE CountSuccess(w)
  BY <1>8, <1>4, <1>5, <1>6, <1>7 DEF ReportInv, CountSuccess
<1>9. CASE CountFailure(w)
  BY <1>9, <1>4, <1>5, <1>6, <1>7 DEF ReportInv, CountFailure
<1> QED BY <1>8, <1>9

LEMMA LetGoReports ==
    ASSUME IInv, ReportInv, NEW w \in Workers, AppendLatency(w) \/ Classify(w)
    PROVE  ReportInv'
<1>0. PICK t \in Tasks : t = held[w]
  BY WriterFacts DEF AppendLatency, Classify
<1>1. /\ TypeOK /\ workerPc[w] \in {"sample", "classify"} /\ fate' = fate
      /\ held' = [held EXCEPT ![w] = NoTask] /\ workerPc' = [workerPc EXCEPT ![w] = "range"]
  BY DEF IInv, AppendLatency, Classify, Goto, Drop
<1>2. \A v \in Workers : v # w => held[v] # t
  BY <1>0, <1>1, WriterFacts
<1>3. /\ \A u \in Tasks : u # t => (LetGo(u)' <=> LetGo(u))
      /\ ~LetGo(t) /\ LetGo(t)'
  BY SMTT(30), <1>0, <1>1, <1>2 DEF LetGo, TypeOK
<1>4. \A u \in Tasks : (Counted(u)' <=> Counted(u)) /\ (Announced(u)' <=> Announced(u))
  <2>1. \A v \in Workers : v # w => held'[v] = held[v] /\ workerPc'[v] = workerPc[v]
    BY <1>1 DEF TypeOK
  <2>2. /\ held'[w] = NoTask /\ workerPc'[w] = "range"
        /\ workerPc[w] \notin {"announce", "record"}
    BY <1>1 DEF TypeOK
  <2> QED BY <2>1, <2>2 DEF Counted, Announced
<1>5. ASSUME NEW S, fate[t] \in S
      PROVE  /\ SettledWith(S)' = SettledWith(S) \union {t}
             /\ Cardinality(SettledWith(S)') = Cardinality(SettledWith(S)) + 1
  <2>1. SettledWith(S)' = SettledWith(S) \union {t}
    BY <1>1, <1>2, <1>3, <1>5 DEF SettledWith
  <2>2. t \notin SettledWith(S)
    BY <1>3 DEF SettledWith
  <2> QED BY <2>1, <2>2, <1>2, OneMore DEF SettledWith
<1>6. ASSUME NEW S, fate[t] \notin S  PROVE SettledWith(S)' = SettledWith(S)
  BY <1>1, <1>2, <1>3, <1>6 DEF SettledWith
<1>7. /\ \A S : CountedWith(S)' = CountedWith(S)
      /\ {u \in Tasks : fate[u] \in Executed /\ Announced(u)}'
           = {u \in Tasks : fate[u] \in Executed /\ Announced(u)}
  BY <1>1, <1>4 DEF CountedWith
<1>8. CASE AppendLatency(w)
  <2>1. fate[t] = "ok"
    BY <1>0, <1>8 DEF AppendLatency, IInv, FateInv
  <2> QED BY <1>8, <2>1, <1>5, <1>6, <1>7 DEF ReportInv, AppendLatency
<1>9. CASE Classify(w)
  <2>1. fate[t] \in Failed
    BY <1>0, <1>9 DEF Classify, IInv, FateInv
  <2>2. /\ firstErr' = IF firstErr = NoTask THEN t ELSE firstErr
        /\ SettledWith(Failed)' = SettledWith(Failed) \union {t}
    BY <1>0, <1>9, <2>1, <1>5 DEF Classify, StoredErr
  <2>3. IF SettledWith(Failed)' = {} THEN firstErr' = NoTask ELSE firstErr' \in SettledWith(Failed)'
    BY <2>2 DEF ReportInv
  <2>4. timeoutCount' = Cardinality(SettledWith({"timeout"})')
    BY <1>0, <1>9, <1>5, <1>6 DEF Classify, ReportInv
  <2> QED BY <1>9, <2>1, <2>3, <2>4, <1>6, <1>7 DEF ReportInv, Classify
<1> QED BY <1>8, <1>9

\* The steps that write no field of the report.
LEMMA OthersReport ==
    ASSUME IInv, ReportInv, NEW w \in Workers,
           Receive(w) \/ Skip(w) \/ Start(w) \/ Execute(w) \/ WorkerExit(w)
    PROVE  ReportInv'
<1>1. TypeOK /\ QueueInv /\ HoldInv /\ FateInv
  BY DEF IInv
<1>2. CASE Receive(w)
  <2>1. Head(tasks) \in Tasks /\ Head(tasks) = Taken + 1 /\ Taken \in Nat
    BY SMTT(30), <1>1, <1>2 DEF Receive, QueueInv, TypeOK
  <2>2. fate[Head(tasks)] = "none" /\ held[w] = NoTask
    BY <1>1, <1>2, <2>1 DEF Receive, FateInv, HoldInv
  <2>3. /\ UNCHANGED resultVars /\ fate' = fate /\ held'[w] = Head(tasks)
        /\ \A v \in Workers : v # w => held'[v] = held[v] /\ workerPc'[v] = workerPc[v]
    BY <1>1, <1>2 DEF Receive, Goto, TypeOK
  <2> QED BY <2>1, <2>2, <2>3, ReportFrame
<1>3. CASE Skip(w) \/ Start(w) \/ Execute(w)
  <2>1. held[w] \in Tasks /\ fate[held[w]] = "none"
    BY <1>1, <1>3 DEF Skip, Start, Execute, HoldInv, FateInv, TypeOK
  <2>2. CASE Skip(w)
    <3>1. /\ UNCHANGED resultVars /\ held'[w] = NoTask
          /\ \A v \in Workers : v # w => held'[v] = held[v] /\ workerPc'[v] = workerPc[v]
          /\ \A t \in Tasks : fate'[t] = IF t = held[w] THEN "skip" ELSE fate[t]
      BY <1>1, <2>2 DEF Skip, Goto, Drop, TypeOK
    <3> QED BY <2>1, <3>1, ReportFrame
  <2>3. CASE Start(w)
    <3>1. /\ UNCHANGED <<resultVars, held, fate>>
          /\ \A v \in Workers : v # w => workerPc'[v] = workerPc[v]
      BY <1>1, <2>3 DEF Start, Goto, TypeOK
    <3> QED BY <2>1, <3>1, ReportFrame
  <2>4. CASE Execute(w)
    BY SMTT(30), <1>1, <2>1, <2>4, ReportFrame DEF Execute, Goto, TypeOK
  <2> QED BY <1>3, <2>2, <2>3, <2>4
<1>4. CASE WorkerExit(w)
  <2>1. held[w] = NoTask
    BY <1>1, <1>4 DEF WorkerExit, HoldInv
  <2> QED BY <1>1, <1>4, <2>1, ReportFrame DEF WorkerExit, Goto, TypeOK
<1> QED BY <1>2, <1>3, <1>4

\* ReportInv holds in every reachable state of a batch.
THEOREM ReportInvariance == Spec => []ReportInv
<1>1. Init => ReportInv
  <2> SUFFICES ASSUME Init PROVE ReportInv
    OBVIOUS
  <2>1. \A S \in {{"ok"}, {"timeout"}, Failed} : CountedWith(S) = {} /\ SettledWith(S) = {}
    BY DEF Init, CountedWith, SettledWith
  <2> QED BY <2>1, FS_EmptySet DEF Init, ReportInv
<1>2. ASSUME IInv, ReportInv, [Next]_vars  PROVE ReportInv'
  <2>1. ASSUME NEW w \in Workers, Worker(w)  PROVE ReportInv'
    BY <2>1, <1>2, AnnounceReports, CountReports, LetGoReports, OthersReport DEF Worker
  <2>2. CASE Spawn
    <3>1. spawned + 1 \in Workers /\ workerPc[spawned + 1] = "unborn"
      BY <2>2, <1>2 DEF Spawn, IInv, SpawnInv, TypeOK
    <3>2. held[spawned + 1] = NoTask
      BY <3>1, <1>2 DEF IInv, HoldInv
    <3>3. /\ UNCHANGED <<held, fate, resultVars>>
          /\ \A v \in Workers : v # spawned + 1 => workerPc'[v] = workerPc[v]
      BY <2>2, <1>2 DEF Spawn, Goto, IInv, TypeOK
    <3> QED BY <3>1, <3>2, <3>3, <1>2, ReportFrame
  <2>3. CASE UNCHANGED <<held, fate, workerPc, resultVars>>
    <3>1. /\ \A S : CountedWith(S)' = CountedWith(S) /\ SettledWith(S)' = SettledWith(S)
          /\ \A t \in Tasks : Announced(t)' <=> Announced(t)
      BY <2>3 DEF CountedWith, SettledWith, Counted, LetGo, Announced
    <3> QED BY <2>3, <3>1, <1>2 DEF ReportInv
  <2> QED BY <2>1, <2>2, <2>3, <1>2 DEF Next, Generator, GenResume, GenSend, GenStop, Pool,
             RampElapsed, RampAborted, AllDone, Return, CtxEnd, Terminated, vars
<1>3. IInv /\ ReportInv /\ [Next]_vars => ReportInv'
  BY <1>2
<1> QED BY <1>1, <1>3, Invariance, PTL DEF Spec

\* When RunJobPool returns a report, its counters, latencies, first error and the
\* announced results agree with what was executed: the workers are gone by then.
THEOREM ReportIsExact == Spec => []ReportExact
<1>1. IInv /\ ReportInv => ReportExact
  <2> SUFFICES ASSUME IInv, ReportInv, exit \notin {Unset, PlainError}  PROVE ReportExact
    BY DEF ReportExact
  <2>1. WaitOver /\ \A w \in Workers : held[w] = NoTask
    BY ZenonT(30) DEF IInv, TypeOK, ReturnInv, HoldInv, WaitOver
  <2>2. \A t \in Tasks : Counted(t) /\ LetGo(t) /\ Announced(t)
    BY <2>1 DEF Counted, LetGo, Announced
  <2>3. /\ \A S : CountedWith(S) = WithFate(S) /\ SettledWith(S) = WithFate(S)
        /\ {t \in Tasks : fate[t] \in Executed /\ Announced(t)} = WithFate(Executed)
    BY <2>2 DEF CountedWith, SettledWith, WithFate
  <2>4. Cardinality(WithFate(Failed)) = 0 <=> WithFate(Failed) = {}
    <3>0. IsFiniteSet(1 .. NumTasks)
      BY FS_Interval
    <3>1. IsFiniteSet(Tasks) /\ WithFate(Failed) \subseteq Tasks
      BY <3>0 DEF WithFate
    <3>2. IsFiniteSet(WithFate(Failed))
      BY <3>1, FS_Subset
    <3> QED BY <3>2, FS_EmptySet
  <2> QED BY <2>3, <2>4 DEF ReportInv, ReportExact
<1> QED BY <1>1, Invariance, ReportInvariance, PTL

-----------------------------------------------------------------------------
(* JobPool implements Batch. *)

Outcomes == [t \in Tasks |-> Outcome(fate[t])]

\* An execution or a skip is the end of one task; the others keep their outcome.
LEMMA FinishStep ==
  ASSUME IInv, NEW w \in Workers, Skip(w) \/ Execute(w)
  PROVE  B!Next
<1>0. TypeOK /\ HoldInv /\ FateInv /\ ReturnInv
  BY DEF IInv
<1> DEFINE t == held[w]
<1>1. /\ workerPc[w] \in {"check", "run"} /\ t \in Tasks /\ fate[t] = "none"
      /\ ctxErr' = ctxErr /\ exit' = exit
  BY <1>0 DEF Skip, Execute, HoldInv, FateInv, TypeOK
<1>2. PICK f \in Executed \union {"skip"} :
        fate' = [fate EXCEPT ![t] = f] /\ (f = "skip" => ctxErr # "none")
  BY DEF Skip, CtxEnded, Execute
<1>3. Verdict \in {"none", "interrupted"} /\ Verdict' = Verdict
  <2>1. exit \notin {0, 1, 2}
    BY <1>0, <1>1 DEF ReturnInv, WaitOver
  <2> QED BY <2>1, <1>0, <1>1 DEF Verdict, TypeOK
<1>4. /\ Outcomes' = [Outcomes EXCEPT ![t] = Outcome(f)]
      /\ Outcomes[t] = "todo"
  <2>1. \A u \in Tasks : fate'[u] = IF u = t THEN f ELSE fate[u]
    BY <1>0, <1>2 DEF TypeOK
  <2>2. Outcomes' = [u \in Tasks |-> IF u = t THEN Outcome(f) ELSE Outcome(fate[u])]
    BY <2>1, Zenon DEF Outcomes
  <2>3. Outcomes[t] = Outcome("none")
    BY <1>1 DEF Outcomes
  <2>4. Outcomes[t] = "todo"
    BY <2>3 DEF Outcome
  <2> QED BY <1>1, <2>2, <2>4 DEF Outcomes
<1>5. Outcome(f) \in {"ok", "fail", "dropped"} /\ (Outcome(f) = "dropped" => ctxErr # "none")
  BY <1>2 DEF Outcome
<1>6. B!Finish(t)
  BY <1>1, <1>3, <1>4, <1>5 DEF B!Finish, Outcomes
<1> QED BY <1>1, <1>6 DEF B!Next

LEMMA ConcludeStep == ASSUME IInv, RampAborted \/ Return PROVE B!Next
<1>0. TypeOK /\ ReturnInv
  BY DEF IInv
<1>1. /\ Outcomes' = Outcomes /\ ctxErr' = ctxErr /\ exit = Unset /\ Verdict = "none"
      /\ ctxErr = "none" => WaitOver /\ Return
  BY <1>0 DEF RampAborted, Return, ReturnInv, Outcomes, Verdict
<1>2. CASE ctxErr # "none"
  <2>1. Verdict' = "interrupted"
    BY SMTT(30), <1>0, <1>2 DEF RampAborted, Return, ExitCode, Verdict, TypeOK
  <2> QED BY <1>1, <1>2, <2>1 DEF B!Next, B!ConcludeInterrupted, Outcomes
<1>3. CASE ctxErr = "none"
  <2>1. /\ \A t \in Tasks : fate[t] \in Executed
        /\ successCount > 0 <=> \E t \in Tasks : fate[t] = "ok"
        /\ failCount > 0 <=> \E t \in Tasks : fate[t] \in Failed
    BY <1>1, <1>3, AllExecuted
  <2>2. \A t \in Tasks : /\ Outcomes[t] \in {"ok", "fail"}
                         /\ Outcomes[t] = "ok" <=> fate[t] = "ok"
                         /\ Outcomes[t] = "fail" <=> fate[t] \in Failed
    BY <2>1 DEF Outcomes, Outcome
  <2>3. /\ failCount = 0 <=> \A t \in Tasks : Outcomes[t] = "ok"
        /\ successCount = 0 <=> \A t \in Tasks : Outcomes[t] = "fail"
    <3>1. {successCount, failCount} \subseteq Nat
      BY <1>0 DEF TypeOK
    <3> QED BY <2>1, <2>2, <3>1
  <2>4. exit' = IF failCount = 0 THEN 0 ELSE IF successCount = 0 THEN 2 ELSE 1
    BY <1>1, <1>3 DEF Return, ExitCode
  <2>5. Verdict' = IF \A t \in Tasks : Outcomes[t] = "ok" THEN "success"
                   ELSE IF \A t \in Tasks : Outcomes[t] = "fail" THEN "failure" ELSE "partial"
    BY <2>3, <2>4 DEF Verdict
  <2>6. B!Conclude
    BY <1>1, <1>3, <2>2, <2>5 DEF B!Conclude, B!Judged, Outcomes
  <2> QED BY <2>6 DEF B!Next
<1> QED BY <1>2, <1>3

\* The pool implements the batch: tasks end once, are dropped only when the
\* context has ended, and the exit code speaks for all of them.
THEOREM Implementation == Spec => ImplementsBatch
<1>1. Init => B!Init
  BY DEF Init, B!Init, Outcome, Verdict
<1>2. IInv /\ [Next]_vars => [B!Next]_B!vars
  <2> SUFFICES ASSUME IInv, [Next]_vars PROVE B!Next \/ UNCHANGED B!vars
    OBVIOUS
  <2>1. ASSUME NEW w \in Workers, Skip(w) \/ Execute(w) PROVE B!Next
    BY <2>1, FinishStep
  <2>2. CASE RampAborted \/ Return
    BY <2>2, ConcludeStep
  <2>3. CASE CtxEnd
    <3>1. exit = Unset /\ exit' = exit /\ fate' = fate /\ ctxErr' # "none"
      BY <2>3 DEF CtxEnd, IInv, ReturnInv
    <3> QED BY <3>1 DEF B!Next, B!Interrupt, Verdict
  <2>4. CASE UNCHANGED <<fate, ctxErr, exit>>
    BY <2>4 DEF B!vars, Verdict, Outcome
  <2>5. \/ \E w \in Workers : Skip(w) \/ Execute(w)
        \/ RampAborted \/ Return \/ CtxEnd
        \/ UNCHANGED <<fate, ctxErr, exit>>
    BY DEF Next, Generator, GenResume, GenSend, GenStop, Worker, Receive, Start, Announce,
           CountSuccess, AppendLatency, CountFailure, Classify, WorkerExit, Pool, Spawn,
           RampElapsed, AllDone, Terminated, vars
  <2> QED BY <2>1, <2>2, <2>3, <2>4, <2>5
<1> QED BY <1>1, <1>2, Invariance, PTL DEF Spec, ImplementsBatch, B!Spec

-----------------------------------------------------------------------------
(* Why a batch comes to its end, as far as no fairness is needed.  Somebody  *)
(* can always go on, and nobody for ever.                                    *)

\* Who waits for whom: the generator for room in the channel or the end of the context, a
\* worker for a task or the end of the channel, RunJobPool for all the workers.
GeneratorCan == \/ genPc = "pause"
                \/ genPc = "send" /\ (Len(tasks) < Cap \/ CtxEnded)
WorkerCan(w) == \/ workerPc[w] \in {"check", "run"} \union Reporting
                \/ workerPc[w] = "range" /\ (tasks # <<>> \/ LoopEnds)
PoolCan      == \/ poolPc \in {"spawn", "ramp", "report"}
                \/ poolPc = "wait" /\ WaitOver

\* No deadlock: until the batch is over, a goroutine of it can go on, also when RunJobPool
\* has left some of the workers behind.
NeverStuck == Quiet \/ GeneratorCan \/ PoolCan \/ \E w \in Workers : WorkerCan(w)

\* RunJobPool starts a worker before it does anything else, so the generator always has
\* somebody to take what it sends.
StartedInv == poolPc # "spawn" => 1 <= spawned

LEMMA StartedPreserved == ASSUME IInv, StartedInv, [Next]_vars PROVE StartedInv'
<1>1. CASE Spawn
  <2>1. spawned \in Nat /\ spawned' = spawned + 1  BY <1>1 DEF IInv, TypeOK, Spawn
  <2> QED BY <2>1 DEF StartedInv
<1>2. CASE ~Spawn
  <2>1. spawned' = spawned /\ (poolPc' # "spawn" => poolPc # "spawn")
    BY <1>2 DEF Next, Generator, GenResume, GenSend, GenStop, Worker, Receive, Skip, Start,
       Execute, Announce, CountSuccess, AppendLatency, CountFailure, Classify, WorkerExit, Pool,
       RampElapsed, RampAborted, AllDone, Return, CtxEnd, Terminated, vars
  <2> QED BY <2>1 DEF StartedInv
<1> QED BY <1>1, <1>2

\* No batch deadlocks, and no generator or worker is left blocked on the channel behind a
\* pool that returned early (startTaskGenerator, generateTasks and RunJobPool together).
THEOREM PoolNeverStuck == Spec => []NeverStuck
<1>1. IInv /\ StartedInv => NeverStuck
  <2> SUFFICES ASSUME IInv, StartedInv, ~GeneratorCan, ~PoolCan,
                      \A w \in Workers : ~WorkerCan(w)
               PROVE  Quiet
    BY DEF NeverStuck
  <2>1. /\ poolPc \in {"wait", "returned"} /\ (poolPc = "wait" => ~WaitOver)
        /\ 1 \in Workers /\ 1 <= spawned /\ spawned \in 0 .. NumWorkers
        /\ genPc \in {"send", "done"} /\ (genPc = "send" => Len(tasks) >= Cap)
    BY DEF IInv, TypeOK, PoolCan, GeneratorCan, StartedInv
  <2>2. \A w \in 1 .. spawned : workerPc[w] = "gone" \/ (workerPc[w] = "range" /\ genPc = "send")
    <3> SUFFICES ASSUME NEW w \in 1 .. spawned
                 PROVE  workerPc[w] = "gone" \/ (workerPc[w] = "range" /\ genPc = "send")
      OBVIOUS
    <3>1. w \in Workers /\ workerPc[w] # "unborn"  BY <2>1 DEF IInv, SpawnInv
    <3>2. workerPc[w] \in {"range", "gone"}  BY <3>1 DEF WorkerCan, IInv, TypeOK
    <3>3. CASE workerPc[w] = "range"
      <4>1. tasks = <<>> /\ ~LoopEnds  BY <3>1, <3>3 DEF WorkerCan
      <4> QED BY <2>1, <3>3, <4>1 DEF LoopEnds
    <3> QED BY <3>2, <3>3
  <2>3. genPc = "done"
    <3>1. CASE workerPc[1] = "gone"
      BY <2>1, <3>1 DEF IInv, GoneInv, LoopEnds
    <3>2. CASE workerPc[1] = "range"
      <4>1. tasks = <<>>  BY <2>1, <3>2 DEF WorkerCan
      <4>2. Len(tasks) < Cap  BY <4>1
      <4> QED BY <2>1, <4>2 DEF IInv, TypeOK
    <3> QED BY <2>1, <2>2, <3>1, <3>2
  <2>4. \A w \in 1 .. spawned : workerPc[w] = "gone"  BY <2>2, <2>3
  <2>5. poolPc = "returned"
    <3>1. poolPc = "wait" => spawned = NumWorkers  BY DEF IInv, SpawnInv
    <3> QED BY <2>1, <2>4, <3>1 DEF WaitOver
  <2> QED BY <2>3, <2>4, <2>5 DEF Quiet
<1>2. Init => StartedInv  BY DEF Init, StartedInv
<1>3. IInv /\ StartedInv /\ [Next]_vars => StartedInv'  BY StartedPreserved
<1> QED BY <1>1, <1>2, <1>3, Invariance, PTL DEF Spec

\* What is left to do: for the generator the tasks not sent, for a worker the tasks that
\* nobody has received, for RunJobPool the workers not started, and where each stands.
GenRank(pc)    == CASE pc = "pause" -> 2 [] pc = "send" -> 1 [] pc = "done" -> 0
WorkerRank(pc) == CASE pc = "unborn" -> 9 [] pc = "check" -> 8 [] pc = "run" -> 7
                    [] pc = "announce" -> 6 [] pc = "record" -> 5
                    [] pc \in {"sample", "classify"} -> 4 [] pc = "range" -> 1 [] pc = "gone" -> 0
PoolRank(pc)   == CASE pc = "ramp" -> 4 [] pc = "spawn" -> 3 [] pc = "wait" -> 2
                    [] pc = "report" -> 1 [] pc = "returned" -> 0

GeneratorLeft == 3 * (NumTasks + 1 - next) + GenRank(genPc)
WorkerLeft(w) == 10 * (NumTasks - Taken) + WorkerRank(workerPc[w])
PoolLeft      == 5 * (NumWorkers - spawned) + PoolRank(poolPc)

LeftTypeOK == /\ GeneratorLeft \in Nat /\ PoolLeft \in Nat
              /\ \A w \in Workers : WorkerLeft(w) \in Nat

\* A step of a goroutine lowers what is left for it, and no step raises what is left for
\* anybody: none can do more steps than it has left.
StepCounts ==
    /\ Generator => GeneratorLeft' < GeneratorLeft
    /\ GeneratorLeft' <= GeneratorLeft
    /\ Pool => PoolLeft' < PoolLeft
    /\ PoolLeft' <= PoolLeft
    /\ \A w \in Workers : /\ Worker(w) => WorkerLeft(w)' < WorkerLeft(w)
                          /\ WorkerLeft(w)' <= WorkerLeft(w)

EveryStepCounts == [][StepCounts]_vars

LEMMA LeftTyped == ASSUME IInv PROVE LeftTypeOK
<1>0. TypeOK /\ Taken \in Nat  BY DEF IInv, QueueInv
<1>1. NumTasks + 1 - next \in Nat /\ GenRank(genPc) \in Nat  BY SMTT(30), <1>0 DEF TypeOK, GenRank
<1>2. NumWorkers - spawned \in Nat /\ PoolRank(poolPc) \in Nat
  BY SMTT(30), <1>0 DEF TypeOK, PoolRank
<1>3. NumTasks - Taken \in Nat  BY <1>0 DEF TypeOK, Taken
<1>4. ASSUME NEW w \in Workers PROVE WorkerRank(workerPc[w]) \in Nat
  <2>1. workerPc[w] \in {"unborn", "range", "check", "run", "gone"} \union Reporting
    BY <1>0 DEF TypeOK
  <2> QED BY <2>1 DEF WorkerRank
<1> QED BY <1>1, <1>2, <1>3, <1>4 DEF LeftTypeOK, GeneratorLeft, WorkerLeft, PoolLeft

\* The steps of the generator and of RunJobPool lower what is left for them.
LEMMA RoundsCount ==
    ASSUME IInv, [Next]_vars
    PROVE  /\ Generator => GeneratorLeft' < GeneratorLeft
           /\ GeneratorLeft' <= GeneratorLeft
           /\ Pool => PoolLeft' < PoolLeft
           /\ PoolLeft' <= PoolLeft
<1>0. TypeOK  BY DEF IInv
<1>1. next \in Nat /\ spawned \in Nat  BY <1>0 DEF TypeOK
<1>2. LeftTypeOK  BY LeftTyped
<1>3. CASE Generator
  <2>1. GeneratorLeft' < GeneratorLeft /\ GeneratorLeft' \in Int
    <3>1. CASE GenSend
      <4>1. next' = next + 1 /\ genPc = "send" /\ genPc' \in {"pause", "send", "done"}
        BY <3>1 DEF GenSend, GenStage
      <4>2. GenRank(genPc) = 1 /\ GenRank(genPc') \in 0 .. 2  BY <4>1 DEF GenRank
      <4> QED BY <1>1, <4>1, <4>2 DEF GeneratorLeft
    <3>2. CASE GenResume \/ GenStop
      <4>1. /\ next' = next
            /\ \/ genPc = "pause" /\ genPc' = "send"
               \/ genPc \in {"pause", "send"} /\ genPc' = "done"
        BY <3>2 DEF GenResume, GenStop, GenStopped
      <4>2. GenRank(genPc') < GenRank(genPc) /\ GenRank(genPc) \in Nat /\ GenRank(genPc') \in Nat
        BY <4>1 DEF GenRank
      <4> QED BY <1>1, <4>1, <4>2 DEF GeneratorLeft
    <3> QED BY <1>3, <3>1, <3>2 DEF Generator
  <2>2. PoolLeft' = PoolLeft
    BY <1>3 DEF Generator, GenSend, GenResume, GenStop, PoolLeft
  <2>3. ~Pool
    <3>1. genPc' # genPc \/ next' # next
      BY <1>1, <1>3 DEF Generator, GenSend, GenResume, GenStop, GenStopped
    <3> QED BY <3>1 DEF Pool, Spawn, RampElapsed, RampAborted, AllDone, Return
  <2> QED BY <1>2, <2>1, <2>2, <2>3 DEF LeftTypeOK
<1>4. CASE Pool
  <2>1. PoolLeft' < PoolLeft /\ PoolLeft' \in Int
    <3>1. CASE Spawn
      <4>1. spawned' = spawned + 1 /\ poolPc = "spawn" /\ poolPc' \in {"wait", "ramp", "spawn"}
        BY <3>1 DEF Spawn
      <4>2. PoolRank(poolPc) = 3 /\ PoolRank(poolPc') \in 2 .. 4  BY <4>1 DEF PoolRank
      <4> QED BY <1>1, <4>1, <4>2 DEF PoolLeft
    <3>2. CASE RampElapsed \/ RampAborted \/ AllDone \/ Return
      <4>1. /\ spawned' = spawned
            /\ \/ poolPc = "ramp" /\ poolPc' \in {"spawn", "returned"}
               \/ poolPc = "wait" /\ poolPc' = "report"
               \/ poolPc = "report" /\ poolPc' = "returned"
        BY <3>2 DEF RampElapsed, RampAborted, AllDone, Return
      <4>2. PoolRank(poolPc') < PoolRank(poolPc) /\ PoolRank(poolPc) \in Nat
            /\ PoolRank(poolPc') \in Nat
        BY <4>1 DEF PoolRank
      <4> QED BY <1>1, <4>1, <4>2 DEF PoolLeft
    <3> QED BY <1>4, <3>1, <3>2 DEF Pool
  <2>2. GeneratorLeft' = GeneratorLeft
    BY <1>4 DEF Pool, Spawn, RampElapsed, RampAborted, AllDone, Return, GeneratorLeft
  <2>3. ~Generator
    <3>1. genPc' = genPc /\ next' = next
      BY <1>4 DEF Pool, Spawn, RampElapsed, RampAborted, AllDone, Return
    <3> QED BY <1>1, <3>1 DEF Generator, GenSend, GenResume, GenStop, GenStopped
  <2> QED BY <1>2, <2>1, <2>2, <2>3 DEF LeftTypeOK
<1>5. CASE ~Generator /\ ~Pool
  <2>1. UNCHANGED <<genPc, next, poolPc, spawned>>
    BY <1>5 DEF Next, Worker, Receive, Skip, Start, Execute, Announce, CountSuccess,
       AppendLatency, CountFailure, Classify, WorkerExit, CtxEnd, Terminated, vars
  <2>2. GeneratorLeft' = GeneratorLeft /\ PoolLeft' = PoolLeft
    BY <2>1 DEF GeneratorLeft, PoolLeft
  <2> QED BY <1>2, <1>5, <2>2 DEF LeftTypeOK
<1> QED BY <1>3, <1>4, <1>5

\* A worker's step lowers what is left for it, and does not raise it for the others.
LEMMA WorkCounts ==
    ASSUME IInv, NEW w \in Workers, Worker(w)
    PROVE  /\ WorkerLeft(w)' < WorkerLeft(w)
           /\ \A v \in Workers : WorkerLeft(v)' <= WorkerLeft(v)
<1>0. /\ TypeOK /\ Taken \in Int
      /\ workerPc \in [Workers -> {"unborn", "range", "check", "run", "gone"} \union Reporting]
  BY SMTT(30) DEF IInv, TypeOK, QueueInv
<1>1. \A v \in Workers : WorkerRank(workerPc[v]) \in Nat
  <2> SUFFICES ASSUME NEW v \in Workers PROVE WorkerRank(workerPc[v]) \in Nat  OBVIOUS
  <2>1. workerPc[v] \in {"unborn", "range", "check", "run", "gone"} \union Reporting
    BY <1>0
  <2> QED BY <2>1 DEF WorkerRank
<1>2. \A v \in Workers : v # w => workerPc'[v] = workerPc[v]
  BY <1>0 DEF Worker, Receive, Skip, Start, Execute, Announce, CountSuccess, AppendLatency,
     CountFailure, Classify, WorkerExit, Goto
<1>3. CASE Receive(w)
  <2>1. Taken' = Taken + 1
    <3>1. Len(tasks') = Len(tasks) - 1 /\ next' = next  BY <1>0, <1>3 DEF Receive, Received, TypeOK
    <3>2. next \in Int /\ Len(tasks) \in Int  BY <1>0 DEF TypeOK
    <3> QED BY <3>1, <3>2 DEF Taken
  <2>2. WorkerRank(workerPc[w]) = 1 /\ WorkerRank(workerPc'[w]) = 8
    BY <1>0, <1>3 DEF Receive, Goto, WorkerRank
  <2>3. WorkerLeft(w)' < WorkerLeft(w)  BY <1>0, <2>1, <2>2 DEF WorkerLeft
  <2>4. ASSUME NEW v \in Workers, v # w PROVE WorkerLeft(v)' <= WorkerLeft(v)
    <3>1. WorkerRank(workerPc'[v]) = WorkerRank(workerPc[v])  BY <1>2, <2>4
    <3>2. WorkerRank(workerPc[v]) \in Nat  BY <1>1
    <3> QED BY <1>0, <2>1, <3>1, <3>2 DEF WorkerLeft
  <2>5. WorkerLeft(w) \in Nat /\ WorkerLeft(w)' \in Int
    BY <1>0, <2>1, <2>2, LeftTyped DEF LeftTypeOK, WorkerLeft
  <2> QED BY <2>3, <2>4, <2>5
<1>4. CASE ~Receive(w)
  <2>1. Taken' = Taken
    BY <1>4 DEF Worker, Skip, Start, Execute, Announce, CountSuccess, AppendLatency, CountFailure,
       Classify, WorkerExit, Taken
  <2>2. \/ workerPc[w] = "check" /\ workerPc'[w] \in {"run", "range"}
        \/ workerPc[w] = "run" /\ workerPc'[w] = "announce"
        \/ workerPc[w] = "announce" /\ workerPc'[w] = "record"
        \/ workerPc[w] = "record" /\ workerPc'[w] \in {"sample", "classify"}
        \/ workerPc[w] \in {"sample", "classify"} /\ workerPc'[w] = "range"
        \/ workerPc[w] = "range" /\ workerPc'[w] = "gone"
    BY <1>0, <1>4 DEF Worker, Skip, Start, Execute, Announce, CountSuccess, AppendLatency,
       CountFailure, Classify, WorkerExit, Goto
  <2>3. WorkerRank(workerPc'[w]) < WorkerRank(workerPc[w]) /\ WorkerRank(workerPc'[w]) \in Nat
    BY <2>2 DEF WorkerRank
  <2>4. WorkerLeft(w)' < WorkerLeft(w)  BY <1>0, <1>1, <2>1, <2>3 DEF WorkerLeft
  <2>5. ASSUME NEW v \in Workers, v # w PROVE WorkerLeft(v)' <= WorkerLeft(v)
    <3>1. WorkerRank(workerPc'[v]) = WorkerRank(workerPc[v])  BY <1>2, <2>5
    <3>2. WorkerRank(workerPc[v]) \in Nat  BY <1>1
    <3> QED BY <1>0, <2>1, <3>1, <3>2 DEF WorkerLeft
  <2>6. WorkerLeft(w) \in Int /\ WorkerLeft(w)' \in Int
    BY <1>0, <1>1, <2>1, <2>3 DEF WorkerLeft
  <2> QED BY <2>4, <2>5, <2>6
<1> QED BY <1>3, <1>4

\* No goroutine of a batch runs for ever: each step takes one nearer to its end, and none
\* takes another away from it (the loops of the generator, the workers and RunJobPool).
THEOREM PoolRunsOut == Spec => /\ []LeftTypeOK
                               /\ EveryStepCounts
<1>1. IInv => LeftTypeOK  BY LeftTyped
<1>2. IInv /\ [Next]_vars => [StepCounts]_vars
  <2> SUFFICES ASSUME IInv, [Next]_vars PROVE StepCounts
    OBVIOUS
  <2>1. ASSUME NEW v \in Workers
        PROVE  /\ Worker(v) => WorkerLeft(v)' < WorkerLeft(v)
               /\ WorkerLeft(v)' <= WorkerLeft(v)
    <3>1. CASE \E w \in Workers : Worker(w)
      BY <3>1, WorkCounts
    <3>2. CASE ~ \E w \in Workers : Worker(w)
      <4>0. WorkerLeft(v) \in Nat  BY LeftTyped DEF LeftTypeOK
      <4>1. next \in Int /\ Len(tasks) \in Int /\ tasks \in Seq(Tasks) /\ Taken \in Int
        BY DEF IInv, TypeOK, Taken
      <4>2. Taken' = Taken
        <5>1. CASE GenSend
          <6>1. Len(tasks') = Len(tasks) + 1 /\ next' = next + 1  BY <4>1, <5>1 DEF GenSend
          <6> QED BY <4>1, <6>1 DEF Taken
        <5>2. CASE ~GenSend
          BY <3>2, <5>2 DEF Next, Generator, GenResume, GenStop, Pool, Spawn, RampElapsed,
             RampAborted, AllDone, Return, CtxEnd, Terminated, vars, Taken
        <5> QED BY <5>1, <5>2
      <4>3. CASE Spawn
        <5>1. workerPc[spawned + 1] = "unborn" /\ spawned + 1 \in Workers
          BY <4>3 DEF Spawn, IInv, SpawnInv, TypeOK
        <5>2. \/ workerPc'[v] = workerPc[v]
              \/ workerPc[v] = "unborn" /\ workerPc'[v] = "range"
          BY <4>3, <5>1 DEF Spawn, Goto, IInv, TypeOK
        <5>3. CASE workerPc'[v] = workerPc[v]  BY <3>2, <4>0, <4>2, <5>3 DEF WorkerLeft
        <5>4. CASE workerPc[v] = "unborn" /\ workerPc'[v] = "range"
          <6>1. WorkerRank(workerPc[v]) = 9 /\ WorkerRank(workerPc'[v]) = 1
            BY <5>4 DEF WorkerRank
          <6> QED BY <3>2, <4>1, <4>2, <6>1 DEF WorkerLeft
        <5> QED BY <5>2, <5>3, <5>4
      <4>4. CASE ~Spawn
        <5>1. workerPc' = workerPc
          BY <3>2, <4>4 DEF Next, Generator, GenResume, GenSend, GenStop, Pool, RampElapsed,
             RampAborted, AllDone, Return, CtxEnd, Terminated, vars
        <5> QED BY <3>2, <4>0, <4>2, <5>1 DEF WorkerLeft
      <4> QED BY <4>3, <4>4
    <3> QED BY <3>1, <3>2
  <2> QED BY <2>1, RoundsCount DEF StepCounts
<1> QED BY <1>1, <1>2, Invariance, PTL DEF Spec, EveryStepCounts

-----------------------------------------------------------------------------
(* README.md promises exit code 130 to an interrupted batch.  The run          *)
(* MCJobPoolInterrupt shows one that is interrupted during ramp-up; there is no *)
(* other.                                                                      *)
RampInv ==
    /\ poolPc = "ramp" \/ exit = PlainError => RampUp
    /\ exit = 124 => ctxErr = "deadline"

LEMMA RampPreserved == ASSUME IInv, RampInv, [Next]_vars PROVE RampInv'
<1>0. TypeOK /\ ReturnInv
  BY DEF IInv
<1>1. CASE UNCHANGED <<poolPc, exit, ctxErr>>
  BY <1>1 DEF RampInv
<1>2. CASE Spawn
  BY <1>2 DEF Spawn, RampInv
<1>3. CASE RampElapsed \/ RampAborted
  BY <1>0, <1>3 DEF RampElapsed, RampAborted, RampInv, PlainError
<1>4. CASE AllDone
  BY <1>4 DEF AllDone, RampInv
<1>5. CASE Return
  <2>1. /\ poolPc' = "returned" /\ ctxErr' = ctxErr
        /\ exit' \in {0, 1, 2, 124, 130} /\ (exit' = 124 => ctxErr = "deadline")
    BY <1>0, <1>5 DEF Return, ExitCode, TypeOK
  <2> QED BY <2>1 DEF RampInv, PlainError
<1>6. CASE CtxEnd
  BY <1>0, <1>6 DEF CtxEnd, RampInv, ReturnInv, Unset
<1> QED BY <1>1, <1>2, <1>3, <1>4, <1>5, <1>6
        DEF Next, Generator, GenResume, GenSend, GenStop, Worker, Receive, Skip, Start, Execute,
            Announce, CountSuccess, AppendLatency, CountFailure, Classify, WorkerExit, Pool,
            Terminated, vars

\* A batch whose workers all start at once exits with 130 whenever it is interrupted,
\* whatever its tasks do and whenever the signal comes (RunJobPool, exec.go): only the
\* bare error of the ramp-up loop gives another code.
THEOREM InterruptUnlessRampUp == ASSUME ~RampUp PROVE Spec => []InterruptExits130
<1>1. Init => RampInv
  BY DEF Init, RampInv, Unset, PlainError
<1>2. IInv /\ RampInv /\ [Next]_vars => RampInv'
  BY RampPreserved
<1>3. IInv /\ RampInv => InterruptExits130
  BY DEF IInv, TypeOK, ReturnInv, RampInv, InterruptExits130
<1> QED BY <1>1, <1>2, <1>3, Invariance, PTL DEF Spec

=============================================================================
