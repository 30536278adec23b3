------------------------------ MODULE RedisStore ------------------------------
(***************************************************************************)
(* The Redis job store (internal/server/redis_job_store.go) shared by      *)
(* several instances of the server.  A job is a hash and a member of one   *)
(* or two sorted sets, written by pipelines: Redis applies the commands of *)
(* a pipeline in order, but not as a transaction, so commands of other     *)
(* connections come in between, and a connection or a process that fails   *)
(* leaves a prefix applied.                                                *)
(*                                                                         *)
(* The callers are those of server.go: a submission with the goroutine of  *)
(* its job, cancel requests on any instance, and the cleanup of each       *)
(* instance.  Within one instance, module JobServer has the finer steps.   *)
(* Redis itself is external: HSET, DEL, ZADD, ZREM, ZCARD and ZRANGE do    *)
(* what they say.  List only reads; idempotency keys are strings of their  *)
(* own that touch nothing here.                                            *)
(***************************************************************************)
EXTENDS Integers, FiniteSets, Sequences

CONSTANTS
    Jobs,        \* the jobs, each with the caller that submits and runs it
    CancelCalls, \* the calls of cancelJobInternal
    Instances,   \* the instances of the server
    Cleaners,    \* the instances whose cleanup ticks
    HomeOf,      \* the instance each job and each cancel call is on
    JobHistory,  \* how many terminal jobs the cleanup keeps, 0 for all
    JobTTL,      \* TRUE iff terminal jobs expire
    MaxFailures, \* how often a connection breaks or an instance crashes, at most
    NoJob

Callers == Jobs \union CancelCalls \union Instances

ASSUME CallerAssumption == /\ IsFiniteSet(Jobs)
                           /\ Jobs \intersect (CancelCalls \union Instances) = {}
                           /\ CancelCalls \intersect Instances = {}
ASSUME HomeAssumption   == /\ HomeOf \in [Jobs \union CancelCalls -> Instances]
                           /\ Cleaners \subseteq Instances
ASSUME OptionAssumption == /\ JobHistory \in Nat
                           /\ JobTTL \in BOOLEAN /\ MaxFailures \in Nat
                           /\ NoJob \notin Jobs

Live     == {"queued", "running"}
Terminal == {"completed", "failed", "cancelled"}

VARIABLES
    hash,      \* Redis: the status in the hash of each job, or "absent"
    jobs,      \* Redis: the sorted set of all jobs, a job's score or 0
    terminal,  \* Redis: the sorted set of terminal jobs, a job's score or 0
    pipe,      \* each caller: the commands of its pipeline not yet applied
    runPc,     \* each job: the next step of its submission or goroutine
    ctxErr,    \* each job: the error of its context
    cancelPc,  \* each cancel call: its next step
    target,    \* each cancel call: the job it names
    copy,      \* each cancel call: the status Get returned
    prunePc,   \* each instance: the next step of its Prune
    toPrune,   \* each instance: the jobs Prune has still to delete
    toDelete,  \* each instance: how many jobs are beyond the history limit
    lost,      \* the jobs that a Create or Update failed to write in full
    clock,     \* counts the CompletedAt stamps given
    failures   \* counts the failures

redisVars  == <<hash, jobs, terminal>>
runVars    == <<runPc, ctxErr>>
cancelVars == <<cancelPc, target, copy>>
pruneVars  == <<prunePc, toPrune, toDelete>>
failVars   == <<lost, failures>>
vars == <<redisVars, pipe, runVars, cancelVars, pruneVars, failVars, clock>>

Init ==
    /\ hash = [j \in Jobs |-> "absent"]
    /\ jobs = [j \in Jobs |-> 0]
    /\ terminal = [j \in Jobs |-> 0]
    /\ pipe = [c \in Callers |-> <<>>]
    /\ runPc = [j \in Jobs |-> "create"]
    /\ ctxErr = [j \in Jobs |-> "none"]
    /\ cancelPc = [c \in CancelCalls |-> "get"]
    /\ target = [c \in CancelCalls |-> NoJob]
    /\ copy = [c \in CancelCalls |-> "absent"]
    /\ prunePc = [i \in Instances |-> "tick"]
    /\ toPrune = [i \in Instances |-> <<>>]
    /\ toDelete = [i \in Instances |-> 0]
    /\ lost = {}
    /\ clock = 0
    /\ failures = 0

-----------------------------------------------------------------------------
(* Commands and the pipelines made of them. *)

Command(key, job, status, score) ==
    [key |-> key, job |-> job, status |-> status, score |-> score]

HSet(j, status)     == Command("job", j, status, 0)
Del(j)              == Command("job", j, "absent", 0)
ZAdd(key, j, score) == Command(key, j, "absent", score)
ZRem(key, j)        == Command(key, j, "absent", 0)

(* Mutated forms of the definitions below, one per bug the properties are    *)
(* meant to catch.  Nothing in the specification uses them.                  *)
TerminalFirst(j) == <<ZRem("terminal_jobs", j), Del(j), ZRem("jobs", j)>>
AlwaysIndexed(j, status, completedAt) ==
    <<HSet(j, status), ZAdd("terminal_jobs", j, IF completedAt = 0 THEN 1 ELSE completedAt)>>
IndexedFirst(j, status, completedAt) ==
    <<IF status \in Terminal THEN ZAdd("terminal_jobs", j, completedAt)
      ELSE ZRem("terminal_jobs", j), HSet(j, status)>>
UncheckedSurplus == Cardinality({j \in Jobs : terminal[j] > 0}) - JobHistory

\* The score of a job in the set of all jobs orders the listing only.
CreateCmds(j) == <<HSet(j, "queued"), ZAdd("jobs", j, 1)>>

\* Every caller that writes a terminal status has set CompletedAt.
UpdateCmds(j, status, completedAt) ==
    <<HSet(j, status), IF status \in Terminal THEN ZAdd("terminal_jobs", j, completedAt)
                       ELSE ZRem("terminal_jobs", j)>>
DeleteCmds(j) == <<Del(j), ZRem("jobs", j), ZRem("terminal_jobs", j)>>

\* Redis applies the next command of a pipeline.
Apply(c) ==
    /\ pipe[c] # <<>>
    /\ LET m == Head(pipe[c])
       IN  /\ hash' = IF m.key = "job" THEN [hash EXCEPT ![m.job] = m.status] ELSE hash
           /\ jobs' = IF m.key = "jobs" THEN [jobs EXCEPT ![m.job] = m.score] ELSE jobs
           /\ terminal' = IF m.key = "terminal_jobs"
                          THEN [terminal EXCEPT ![m.job] = m.score] ELSE terminal
    /\ pipe' = [pipe EXCEPT ![c] = Tail(@)]
    /\ UNCHANGED <<runVars, cancelVars, pruneVars, failVars, clock>>

\* pipe.Exec sends the commands; the caller goes on when all are answered.
Exec(c, cmds) == pipe[c] = <<>> /\ pipe' = [pipe EXCEPT ![c] = cmds]
Free(c)       == pipe[c] = <<>> /\ UNCHANGED pipe

-----------------------------------------------------------------------------
(* The submission of a job and its goroutine (runAsyncJob). *)

Goto(j, pc) == runPc' = [runPc EXCEPT ![j] = pc]

Create(j) ==
    /\ runPc[j] = "create"
    /\ Exec(j, CreateCmds(j))
    /\ Goto(j, "register")
    /\ UNCHANGED <<redisVars, ctxErr, cancelVars, pruneVars, failVars, clock>>

\* Create returned, the reply is sent, the goroutine registers its cancel function.
Register(j) ==
    /\ runPc[j] = "register"
    /\ Free(j)
    /\ Goto(j, "begin")
    /\ UNCHANGED <<redisVars, ctxErr, cancelVars, pruneVars, failVars, clock>>

Begin(j) ==
    /\ runPc[j] = "begin"
    /\ Exec(j, UpdateCmds(j, "running", 0))
    /\ Goto(j, "run")
    /\ UNCHANGED <<redisVars, ctxErr, cancelVars, pruneVars, failVars, clock>>

\* RunJobPool returned; the final status depends on the context.
Save(j) ==
    /\ runPc[j] = "run"
    /\ \E status \in IF ctxErr[j] = "canceled" THEN {"cancelled"} ELSE {"completed", "failed"} :
         Exec(j, UpdateCmds(j, status, clock + 1))
    /\ clock' = clock + 1
    /\ Goto(j, "leave")
    /\ UNCHANGED <<redisVars, ctxErr, cancelVars, pruneVars, failVars>>

\* The cancel function is unregistered.
Leave(j) ==
    /\ runPc[j] = "leave"
    /\ Free(j)
    /\ Goto(j, "gone")
    /\ UNCHANGED <<redisVars, ctxErr, cancelVars, pruneVars, failVars, clock>>

Run(j) == Create(j) \/ Register(j) \/ Begin(j) \/ Save(j) \/ Leave(j)

-----------------------------------------------------------------------------
(* cancelJobInternal, on whatever instance the request reaches. *)

Registered(j) == runPc[j] \in {"begin", "run", "leave"}

CancelGet(c) ==
    /\ cancelPc[c] = "get"
    /\ \E j \in Jobs :
         /\ target' = [target EXCEPT ![c] = j]
         /\ copy' = [copy EXCEPT ![c] = hash[j]]
         /\ cancelPc' = [cancelPc EXCEPT ![c] = IF hash[j] \in Live THEN "find" ELSE "gone"]
    /\ UNCHANGED <<redisVars, pipe, runVars, pruneVars, failVars, clock>>

\* The instance that runs the job knows its cancel function and calls it; any
\* instance rewrites a job it has seen queued.
CancelFind(c) ==
    LET j == target[c]
        known == HomeOf[j] = HomeOf[c] /\ Registered(j)
    IN  /\ cancelPc[c] = "find"
        /\ known \/ copy[c] = "queued"
        /\ ctxErr' = IF known THEN [ctxErr EXCEPT ![j] = "canceled"] ELSE ctxErr
        /\ Exec(c, UpdateCmds(j, "cancelled", clock + 1))
        /\ clock' = clock + 1
        /\ cancelPc' = [cancelPc EXCEPT ![c] = "written"]
        /\ UNCHANGED <<redisVars, runPc, target, copy, pruneVars, failVars>>

\* Nothing is done for a running job of another instance.
CancelNothing(c) ==
    /\ cancelPc[c] = "find"
    /\ copy[c] # "queued"
    /\ ~(HomeOf[target[c]] = HomeOf[c] /\ Registered(target[c]))
    /\ cancelPc' = [cancelPc EXCEPT ![c] = "gone"]
    /\ UNCHANGED <<redisVars, pipe, runVars, target, copy, pruneVars, failVars, clock>>

Cancel(c) == CancelGet(c) \/ CancelFind(c) \/ CancelNothing(c)

-----------------------------------------------------------------------------
(* Prune, which each instance calls every minute. *)

Indexed == {j \in Jobs : terminal[j] > 0}

\* The jobs in S, the lowest score first.
ByScore(S) == {q \in [1 .. Cardinality(S) -> S] :
                 \A a, b \in DOMAIN q : a < b => terminal[q[a]] < terminal[q[b]]}

PruneGoto(i, pc) == prunePc' = [prunePc EXCEPT ![i] = pc]

\* ZRANGEBYSCORE of what is older than the cutoff, if jobs expire at all.
PruneExpired(i, cutoff) ==
    /\ prunePc[i] = "tick"
    /\ \E q \in ByScore({j \in Indexed : JobTTL /\ terminal[j] <= cutoff}) :
         toPrune' = [toPrune EXCEPT ![i] = q]
    /\ PruneGoto(i, "expired")
    /\ UNCHANGED <<redisVars, pipe, runVars, cancelVars, toDelete, failVars, clock>>

\* Delete of the next job read, which may have changed since.
PruneNext(i) ==
    /\ toPrune[i] # <<>>
    /\ Exec(i, DeleteCmds(Head(toPrune[i])))
    /\ toPrune' = [toPrune EXCEPT ![i] = Tail(@)]
    /\ UNCHANGED <<redisVars, runVars, cancelVars, prunePc, toDelete, failVars, clock>>

Surplus == IF JobHistory > 0 /\ Cardinality(Indexed) > JobHistory
           THEN Cardinality(Indexed) - JobHistory ELSE 0

\* ZCARD, against the history limit.
PruneCount(i) ==
    /\ prunePc[i] = "expired" /\ toPrune[i] = <<>> /\ Free(i)
    /\ toDelete' = [toDelete EXCEPT ![i] = Surplus]
    /\ PruneGoto(i, IF Surplus > 0 THEN "range" ELSE "tick")
    /\ UNCHANGED <<redisVars, runVars, cancelVars, toPrune, failVars, clock>>

\* ZRANGE of as many of the lowest scores, counted at the time of ZCARD.
PruneOldest(i) ==
    /\ prunePc[i] = "range"
    /\ \E q \in ByScore(Indexed) :
         toPrune' = [toPrune EXCEPT ![i] =
                       SubSeq(q, 1, IF toDelete[i] < Len(q) THEN toDelete[i] ELSE Len(q))]
    /\ toDelete' = [toDelete EXCEPT ![i] = 0]
    /\ PruneGoto(i, "oldest")
    /\ UNCHANGED <<redisVars, pipe, runVars, cancelVars, failVars, clock>>

PruneEnd(i) ==
    /\ prunePc[i] = "oldest" /\ toPrune[i] = <<>> /\ Free(i)
    /\ PruneGoto(i, "tick")
    /\ UNCHANGED <<redisVars, runVars, cancelVars, toPrune, toDelete, failVars, clock>>

Prune(i) == \/ \E cutoff \in 0 .. clock : PruneExpired(i, cutoff)
            \/ PruneNext(i) \/ PruneCount(i) \/ PruneOldest(i) \/ PruneEnd(i)

-----------------------------------------------------------------------------
(* Failures. *)

\* The jobs that the pipelines of some callers are still writing.
Unwritten(cs) == {pipe[c][1].job : c \in {c \in cs \ Instances : pipe[c] # <<>>}}

\* A connection breaks: the commands not yet applied are lost, the caller goes on
\* with an error.  Only a submission takes notice: 500, and no goroutine.
Break(c) ==
    /\ failures < MaxFailures
    /\ pipe[c] # <<>> \/ (c \in Jobs /\ runPc[c] = "register")
    /\ pipe' = [pipe EXCEPT ![c] = <<>>]
    /\ runPc' = IF c \in Jobs /\ runPc[c] = "register"
                THEN [runPc EXCEPT ![c] = "gone"] ELSE runPc
    /\ lost' = lost \union Unwritten({c})
    /\ failures' = failures + 1
    /\ UNCHANGED <<redisVars, ctxErr, cancelVars, pruneVars, clock>>

On(i) == {c \in Jobs \union CancelCalls : HomeOf[c] = i} \union {i}

\* An instance crashes and is started again.  Nothing resumes its jobs.
Crash(i) ==
    /\ failures < MaxFailures
    /\ pipe' = [c \in Callers |-> IF c \in On(i) THEN <<>> ELSE pipe[c]]
    /\ runPc' = [j \in Jobs |-> IF j \in On(i) /\ runPc[j] # "create" THEN "gone"
                                ELSE runPc[j]]
    /\ cancelPc' = [c \in CancelCalls |-> IF c \in On(i) /\ cancelPc[c] = "find" THEN "gone"
                                          ELSE cancelPc[c]]
    /\ prunePc' = [prunePc EXCEPT ![i] = "tick"]
    /\ toPrune' = [toPrune EXCEPT ![i] = <<>>]
    /\ toDelete' = [toDelete EXCEPT ![i] = 0]
    /\ lost' = lost \union Unwritten(On(i))
    /\ failures' = failures + 1
    /\ UNCHANGED <<redisVars, ctxErr, target, copy, clock>>

-----------------------------------------------------------------------------
Next ==
    \/ \E c \in Callers : Apply(c) \/ Break(c)
    \/ \E j \in Jobs : Run(j)
    \/ \E c \in CancelCalls : Cancel(c)
    \/ \E i \in Cleaners : Prune(i)
    \/ \E i \in Instances : Crash(i)

Spec == Init /\ [][Next]_vars

-----------------------------------------------------------------------------
(* Properties. *)

\* Some caller has a command on job j under way.
InFlight(j) == \E c \in Callers : \E k \in DOMAIN pipe[c] : pipe[c][k].job = j

\* Some cancel request wrote, or began to write, job j.
CancelledBy(j) == \E c \in CancelCalls : target[c] = j /\ cancelPc[c] = "written"

Status   == Live \union Terminal \union {"absent"}
Commands == [key : {"job", "jobs", "terminal_jobs"}, job : Jobs, status : Status, score : Nat]

\* Type correctness of Redis, of the callers and of what is between them.
TypeOK ==
    /\ hash \in [Jobs -> Status]
    /\ jobs \in [Jobs -> {0, 1}]
    /\ terminal \in [Jobs -> 0 .. clock]
    /\ pipe \in [Callers -> Seq(Commands)] /\ \A c \in Callers : Len(pipe[c]) <= 3
    /\ runPc \in [Jobs -> {"create", "register", "begin", "run", "leave", "gone"}]
    /\ ctxErr \in [Jobs -> {"none", "canceled"}]
    /\ cancelPc \in [CancelCalls -> {"get", "find", "written", "gone"}]
    /\ target \in [CancelCalls -> Jobs \union {NoJob}]
    /\ copy \in [CancelCalls -> Status]
    /\ prunePc \in [Instances -> {"tick", "expired", "range", "oldest"}]
    /\ toPrune \in [Instances -> Seq(Jobs)]
    /\ toDelete \in [Instances -> Nat]
    /\ lost \subseteq Jobs
    /\ clock \in Nat /\ failures \in 0 .. MaxFailures

\* The indices agree with the hashes of the jobs that no cancel request disturbed,
\* whatever pipelines are under way and whichever were cut short.  At every moment the
\* set of terminal jobs names no job that is queued or running, which Prune would
\* delete, and a job that has begun to run is in the set of all jobs, where List finds
\* it.  Once nothing is under way for a job whose pipelines were all applied, the set
\* of all jobs has it, and the set of terminal jobs exactly if it is terminal.
IndicesAgree ==
    \A j \in Jobs : ~CancelledBy(j) =>
      /\ terminal[j] > 0 => hash[j] \notin Live
      /\ hash[j] \notin {"absent", "queued"} => jobs[j] > 0
      /\ hash[j] # "absent" /\ ~InFlight(j) /\ j \notin lost =>
           /\ jobs[j] > 0
           /\ hash[j] \in Terminal <=> terminal[j] > 0

\* An interrupted Delete can be repeated: as long as an index still names a job
\* whose hash is gone, the terminal index does, where the next Prune finds it.
DeleteResumable ==
    \A j \in Jobs : ~InFlight(j) /\ ~CancelledBy(j) =>
      (hash[j] = "absent" /\ jobs[j] > 0 => terminal[j] > 0)

\* The cleanup deletes a queued or running job only if a cancel request had made
\* it terminal for a while.
ActiveKeptUnlessCancelled ==
    [][\A j \in Jobs : hash[j] \in Live /\ hash'[j] = "absent" => CancelledBy(j)]_vars

-----------------------------------------------------------------------------
(* What the repository says and the code does not keep. *)

\* "Active jobs are always kept. Terminal jobs are pruned."
ActiveKept == [][\A j \in Jobs : hash[j] \in Live => hash'[j] # "absent"]_vars

=============================================================================
