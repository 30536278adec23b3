------------------------------ MODULE JobServer ------------------------------
(***************************************************************************)
(* The life of asynchronous jobs in the server (internal/server/server.go) *)
(* over the in-memory job store (internal/server/job_store.go) or the      *)
(* SQLite one (internal/server/sqlite_job_store.go): the handlers that     *)
(* submit jobs (runAsyncJob, behind /async/exec and /jobs/:name/run), the  *)
(* background goroutine of each job, DELETE /jobs/:id (cancelJobInternal), *)
(* the synchronous handler as far as it shares the capacity counter        *)
(* (ExecHandler), and the periodic cleanup.                                *)
(*                                                                         *)
(* An operation of the in-memory store is atomic under its mutex, each     *)
(* statement of the SQLite one is, and so is every access to jobCancels    *)
(* under Server.mu; everything between two of them is a step another       *)
(* goroutine may come between.  Statements of SQLite succeed: a database   *)
(* that is locked or full is not modelled.  A job is named after the       *)
(* submission that created it.  RunJobPool (module JobPool) is one step    *)
(* that yields a report and an error.  The event streams (module Streams), *)
(* the webhooks and the Redis store (module RedisStore) are not part of    *)
(* this module.                                                            *)
(***************************************************************************)
EXTENDS Integers, FiniteSets

CONSTANTS
    Submissions,       \* the requests that reach runAsyncJob
    SyncRequests,      \* the requests to the synchronous handler
    CancelCalls,       \* the calls of cancelJobInternal
    Keys,              \* the idempotency keys
    KeyOf,             \* the key each submission carries, or NoKey
    WithCallback,      \* the submissions with a callback URL, which may be refused
    Timed,             \* the submissions with a timeout
    MayAbort,          \* TRUE iff RunJobPool may return no report (ramp-up aborted)
    MaxConcurrentJobs, \* the capacity limit, 0 for none
    JobHistory,        \* how many terminal jobs the cleanup keeps, 0 for all
    JobTTL,            \* TRUE iff terminal jobs expire
    Stores,            \* the values of --job-store: "memory", "sqlite"
    NoKey, NoJob

ASSUME IdentityAssumption == NoKey \notin Keys /\ NoJob \notin Submissions
ASSUME RequestAssumption  == /\ KeyOf \in [Submissions -> Keys \union {NoKey}]
                             /\ WithCallback \subseteq Submissions
                             /\ Timed \subseteq Submissions
                             /\ IsFiniteSet(Submissions)
                             /\ IsFiniteSet(SyncRequests)
ASSUME LimitAssumption    == /\ MaxConcurrentJobs \in Nat
                             /\ JobHistory \in Nat
                             /\ JobTTL \in BOOLEAN
                             /\ MayAbort \in BOOLEAN
                             /\ Stores \subseteq {"memory", "sqlite"}

Live     == {"queued", "running"}
Terminal == {"completed", "failed", "cancelled"}

VARIABLES
    subPc,       \* each submission: the next step of its handler, or the reply it got
    found,       \* each submission: the job GetByIdempotencyKey returned
    store,       \* the kind of store, which --job-store selects
    jobs,        \* the store: the record of each job, status "absent" if there is none
    idempotency, \* the store's idempotencyMap, or the table idempotency_keys
    surplus,     \* SQLite's Prune: the jobs beyond the limit that it has counted
    runPc,       \* each job: the next step of its background goroutine
    local,       \* each job: the goroutine's own *Job, which it writes to the store
    ctxErr,      \* each job: the error of its context
    jobCancels,  \* the jobs registered in Server.jobCancels
    activeJobs,  \* the atomic counter Server.ActiveJobs
    syncPc,      \* each synchronous request
    cancelPc,    \* each cancel call: its next step, or its reply
    target,      \* each cancel call: the job it names
    copy,        \* each cancel call: the clone of the job that Get returned
    clock        \* counts the CreatedAt stamps given

subVars    == <<subPc, found>>
runVars    == <<runPc, local>>
cancelVars == <<cancelPc, target, copy>>
pruneVars  == <<store, surplus>>
vars == <<subVars, jobs, idempotency, runVars, ctxErr, jobCancels, activeJobs, syncPc,
          cancelVars, pruneVars, clock>>

\* createdAt is the position of the job's CreatedAt among all of them.
Record(status, report, createdAt) ==
    [status |-> status, report |-> report, createdAt |-> createdAt]
Absent == Record("absent", FALSE, 0)
Stored(j) == jobs[j].status # "absent"

Init ==
    /\ subPc = [r \in Submissions |-> "lookup"]
    /\ found = [r \in Submissions |-> NoJob]
    /\ store \in Stores
    /\ jobs = [r \in Submissions |-> Absent]
    /\ idempotency = [k \in Keys |-> NoJob]
    /\ surplus = 0
    /\ runPc = [r \in Submissions |-> "unborn"]
    /\ local = [r \in Submissions |-> Absent]
    /\ ctxErr = [r \in Submissions |-> "none"]
    /\ jobCancels = {}
    /\ activeJobs = 0
    /\ syncPc = [s \in SyncRequests |-> "limit"]
    /\ cancelPc = [c \in CancelCalls |-> "get"]
    /\ target = [c \in CancelCalls |-> NoJob]
    /\ copy = [c \in CancelCalls |-> Absent]
    /\ clock = 0

-----------------------------------------------------------------------------
TerminalJobs == {j \in Submissions : jobs[j].status \in Terminal}

(* Mutated forms of the definitions below, one per bug the properties are    *)
(* meant to catch.  Nothing in the specification uses them.                  *)
UntouchedCopy(c)     == copy[c]
DeadlineCompletes(r) == IF ctxErr[r] = "canceled" THEN "cancelled" ELSE "completed"
ForgetFinished(gone) == [k \in Keys |-> IF idempotency[k] \in TerminalJobs \union gone
                                        THEN NoJob ELSE idempotency[k]]
SkipUnregister       == "leave"
UncountedSync        == activeJobs

-----------------------------------------------------------------------------
(* runAsyncJob, the part that runs in the request's handler. *)

Reply(r, answer) == subPc' = [subPc EXCEPT ![r] = answer]

\* JobStore.GetByIdempotencyKey, when the request carries a key.
Lookup(r) ==
    /\ subPc[r] = "lookup"
    /\ found' = [found EXCEPT ![r] = IF KeyOf[r] = NoKey THEN NoJob ELSE idempotency[KeyOf[r]]]
    /\ Reply(r, IF found'[r] = NoJob THEN "limit" ELSE "fetch")
    /\ UNCHANGED <<pruneVars, jobs, idempotency, runVars, ctxErr, jobCancels, activeJobs,
                   syncPc, cancelVars, clock>>

\* JobStore.Get of the job found: 200 with its id, or a new job if it is gone.
Fetch(r) ==
    /\ subPc[r] = "fetch"
    /\ Reply(r, IF Stored(found[r]) THEN "reused" ELSE "limit")
    /\ UNCHANGED <<pruneVars, found, jobs, idempotency, runVars, ctxErr, jobCancels, activeJobs,
                   syncPc, cancelVars, clock>>

AtCapacity == MaxConcurrentJobs > 0 /\ activeJobs >= MaxConcurrentJobs

\* checkConcurrencyLimit, 429 at capacity.  Then prepareExecPlan may refuse the
\* request, 400, or the job is built in memory.
CheckLimit(r) ==
    /\ subPc[r] = "limit"
    /\ \/ AtCapacity /\ Reply(r, "busy") /\ UNCHANGED <<local, clock>>
       \/ ~AtCapacity /\ Reply(r, "invalid") /\ UNCHANGED <<local, clock>>
       \/ /\ ~AtCapacity
          /\ Reply(r, "create")
          /\ clock' = clock + 1
          /\ local' = [local EXCEPT ![r] = Record("queued", FALSE, clock + 1)]
    /\ UNCHANGED <<pruneVars, found, jobs, idempotency, runPc, ctxErr, jobCancels, activeJobs,
                   syncPc, cancelVars>>

\* JobStore.Create
Create(r) ==
    /\ subPc[r] = "create"
    /\ jobs' = [jobs EXCEPT ![r] = local[r]]
    /\ Reply(r, "setkey")
    /\ UNCHANGED <<pruneVars, found, idempotency, runVars, ctxErr, jobCancels, activeJobs,
                   syncPc, cancelVars, clock>>

\* JobStore.SetIdempotencyKey.  The foreign key of SQLite may refuse a job that is
\* gone by now, which nobody notices.
SetKey(r) ==
    /\ subPc[r] = "setkey"
    /\ \/ KeyOf[r] # NoKey /\ idempotency' = [idempotency EXCEPT ![KeyOf[r]] = r]
       \/ KeyOf[r] = NoKey /\ UNCHANGED idempotency
       \/ store = "sqlite" /\ ~Stored(r) /\ UNCHANGED idempotency
    /\ Reply(r, "launch")
    /\ UNCHANGED <<pruneVars, found, jobs, runVars, ctxErr, jobCancels, activeJobs, syncPc,
                   cancelVars, clock>>

\* The check of the callback URL, which may depend on a name lookup, fails: 400
\* or 501, and the job stays as it is in the store.
Refuse(r) ==
    /\ subPc[r] = "launch"
    /\ r \in WithCallback
    /\ Reply(r, "rejected")
    /\ UNCHANGED <<pruneVars, found, jobs, idempotency, runVars, ctxErr, jobCancels, activeJobs,
                   syncPc, cancelVars, clock>>

\* The goroutine is started and the answer is 202.
Launch(r) ==
    /\ subPc[r] = "launch"
    /\ Reply(r, "accepted")
    /\ runPc' = [runPc EXCEPT ![r] = "enter"]
    /\ UNCHANGED <<pruneVars, found, jobs, idempotency, local, ctxErr, jobCancels, activeJobs,
                   syncPc, cancelVars, clock>>

Submit(r) == \/ Lookup(r) \/ Fetch(r) \/ CheckLimit(r) \/ Create(r) \/ SetKey(r)
             \/ Refuse(r) \/ Launch(r)

-----------------------------------------------------------------------------
(* The background goroutine of a job. *)

\* JobStore.Update.  In memory it inserts a job that is not there, in SQLite an
\* UPDATE of no row does nothing, and neither is an error.
Update(j, record) ==
    jobs' = IF store = "memory" \/ Stored(j) THEN [jobs EXCEPT ![j] = record] ELSE jobs

Goto(r, pc) == runPc' = [runPc EXCEPT ![r] = pc]

\* s.ActiveJobs.Add(1)
Enter(r) ==
    /\ runPc[r] = "enter"
    /\ activeJobs' = activeJobs + 1
    /\ Goto(r, "register")
    /\ UNCHANGED <<pruneVars, subVars, jobs, idempotency, local, ctxErr, jobCancels, syncPc,
                   cancelVars, clock>>

\* The context is made and its cancel function registered.
Register(r) ==
    /\ runPc[r] = "register"
    /\ jobCancels' = jobCancels \union {r}
    /\ Goto(r, "begin")
    /\ UNCHANGED <<pruneVars, subVars, jobs, idempotency, local, ctxErr, activeJobs, syncPc,
                   cancelVars, clock>>

\* The goroutine's own record becomes running and overwrites the stored one.
Begin(r) ==
    /\ runPc[r] = "begin"
    /\ local' = [local EXCEPT ![r].status = "running"]
    /\ Update(r, local'[r])
    /\ Goto(r, "pool")
    /\ UNCHANGED <<pruneVars, subVars, idempotency, ctxErr, jobCancels, activeJobs, syncPc,
                   cancelVars, clock>>

\* RunJobPool returns.  It returns no error only if the context was live when it
\* looked last, and no report only if the context ended during ramp-up.
RunPool(r) ==
    /\ runPc[r] = "pool"
    /\ \E report \in BOOLEAN, pc \in {"settleOk", "settleErr"} :
         /\ pc = "settleOk" => report /\ ctxErr[r] = "none"
         /\ ~report => MayAbort /\ ctxErr[r] # "none"
         /\ local' = [local EXCEPT ![r].report = report]
         /\ Goto(r, pc)
    /\ UNCHANGED <<pruneVars, subVars, jobs, idempotency, ctxErr, jobCancels, activeJobs,
                   syncPc, cancelVars, clock>>

\* The final status: the context is read again, after RunJobPool returned.
Verdict(r) == IF ctxErr[r] = "canceled" THEN "cancelled"
              ELSE IF runPc[r] = "settleErr" THEN "failed" ELSE "completed"

Settle(r) ==
    /\ runPc[r] \in {"settleOk", "settleErr"}
    /\ local' = [local EXCEPT ![r].status = Verdict(r)]
    /\ Goto(r, "save")
    /\ UNCHANGED <<pruneVars, subVars, jobs, idempotency, ctxErr, jobCancels, activeJobs,
                   syncPc, cancelVars, clock>>

\* The first of the deferred calls, which run last one first.
Deferred == "unregister"

\* JobStore.Update with the final record, whatever the store holds by now.
Save(r) ==
    /\ runPc[r] = "save"
    /\ Update(r, local[r])
    /\ Goto(r, Deferred)
    /\ UNCHANGED <<pruneVars, subVars, idempotency, local, ctxErr, jobCancels, activeJobs,
                   syncPc, cancelVars, clock>>

\* delete(s.jobCancels, jobID)
Unregister(r) ==
    /\ runPc[r] = "unregister"
    /\ jobCancels' = jobCancels \ {r}
    /\ Goto(r, "leave")
    /\ UNCHANGED <<pruneVars, subVars, jobs, idempotency, local, ctxErr, activeJobs, syncPc,
                   cancelVars, clock>>

\* cancel() releases the context, which nobody reads any more.
Leave(r) ==
    /\ runPc[r] = "leave"
    /\ activeJobs' = activeJobs - 1
    /\ Goto(r, "gone")
    /\ UNCHANGED <<pruneVars, subVars, jobs, idempotency, local, ctxErr, jobCancels, syncPc,
                   cancelVars, clock>>

Runner(r) == \/ Enter(r) \/ Register(r) \/ Begin(r) \/ RunPool(r) \/ Settle(r) \/ Save(r)
             \/ Unregister(r) \/ Leave(r)

\* The timeout of the job's context passes.
Deadline(r) ==
    /\ r \in Timed
    /\ runPc[r] \in {"begin", "pool", "settleOk", "settleErr"}
    /\ ctxErr[r] = "none"
    /\ ctxErr' = [ctxErr EXCEPT ![r] = "deadline"]
    /\ UNCHANGED <<pruneVars, subVars, jobs, idempotency, runVars, jobCancels, activeJobs,
                   syncPc, cancelVars, clock>>

-----------------------------------------------------------------------------
(* cancelJobInternal *)

Answer(c, pc) == cancelPc' = [cancelPc EXCEPT ![c] = pc]

\* JobStore.Get returns a clone; no job is 404, a terminal one 409.
CancelGet(c) ==
    /\ cancelPc[c] = "get"
    /\ \E j \in Submissions :
         /\ target' = [target EXCEPT ![c] = j]
         /\ copy' = [copy EXCEPT ![c] = jobs[j]]
         /\ Answer(c, IF ~Stored(j) THEN "notFound"
                      ELSE IF jobs[j].status \in Terminal THEN "conflict" ELSE "find")
    /\ UNCHANGED <<pruneVars, subVars, jobs, idempotency, runVars, ctxErr, jobCancels,
                   activeJobs, syncPc, clock>>

\* The job's cancel function is looked up.  Without one, a copy that says
\* running is answered with its status and nothing is done.
CancelFind(c) ==
    /\ cancelPc[c] = "find"
    /\ Answer(c, IF target[c] \in jobCancels THEN "cancel"
                 ELSE IF copy[c].status = "queued" THEN "write" ELSE "stillRunning")
    /\ UNCHANGED <<pruneVars, subVars, jobs, idempotency, runVars, ctxErr, jobCancels,
                   activeJobs, syncPc, target, copy, clock>>

\* cancel(): the context keeps an error it already has.
CancelCtx(c) ==
    /\ cancelPc[c] = "cancel"
    /\ ctxErr' = IF ctxErr[target[c]] = "none"
                 THEN [ctxErr EXCEPT ![target[c]] = "canceled"] ELSE ctxErr
    /\ Answer(c, "write")
    /\ UNCHANGED <<pruneVars, subVars, jobs, idempotency, runVars, jobCancels, activeJobs,
                   syncPc, target, copy, clock>>

CancelledCopy(c) == [copy[c] EXCEPT !.status = "cancelled"]

\* JobStore.Update with the clone, made cancelled: 202.
CancelWrite(c) ==
    /\ cancelPc[c] = "write"
    /\ Update(target[c], CancelledCopy(c))
    /\ Answer(c, "cancelled")
    /\ UNCHANGED <<pruneVars, subVars, idempotency, runVars, ctxErr, jobCancels, activeJobs,
                   syncPc, target, copy, clock>>

CancelCall(c) == CancelGet(c) \/ CancelFind(c) \/ CancelCtx(c) \/ CancelWrite(c)

-----------------------------------------------------------------------------
(* ExecHandler, as far as it takes part in the capacity limit. *)

SyncGoto(s, pc) ==
    /\ syncPc' = [syncPc EXCEPT ![s] = pc]
    /\ UNCHANGED <<pruneVars, subVars, jobs, idempotency, runVars, ctxErr, jobCancels,
                   cancelVars, clock>>

SyncCheck(s) ==
    /\ syncPc[s] = "limit"
    /\ \/ AtCapacity /\ SyncGoto(s, "busy")
       \/ ~AtCapacity /\ \E pc \in {"enter", "invalid"} : SyncGoto(s, pc)
    /\ UNCHANGED activeJobs

Counted == activeJobs + 1

SyncEnter(s) ==
    /\ syncPc[s] = "enter"
    /\ activeJobs' = Counted
    /\ SyncGoto(s, "execute")

\* RunJobPool returns, the answer is written and the deferred Add(-1) runs.
SyncLeave(s) ==
    /\ syncPc[s] = "execute"
    /\ activeJobs' = activeJobs - 1
    /\ SyncGoto(s, "answered")

Sync(s) == SyncCheck(s) \/ SyncEnter(s) \/ SyncLeave(s)

-----------------------------------------------------------------------------
(* The cleanup tick: JobStore.Prune. *)

\* The FIFO eviction beyond the history limit, oldest CreatedAt first.
Oldest(S, n) == {j \in S : Cardinality({i \in S : jobs[i].createdAt < jobs[j].createdAt}) < n}

Evicted(expired) ==
    LET kept == TerminalJobs \ expired
    IN  expired \union IF JobHistory > 0 /\ Cardinality(kept) > JobHistory
                       THEN Oldest(kept, Cardinality(kept) - JobHistory) ELSE {}

\* removeIdempotencyKeyForJob for each of them; a job has one key at most.
KeysWithout(gone) == [k \in Keys |-> IF idempotency[k] \in gone THEN NoJob
                                     ELSE idempotency[k]]

Remove(gone) ==
    /\ jobs' = [j \in Submissions |-> IF j \in gone THEN Absent ELSE jobs[j]]
    /\ UNCHANGED <<store, subVars, runVars, ctxErr, jobCancels, activeJobs, syncPc,
                   cancelVars, clock>>

\* Any terminal jobs may be old enough to have expired.
Expirable == IF JobTTL THEN SUBSET TerminalJobs ELSE {{}}

\* InMemoryJobStore.Prune, atomic under the store's mutex.
Prune ==
    /\ store = "memory"
    /\ \E expired \in Expirable :
         /\ Evicted(expired) # {}
         /\ Remove(Evicted(expired))
         /\ idempotency' = KeysWithout(Evicted(expired))
    /\ UNCHANGED surplus

\* DELETE FROM jobs.  The keys go with the jobs, or not: foreign keys are switched
\* on for one connection of the pool only.
DeleteRows(gone) ==
    /\ Remove(gone)
    /\ idempotency' \in {KeysWithout(gone), idempotency}

\* SQLiteJobStore.Prune, three statements.  First the expired jobs.
ExpireRows ==
    /\ store = "sqlite" /\ surplus = 0
    /\ \E expired \in Expirable \ {{}} : DeleteRows(expired)
    /\ UNCHANGED surplus

CountRows ==
    /\ store = "sqlite" /\ surplus = 0
    /\ JobHistory > 0 /\ Cardinality(TerminalJobs) > JobHistory
    /\ surplus' = Cardinality(TerminalJobs) - JobHistory
    /\ UNCHANGED <<store, subVars, jobs, idempotency, runVars, ctxErr, jobCancels, activeJobs,
                   syncPc, cancelVars, clock>>

\* As many as were counted, of the oldest that are terminal by now.
EvictRows ==
    /\ surplus > 0
    /\ DeleteRows(Oldest(TerminalJobs, surplus))
    /\ surplus' = 0

-----------------------------------------------------------------------------
Replies       == {"reused", "busy", "invalid", "rejected", "accepted"}
CancelReplies == {"notFound", "conflict", "stillRunning", "cancelled"}

\* Every request has its answer and every goroutine has ended.
Idle == /\ \A r \in Submissions : subPc[r] \in Replies /\ runPc[r] \in {"unborn", "gone"}
        /\ \A s \in SyncRequests : syncPc[s] \in {"busy", "invalid", "answered"}
        /\ \A c \in CancelCalls : cancelPc[c] \in CancelReplies

Rest == Idle /\ UNCHANGED vars

Next ==
    \/ \E r \in Submissions : Submit(r) \/ Runner(r) \/ Deadline(r)
    \/ \E c \in CancelCalls : CancelCall(c)
    \/ \E s \in SyncRequests : Sync(s)
    \/ Prune \/ ExpireRows \/ CountRows \/ EvictRows
    \/ Rest

Spec == Init /\ [][Next]_vars

\* The handlers and goroutines that can run do run, and every batch ends.  A
\* client need not cancel, a timeout need not pass, the cleanup need not find
\* anything to do.
Fairness == /\ \A r \in Submissions : WF_vars(Submit(r)) /\ WF_vars(Runner(r))
            /\ \A s \in SyncRequests : WF_vars(Sync(s))
FairSpec == Spec /\ Fairness

-----------------------------------------------------------------------------
(* Properties. *)

RunnerSteps == {"enter", "register", "begin", "pool", "settleOk", "settleErr", "save",
                "unregister", "leave"}
Saved == {"unregister", "leave", "gone"}   \* the goroutine has written its verdict
Keyed == {"launch", "accepted", "rejected"} \* the handler is past SetIdempotencyKey

\* Some cancel call was answered 202 cancelled for job j.
CancelledBy(j) == \E c \in CancelCalls : target[c] = j /\ cancelPc[c] = "cancelled"

JobRecord == [status : Live \union Terminal \union {"absent"}, report : BOOLEAN,
              createdAt : Nat]

\* Type correctness of the state of the server.
TypeOK ==
    /\ subPc \in [Submissions -> {"lookup", "fetch", "limit", "create", "setkey", "launch"}
                                   \union Replies]
    /\ found \in [Submissions -> Submissions \union {NoJob}]
    /\ jobs \in [Submissions -> JobRecord]
    /\ idempotency \in [Keys -> Submissions \union {NoJob}]
    /\ store \in Stores /\ surplus \in Nat
    /\ runPc \in [Submissions -> RunnerSteps \union {"unborn", "gone"}]
    /\ local \in [Submissions -> JobRecord]
    /\ ctxErr \in [Submissions -> {"none", "canceled", "deadline"}]
    /\ jobCancels \subseteq Submissions
    /\ activeJobs \in Nat
    /\ syncPc \in [SyncRequests -> {"limit", "enter", "execute", "busy", "invalid",
                                 "answered"}]
    /\ cancelPc \in [CancelCalls -> {"get", "find", "cancel", "write"} \union CancelReplies]
    /\ target \in [CancelCalls -> Submissions \union {NoJob}]
    /\ copy \in [CancelCalls -> JobRecord]
    /\ clock \in Nat

\* After the goroutine of a job has written its verdict, the store holds exactly
\* that record, or nothing because the job was evicted, or the record of a cancel
\* request that raced it: no interleaving leaves the job queued or running.
VerdictKept ==
    \A r \in Submissions : runPc[r] \in Saved =>
      \/ ~Stored(r)
      \/ jobs[r] = local[r] /\ local[r].status \in Terminal
      \/ jobs[r].status = "cancelled" /\ CancelledBy(r)

\* Once the goroutine of a job has declared it running, a terminal status is
\* never taken back by a live one.
NoReturnFromTerminal ==
    [][\A r \in Submissions :
         /\ runPc[r] \notin {"unborn", "enter", "register", "begin"}
         /\ jobs[r].status \in Terminal
         => jobs'[r].status \in Terminal \union {"absent"}]_vars

\* What the store says happened did happen: a report belongs to a terminal job,
\* a completed or failed job was executed, a cancelled one was cancelled.
StatusJustified ==
    \A r \in Submissions :
      /\ jobs[r].report => jobs[r].status \in Terminal
      /\ jobs[r].status = "completed" => local[r].report /\ runPc[r] \in Saved
      /\ jobs[r].status = "failed" => runPc[r] \in Saved
      /\ jobs[r].status = "cancelled" => CancelledBy(r) \/ ctxErr[r] = "canceled"

\* A retry finds the job of an earlier submission for as long as that job is
\* stored: its key is forgotten only if the job was cancelled while its goroutine
\* or a cancel request could still write it, or another job took the key.
KeyKept ==
    \A q \in Submissions :
      /\ KeyOf[q] # NoKey /\ subPc[q] \in Keyed /\ Stored(q)
      /\ idempotency[KeyOf[q]] = NoJob
      => \/ CancelledBy(q)
         \/ \E p \in Submissions \ {q} : KeyOf[p] = KeyOf[q] /\ subPc[p] \in Keyed

\* A job whose submission was answered 202 reaches a terminal status, or is
\* evicted after it did, and never becomes live again.
AcceptedSettles ==
    \A r \in Submissions :
      subPc[r] = "accepted" ~> [](jobs[r].status \in Terminal \union {"absent"})

\* Every slot of the capacity counter and every registered cancel function is
\* given back.
SlotsReturned == <>[](activeJobs = 0 /\ jobCancels = {})

-----------------------------------------------------------------------------
(* What README.md promises and the code does not keep. *)

\* "Gracefully stops a running or queued job": a cancel answered with status
\* cancelled is not undone.
CancelSticks ==
    \A c \in CancelCalls : cancelPc[c] = "cancelled" =>
                             jobs[target[c]].status \in {"cancelled", "absent"}

\* "Identical jobs are not executed multiple times".
OneJobPerKey ==
    \A p, q \in Submissions :
      /\ KeyOf[p] = KeyOf[q] /\ KeyOf[p] # NoKey
      /\ Stored(p) /\ runPc[p] # "unborn" /\ Stored(q) /\ runPc[q] # "unborn"
      => p = q

\* "Enforces a global limit on the number of active requests (jobs)".
CapacityRespected == MaxConcurrentJobs > 0 => activeJobs <= MaxConcurrentJobs

=============================================================================
