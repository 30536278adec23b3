--------------------------- MODULE JobServerProofs ---------------------------
(***************************************************************************)
(* Theorems about module JobServer: the safety properties that its runs    *)
(* check hold for every number of submissions, synchronous requests and    *)
(* cancel requests, every capacity and history, and both stores.           *)
(***************************************************************************)
EXTENDS JobServer, FiniteSetTheorems, TLAPS

-----------------------------------------------------------------------------
(* The inductive invariant. *)

\* The goroutines and synchronous requests that are counted.
Inside      == {r \in Submissions : runPc[r] \notin {"unborn", "enter", "gone"}}
InsideSync  == {s \in SyncRequests : syncPc[s] = "execute"}

SlotInv == activeJobs = Cardinality(Inside) + Cardinality(InsideSync)

\* A goroutine exists only for an accepted submission, and its own record follows
\* its steps.
LocalInv(r) ==
    /\ runPc[r] # "unborn" => subPc[r] = "accepted"
    /\ subPc[r] = "create" => local[r].status = "queued"
    /\ runPc[r] \in {"unborn", "enter", "register", "begin", "pool"} => ~local[r].report
    /\ runPc[r] = "settleOk" => local[r].report
    /\ runPc[r] \in {"save"} \union Saved =>
         /\ local[r].status \in Terminal
         /\ local[r].status = "completed" => local[r].report
         /\ local[r].status = "cancelled" => ctxErr[r] = "canceled"

\* What StatusJustified says of one job.
Justified(r) ==
    /\ jobs[r].report => jobs[r].status \in Terminal
    /\ jobs[r].status = "completed" => local[r].report /\ runPc[r] \in Saved
    /\ jobs[r].status = "failed" => runPc[r] \in Saved
    /\ jobs[r].status = "cancelled" => CancelledBy(r) \/ ctxErr[r] = "canceled"

\* What VerdictKept says of one job.
Kept(r) ==
    runPc[r] \in Saved =>
      \/ ~Stored(r)
      \/ jobs[r] = local[r] /\ local[r].status \in Terminal
      \/ jobs[r].status = "cancelled" /\ CancelledBy(r)

\* Before its goroutine has written a verdict, only a cancel request makes a job
\* terminal; so if the cleanup took it by then, a cancel request was answered.
OnlyCancelled(r) ==
    runPc[r] \notin Saved =>
      /\ jobs[r].status \in Terminal => CancelledBy(r)
      /\ subPc[r] \in {"setkey"} \union Keyed /\ ~Stored(r) => CancelledBy(r)

JobInv(r) == LocalInv(r) /\ Justified(r) /\ Kept(r) /\ OnlyCancelled(r)

\* A cancel request holds a clone of a job that was live when it was read.
CopyInv(c) ==
    cancelPc[c] \in {"find", "cancel", "write"} =>
      /\ target[c] \in Submissions
      /\ copy[c].status \in Live
      /\ ~copy[c].report

\* A key belongs to a submission that carries it and has set it.
KeyInv ==
    \A k \in Keys : idempotency[k] # NoJob =>
      KeyOf[idempotency[k]] = k /\ subPc[idempotency[k]] \in Keyed

ServerInv ==
    /\ TypeOK
    /\ SlotInv
    /\ \A r \in Submissions : JobInv(r)
    /\ \A c \in CancelCalls : CopyInv(c)
    /\ KeyInv
    /\ KeyKept

-----------------------------------------------------------------------------
(* What an action keeps because it does not touch it. *)

\* The counter is right as long as nobody comes in or goes out.
LEMMA SlotFrame ==
    ASSUME SlotInv, Inside' = Inside, UNCHANGED <<activeJobs, syncPc>>
    PROVE  SlotInv'
<1>1. InsideSync' = InsideSync  BY DEF InsideSync
<1>2. QED  BY <1>1 DEF SlotInv

LEMMA InsideFrame ==
    ASSUME UNCHANGED runPc
    PROVE  Inside' = Inside
BY DEF Inside

LEMMA CopyFrame ==
    ASSUME \A c \in CancelCalls : CopyInv(c), UNCHANGED cancelVars
    PROVE  \A c \in CancelCalls : CopyInv(c)'
BY DEF CopyInv, cancelVars

LEMMA CancelledFrame ==
    ASSUME UNCHANGED cancelVars
    PROVE  \A q \in Submissions : CancelledBy(q)' = CancelledBy(q)
BY DEF CancelledBy, cancelVars

\* A submission that has set its key has done so for good.
LEMMA KeyFrame ==
    ASSUME KeyInv, UNCHANGED idempotency,
           \A q \in Submissions : subPc[q] \in Keyed => subPc'[q] \in Keyed,
           TypeOK
    PROVE  KeyInv'
BY DEF KeyInv, TypeOK

\* What concerns job q, with the jobs, its submission and goroutine as they were.
LEMMA JobFrame ==
    ASSUME NEW q \in Submissions, JobInv(q),
           runPc'[q] = runPc[q], subPc'[q] = subPc[q], local'[q] = local[q],
           ctxErr'[q] = ctxErr[q], jobs'[q] = jobs[q],
           CancelledBy(q) => CancelledBy(q)'
    PROVE  JobInv(q)'
<1>1. LocalInv(q)'  BY DEF JobInv, LocalInv
<1>2. Justified(q)'  BY DEF JobInv, Justified
<1>3. Kept(q)'  BY DEF JobInv, Kept, Stored
<1>4. OnlyCancelled(q)'  BY DEF JobInv, OnlyCancelled, Stored
<1>5. QED  BY <1>1, <1>2, <1>3, <1>4 DEF JobInv

\* Keys that stay keep KeyKept, unless a job that was gone is back.
LEMMA KeptFrame ==
    ASSUME KeyKept, TypeOK, UNCHANGED idempotency,
           \A q \in Submissions : subPc[q] \in Keyed <=> subPc'[q] \in Keyed,
           \A q \in Submissions : CancelledBy(q) => CancelledBy(q)',
           \A q \in Submissions :
             subPc[q] \in Keyed /\ jobs'[q].status # "absent" => Stored(q) \/ CancelledBy(q)'
    PROVE  KeyKept'
<1>1. SUFFICES ASSUME NEW q \in Submissions, KeyOf[q] # NoKey, subPc'[q] \in Keyed,
                      jobs'[q].status # "absent", idempotency[KeyOf[q]] = NoJob
               PROVE  CancelledBy(q)' \/ \E p \in Submissions \ {q} : KeyOf[p] = KeyOf[q] /\ subPc'[p] \in Keyed
  BY DEF KeyKept, Stored
<1>2. CASE Stored(q)  BY <1>1, <1>2 DEF KeyKept
<1>3. CASE ~Stored(q)  BY <1>1, <1>3
<1>4. QED  BY <1>2, <1>3

-----------------------------------------------------------------------------
(* The handler. *)

LEMMA InitServer == Init => ServerInv
<1>1. SUFFICES ASSUME Init PROVE ServerInv  OBVIOUS
<1>2. TypeOK  BY <1>1, LimitAssumption DEF Init, TypeOK, Absent, Record, JobRecord, Replies, RunnerSteps, CancelReplies
<1>3. SlotInv
  <2>1. Inside = {} /\ InsideSync = {}  BY <1>1 DEF Init, Inside, InsideSync
  <2>2. QED  BY <1>1, <2>1, FS_EmptySet DEF Init, SlotInv
<1>4. ASSUME NEW r \in Submissions PROVE JobInv(r)
  BY <1>1 DEF Init, JobInv, LocalInv, Justified, Kept, OnlyCancelled, Stored, Absent, Record,
              Saved, Terminal, Keyed
<1>5. \A c \in CancelCalls : CopyInv(c)  BY <1>1 DEF Init, CopyInv
<1>6. KeyInv  BY <1>1 DEF Init, KeyInv
<1>7. KeyKept  BY <1>1 DEF Init, KeyKept, Keyed
<1>8. QED  BY <1>2, <1>3, <1>4, <1>5, <1>6, <1>7 DEF ServerInv

\* The handler's steps up to the check of the limit.
LEMMA LookupPreserves ==
    ASSUME ServerInv, NEW r \in Submissions, Lookup(r) \/ Fetch(r) \/ CheckLimit(r)
    PROVE  ServerInv'
<1>1. TypeOK /\ SlotInv /\ KeyInv /\ KeyKept /\ (\A q \in Submissions : JobInv(q))
      /\ \A c \in CancelCalls : CopyInv(c)  BY DEF ServerInv
<1>2. UNCHANGED <<pruneVars, jobs, idempotency, runPc, ctxErr, jobCancels, activeJobs, syncPc, cancelVars>>
  BY DEF Lookup, Fetch, CheckLimit, runVars
<1>3. subPc[r] \in {"lookup", "fetch", "limit"}  BY DEF Lookup, Fetch, CheckLimit
<1>4. PICK pc \in {"fetch", "limit", "reused", "busy", "invalid", "create"} :
        subPc' = [subPc EXCEPT ![r] = pc]
  BY DEF Lookup, Fetch, CheckLimit, Reply
<1>5. TypeOK'
  <2>1. subPc' \in [Submissions -> {"lookup", "fetch", "limit", "create", "setkey", "launch"}
                                   \union Replies]
    BY <1>1, <1>4 DEF TypeOK, Replies
  <2>2. found' \in [Submissions -> Submissions \union {NoJob}]
    <3>1. \A k \in Keys : idempotency[k] \in Submissions \union {NoJob}  BY <1>1 DEF TypeOK
    <3>2. KeyOf[r] # NoKey => KeyOf[r] \in Keys  BY RequestAssumption
    <3>3. \/ found' = found
          \/ \E q \in Submissions \union {NoJob} : found' = [found EXCEPT ![r] = q]
      BY <3>1, <3>2 DEF Lookup, Fetch, CheckLimit
    <3>4. QED  BY <1>1, <3>3 DEF TypeOK
  <2>3. local' \in [Submissions -> JobRecord] /\ clock' \in Nat
    <3>1. CASE CheckLimit(r)
      <4>1. Record("queued", FALSE, clock + 1) \in JobRecord
        BY <1>1 DEF TypeOK, Record, JobRecord, Live
      <4>2. local \in [Submissions -> JobRecord] /\ clock \in Nat  BY <1>1 DEF TypeOK
      <4>3. \/ UNCHANGED <<local, clock>>
            \/ clock' = clock + 1 /\ local' = [local EXCEPT ![r] = Record("queued", FALSE, clock + 1)]
        BY <3>1 DEF CheckLimit
      <4>4. CASE UNCHANGED <<local, clock>>  BY <4>2, <4>4
      <4>5. CASE clock' = clock + 1 /\ local' = [local EXCEPT ![r] = Record("queued", FALSE, clock + 1)]
        <5>1. clock' \in Nat  BY <4>2, <4>5
        <5>2. local' \in [Submissions -> JobRecord]  BY <4>1, <4>2, <4>5
        <5>3. QED  BY <5>1, <5>2
      <4>6. QED  BY <4>3, <4>4, <4>5
    <3>2. CASE Lookup(r) \/ Fetch(r)  BY <1>1, <3>2 DEF TypeOK, Lookup, Fetch, runVars
    <3>3. QED  BY <3>1, <3>2
  <2>4. QED  BY <1>1, <1>2, <2>1, <2>2, <2>3 DEF TypeOK, pruneVars, cancelVars
<1>6. SlotInv'  BY <1>1, <1>2, SlotFrame, InsideFrame
<1>7. ASSUME NEW q \in Submissions PROVE JobInv(q)'
  <2>1. CancelledBy(q)' = CancelledBy(q)  BY <1>2, CancelledFrame
  <2>2. CASE q # r
    <3>1. local'[q] = local[q] /\ subPc'[q] = subPc[q]
      BY <1>1, <1>4, <2>2 DEF TypeOK, Lookup, Fetch, CheckLimit, runVars
    <3>2. QED  BY <1>1, <1>2, <2>1, <3>1, JobFrame
  <2>3. CASE q = r
    <3>1. runPc[r] = "unborn"  BY <1>1, <1>3 DEF JobInv, LocalInv
    <3>2. subPc'[r] = pc  BY <1>1, <1>4 DEF TypeOK
    <3>3. ~local[r].report  BY <1>1, <3>1 DEF JobInv, LocalInv
    <3>4. ~local'[r].report /\ (pc = "create" => local'[r].status = "queued")
      <4>1. CASE CheckLimit(r) /\ subPc'[r] = "create"
        BY <1>1, <4>1 DEF CheckLimit, TypeOK, Record, Reply
      <4>2. CASE CheckLimit(r) /\ subPc'[r] # "create"
        BY <1>1, <3>2, <3>3, <4>2 DEF CheckLimit, TypeOK, Reply
      <4>3. CASE Lookup(r) \/ Fetch(r)
        BY <1>1, <3>2, <3>3, <4>3 DEF Lookup, Fetch, TypeOK, Reply, runVars
      <4>4. QED  BY <4>1, <4>2, <4>3
    <3>5. LocalInv(r)'  BY <1>2, <3>1, <3>2, <3>4 DEF LocalInv, Saved
    <3>6. Justified(r)' /\ Kept(r)' /\ OnlyCancelled(r)'
      BY <1>1, <1>2, <2>1, <2>3, <3>1, <3>2
         DEF JobInv, Justified, Kept, OnlyCancelled, Saved, Stored, Keyed
    <3>7. QED  BY <2>3, <3>5, <3>6 DEF JobInv
  <2>4. QED  BY <2>2, <2>3
<1>8. \A c \in CancelCalls : CopyInv(c)'  BY <1>1, <1>2, CopyFrame
<1>9. \A q \in Submissions : subPc[q] \in Keyed <=> subPc'[q] \in Keyed
  BY <1>1, <1>3, <1>4 DEF TypeOK, Keyed
<1>10. KeyInv'  BY <1>1, <1>2, <1>9, KeyFrame
<1>11. KeyKept'
  <2>1. \A q \in Submissions : CancelledBy(q)' = CancelledBy(q)  BY <1>2, CancelledFrame
  <2>2. QED  BY <1>1, <1>2, <1>9, <2>1, KeptFrame DEF Stored
<1>12. QED  BY <1>5, <1>6, <1>7, <1>8, <1>10, <1>11 DEF ServerInv

\* JobStore.Create, before which the job is neither stored nor running.
LEMMA CreatePreserves ==
    ASSUME ServerInv, NEW r \in Submissions, Create(r)
    PROVE  ServerInv'
<1>1. TypeOK /\ SlotInv /\ KeyInv /\ KeyKept /\ (\A q \in Submissions : JobInv(q))
      /\ \A c \in CancelCalls : CopyInv(c)  BY DEF ServerInv
<1>2. UNCHANGED <<pruneVars, found, idempotency, runVars, ctxErr, jobCancels, activeJobs, syncPc,
                  cancelVars, clock>>
  BY DEF Create
<1>3. subPc[r] = "create" /\ subPc' = [subPc EXCEPT ![r] = "setkey"]
      /\ jobs' = [jobs EXCEPT ![r] = local[r]]
  BY DEF Create, Reply
<1>4. TypeOK'  BY <1>1, <1>2, <1>3 DEF TypeOK, pruneVars, cancelVars, runVars
<1>5. SlotInv'  BY <1>1, <1>2, SlotFrame, InsideFrame DEF runVars
<1>6. ASSUME NEW q \in Submissions PROVE JobInv(q)'
  <2>1. CancelledBy(q)' = CancelledBy(q)  BY <1>2, CancelledFrame
  <2>2. CASE q # r
    <3>1. jobs'[q] = jobs[q] /\ subPc'[q] = subPc[q]  BY <1>1, <1>3, <2>2 DEF TypeOK
    <3>2. QED  BY <1>1, <1>2, <2>1, <3>1, JobFrame DEF runVars
  <2>3. CASE q = r
    <3>1. runPc[r] = "unborn" /\ local[r].status = "queued" /\ ~local[r].report
      BY <1>1, <1>3 DEF JobInv, LocalInv
    <3>2. subPc'[r] = "setkey" /\ jobs'[r] = local[r]  BY <1>1, <1>3 DEF TypeOK
    <3>3. LocalInv(r)'  BY <1>1, <1>2, <3>1, <3>2 DEF LocalInv, runVars, Saved
    <3>4. Justified(r)' /\ Kept(r)' /\ OnlyCancelled(r)'
      BY <1>2, <3>1, <3>2 DEF Justified, Kept, OnlyCancelled, Saved, Stored, Terminal, runVars
    <3>5. QED  BY <2>3, <3>3, <3>4 DEF JobInv
  <2>4. QED  BY <2>2, <2>3
<1>7. \A c \in CancelCalls : CopyInv(c)'  BY <1>1, <1>2, CopyFrame
<1>8. \A q \in Submissions : subPc[q] \in Keyed <=> subPc'[q] \in Keyed
  BY <1>1, <1>3 DEF TypeOK, Keyed
<1>9. KeyInv'  BY <1>1, <1>2, <1>8, KeyFrame
<1>10. KeyKept'
  <2>1. \A q \in Submissions : CancelledBy(q)' = CancelledBy(q)  BY <1>2, CancelledFrame
  <2>2. \A q \in Submissions : subPc[q] \in Keyed => jobs'[q] = jobs[q]
    BY <1>1, <1>3 DEF TypeOK, Keyed
  <2>3. QED  BY <1>1, <1>2, <1>8, <2>1, <2>2, KeptFrame DEF Stored
<1>11. QED  BY <1>4, <1>5, <1>6, <1>7, <1>9, <1>10 DEF ServerInv

\* JobStore.SetIdempotencyKey, which may take the key over from another submission.
LEMMA SetKeyPreserves ==
    ASSUME ServerInv, NEW r \in Submissions, SetKey(r)
    PROVE  ServerInv'
<1>1. TypeOK /\ SlotInv /\ KeyInv /\ KeyKept /\ (\A q \in Submissions : JobInv(q))
      /\ \A c \in CancelCalls : CopyInv(c)  BY DEF ServerInv
<1>2. UNCHANGED <<pruneVars, found, jobs, runVars, ctxErr, jobCancels, activeJobs, syncPc,
                  cancelVars, clock>>
  BY DEF SetKey
<1>3. subPc[r] = "setkey" /\ subPc' = [subPc EXCEPT ![r] = "launch"]
  BY DEF SetKey, Reply
<1>4. \/ KeyOf[r] # NoKey /\ idempotency' = [idempotency EXCEPT ![KeyOf[r]] = r]
      \/ KeyOf[r] = NoKey /\ UNCHANGED idempotency
      \/ ~Stored(r) /\ UNCHANGED idempotency
  BY DEF SetKey
<1>5. KeyOf[r] # NoKey => KeyOf[r] \in Keys  BY RequestAssumption
<1>6. TypeOK'
  <2>1. idempotency' \in [Keys -> Submissions \union {NoJob}]  BY <1>1, <1>4, <1>5 DEF TypeOK
  <2>2. QED  BY <1>1, <1>2, <1>3, <2>1 DEF TypeOK, pruneVars, cancelVars, runVars
<1>7. SlotInv'  BY <1>1, <1>2, SlotFrame, InsideFrame DEF runVars
<1>8. ASSUME NEW q \in Submissions PROVE JobInv(q)'
  <2>1. CancelledBy(q)' = CancelledBy(q)  BY <1>2, CancelledFrame
  <2>2. CASE q # r
    <3>1. subPc'[q] = subPc[q]  BY <1>1, <1>3, <2>2 DEF TypeOK
    <3>2. QED  BY <1>1, <1>2, <2>1, <3>1, JobFrame DEF runVars
  <2>3. CASE q = r
    <3>1. runPc[r] = "unborn"  BY <1>1, <1>3 DEF JobInv, LocalInv
    <3>2. subPc'[r] = "launch"  BY <1>1, <1>3 DEF TypeOK
    <3>3. LocalInv(r)'  BY <1>1, <1>2, <3>1, <3>2 DEF JobInv, LocalInv, runVars, Saved
    <3>4. Justified(r)' /\ Kept(r)' /\ OnlyCancelled(r)'
      BY <1>1, <1>2, <1>3, <2>1, <2>3, <3>1, <3>2
         DEF JobInv, Justified, Kept, OnlyCancelled, Saved, Stored, runVars
    <3>5. QED  BY <2>3, <3>3, <3>4 DEF JobInv
  <2>4. QED  BY <2>2, <2>3
<1>9. \A c \in CancelCalls : CopyInv(c)'  BY <1>1, <1>2, CopyFrame
<1>10. \A q \in Submissions : /\ subPc[q] \in Keyed => subPc'[q] \in Keyed
                              /\ q # r => subPc'[q] = subPc[q]
  BY <1>1, <1>3 DEF TypeOK, Keyed
<1>11. subPc'[r] \in Keyed  BY <1>1, <1>3 DEF TypeOK, Keyed
<1>12. KeyInv'
  <2>1. SUFFICES ASSUME NEW k \in Keys, idempotency'[k] # NoJob
                 PROVE  KeyOf[idempotency'[k]] = k /\ subPc'[idempotency'[k]] \in Keyed
    BY DEF KeyInv
  <2>2. CASE idempotency'[k] = idempotency[k]
    BY <1>1, <1>10, <2>1, <2>2 DEF KeyInv, TypeOK
  <2>3. CASE idempotency'[k] # idempotency[k]
    <3>1. idempotency'[k] = r /\ KeyOf[r] = k  BY <1>1, <1>4, <1>5, <2>3 DEF TypeOK
    <3>2. QED  BY <1>11, <3>1
  <2>4. QED  BY <2>2, <2>3
<1>13. KeyKept'
  <2>1. SUFFICES ASSUME NEW q \in Submissions, KeyOf[q] # NoKey, subPc'[q] \in Keyed,
                        Stored(q), idempotency'[KeyOf[q]] = NoJob
                 PROVE  \/ CancelledBy(q)
                        \/ \E p \in Submissions \ {q} : KeyOf[p] = KeyOf[q] /\ subPc'[p] \in Keyed
    <3>1. \A q \in Submissions : CancelledBy(q)' = CancelledBy(q)  BY <1>2, CancelledFrame
    <3>2. \A q \in Submissions : Stored(q)' = Stored(q)  BY <1>2 DEF Stored
    <3>3. QED  BY <3>1, <3>2 DEF KeyKept
  <2>2. idempotency[KeyOf[q]] = NoJob /\ q # r
    <3>1. KeyOf[q] \in Keys  BY <2>1, RequestAssumption
    <3>2. CASE KeyOf[r] # NoKey /\ idempotency' = [idempotency EXCEPT ![KeyOf[r]] = r]
      BY <1>1, <1>5, <2>1, <3>1, <3>2, IdentityAssumption DEF TypeOK
    <3>3. CASE (KeyOf[r] = NoKey \/ ~Stored(r)) /\ UNCHANGED idempotency
      BY <2>1, <3>3
    <3>4. QED  BY <1>4, <3>2, <3>3
  <2>3. subPc[q] \in Keyed  BY <1>10, <2>1, <2>2
  <2>4. QED  BY <1>1, <1>10, <2>1, <2>2, <2>3 DEF KeyKept
<1>14. QED  BY <1>6, <1>7, <1>8, <1>9, <1>12, <1>13 DEF ServerInv

\* The callback URL is refused, or the goroutine is started.
LEMMA LaunchPreserves ==
    ASSUME ServerInv, NEW r \in Submissions, Refuse(r) \/ Launch(r)
    PROVE  ServerInv'
<1>1. TypeOK /\ SlotInv /\ KeyInv /\ KeyKept /\ (\A q \in Submissions : JobInv(q))
      /\ \A c \in CancelCalls : CopyInv(c)  BY DEF ServerInv
<1>2. UNCHANGED <<pruneVars, found, jobs, idempotency, local, ctxErr, jobCancels, activeJobs,
                  syncPc, cancelVars, clock>>
  BY DEF Refuse, Launch, runVars
<1>3. subPc[r] = "launch"  BY DEF Refuse, Launch
<1>4. \/ subPc' = [subPc EXCEPT ![r] = "rejected"] /\ runPc' = runPc
      \/ subPc' = [subPc EXCEPT ![r] = "accepted"] /\ runPc' = [runPc EXCEPT ![r] = "enter"]
  BY DEF Refuse, Launch, Reply, runVars
<1>5. runPc[r] = "unborn"  BY <1>1, <1>3 DEF JobInv, LocalInv
<1>6. TypeOK'
  BY <1>1, <1>2, <1>4 DEF TypeOK, pruneVars, cancelVars, Replies, RunnerSteps
<1>7. SlotInv'
  <2>1. Inside' = Inside  BY <1>1, <1>4, <1>5 DEF Inside, TypeOK
  <2>2. QED  BY <1>1, <1>2, <2>1, SlotFrame
<1>8. ASSUME NEW q \in Submissions PROVE JobInv(q)'
  <2>1. CancelledBy(q)' = CancelledBy(q)  BY <1>2, CancelledFrame
  <2>2. CASE q # r
    <3>1. subPc'[q] = subPc[q] /\ runPc'[q] = runPc[q]  BY <1>1, <1>4, <2>2 DEF TypeOK
    <3>2. QED  BY <1>1, <1>2, <2>1, <3>1, JobFrame
  <2>3. CASE q = r
    <3>1. \/ subPc'[r] = "rejected" /\ runPc'[r] = "unborn"
          \/ subPc'[r] = "accepted" /\ runPc'[r] = "enter"
      BY <1>1, <1>4, <1>5 DEF TypeOK
    <3>2. LocalInv(r)'  BY <1>1, <1>2, <1>5, <3>1 DEF JobInv, LocalInv, Saved
    <3>3. Justified(r)' /\ Kept(r)' /\ OnlyCancelled(r)'
      BY <1>1, <1>2, <1>3, <1>5, <2>1, <2>3, <3>1
         DEF JobInv, Justified, Kept, OnlyCancelled, Saved, Stored, Keyed
    <3>4. QED  BY <2>3, <3>2, <3>3 DEF JobInv
  <2>4. QED  BY <2>2, <2>3
<1>9. \A c \in CancelCalls : CopyInv(c)'  BY <1>1, <1>2, CopyFrame
<1>10. \A q \in Submissions : subPc[q] \in Keyed <=> subPc'[q] \in Keyed
  BY <1>1, <1>3, <1>4 DEF TypeOK, Keyed
<1>11. KeyInv'  BY <1>1, <1>2, <1>10, KeyFrame
<1>12. KeyKept'
  <2>1. \A q \in Submissions : CancelledBy(q)' = CancelledBy(q)  BY <1>2, CancelledFrame
  <2>2. QED  BY <1>1, <1>2, <1>10, <2>1, KeptFrame DEF Stored
<1>13. QED  BY <1>6, <1>7, <1>8, <1>9, <1>11, <1>12 DEF ServerInv

-----------------------------------------------------------------------------
(* The goroutine of a job. *)

\* A step of the goroutine of r that leaves the handlers and the keys alone keeps the
\* invariant, if it keeps what concerns r itself.
LEMMA RunnerPreserves ==
    ASSUME ServerInv, NEW r \in Submissions, TypeOK', SlotInv',
           UNCHANGED <<subVars, idempotency, cancelVars>>,
           subPc[r] = "accepted",
           \A q \in Submissions \ {r} : /\ runPc'[q] = runPc[q] /\ local'[q] = local[q]
                                         /\ ctxErr'[q] = ctxErr[q] /\ jobs'[q] = jobs[q],
           LocalInv(r)', Justified(r)', Kept(r)', OnlyCancelled(r)',
           jobs'[r].status # "absent" => Stored(r) \/ CancelledBy(r)
    PROVE  ServerInv'
<1>1. TypeOK /\ SlotInv /\ KeyInv /\ KeyKept /\ (\A q \in Submissions : JobInv(q))
      /\ \A c \in CancelCalls : CopyInv(c)  BY DEF ServerInv
<1>2. subPc' = subPc  BY DEF subVars
<1>3. \A q \in Submissions : CancelledBy(q)' = CancelledBy(q)  BY CancelledFrame
<1>4. ASSUME NEW q \in Submissions PROVE JobInv(q)'
  <2>1. CASE q # r
    <3>1. q \in Submissions \ {r}  BY <2>1
    <3>2. QED  BY <1>1, <1>2, <1>3, <3>1, JobFrame
  <2>2. CASE q = r  BY <2>2 DEF JobInv
  <2>3. QED  BY <2>1, <2>2
<1>5. \A c \in CancelCalls : CopyInv(c)'  BY <1>1, CopyFrame
<1>6. KeyInv'  BY <1>1, <1>2, KeyFrame
<1>7. KeyKept'
  <2>1. \A q \in Submissions : jobs'[q].status # "absent" => Stored(q) \/ CancelledBy(q)'
    BY <1>3 DEF Stored
  <2>2. QED  BY <1>1, <1>2, <1>3, <2>1, KeptFrame
<1>8. QED  BY <1>1, <1>4, <1>5, <1>6, <1>7 DEF ServerInv

\* What an update of the store by the goroutine or a cancel request leaves.
LEMMA UpdateLeaves ==
    ASSUME TypeOK, NEW j \in Submissions, NEW rec \in JobRecord, Update(j, rec)
    PROVE  /\ jobs' \in [Submissions -> JobRecord]
           /\ \A q \in Submissions \ {j} : jobs'[q] = jobs[q]
           /\ jobs'[j] = rec \/ (~Stored(j) /\ jobs'[j] = jobs[j])
BY DEF TypeOK, Update

\* The goroutine is counted and not yet counted.
LEMMA EnterPreserves ==
    ASSUME ServerInv, NEW r \in Submissions, Enter(r)
    PROVE  ServerInv'
<1>1. TypeOK /\ SlotInv /\ JobInv(r)  BY DEF ServerInv
<1>2. UNCHANGED <<pruneVars, subVars, jobs, idempotency, local, ctxErr, jobCancels, syncPc,
                  cancelVars, clock>>
  BY DEF Enter
<1>3. runPc[r] = "enter" /\ runPc' = [runPc EXCEPT ![r] = "register"] /\ activeJobs' = activeJobs + 1
  BY DEF Enter, Goto
<1>4. TypeOK'  BY <1>1, <1>2, <1>3 DEF TypeOK, pruneVars, subVars, cancelVars, RunnerSteps
<1>5. SlotInv'
  <2>1. Inside' = Inside \union {r} /\ r \notin Inside  BY <1>1, <1>3 DEF Inside, TypeOK
  <2>2. InsideSync' = InsideSync  BY <1>2 DEF InsideSync
  <2>3. IsFiniteSet(Inside) /\ IsFiniteSet(InsideSync)
    BY RequestAssumption, FS_Subset DEF Inside, InsideSync
  <2>4. Cardinality(Inside') = Cardinality(Inside) + 1  BY <2>1, <2>3, FS_AddElement
  <2>5. Cardinality(Inside) \in Nat /\ Cardinality(InsideSync) \in Nat  BY <2>3, FS_CardinalityType
  <2>6. QED  BY <1>1, <1>3, <2>2, <2>4, <2>5 DEF SlotInv
<1>6. runPc'[r] = "register" /\ subPc[r] = "accepted"  BY <1>1, <1>3 DEF TypeOK, JobInv, LocalInv
<1>7. \A q \in Submissions \ {r} : runPc'[q] = runPc[q]  BY <1>1, <1>3 DEF TypeOK
<1>8. LocalInv(r)'  BY <1>1, <1>2, <1>3, <1>6 DEF JobInv, LocalInv, subVars, Saved
<1>9. CancelledBy(r)' = CancelledBy(r)  BY <1>2, CancelledFrame
<1>10. Justified(r)' /\ Kept(r)' /\ OnlyCancelled(r)'
  BY <1>1, <1>2, <1>3, <1>6, <1>9
     DEF JobInv, Justified, Kept, OnlyCancelled, Saved, Stored, subVars
<1>11. QED  BY <1>2, <1>4, <1>5, <1>6, <1>7, <1>8, <1>10, RunnerPreserves DEF Stored

\* The goroutine takes its cancel function out and gives its slot back.
LEMMA LeavePreserves ==
    ASSUME ServerInv, NEW r \in Submissions, Leave(r)
    PROVE  ServerInv'
<1>1. TypeOK /\ SlotInv /\ JobInv(r)  BY DEF ServerInv
<1>2. UNCHANGED <<pruneVars, subVars, jobs, idempotency, local, ctxErr, jobCancels, syncPc,
                  cancelVars, clock>>
  BY DEF Leave
<1>3. runPc[r] = "leave" /\ runPc' = [runPc EXCEPT ![r] = "gone"] /\ activeJobs' = activeJobs - 1
  BY DEF Leave, Goto
<1>4. SlotInv' /\ activeJobs' \in Nat
  <2>1. Inside' = Inside \ {r} /\ r \in Inside  BY <1>1, <1>3 DEF Inside, TypeOK
  <2>2. InsideSync' = InsideSync  BY <1>2 DEF InsideSync
  <2>3. IsFiniteSet(Inside) /\ IsFiniteSet(InsideSync)
    BY RequestAssumption, FS_Subset DEF Inside, InsideSync
  <2>4. IsFiniteSet(Inside') /\ Cardinality(Inside') = Cardinality(Inside) - 1
    BY <2>1, <2>3, FS_RemoveElement
  <2>5. /\ Cardinality(Inside) \in Nat /\ Cardinality(InsideSync) \in Nat
        /\ Cardinality(Inside') \in Nat
    BY <2>3, <2>4, FS_CardinalityType
  <2>6. QED  BY <1>1, <1>3, <2>2, <2>4, <2>5 DEF SlotInv
<1>5. TypeOK'  BY <1>1, <1>2, <1>3, <1>4 DEF TypeOK, pruneVars, subVars, cancelVars
<1>6. runPc'[r] = "gone" /\ subPc[r] = "accepted"  BY <1>1, <1>3 DEF TypeOK, JobInv, LocalInv
<1>7. \A q \in Submissions \ {r} : runPc'[q] = runPc[q]  BY <1>1, <1>3 DEF TypeOK
<1>8. LocalInv(r)'  BY <1>1, <1>2, <1>3, <1>6 DEF JobInv, LocalInv, subVars, Saved
<1>9. CancelledBy(r)' = CancelledBy(r)  BY <1>2, CancelledFrame
<1>10. Justified(r)' /\ Kept(r)' /\ OnlyCancelled(r)'
  BY <1>1, <1>2, <1>3, <1>6, <1>9
     DEF JobInv, Justified, Kept, OnlyCancelled, Saved, Stored, subVars
<1>11. QED  BY <1>2, <1>4, <1>5, <1>6, <1>7, <1>8, <1>10, RunnerPreserves DEF Stored

\* The cancel function is registered, or taken out again.
LEMMA RegisterPreserves ==
    ASSUME ServerInv, NEW r \in Submissions, Register(r) \/ Unregister(r)
    PROVE  ServerInv'
<1>1. TypeOK /\ SlotInv /\ JobInv(r)  BY DEF ServerInv
<1>2. UNCHANGED <<pruneVars, subVars, jobs, idempotency, local, ctxErr, activeJobs, syncPc,
                  cancelVars, clock>>
  BY DEF Register, Unregister
<1>3. \/ runPc[r] = "register" /\ runPc' = [runPc EXCEPT ![r] = "begin"]
      \/ runPc[r] = "unregister" /\ runPc' = [runPc EXCEPT ![r] = "leave"]
  BY DEF Register, Unregister, Goto
<1>4. TypeOK'
  <2>1. jobCancels' \subseteq Submissions  BY <1>1 DEF TypeOK, Register, Unregister
  <2>2. QED  BY <1>1, <1>2, <1>3, <2>1 DEF TypeOK, pruneVars, subVars, cancelVars, RunnerSteps
<1>5. SlotInv'
  <2>1. Inside' = Inside  BY <1>1, <1>3 DEF Inside, TypeOK
  <2>2. QED  BY <1>1, <1>2, <2>1, SlotFrame
<1>6. subPc[r] = "accepted" /\ (\/ runPc[r] = "register" /\ runPc'[r] = "begin"
                                \/ runPc[r] = "unregister" /\ runPc'[r] = "leave")
  BY <1>1, <1>3 DEF TypeOK, JobInv, LocalInv
<1>7. \A q \in Submissions \ {r} : runPc'[q] = runPc[q]  BY <1>1, <1>3 DEF TypeOK
<1>8. LocalInv(r)'  BY <1>1, <1>2, <1>6 DEF JobInv, LocalInv, subVars, Saved
<1>9. CancelledBy(r)' = CancelledBy(r)  BY <1>2, CancelledFrame
<1>10. Justified(r)' /\ Kept(r)' /\ OnlyCancelled(r)'
  BY <1>1, <1>2, <1>6, <1>9 DEF JobInv, Justified, Kept, OnlyCancelled, Saved, Stored, subVars
<1>11. QED  BY <1>2, <1>4, <1>5, <1>6, <1>7, <1>8, <1>10, RunnerPreserves DEF Stored

\* The goroutine declares the job running, whatever the store says of it.
LEMMA BeginPreserves ==
    ASSUME ServerInv, NEW r \in Submissions, Begin(r)
    PROVE  ServerInv'
<1>1. TypeOK /\ SlotInv /\ JobInv(r)  BY DEF ServerInv
<1>2. UNCHANGED <<pruneVars, subVars, idempotency, ctxErr, jobCancels, activeJobs, syncPc,
                  cancelVars, clock>>
  BY DEF Begin
<1>3. /\ runPc[r] = "begin" /\ runPc' = [runPc EXCEPT ![r] = "pool"]
      /\ local' = [local EXCEPT ![r].status = "running"]
      /\ Update(r, local'[r])
  BY DEF Begin, Goto
<1>4. /\ local[r] \in JobRecord /\ local' \in [Submissions -> JobRecord]
      /\ local'[r].status = "running" /\ local'[r].report = local[r].report
      /\ \A q \in Submissions \ {r} : local'[q] = local[q]
  <2>1. local \in [Submissions -> JobRecord]  BY <1>1 DEF TypeOK
  <2>2. local' = [local EXCEPT ![r] = [local[r] EXCEPT !.status = "running"]]  BY <1>3, <2>1
  <2>3. [local[r] EXCEPT !.status = "running"] \in JobRecord  BY <2>1 DEF JobRecord, Live
  <2>4. local'[r] = [local[r] EXCEPT !.status = "running"]  BY <2>1, <2>2
  <2>5. local'[r].status = "running" /\ local'[r].report = local[r].report
    BY <2>1, <2>4 DEF JobRecord
  <2>6. QED  BY <2>1, <2>2, <2>3, <2>5
<1>5. /\ jobs' \in [Submissions -> JobRecord]
      /\ \A q \in Submissions \ {r} : jobs'[q] = jobs[q]
      /\ jobs'[r] = local'[r] \/ (~Stored(r) /\ jobs'[r] = jobs[r])
  BY <1>1, <1>3, <1>4, UpdateLeaves
<1>6. TypeOK'
  BY <1>1, <1>2, <1>3, <1>4, <1>5 DEF TypeOK, pruneVars, subVars, cancelVars, RunnerSteps
<1>7. SlotInv'
  <2>1. Inside' = Inside  BY <1>1, <1>3 DEF Inside, TypeOK
  <2>2. QED  BY <1>1, <1>2, <2>1, SlotFrame
<1>8. subPc[r] = "accepted" /\ runPc'[r] = "pool" /\ ~local[r].report
  BY <1>1, <1>3 DEF TypeOK, JobInv, LocalInv
<1>9. \A q \in Submissions \ {r} : runPc'[q] = runPc[q]  BY <1>1, <1>3 DEF TypeOK
<1>10. LocalInv(r)'  BY <1>2, <1>4, <1>8 DEF LocalInv, subVars, Saved
<1>11. CancelledBy(r)' = CancelledBy(r)  BY <1>2, CancelledFrame
<1>12. ~Stored(r) => CancelledBy(r)
  BY <1>1, <1>3, <1>8 DEF JobInv, OnlyCancelled, Keyed, Saved
<1>13. Justified(r)'
  <2>1. CASE jobs'[r] = local'[r]  BY <1>4, <1>8, <2>1 DEF Justified
  <2>2. CASE ~Stored(r) /\ jobs'[r] = jobs[r]
    BY <1>1, <2>2 DEF JobInv, Justified, Stored, Terminal
  <2>3. QED  BY <1>5, <2>1, <2>2
<1>14. Kept(r)' /\ OnlyCancelled(r)'
  BY <1>4, <1>5, <1>8, <1>11, <1>12 DEF Kept, OnlyCancelled, Stored, Terminal, Saved
<1>15. QED
  BY <1>2, <1>4, <1>5, <1>6, <1>7, <1>8, <1>9, <1>10, <1>12, <1>13, <1>14, RunnerPreserves

\* RunJobPool returns with or without a report, and the goroutine settles its verdict.
LEMMA SettlePreserves ==
    ASSUME ServerInv, NEW r \in Submissions, RunPool(r) \/ Settle(r)
    PROVE  ServerInv'
<1>1. TypeOK /\ SlotInv /\ JobInv(r)  BY DEF ServerInv
<1>2. UNCHANGED <<pruneVars, subVars, jobs, idempotency, ctxErr, jobCancels, activeJobs, syncPc,
                  cancelVars, clock>>
  BY DEF RunPool, Settle
<1>3. PICK pc \in {"settleOk", "settleErr", "save"} : runPc' = [runPc EXCEPT ![r] = pc]
  BY DEF RunPool, Settle, Goto
<1>4. runPc[r] \in {"pool", "settleOk", "settleErr"}  BY DEF RunPool, Settle
<1>5. PICK rec \in JobRecord : local' = [local EXCEPT ![r] = rec]
  <2>1. local[r] \in JobRecord /\ local \in [Submissions -> JobRecord]  BY <1>1 DEF TypeOK
  <2>2. CASE RunPool(r)
    <3>1. PICK report \in BOOLEAN : local' = [local EXCEPT ![r].report = report]  BY <2>2 DEF RunPool
    <3>2. [local[r] EXCEPT !.report = report] \in JobRecord  BY <2>1 DEF JobRecord
    <3>3. local' = [local EXCEPT ![r] = [local[r] EXCEPT !.report = report]]  BY <2>1, <3>1
    <3>4. QED  BY <3>2, <3>3
  <2>3. CASE Settle(r)
    <3>1. [local[r] EXCEPT !.status = Verdict(r)] \in JobRecord
      BY <2>1 DEF JobRecord, Verdict, Terminal
    <3>2. local' = [local EXCEPT ![r] = [local[r] EXCEPT !.status = Verdict(r)]]
      BY <2>1, <2>3 DEF Settle
    <3>3. QED  BY <3>1, <3>2
  <2>4. QED  BY <2>2, <2>3
<1>6. TypeOK'
  BY <1>1, <1>2, <1>3, <1>5 DEF TypeOK, pruneVars, subVars, cancelVars, RunnerSteps
<1>7. SlotInv'
  <2>1. Inside' = Inside  BY <1>1, <1>3, <1>4 DEF Inside, TypeOK
  <2>2. QED  BY <1>1, <1>2, <2>1, SlotFrame
<1>8. subPc[r] = "accepted" /\ runPc'[r] = pc
  BY <1>1, <1>3, <1>4 DEF TypeOK, JobInv, LocalInv
<1>9. \A q \in Submissions \ {r} : runPc'[q] = runPc[q] /\ local'[q] = local[q]
  BY <1>1, <1>3, <1>5 DEF TypeOK
<1>10. LocalInv(r)'
  <2>1. CASE RunPool(r)
    <3>1. pc \in {"settleOk", "settleErr"} /\ (pc = "settleOk" => local'[r].report)
      BY <1>1, <1>8, <2>1 DEF RunPool, Goto, TypeOK, JobRecord
    <3>2. QED  BY <1>2, <1>8, <3>1 DEF LocalInv, subVars, Saved
  <2>2. CASE Settle(r)
    <3>1. pc = "save"  BY <1>1, <1>8, <2>2 DEF Settle, Goto, TypeOK
    <3>2. local'[r].status = Verdict(r) /\ local'[r].report = local[r].report
      BY <1>1, <2>2 DEF Settle, TypeOK, JobRecord
    <3>3. Verdict(r) = "completed" => local[r].report
      BY <1>1, <2>2 DEF Verdict, Settle, JobInv, LocalInv
    <3>4. Verdict(r) \in Terminal /\ (Verdict(r) = "cancelled" => ctxErr[r] = "canceled")
      BY DEF Verdict, Terminal
    <3>5. QED  BY <1>2, <1>8, <3>1, <3>2, <3>3, <3>4 DEF LocalInv, subVars
  <2>3. QED  BY <2>1, <2>2
<1>11. CancelledBy(r)' = CancelledBy(r)  BY <1>2, CancelledFrame
<1>12. Justified(r)' /\ Kept(r)' /\ OnlyCancelled(r)'
  BY <1>1, <1>2, <1>4, <1>8, <1>11
     DEF JobInv, Justified, Kept, OnlyCancelled, Saved, Stored, subVars
<1>13. QED  BY <1>2, <1>6, <1>7, <1>8, <1>9, <1>10, <1>12, RunnerPreserves DEF Stored

\* The verdict is saved, whatever the store says of the job.
LEMMA SavePreserves ==
    ASSUME ServerInv, NEW r \in Submissions, Save(r)
    PROVE  ServerInv'
<1>1. TypeOK /\ SlotInv /\ JobInv(r)  BY DEF ServerInv
<1>2. UNCHANGED <<pruneVars, subVars, idempotency, local, ctxErr, jobCancels, activeJobs, syncPc,
                  cancelVars, clock>>
  BY DEF Save
<1>3. /\ runPc[r] = "save" /\ runPc' = [runPc EXCEPT ![r] = "unregister"]
      /\ Update(r, local[r])
  BY DEF Save, Goto, Deferred
<1>4. local[r] \in JobRecord  BY <1>1 DEF TypeOK
<1>5. /\ jobs' \in [Submissions -> JobRecord]
      /\ \A q \in Submissions \ {r} : jobs'[q] = jobs[q]
      /\ jobs'[r] = local[r] \/ (~Stored(r) /\ jobs'[r] = jobs[r])
  BY <1>1, <1>3, <1>4, UpdateLeaves
<1>6. TypeOK'
  BY <1>1, <1>2, <1>3, <1>5 DEF TypeOK, pruneVars, subVars, cancelVars, RunnerSteps
<1>7. SlotInv'
  <2>1. Inside' = Inside  BY <1>1, <1>3 DEF Inside, TypeOK
  <2>2. QED  BY <1>1, <1>2, <2>1, SlotFrame
<1>8. subPc[r] = "accepted" /\ runPc'[r] = "unregister"
  BY <1>1, <1>3 DEF TypeOK, JobInv, LocalInv
<1>9. \A q \in Submissions \ {r} : runPc'[q] = runPc[q]  BY <1>1, <1>3 DEF TypeOK
<1>10. LocalInv(r)'  BY <1>1, <1>2, <1>3, <1>8 DEF JobInv, LocalInv, subVars, Saved
<1>11. ~Stored(r) => CancelledBy(r)
  BY <1>1, <1>3, <1>8 DEF JobInv, OnlyCancelled, Keyed, Saved
<1>12. /\ local[r].status \in Terminal
       /\ local[r].status = "completed" => local[r].report
       /\ local[r].status = "cancelled" => ctxErr[r] = "canceled"
  BY <1>1, <1>3 DEF JobInv, LocalInv
<1>13. runPc'[r] \in Saved  BY <1>8 DEF Saved
<1>14. Justified(r)'
  <2>1. CASE jobs'[r] = local[r]  BY <1>2, <1>12, <1>13, <2>1 DEF Justified
  <2>2. CASE ~Stored(r) /\ jobs'[r] = jobs[r]
    BY <1>1, <2>2, <1>2, <1>13 DEF JobInv, Justified, Stored, Terminal
  <2>3. QED  BY <1>5, <2>1, <2>2
<1>15. Kept(r)' /\ OnlyCancelled(r)'
  BY <1>2, <1>5, <1>12, <1>13 DEF Kept, OnlyCancelled, Stored
<1>16. QED
  BY <1>2, <1>5, <1>6, <1>7, <1>8, <1>9, <1>10, <1>11, <1>14, <1>15, RunnerPreserves

\* The timeout passes, which no verdict but a later one notices.
LEMMA DeadlinePreserves ==
    ASSUME ServerInv, NEW r \in Submissions, Deadline(r)
    PROVE  ServerInv'
<1>1. TypeOK /\ SlotInv /\ JobInv(r)  BY DEF ServerInv
<1>2. UNCHANGED <<pruneVars, subVars, jobs, idempotency, runVars, jobCancels, activeJobs, syncPc,
                  cancelVars, clock>>
  BY DEF Deadline
<1>3. runPc[r] \in {"begin", "pool", "settleOk", "settleErr"} /\ ctxErr[r] = "none"
      /\ ctxErr' = [ctxErr EXCEPT ![r] = "deadline"]
  BY DEF Deadline
<1>4. TypeOK'  BY <1>1, <1>2, <1>3 DEF TypeOK, pruneVars, subVars, cancelVars, runVars
<1>5. SlotInv'  BY <1>1, <1>2, SlotFrame, InsideFrame DEF runVars
<1>6. subPc[r] = "accepted"  BY <1>1, <1>3 DEF JobInv, LocalInv
<1>7. \A q \in Submissions \ {r} : ctxErr'[q] = ctxErr[q]  BY <1>1, <1>3 DEF TypeOK
<1>8. LocalInv(r)'  BY <1>1, <1>2, <1>3 DEF JobInv, LocalInv, subVars, runVars, Saved
<1>9. CancelledBy(r)' = CancelledBy(r)  BY <1>2, CancelledFrame
<1>10. Justified(r)' /\ Kept(r)' /\ OnlyCancelled(r)'
  BY <1>1, <1>2, <1>3, <1>9
     DEF JobInv, Justified, Kept, OnlyCancelled, Saved, Stored, subVars, runVars
<1>11. QED  BY <1>2, <1>4, <1>5, <1>6, <1>7, <1>8, <1>10, RunnerPreserves DEF Stored, runVars

-----------------------------------------------------------------------------
(* Cancel requests and synchronous requests. *)

\* A step of cancel request c that is not yet answered 202 takes no 202 back.
LEMMA CancelledKept ==
    ASSUME TypeOK, NEW c \in CancelCalls, cancelPc[c] # "cancelled",
           \A d \in CancelCalls \ {c} : cancelPc'[d] = cancelPc[d] /\ target'[d] = target[d],
           NEW q \in Submissions, CancelledBy(q)
    PROVE  CancelledBy(q)'
<1>1. PICK d \in CancelCalls : target[d] = q /\ cancelPc[d] = "cancelled"  BY DEF CancelledBy
<1>2. d \in CancelCalls \ {c}  BY <1>1
<1>3. QED  BY <1>1, <1>2 DEF CancelledBy

\* Reading the job and looking its cancel function up.
LEMMA CancelReadPreserves ==
    ASSUME ServerInv, NEW c \in CancelCalls, CancelGet(c) \/ CancelFind(c)
    PROVE  ServerInv'
<1>1. TypeOK /\ SlotInv /\ KeyInv /\ KeyKept /\ (\A q \in Submissions : JobInv(q))
      /\ \A d \in CancelCalls : CopyInv(d)  BY DEF ServerInv
<1>2. UNCHANGED <<pruneVars, subVars, jobs, idempotency, runVars, ctxErr, jobCancels, activeJobs,
                  syncPc, clock>>
  BY DEF CancelGet, CancelFind
<1>3. PICK j \in Submissions :
        /\ CancelGet(c) => /\ target' = [target EXCEPT ![c] = j]
                           /\ copy' = [copy EXCEPT ![c] = jobs[j]]
                           /\ Answer(c, IF ~Stored(j) THEN "notFound"
                                        ELSE IF jobs[j].status \in Terminal THEN "conflict" ELSE "find")
  <2>1. CASE CancelGet(c)  BY <2>1 DEF CancelGet
  <2>2. CASE ~CancelGet(c)
    <3>1. target[c] \in Submissions  BY <1>1, <2>2 DEF CancelFind, CopyInv
    <3>2. QED  BY <2>2, <3>1
  <2>3. QED  BY <2>1, <2>2
<1>4. jobs[j] \in JobRecord /\ cancelPc[c] \in {"get", "find"}  BY <1>1 DEF TypeOK, CancelGet, CancelFind
<1>5. /\ cancelPc' \in [CancelCalls -> {"get", "find", "cancel", "write"} \union CancelReplies]
      /\ target' \in [CancelCalls -> Submissions \union {NoJob}]
      /\ copy' \in [CancelCalls -> JobRecord]
      /\ \A d \in CancelCalls \ {c} : /\ cancelPc'[d] = cancelPc[d] /\ target'[d] = target[d]
                                       /\ copy'[d] = copy[d]
  <2>1. CASE CancelGet(c)  BY <1>1, <1>3, <1>4, <2>1 DEF TypeOK, Answer, CancelReplies
  <2>2. CASE CancelFind(c)  BY <1>1, <2>2 DEF TypeOK, CancelFind, Answer, CancelReplies
  <2>3. QED  BY <2>1, <2>2
<1>6. TypeOK'  BY <1>1, <1>2, <1>5 DEF TypeOK, pruneVars, subVars, runVars
<1>7. SlotInv'  BY <1>1, <1>2, SlotFrame, InsideFrame DEF runVars
<1>8. \A q \in Submissions : CancelledBy(q) => CancelledBy(q)'
  BY <1>1, <1>4, <1>5, CancelledKept
<1>9. \A q \in Submissions : JobInv(q)'
  BY <1>1, <1>2, <1>8, JobFrame DEF subVars, runVars
<1>10. ASSUME NEW d \in CancelCalls PROVE CopyInv(d)'
  <2>1. CASE d # c
    <3>1. d \in CancelCalls \ {c}  BY <2>1
    <3>2. QED  BY <1>1, <1>5, <3>1 DEF CopyInv
  <2>2. CASE d = c /\ CancelGet(c)
    <3>1. target'[c] = j /\ copy'[c] = jobs[j]  BY <1>1, <1>3, <2>2 DEF TypeOK
    <3>2. cancelPc'[c] \in {"find", "cancel", "write"} => Stored(j) /\ jobs[j].status \notin Terminal
      BY <1>1, <1>3, <2>2 DEF TypeOK, Answer
    <3>3. jobs[j].report => jobs[j].status \in Terminal  BY <1>1 DEF JobInv, Justified
    <3>4. Stored(j) /\ jobs[j].status \notin Terminal => jobs[j].status \in Live
      BY <1>4 DEF JobRecord, Stored
    <3>5. QED  BY <2>2, <3>1, <3>2, <3>3, <3>4 DEF CopyInv
  <2>3. CASE d = c /\ CancelFind(c)
    <3>1. cancelPc[c] = "find" /\ target' = target /\ copy' = copy  BY <2>3 DEF CancelFind
    <3>2. QED  BY <1>1, <2>3, <3>1 DEF CopyInv
  <2>4. QED  BY <2>1, <2>2, <2>3
<1>11. KeyInv'  BY <1>1, <1>2, KeyFrame DEF subVars
<1>12. KeyKept'  BY <1>1, <1>2, <1>8, KeptFrame DEF subVars, Stored
<1>13. QED  BY <1>6, <1>7, <1>9, <1>10, <1>11, <1>12 DEF ServerInv

\* The context of the job is cancelled.
LEMMA CancelCtxPreserves ==
    ASSUME ServerInv, NEW c \in CancelCalls, CancelCtx(c)
    PROVE  ServerInv'
<1>1. TypeOK /\ SlotInv /\ KeyInv /\ KeyKept /\ (\A q \in Submissions : JobInv(q))
      /\ \A d \in CancelCalls : CopyInv(d)  BY DEF ServerInv
<1>2. UNCHANGED <<pruneVars, subVars, jobs, idempotency, runVars, jobCancels, activeJobs,
                  syncPc, target, copy, clock>>
  BY DEF CancelCtx
<1>3. cancelPc[c] = "cancel" /\ cancelPc' = [cancelPc EXCEPT ![c] = "write"]
  BY DEF CancelCtx, Answer
<1>4. \/ ctxErr' = ctxErr
      \/ ctxErr[target[c]] = "none" /\ ctxErr' = [ctxErr EXCEPT ![target[c]] = "canceled"]
  BY DEF CancelCtx
<1>5. target[c] \in Submissions  BY <1>1, <1>3 DEF CopyInv
<1>6. /\ ctxErr' \in [Submissions -> {"none", "canceled", "deadline"}]
      /\ \A q \in Submissions : ctxErr'[q] = ctxErr[q] \/ ctxErr'[q] = "canceled"
  BY <1>1, <1>4, <1>5 DEF TypeOK
<1>7. TypeOK'  BY <1>1, <1>2, <1>3, <1>6 DEF TypeOK, pruneVars, subVars, runVars
<1>8. SlotInv'  BY <1>1, <1>2, SlotFrame, InsideFrame DEF runVars
<1>9. \A q \in Submissions : CancelledBy(q) => CancelledBy(q)'
  BY <1>1, <1>2, <1>3, CancelledKept DEF TypeOK
<1>10. ASSUME NEW q \in Submissions PROVE JobInv(q)'
  <2>1. LocalInv(q)'  BY <1>1, <1>2, <1>6 DEF JobInv, LocalInv, subVars, runVars
  <2>2. Justified(q)'  BY <1>1, <1>2, <1>6, <1>9 DEF JobInv, Justified, runVars
  <2>3. Kept(q)' /\ OnlyCancelled(q)'
    BY <1>1, <1>2, <1>9 DEF JobInv, Kept, OnlyCancelled, Stored, subVars, runVars
  <2>4. QED  BY <2>1, <2>2, <2>3 DEF JobInv
<1>11. \A d \in CancelCalls : CopyInv(d)'
  BY <1>1, <1>2, <1>3 DEF CopyInv, TypeOK
<1>12. KeyInv'  BY <1>1, <1>2, KeyFrame DEF subVars
<1>13. KeyKept'  BY <1>1, <1>2, <1>9, KeptFrame DEF subVars, Stored
<1>14. QED  BY <1>7, <1>8, <1>10, <1>11, <1>12, <1>13 DEF ServerInv

\* The clone, made cancelled, is written over whatever the store has by now, and the
\* answer is 202.
LEMMA CancelWritePreserves ==
    ASSUME ServerInv, NEW c \in CancelCalls, CancelWrite(c)
    PROVE  ServerInv'
<1>1. TypeOK /\ SlotInv /\ KeyInv /\ KeyKept /\ (\A q \in Submissions : JobInv(q))
      /\ \A d \in CancelCalls : CopyInv(d)  BY DEF ServerInv
<1>2. UNCHANGED <<pruneVars, subVars, idempotency, runVars, ctxErr, jobCancels, activeJobs,
                  syncPc, target, copy, clock>>
  BY DEF CancelWrite
<1>3. /\ cancelPc[c] = "write" /\ cancelPc' = [cancelPc EXCEPT ![c] = "cancelled"]
      /\ Update(target[c], CancelledCopy(c))
  BY DEF CancelWrite, Answer
<1>4. target[c] \in Submissions /\ ~copy[c].report /\ copy[c] \in JobRecord
  BY <1>1, <1>3 DEF CopyInv, TypeOK
<1>5. /\ CancelledCopy(c) \in JobRecord
      /\ CancelledCopy(c).status = "cancelled" /\ ~CancelledCopy(c).report
  BY <1>4 DEF CancelledCopy, JobRecord, Terminal
<1>6. /\ jobs' \in [Submissions -> JobRecord]
      /\ \A q \in Submissions \ {target[c]} : jobs'[q] = jobs[q]
      /\ jobs'[target[c]] = CancelledCopy(c) \/ (~Stored(target[c]) /\ jobs'[target[c]] = jobs[target[c]])
  BY <1>1, <1>3, <1>4, <1>5, UpdateLeaves
<1>7. TypeOK'
  BY <1>1, <1>2, <1>3, <1>6 DEF TypeOK, pruneVars, subVars, runVars, CancelReplies
<1>8. SlotInv'  BY <1>1, <1>2, SlotFrame, InsideFrame DEF runVars
<1>9. \A q \in Submissions : CancelledBy(q) => CancelledBy(q)'
  BY <1>1, <1>2, <1>3, CancelledKept DEF TypeOK
<1>10. \A q \in Submissions :
         \/ jobs'[q] = jobs[q]
         \/ jobs'[q].status = "cancelled" /\ ~jobs'[q].report /\ CancelledBy(q)'
  <2>1. SUFFICES ASSUME NEW q \in Submissions, jobs'[q] # jobs[q]
                 PROVE  jobs'[q].status = "cancelled" /\ ~jobs'[q].report /\ CancelledBy(q)'
    OBVIOUS
  <2>2. q = target[c]  BY <1>6, <2>1
  <2>3. jobs'[q] = CancelledCopy(c)  BY <1>6, <2>1, <2>2
  <2>4. CancelledBy(q)'
    <3>1. target'[c] = q /\ cancelPc'[c] = "cancelled"  BY <1>1, <1>2, <1>3, <2>2 DEF TypeOK
    <3>2. QED  BY <3>1 DEF CancelledBy
  <2>5. QED  BY <1>5, <2>3, <2>4
<1>11. ASSUME NEW q \in Submissions PROVE JobInv(q)'
  <2>1. CASE jobs'[q] = jobs[q]
    BY <1>1, <1>2, <1>9, <2>1, JobFrame DEF subVars, runVars
  <2>2. CASE jobs'[q].status = "cancelled" /\ ~jobs'[q].report /\ CancelledBy(q)'
    <3>1. LocalInv(q)'  BY <1>1, <1>2 DEF JobInv, LocalInv, subVars, runVars
    <3>2. Justified(q)' /\ Kept(q)' /\ OnlyCancelled(q)'
      BY <2>2 DEF Justified, Kept, OnlyCancelled
    <3>3. QED  BY <3>1, <3>2 DEF JobInv
  <2>3. QED  BY <1>10, <2>1, <2>2
<1>12. \A d \in CancelCalls : CopyInv(d)'
  BY <1>1, <1>2, <1>3 DEF CopyInv, TypeOK
<1>13. KeyInv'  BY <1>1, <1>2, KeyFrame DEF subVars
<1>14. KeyKept'
  <2>1. \A q \in Submissions : jobs'[q].status # "absent" => Stored(q) \/ CancelledBy(q)'
    BY <1>10 DEF Stored
  <2>2. QED  BY <1>1, <1>2, <1>9, <2>1, KeptFrame DEF subVars
<1>15. QED  BY <1>7, <1>8, <1>11, <1>12, <1>13, <1>14 DEF ServerInv

\* A synchronous request checks the limit, is counted, and is taken out again.
LEMMA SyncPreserves ==
    ASSUME ServerInv, NEW s \in SyncRequests, Sync(s)
    PROVE  ServerInv'
<1>1. TypeOK /\ SlotInv /\ KeyInv /\ KeyKept /\ (\A q \in Submissions : JobInv(q))
      /\ \A c \in CancelCalls : CopyInv(c)  BY DEF ServerInv
<1>2. UNCHANGED <<pruneVars, subVars, jobs, idempotency, runVars, ctxErr, jobCancels, cancelVars,
                  clock>>
  BY DEF Sync, SyncCheck, SyncEnter, SyncLeave, SyncGoto
<1>3. PICK pc \in {"busy", "enter", "invalid", "execute", "answered"} :
        /\ syncPc' = [syncPc EXCEPT ![s] = pc]
        /\ \/ syncPc[s] = "limit" /\ pc # "execute" /\ activeJobs' = activeJobs
           \/ syncPc[s] = "enter" /\ pc = "execute" /\ activeJobs' = activeJobs + 1
           \/ syncPc[s] = "execute" /\ pc = "answered" /\ activeJobs' = activeJobs - 1
  <2>1. CASE SyncCheck(s)
    <3>1. PICK pc \in {"busy", "enter", "invalid"} : SyncGoto(s, pc)  BY <2>1 DEF SyncCheck
    <3>2. QED  BY <2>1, <3>1 DEF SyncCheck, SyncGoto
  <2>2. CASE SyncEnter(s)  BY <2>2 DEF SyncEnter, SyncGoto, Counted
  <2>3. CASE SyncLeave(s)  BY <2>3 DEF SyncLeave, SyncGoto
  <2>4. QED  BY <2>1, <2>2, <2>3 DEF Sync
<1>4. SlotInv' /\ activeJobs' \in Nat
  <2>1. Inside' = Inside  BY <1>2 DEF Inside, runVars
  <2>2. IsFiniteSet(Inside) /\ IsFiniteSet(InsideSync)
    BY RequestAssumption, FS_Subset DEF Inside, InsideSync
  <2>3. Cardinality(Inside) \in Nat /\ Cardinality(InsideSync) \in Nat  BY <2>2, FS_CardinalityType
  <2>4. syncPc'[s] = pc /\ \A u \in SyncRequests \ {s} : syncPc'[u] = syncPc[u]
    BY <1>1, <1>3 DEF TypeOK
  <2>5. CASE syncPc[s] = "limit"
    <3>1. InsideSync' = InsideSync  BY <1>3, <2>4, <2>5 DEF InsideSync
    <3>2. QED  BY <1>1, <1>3, <2>1, <2>3, <2>5, <3>1 DEF SlotInv
  <2>6. CASE syncPc[s] = "enter"
    <3>1. InsideSync' = InsideSync \union {s} /\ s \notin InsideSync
      BY <1>3, <2>4, <2>6 DEF InsideSync
    <3>2. Cardinality(InsideSync') = Cardinality(InsideSync) + 1  BY <2>2, <3>1, FS_AddElement
    <3>3. QED  BY <1>1, <1>3, <2>1, <2>3, <2>6, <3>2 DEF SlotInv
  <2>7. CASE syncPc[s] = "execute"
    <3>1. InsideSync' = InsideSync \ {s} /\ s \in InsideSync
      BY <1>3, <2>4, <2>7 DEF InsideSync
    <3>2. /\ IsFiniteSet(InsideSync')
          /\ Cardinality(InsideSync') = Cardinality(InsideSync) - 1
      BY <2>2, <3>1, FS_RemoveElement
    <3>3. Cardinality(InsideSync') \in Nat  BY <3>2, FS_CardinalityType
    <3>4. QED  BY <1>1, <1>3, <2>1, <2>3, <2>7, <3>2, <3>3 DEF SlotInv
  <2>8. QED  BY <1>3, <2>5, <2>6, <2>7
<1>5. TypeOK'
  BY <1>1, <1>2, <1>3, <1>4 DEF TypeOK, pruneVars, subVars, runVars, cancelVars
<1>6. \A q \in Submissions : CancelledBy(q)' = CancelledBy(q)  BY <1>2, CancelledFrame
<1>7. \A q \in Submissions : JobInv(q)'  BY <1>1, <1>2, <1>6, JobFrame DEF subVars, runVars
<1>8. \A c \in CancelCalls : CopyInv(c)'  BY <1>1, <1>2, CopyFrame
<1>9. KeyInv'  BY <1>1, <1>2, KeyFrame DEF subVars
<1>10. KeyKept'  BY <1>1, <1>2, <1>6, KeptFrame DEF subVars, Stored
<1>11. QED  BY <1>4, <1>5, <1>7, <1>8, <1>9, <1>10 DEF ServerInv

-----------------------------------------------------------------------------
(* The cleanup. *)

\* Terminal jobs are removed, and the keys with them or not at all.
LEMMA RemovePreserves ==
    ASSUME ServerInv, NEW gone \in SUBSET TerminalJobs, Remove(gone), surplus' \in Nat,
           idempotency' \in {KeysWithout(gone), idempotency}
    PROVE  ServerInv'
<1>1. TypeOK /\ SlotInv /\ KeyInv /\ KeyKept /\ (\A q \in Submissions : JobInv(q))
      /\ \A c \in CancelCalls : CopyInv(c)  BY DEF ServerInv
<1>2. UNCHANGED <<store, subVars, runVars, ctxErr, jobCancels, activeJobs, syncPc, cancelVars, clock>>
  BY DEF Remove
<1>3. \A q \in Submissions : jobs'[q] = IF q \in gone THEN Absent ELSE jobs[q]  BY DEF Remove
<1>4. Absent \in JobRecord /\ Absent.status = "absent" /\ ~Absent.report
  BY DEF Absent, Record, JobRecord
<1>5. jobs' \in [Submissions -> JobRecord]  BY <1>1, <1>4 DEF Remove, TypeOK
<1>6. /\ idempotency' \in [Keys -> Submissions \union {NoJob}]
      /\ \A k \in Keys : \/ idempotency'[k] = idempotency[k]
                         \/ idempotency'[k] = NoJob /\ idempotency[k] \in gone
  BY <1>1 DEF TypeOK, KeysWithout
<1>7. TypeOK'  BY <1>1, <1>2, <1>5, <1>6 DEF TypeOK, subVars, runVars, cancelVars
<1>8. SlotInv'  BY <1>1, <1>2, SlotFrame, InsideFrame DEF runVars
<1>9. \A q \in Submissions : CancelledBy(q)' = CancelledBy(q)  BY <1>2, CancelledFrame
<1>10. ASSUME NEW q \in Submissions PROVE JobInv(q)'
  <2>1. CASE q \notin gone
    <3>1. jobs'[q] = jobs[q]  BY <1>3, <2>1
    <3>2. QED  BY <1>1, <1>2, <1>9, <3>1, JobFrame DEF subVars, runVars
  <2>2. CASE q \in gone
    <3>1. jobs'[q].status = "absent" /\ ~jobs'[q].report  BY <1>3, <1>4, <2>2
    <3>2. LocalInv(q)'  BY <1>1, <1>2 DEF JobInv, LocalInv, subVars, runVars
    <3>3. Justified(q)' /\ Kept(q)'  BY <3>1 DEF Justified, Kept, Stored
    <3>4. runPc[q] \notin Saved => CancelledBy(q)
      BY <1>1, <2>2 DEF JobInv, OnlyCancelled, TerminalJobs
    <3>5. OnlyCancelled(q)'  BY <1>2, <1>9, <3>4 DEF OnlyCancelled, runVars
    <3>6. QED  BY <3>2, <3>3, <3>5 DEF JobInv
  <2>3. QED  BY <2>1, <2>2
<1>11. \A c \in CancelCalls : CopyInv(c)'  BY <1>1, <1>2, CopyFrame
<1>12. KeyInv'
  <2>1. \A k \in Keys : idempotency'[k] # NoJob => idempotency'[k] = idempotency[k]  BY <1>6
  <2>2. QED  BY <1>1, <1>2, <2>1 DEF KeyInv, subVars
<1>13. KeyKept'
  <2>1. SUFFICES ASSUME NEW q \in Submissions, KeyOf[q] # NoKey, subPc[q] \in Keyed,
                        jobs'[q].status # "absent", idempotency'[KeyOf[q]] = NoJob
                 PROVE  \/ CancelledBy(q)
                        \/ \E p \in Submissions \ {q} : KeyOf[p] = KeyOf[q] /\ subPc[p] \in Keyed
    BY <1>2, <1>9 DEF KeyKept, Stored, subVars
  <2>2. q \notin gone /\ Stored(q)  BY <1>3, <1>4, <2>1 DEF Stored
  <2>3. KeyOf[q] \in Keys  BY <2>1, RequestAssumption
  <2>4. CASE idempotency[KeyOf[q]] = NoJob  BY <1>1, <2>1, <2>2, <2>4 DEF KeyKept
  <2>5. CASE idempotency[KeyOf[q]] \in gone
    <3>1. idempotency[KeyOf[q]] \in Submissions \ {q}  BY <2>2, <2>5 DEF TerminalJobs
    <3>2. KeyOf[idempotency[KeyOf[q]]] = KeyOf[q] /\ subPc[idempotency[KeyOf[q]]] \in Keyed
      BY <1>1, <2>3, <3>1, IdentityAssumption DEF KeyInv
    <3>3. QED  BY <3>1, <3>2
  <2>6. QED  BY <1>6, <2>1, <2>3, <2>4, <2>5
<1>14. QED  BY <1>7, <1>8, <1>10, <1>11, <1>12, <1>13 DEF ServerInv

\* Every form of Prune removes terminal jobs only.
LEMMA PrunePreserves ==
    ASSUME ServerInv, Prune \/ ExpireRows \/ EvictRows
    PROVE  ServerInv'
<1>1. surplus \in Nat  BY DEF ServerInv, TypeOK
<1>2. \A n : Oldest(TerminalJobs, n) \subseteq TerminalJobs  BY DEF Oldest
<1>3. \A expired \in Expirable : expired \subseteq TerminalJobs /\ Evicted(expired) \subseteq TerminalJobs
  BY DEF Expirable, Evicted, Oldest
<1>4. CASE Prune
  <2>1. PICK expired \in Expirable : /\ Remove(Evicted(expired))
                                     /\ idempotency' = KeysWithout(Evicted(expired))
    BY <1>4 DEF Prune
  <2>2. surplus' \in Nat  BY <1>1, <1>4 DEF Prune
  <2>3. QED  BY <1>3, <2>1, <2>2, RemovePreserves
<1>5. CASE ExpireRows
  <2>1. PICK expired \in Expirable : DeleteRows(expired)  BY <1>5 DEF ExpireRows
  <2>2. surplus' \in Nat  BY <1>1, <1>5 DEF ExpireRows
  <2>3. QED  BY <1>3, <2>1, <2>2, RemovePreserves DEF DeleteRows
<1>6. CASE EvictRows
  <2>1. DeleteRows(Oldest(TerminalJobs, surplus)) /\ surplus' = 0  BY <1>6 DEF EvictRows
  <2>2. QED  BY <1>2, <2>1, RemovePreserves DEF DeleteRows
<1>7. QED  BY <1>4, <1>5, <1>6

\* Counting the surplus, or nothing at all.
LEMMA CountPreserves ==
    ASSUME ServerInv, CountRows \/ UNCHANGED vars
    PROVE  ServerInv'
<1>1. TypeOK /\ SlotInv /\ KeyInv /\ KeyKept /\ (\A q \in Submissions : JobInv(q))
      /\ \A c \in CancelCalls : CopyInv(c)  BY DEF ServerInv
<1>2. UNCHANGED <<store, subVars, jobs, idempotency, runVars, ctxErr, jobCancels, activeJobs,
                  syncPc, cancelVars, clock>>
  BY DEF CountRows, vars, pruneVars
<1>3. surplus' \in Nat
  <2>1. CASE CountRows
    <3>1. IsFiniteSet(TerminalJobs)  BY RequestAssumption, FS_Subset DEF TerminalJobs
    <3>2. Cardinality(TerminalJobs) \in Nat  BY <3>1, FS_CardinalityType
    <3>3. QED  BY <2>1, <3>2, LimitAssumption DEF CountRows
  <2>2. CASE UNCHANGED vars  BY <1>1, <2>2 DEF vars, pruneVars, TypeOK
  <2>3. QED  BY <2>1, <2>2
<1>4. TypeOK'  BY <1>1, <1>2, <1>3 DEF TypeOK, subVars, runVars, cancelVars
<1>5. SlotInv'  BY <1>1, <1>2, SlotFrame, InsideFrame DEF runVars
<1>6. \A q \in Submissions : CancelledBy(q)' = CancelledBy(q)  BY <1>2, CancelledFrame
<1>7. \A q \in Submissions : JobInv(q)'  BY <1>1, <1>2, <1>6, JobFrame DEF subVars, runVars
<1>8. \A c \in CancelCalls : CopyInv(c)'  BY <1>1, <1>2, CopyFrame
<1>9. KeyInv'  BY <1>1, <1>2, KeyFrame DEF subVars
<1>10. KeyKept'  BY <1>1, <1>2, <1>6, KeptFrame DEF subVars, Stored
<1>11. QED  BY <1>4, <1>5, <1>7, <1>8, <1>9, <1>10 DEF ServerInv

-----------------------------------------------------------------------------
(* Theorems. *)

LEMMA StepPreserves ==
    ASSUME ServerInv, [Next]_vars
    PROVE  ServerInv'
<1>1. CASE \E r \in Submissions : Submit(r) \/ Runner(r) \/ Deadline(r)
  BY <1>1, LookupPreserves, CreatePreserves, SetKeyPreserves, LaunchPreserves, EnterPreserves,
     LeavePreserves, RegisterPreserves, BeginPreserves, SettlePreserves, SavePreserves,
     DeadlinePreserves
     DEF Submit, Runner
<1>2. CASE \E c \in CancelCalls : CancelCall(c)
  BY <1>2, CancelReadPreserves, CancelCtxPreserves, CancelWritePreserves DEF CancelCall
<1>3. CASE \E s \in SyncRequests : Sync(s)  BY <1>3, SyncPreserves
<1>4. CASE Prune \/ ExpireRows \/ CountRows \/ EvictRows  BY <1>4, PrunePreserves, CountPreserves
<1>5. CASE Rest \/ UNCHANGED vars  BY <1>5, CountPreserves DEF Rest
<1>6. QED  BY <1>1, <1>2, <1>3, <1>4, <1>5 DEF Next

\* The invariant holds in every reachable state.
THEOREM ServerInvariant == Spec => []ServerInv
<1>1. Init => ServerInv  BY InitServer
<1>2. ServerInv /\ [Next]_vars => ServerInv'  BY StepPreserves
<1>3. QED  BY <1>1, <1>2, PTL DEF Spec

\* The state of the server is always well typed; in particular the capacity counter
\* never falls below zero.
THEOREM ServerTypeCorrect == Spec => []TypeOK
<1>1. ServerInv => TypeOK  BY DEF ServerInv
<1>2. QED  BY <1>1, ServerInvariant, PTL

\* The capacity counter is the number of goroutines and synchronous requests that
\* are inside (Server.ActiveJobs).
THEOREM SlotsCounted == Spec => []SlotInv
<1>1. ServerInv => SlotInv  BY DEF ServerInv
<1>2. QED  BY <1>1, ServerInvariant, PTL

\* No interleaving leaves a job live after its goroutine has saved the verdict
\* (runAsyncJob, cancelJobInternal and Prune).
THEOREM VerdictsAreKept == Spec => []VerdictKept
<1>1. ServerInv => VerdictKept  BY DEF ServerInv, JobInv, Kept, VerdictKept
<1>2. QED  BY <1>1, ServerInvariant, PTL

\* The status and the report that the store has of a job tell what happened to it.
THEOREM StatusesAreJustified == Spec => []StatusJustified
<1>1. ServerInv => StatusJustified  BY DEF ServerInv, JobInv, Justified, StatusJustified
<1>2. QED  BY <1>1, ServerInvariant, PTL

\* A key is forgotten only with its job, but for a cancelled job that comes back
\* (SetIdempotencyKey, Prune and Update).
THEOREM KeysAreKept == Spec => []KeyKept
<1>1. ServerInv => KeyKept  BY DEF ServerInv
<1>2. QED  BY <1>1, ServerInvariant, PTL

\* What a step may do to the terminal record of a job whose goroutine is past its start.
LEMMA TerminalStays ==
    ASSUME ServerInv, [Next]_vars, NEW q \in Submissions,
           runPc[q] \notin {"unborn", "enter", "register", "begin"},
           jobs[q].status \in Terminal
    PROVE  jobs'[q].status \in Terminal \union {"absent"}
<1>1. TypeOK /\ (\A r \in Submissions : JobInv(r)) /\ \A c \in CancelCalls : CopyInv(c)
  BY DEF ServerInv
<1>2. CASE UNCHANGED jobs  BY <1>2
<1>3. CASE \E r \in Submissions : Create(r)
  <2>1. PICK r \in Submissions : Create(r)  BY <1>3
  <2>2. q # r  BY <1>1, <2>1 DEF Create, JobInv, LocalInv
  <2>3. jobs'[q] = jobs[q]  BY <1>1, <2>1, <2>2 DEF Create, TypeOK
  <2>4. QED  BY <2>3
<1>4. CASE \E r \in Submissions : Begin(r)
  <2>1. PICK r \in Submissions : Begin(r)  BY <1>4
  <2>2. q # r  BY <2>1 DEF Begin
  <2>3. jobs'[q] = jobs[q]  BY <1>1, <2>1, <2>2 DEF Begin, Update, TypeOK
  <2>4. QED  BY <2>3
<1>5. CASE \E r \in Submissions : Save(r)
  <2>1. PICK r \in Submissions : Save(r)  BY <1>5
  <2>2. local[r].status \in Terminal  BY <1>1, <2>1 DEF Save, JobInv, LocalInv
  <2>3. jobs'[q] = jobs[q] \/ jobs'[q] = local[r]  BY <1>1, <2>1 DEF Save, Update, TypeOK
  <2>4. QED  BY <2>2, <2>3
<1>6. CASE \E c \in CancelCalls : CancelWrite(c)
  <2>1. PICK c \in CancelCalls : CancelWrite(c)  BY <1>6
  <2>2. CancelledCopy(c).status = "cancelled"  BY <1>1 DEF CancelledCopy, TypeOK, JobRecord
  <2>3. jobs'[q] = jobs[q] \/ jobs'[q] = CancelledCopy(c)
    BY <1>1, <2>1 DEF CancelWrite, Update, TypeOK
  <2>4. QED  BY <2>2, <2>3 DEF Terminal
<1>7. CASE Prune \/ ExpireRows \/ EvictRows
  <2>1. PICK gone : Remove(gone)  BY <1>7 DEF Prune, ExpireRows, EvictRows, DeleteRows
  <2>2. jobs'[q] = Absent \/ jobs'[q] = jobs[q]  BY <2>1 DEF Remove
  <2>3. QED  BY <2>2 DEF Absent, Record
<1>8. QED
  BY ZenonT(30), <1>2, <1>3, <1>4, <1>5, <1>6, <1>7
     DEF Next, Submit, Runner, Lookup, Fetch, CheckLimit, SetKey, Refuse, Launch, Enter, Register,
         RunPool, Settle, Unregister, Leave, Deadline, CancelCall, CancelGet, CancelFind, CancelCtx,
         Sync, SyncCheck, SyncEnter, SyncLeave, SyncGoto, CountRows, Rest, vars

\* Once its goroutine has declared a job running, a terminal status is never taken
\* back by a live one (Update by the goroutine and by cancelJobInternal).
THEOREM TerminalIsFinal == Spec => NoReturnFromTerminal
<1>1. ServerInv /\ [Next]_vars =>
        [\A r \in Submissions :
           /\ runPc[r] \notin {"unborn", "enter", "register", "begin"}
           /\ jobs[r].status \in Terminal
           => jobs'[r].status \in Terminal \union {"absent"}]_vars
  BY TerminalStays
<1>2. QED  BY <1>1, ServerInvariant, PTL DEF Spec, NoReturnFromTerminal

-----------------------------------------------------------------------------
(* What a cancel request can rely on, and what is left when all is over. *)

\* The goroutines that a cancel request can reach, and those that have declared their job
\* running.
Reachable == {r \in Submissions : runPc[r] \in {"begin", "pool", "settleOk", "settleErr", "save",
                                                "unregister"}}
Begun     == {r \in Submissions : runPc[r] \in {"pool", "settleOk", "settleErr", "save"} \union Saved}

\* A cancel request that was answered 202 has ended the context of the job, unless it came
\* before the goroutine declared the job running; and one that was told the job is running
\* and had no cancel function came when the goroutine had written its verdict.
CancelReaches ==
    \A c \in CancelCalls :
      /\ cancelPc[c] = "cancelled" => copy[c].status = "queued" \/ ctxErr[target[c]] # "none"
      /\ cancelPc[c] = "stillRunning" => runPc[target[c]] \in Saved

\* Nothing is left behind when every request has its answer and every goroutine has ended:
\* no slot is taken, no cancel function registered, and no accepted job is live.
NothingLeftBehind ==
    Idle => /\ activeJobs = 0 /\ jobCancels = {}
            /\ \A r \in Submissions : subPc[r] = "accepted" => jobs[r].status \notin Live

\* The cancel functions registered are those of the goroutines between their two steps,
\* every accepted job has a goroutine, and a job that the store has as running, or had when
\* it was read, has begun.
ReachInv ==
    /\ jobCancels = Reachable
    /\ \A r \in Submissions : subPc[r] = "accepted" => runPc[r] # "unborn"
    /\ \A q \in Submissions : jobs[q].status = "running" => q \in Begun
    /\ \A c \in CancelCalls :
         /\ cancelPc[c] \in {"find", "cancel", "write"} /\ copy[c].status = "running"
              => target[c] \in Begun
         /\ cancelPc[c] = "stillRunning" => target[c] \in Begun \ Reachable
         /\ cancelPc[c] = "write" => copy[c].status = "queued" \/ ctxErr[target[c]] # "none"
         /\ cancelPc[c] = "cancelled" => /\ target[c] \in Submissions
                                         /\ copy[c].status = "queued" \/ ctxErr[target[c]] # "none"

\* The step that registers a goroutine's cancel function, and the one that takes it away.
LEMMA RegisteredKept ==
    ASSUME ServerInv, jobCancels = Reachable, [Next]_vars
    PROVE  /\ jobCancels' = Reachable'
           /\ Begun \subseteq Begun' /\ Begun \ Reachable \subseteq Begun' \ Reachable'
<1>0. /\ runPc \in [Submissions -> RunnerSteps \union {"unborn", "gone"}]
      /\ \A r \in Submissions : subPc[r] = "launch" => runPc[r] = "unborn"
  BY DEF ServerInv, TypeOK, JobInv, LocalInv
<1>1. CASE UNCHANGED <<runPc, jobCancels>>
  BY <1>1 DEF Reachable, Begun
<1>2. CASE \E r \in Submissions : Runner(r) \/ Launch(r)
  <2>1. PICK r \in Submissions : Runner(r) \/ Launch(r)  BY <1>2
  <2>2. \A q \in Submissions : q # r => runPc'[q] = runPc[q]
    BY <1>0, <2>1 DEF Runner, Launch, Enter, Register, Begin, RunPool, Settle, Save, Unregister,
       Leave, Goto
  <2>3. \/ runPc[r] = "unborn" /\ runPc'[r] = "enter" /\ jobCancels' = jobCancels
        \/ runPc[r] = "enter" /\ runPc'[r] = "register" /\ jobCancels' = jobCancels
        \/ runPc[r] = "register" /\ runPc'[r] = "begin" /\ jobCancels' = jobCancels \union {r}
        \/ runPc[r] = "begin" /\ runPc'[r] = "pool" /\ jobCancels' = jobCancels
        \/ /\ runPc[r] = "pool" /\ runPc'[r] \in {"settleOk", "settleErr"}
           /\ jobCancels' = jobCancels
        \/ /\ runPc[r] \in {"settleOk", "settleErr"} /\ runPc'[r] = "save"
           /\ jobCancels' = jobCancels
        \/ runPc[r] = "save" /\ runPc'[r] = "unregister" /\ jobCancels' = jobCancels
        \/ runPc[r] = "unregister" /\ runPc'[r] = "leave" /\ jobCancels' = jobCancels \ {r}
        \/ runPc[r] = "leave" /\ runPc'[r] = "gone" /\ jobCancels' = jobCancels
    BY <1>0, <2>1 DEF Runner, Launch, Enter, Register, Begin, RunPool, Settle, Save, Unregister,
       Leave, Goto, Deferred
  <2>4. \A q \in Submissions : q # r => /\ q \in Reachable' <=> q \in Reachable
                                        /\ q \in Begun' <=> q \in Begun
    BY <2>2 DEF Reachable, Begun
  <2>5. /\ r \in jobCancels' <=> r \in Reachable'
        /\ r \in Begun => r \in Begun'
        /\ r \in Begun \ Reachable => r \notin Reachable'
    BY <2>3 DEF Reachable, Begun, Saved
  <2>6. \A q : q # r => (q \in jobCancels' <=> q \in jobCancels)  BY <2>3
  <2>7. /\ jobCancels \subseteq Submissions /\ jobCancels' \subseteq Submissions
        /\ Reachable \subseteq Submissions /\ Reachable' \subseteq Submissions
        /\ Begun \subseteq Submissions
    BY <2>3 DEF Reachable, Begun
  <2>8. QED  BY <2>4, <2>5, <2>6, <2>7
<1>3. QED
  BY <1>1, <1>2
     DEF Next, Submit, Lookup, Fetch, CheckLimit, Create, SetKey, Refuse, Deadline, CancelCall,
         CancelGet, CancelFind, CancelCtx, CancelWrite, Sync, SyncCheck, SyncEnter, SyncLeave,
         SyncGoto, Prune, ExpireRows, CountRows, EvictRows, DeleteRows, Remove, Rest, vars, runVars

\* Only a goroutine that begins makes a job running.
LEMMA RunningBegins ==
    ASSUME ServerInv, ReachInv, [Next]_vars, NEW q \in Submissions, jobs'[q].status = "running"
    PROVE  q \in Begun'
<1>0. TypeOK /\ Begun \subseteq Begun'  BY RegisteredKept DEF ServerInv, ReachInv
<1>1. CASE jobs'[q] = jobs[q]  BY <1>0, <1>1 DEF ReachInv
<1>2. CASE \E r \in Submissions : Create(r)
  <2>1. PICK r \in Submissions : Create(r)  BY <1>2
  <2>2. q # r  BY <1>0, <2>1 DEF Create, ServerInv, JobInv, LocalInv, TypeOK
  <2>3. QED  BY <1>0, <1>1, <2>1, <2>2 DEF Create, TypeOK
<1>3. CASE \E r \in Submissions : Begin(r)
  <2>1. PICK r \in Submissions : Begin(r)  BY <1>3
  <2>2. CASE q = r  BY <1>0, <2>1, <2>2 DEF Begin, Goto, Begun, TypeOK
  <2>3. CASE q # r  BY <1>0, <1>1, <2>1, <2>3 DEF Begin, Update, TypeOK
  <2>4. QED  BY <2>2, <2>3
<1>4. CASE \E r \in Submissions : Save(r)
  <2>1. PICK r \in Submissions : Save(r)  BY <1>4
  <2>2. local[r].status \in Terminal  BY <2>1 DEF Save, ServerInv, JobInv, LocalInv
  <2>3. jobs'[q] = jobs[q] \/ jobs'[q] = local[r]  BY <1>0, <2>1 DEF Save, Update, TypeOK
  <2>4. QED  BY <1>1, <2>2, <2>3 DEF Terminal
<1>5. CASE \E c \in CancelCalls : CancelWrite(c)
  <2>1. PICK c \in CancelCalls : CancelWrite(c)  BY <1>5
  <2>2. CancelledCopy(c).status = "cancelled"  BY <1>0 DEF CancelledCopy, TypeOK, JobRecord
  <2>3. jobs'[q] = jobs[q] \/ jobs'[q] = CancelledCopy(c)
    BY <1>0, <2>1 DEF CancelWrite, Update, TypeOK
  <2>4. QED  BY <1>1, <2>2, <2>3
<1>6. CASE Prune \/ ExpireRows \/ EvictRows
  <2>1. PICK gone : Remove(gone)  BY <1>6 DEF Prune, ExpireRows, EvictRows, DeleteRows
  <2>2. jobs'[q] = Absent \/ jobs'[q] = jobs[q]  BY <2>1 DEF Remove
  <2>3. QED  BY <1>1, <2>2 DEF Absent, Record
<1>7. QED
  BY ZenonT(30), <1>1, <1>2, <1>3, <1>4, <1>5, <1>6
     DEF Next, Submit, Runner, Lookup, Fetch, CheckLimit, SetKey, Refuse, Launch, Enter, Register,
         RunPool, Settle, Unregister, Leave, Deadline, CancelCall, CancelGet, CancelFind, CancelCtx,
         Sync, SyncCheck, SyncEnter, SyncLeave, SyncGoto, CountRows, Rest, vars

\* An accepted submission has its goroutine, which never goes back to where it was born.
LEMMA AcceptedRuns ==
    ASSUME ServerInv, ReachInv, [Next]_vars, NEW q \in Submissions, subPc'[q] = "accepted"
    PROVE  runPc'[q] # "unborn"
<1>0. TypeOK  BY DEF ServerInv
<1>1. CASE \E r \in Submissions : Launch(r)
  BY <1>0, <1>1 DEF Launch, Reply, ReachInv, TypeOK
<1>2. CASE \E r \in Submissions : Runner(r)
  BY <1>0, <1>2
     DEF Runner, Enter, Register, Begin, RunPool, Settle, Save, Unregister, Leave, Goto, Deferred,
         subVars, ReachInv, TypeOK
<1>3. CASE \E r \in Submissions : Submit(r) /\ ~Launch(r)
  <2>1. PICK r \in Submissions : Submit(r) /\ ~Launch(r)  BY <1>3
  <2>2. runPc' = runPc
    BY <2>1 DEF Submit, Lookup, Fetch, CheckLimit, Create, SetKey, Refuse, runVars
  <2>3. \E a : Reply(r, a) /\ a # "accepted"
    <3>1. CASE Lookup(r)
      <4> WITNESS IF found'[r] = NoJob THEN "limit" ELSE "fetch"
      <4> QED  BY <3>1 DEF Lookup
    <3>2. CASE Fetch(r)
      <4> WITNESS IF Stored(found[r]) THEN "reused" ELSE "limit"
      <4> QED  BY <3>2 DEF Fetch
    <3>3. CASE CheckLimit(r)
      <4>1. Reply(r, "busy") \/ Reply(r, "invalid") \/ Reply(r, "create")  BY <3>3 DEF CheckLimit
      <4>2. QED  BY <4>1
    <3>4. CASE Create(r) \/ SetKey(r) \/ Refuse(r)  BY <3>4 DEF Create, SetKey, Refuse
    <3>5. QED  BY <2>1, <3>1, <3>2, <3>3, <3>4 DEF Submit
  <2>4. subPc[q] = "accepted"  BY <1>0, <2>3 DEF Reply, TypeOK
  <2>5. QED  BY <2>2, <2>4 DEF ReachInv
<1>4. CASE UNCHANGED <<subPc, runPc>>  BY <1>4 DEF ReachInv
<1>5. QED
  BY <1>1, <1>2, <1>3, <1>4
     DEF Next, Deadline, CancelCall, CancelGet, CancelFind, CancelCtx, CancelWrite, Sync,
         SyncCheck, SyncEnter, SyncLeave, SyncGoto, Prune, ExpireRows, CountRows, EvictRows,
         DeleteRows, Remove, Rest, vars, subVars, runVars

LEMMA ReachPreserved == ASSUME ServerInv, ReachInv, [Next]_vars PROVE ReachInv'
<1>0. TypeOK /\ \A c \in CancelCalls : CopyInv(c)  BY DEF ServerInv
<1>1. /\ jobCancels' = Reachable' /\ Begun \subseteq Begun'
      /\ Begun \ Reachable \subseteq Begun' \ Reachable'
  BY RegisteredKept DEF ReachInv
<1>2. \A q \in Submissions : /\ jobs'[q].status = "running" => q \in Begun'
                             /\ subPc'[q] = "accepted" => runPc'[q] # "unborn"
  BY RunningBegins, AcceptedRuns
<1>3. \A q \in Submissions : ctxErr[q] # "none" => ctxErr'[q] # "none"
  <2>1. CASE UNCHANGED ctxErr  BY <2>1
  <2>2. CASE \E r \in Submissions : Deadline(r)  BY <1>0, <2>2 DEF Deadline, TypeOK
  <2>3. CASE \E c \in CancelCalls : CancelCtx(c)  BY <1>0, <2>3 DEF CancelCtx, TypeOK
  <2>4. QED
    BY ZenonT(30), <2>1, <2>2, <2>3
       DEF Next, Submit, Lookup, Fetch, CheckLimit, Create, SetKey, Refuse, Launch, Runner, Enter,
           Register, Begin, RunPool, Settle, Save, Unregister, Leave, CancelCall, CancelGet,
           CancelFind, CancelWrite, Sync, SyncCheck, SyncEnter, SyncLeave, SyncGoto, Prune,
           ExpireRows, CountRows, EvictRows, DeleteRows, Remove, Rest, vars
<1> DEFINE Asked(c) ==
             /\ cancelPc[c] \in {"find", "cancel", "write"} /\ copy[c].status = "running"
                  => target[c] \in Begun
             /\ cancelPc[c] = "stillRunning" => target[c] \in Begun \ Reachable
             /\ cancelPc[c] = "write" => copy[c].status = "queued" \/ ctxErr[target[c]] # "none"
             /\ cancelPc[c] = "cancelled" =>
                  /\ target[c] \in Submissions
                  /\ copy[c].status = "queued" \/ ctxErr[target[c]] # "none"
<1>4. ASSUME NEW c \in CancelCalls, cancelPc'[c] = cancelPc[c], target'[c] = target[c],
             copy'[c] = copy[c]
      PROVE  Asked(c)'
  <2>1. Asked(c) /\ CopyInv(c)  BY <1>0 DEF ReachInv
  <2>2. cancelPc[c] = "write" => target[c] \in Submissions  BY <2>1 DEF CopyInv
  <2>3. QED  BY <1>1, <1>3, <1>4, <2>1, <2>2
<1>5. CASE \E c \in CancelCalls : CancelCall(c)
  <2>1. PICK c \in CancelCalls : CancelCall(c)  BY <1>5
  <2>2. ASSUME NEW d \in CancelCalls, d # c PROVE Asked(d)'
    <3>1. cancelPc'[d] = cancelPc[d] /\ target'[d] = target[d] /\ copy'[d] = copy[d]
      BY <1>0, <2>1, <2>2 DEF CancelCall, CancelGet, CancelFind, CancelCtx, CancelWrite, Answer,
         TypeOK
    <3>2. QED  BY <1>4, <3>1
  <2>3. Asked(c)'
    <3>1. CASE CancelGet(c)
      <4>1. PICK j \in Submissions :
              /\ target'[c] = j /\ copy'[c] = jobs[j]
              /\ cancelPc'[c] \in {"notFound", "conflict", "find"}
        BY <1>0, <3>1 DEF CancelGet, Answer, TypeOK
      <4>2. jobs[j].status = "running" => j \in Begun'  BY <1>1 DEF ReachInv
      <4>3. QED  BY <4>1, <4>2
    <3>2. CASE CancelFind(c)
      <4>1. /\ target' = target /\ copy' = copy /\ cancelPc[c] = "find"
            /\ cancelPc'[c] = IF target[c] \in jobCancels THEN "cancel"
                              ELSE IF copy[c].status = "queued" THEN "write" ELSE "stillRunning"
        BY <1>0, <3>2 DEF CancelFind, Answer, TypeOK
      <4>2. copy[c].status \in {"queued", "running"}  BY <1>0, <4>1 DEF CopyInv, Live
      <4>3. copy[c].status = "running" => target[c] \in Begun  BY <4>1 DEF ReachInv
      <4>4. jobCancels = Reachable  BY DEF ReachInv
      <4>5. QED  BY <1>1, <4>1, <4>2, <4>3, <4>4
    <3>3. CASE CancelCtx(c)
      <4>1. /\ target' = target /\ copy' = copy /\ cancelPc[c] = "cancel"
            /\ cancelPc'[c] = "write"
        BY <1>0, <3>3 DEF CancelCtx, Answer, TypeOK
      <4>2. target[c] \in Submissions  BY <1>0, <4>1 DEF CopyInv
      <4>3. ctxErr'[target[c]] # "none"  BY <1>0, <3>3, <4>2 DEF CancelCtx, TypeOK
      <4>4. copy[c].status = "running" => target[c] \in Begun  BY <4>1 DEF ReachInv
      <4>5. QED  BY <1>1, <4>1, <4>3, <4>4
    <3>4. CASE CancelWrite(c)
      <4>1. /\ target' = target /\ copy' = copy /\ ctxErr' = ctxErr /\ cancelPc[c] = "write"
            /\ cancelPc'[c] = "cancelled"
        BY <1>0, <3>4 DEF CancelWrite, Answer, TypeOK
      <4>2. target[c] \in Submissions  BY <1>0, <4>1 DEF CopyInv
      <4>3. QED  BY <4>1, <4>2 DEF ReachInv
    <3>5. QED  BY <2>1, <3>1, <3>2, <3>3, <3>4 DEF CancelCall
  <2>4. \A d \in CancelCalls : Asked(d)'  BY <2>2, <2>3
  <2>5. QED  BY <1>1, <1>2, <2>4 DEF ReachInv
<1>6. CASE UNCHANGED cancelVars
  <2>1. \A c \in CancelCalls : Asked(c)'  BY <1>4, <1>6 DEF cancelVars
  <2>2. QED  BY <1>1, <1>2, <2>1 DEF ReachInv
<1>7. QED
  BY ZenonT(30), <1>5, <1>6
     DEF Next, Submit, Lookup, Fetch, CheckLimit, Create, SetKey, Refuse, Launch, Runner, Enter,
         Register, Begin, RunPool, Settle, Save, Unregister, Leave, Deadline, Sync, SyncCheck,
         SyncEnter, SyncLeave, SyncGoto, Prune, ExpireRows, CountRows, EvictRows, DeleteRows,
         Remove, Rest, vars

THEOREM ReachInvariant == Spec => []ReachInv
<1>1. Init => ReachInv  BY DEF Init, ReachInv, Reachable, Absent, Record
<1>2. ServerInv /\ ReachInv /\ [Next]_vars => ReachInv'  BY ReachPreserved
<1>3. QED  BY <1>1, <1>2, ServerInvariant, PTL DEF Spec

\* A cancel answered 202 has ended the job's context, and one that found the job running
\* and nothing to cancel came after the verdict (cancelJobInternal and runAsyncJob).
THEOREM CancelsReach == Spec => []CancelReaches
<1>1. ServerInv /\ ReachInv => CancelReaches
  <2> SUFFICES ASSUME ServerInv, ReachInv, NEW c \in CancelCalls
               PROVE  /\ cancelPc[c] = "cancelled" =>
                           copy[c].status = "queued" \/ ctxErr[target[c]] # "none"
                      /\ cancelPc[c] = "stillRunning" => runPc[target[c]] \in Saved
    BY DEF CancelReaches
  <2>1. \A r \in Begun \ Reachable : runPc[r] \in Saved  BY DEF Begun, Reachable
  <2>2. QED  BY <2>1 DEF ReachInv
<1>2. QED  BY <1>1, ServerInvariant, ReachInvariant, PTL

\* What SlotsReturned and AcceptedSettles promise is the case as soon as nobody has a step
\* to do (the defers of runAsyncJob and of ExecHandler).
THEOREM AllIsGivenBack == Spec => []NothingLeftBehind
<1>1. ServerInv /\ ReachInv => NothingLeftBehind
  <2> SUFFICES ASSUME ServerInv, ReachInv, Idle
               PROVE  /\ activeJobs = 0 /\ jobCancels = {}
                      /\ \A r \in Submissions : subPc[r] = "accepted" => jobs[r].status \notin Live
    BY DEF NothingLeftBehind
  <2>1. Inside = {} /\ InsideSync = {}  BY DEF Idle, Inside, InsideSync
  <2>2. activeJobs = 0  BY <2>1, FS_EmptySet DEF ServerInv, SlotInv
  <2>3. jobCancels = {}  BY DEF Idle, ReachInv, Reachable
  <2>4. ASSUME NEW r \in Submissions, subPc[r] = "accepted" PROVE jobs[r].status \notin Live
    <3>1. runPc[r] = "gone"  BY <2>4 DEF Idle, ReachInv
    <3>2. QED  BY <3>1 DEF ServerInv, JobInv, Kept, Stored, Saved, Terminal, Live
  <2>5. QED  BY <2>2, <2>3, <2>4
<1>2. QED  BY <1>1, ServerInvariant, ReachInvariant, PTL

-----------------------------------------------------------------------------
(* Two promises the code does not keep are broken only by the races that the *)
(* runs MCJobServerCapacity and MCJobServerTwins show.                       *)

\* Who has passed checkConcurrencyLimit and is not counted yet.
Admitted     == {r \in Submissions :
                   subPc[r] \in {"create", "setkey", "launch"} \/ runPc[r] = "enter"}
AdmittedSync == {s \in SyncRequests : syncPc[s] = "enter"}

\* At most one request is between the check of the limit and the counting.
OneAdmitted ==
    /\ \A p, q \in Admitted : p = q
    /\ \A s, t \in AdmittedSync : s = t
    /\ Admitted = {} \/ AdmittedSync = {}

CapacityInv ==
    MaxConcurrentJobs > 0 =>
      /\ activeJobs <= MaxConcurrentJobs
      /\ Admitted \union AdmittedSync # {} => activeJobs < MaxConcurrentJobs

\* Nobody is admitted and nobody is counted.
LEMMA CapacityFrame ==
    ASSUME TypeOK, CapacityInv, activeJobs' \in Nat, activeJobs' <= activeJobs,
           Admitted' \subseteq Admitted, AdmittedSync' \subseteq AdmittedSync
    PROVE  CapacityInv'
<1>1. activeJobs \in Nat /\ MaxConcurrentJobs \in Nat  BY LimitAssumption DEF TypeOK
<1>2. Admitted' \union AdmittedSync' # {} => Admitted \union AdmittedSync # {}  OBVIOUS
<1>3. QED  BY <1>1, <1>2 DEF CapacityInv

\* The steps that neither pass the check nor change the counter.
LEMMA NobodyAdmitted ==
    ASSUME ServerInv, [Next]_vars,
           \A r \in Submissions : ~CheckLimit(r) /\ ~Enter(r) /\ ~Leave(r),
           \A s \in SyncRequests : ~Sync(s)
    PROVE  /\ UNCHANGED <<activeJobs, syncPc>>
           /\ Admitted' \subseteq Admitted
<1>0. /\ subPc \in [Submissions -> {"lookup", "fetch", "limit", "create", "setkey", "launch"}
                                     \union Replies]
      /\ runPc \in [Submissions -> RunnerSteps \union {"unborn", "gone"}]
  BY DEF ServerInv, TypeOK
<1>1. UNCHANGED <<activeJobs, syncPc>>
  BY ZenonT(30)
     DEF Next, Submit, Lookup, Fetch, Create, SetKey, Refuse, Launch, Runner, Register, Begin,
         RunPool, Settle, Save, Unregister, Deadline, CancelCall, CancelGet, CancelFind,
         CancelCtx, CancelWrite, Prune, ExpireRows, CountRows, EvictRows, DeleteRows, Remove,
         Rest, vars
<1>2. SUFFICES Admitted' \subseteq Admitted  BY <1>1
<1>3. CASE UNCHANGED <<subPc, runPc>>  BY <1>3 DEF Admitted
<1>4. CASE \E r \in Submissions : Submit(r)
  <2>1. PICK r \in Submissions : Submit(r)  BY <1>4
  <2>2. \A q \in Submissions : q # r => subPc'[q] = subPc[q] /\ runPc'[q] = runPc[q]
    BY <1>0, <2>1 DEF Submit, Lookup, Fetch, Create, SetKey, Refuse, Launch, Reply, runVars
  <2>3. r \in Admitted' => r \in Admitted
    BY <1>0, <2>1 DEF Submit, Lookup, Fetch, Create, SetKey, Refuse, Launch, Reply, runVars, Admitted
  <2>4. QED  BY <2>2, <2>3 DEF Admitted
<1>5. CASE \E r \in Submissions : Runner(r)
  <2>1. PICK r \in Submissions : Runner(r)  BY <1>5
  <2>2. subPc' = subPc /\ \E pc : pc # "enter" /\ runPc' = [runPc EXCEPT ![r] = pc]
    BY <2>1 DEF Runner, Register, Begin, RunPool, Settle, Save, Unregister, Goto, Deferred, subVars
  <2>3. QED  BY <1>0, <2>2 DEF Admitted
<1>6. QED
  BY ZenonT(30), <1>3, <1>4, <1>5
     DEF Next, Deadline, CancelCall, CancelGet, CancelFind, CancelCtx, CancelWrite, Prune,
         ExpireRows, CountRows, EvictRows, DeleteRows, Remove, Rest, vars, subVars, runVars

LEMMA CapacityPreserved ==
    ASSUME ServerInv, ServerInv', CapacityInv, OneAdmitted, [Next]_vars
    PROVE  CapacityInv'
<1>0. /\ TypeOK /\ TypeOK' /\ activeJobs \in Nat /\ activeJobs' \in Nat
      /\ MaxConcurrentJobs \in Nat
  BY LimitAssumption DEF ServerInv, TypeOK
<1>1. CASE \E r \in Submissions : CheckLimit(r)
  <2>1. PICK r \in Submissions : CheckLimit(r)  BY <1>1
  <2>2. UNCHANGED <<activeJobs, syncPc, runPc>>  BY <2>1 DEF CheckLimit
  <2>3. CASE AtCapacity \/ subPc'[r] # "create"
    <3>1. \E a \in {"busy", "invalid"} : subPc' = [subPc EXCEPT ![r] = a]
      BY <1>0, <2>1, <2>3 DEF CheckLimit, Reply, TypeOK
    <3>2. Admitted' \subseteq Admitted  BY <1>0, <2>2, <3>1 DEF Admitted, TypeOK
    <3>3. QED  BY <1>0, <2>2, <3>2, CapacityFrame DEF AdmittedSync
  <2>4. CASE ~AtCapacity  BY <1>0, <2>2, <2>4 DEF AtCapacity, CapacityInv
  <2>5. QED  BY <2>3, <2>4
<1>2. CASE \E r \in Submissions : Enter(r)
  <2>1. PICK r \in Submissions : Enter(r)  BY <1>2
  <2>2. /\ runPc[r] = "enter" /\ activeJobs' = activeJobs + 1 /\ syncPc' = syncPc
        /\ subPc' = subPc /\ runPc' = [runPc EXCEPT ![r] = "register"]
    BY <2>1 DEF Enter, Goto, subVars
  <2>3. Admitted = {r} /\ AdmittedSync = {}  BY <2>2 DEF OneAdmitted, Admitted
  <2>4. subPc[r] = "accepted"  BY <2>2 DEF ServerInv, JobInv, LocalInv
  <2>5. Admitted' = {} /\ AdmittedSync' = {}
    BY <1>0, <2>2, <2>3, <2>4 DEF Admitted, AdmittedSync, TypeOK
  <2>6. QED  BY <1>0, <2>2, <2>3, <2>5 DEF CapacityInv
<1>3. CASE \E r \in Submissions : Leave(r)
  <2>1. PICK r \in Submissions : Leave(r)  BY <1>3
  <2>2. /\ activeJobs' = activeJobs - 1 /\ syncPc' = syncPc
        /\ subPc' = subPc /\ runPc' = [runPc EXCEPT ![r] = "gone"]
    BY <2>1 DEF Leave, Goto, subVars
  <2>3. Admitted' \subseteq Admitted  BY <1>0, <2>2 DEF Admitted, TypeOK
  <2>4. QED  BY <1>0, <2>2, <2>3, CapacityFrame DEF AdmittedSync
<1>4. CASE \E s \in SyncRequests : Sync(s)
  <2>1. PICK s \in SyncRequests : Sync(s)  BY <1>4
  <2>2. Admitted' = Admitted
    BY <2>1 DEF Sync, SyncCheck, SyncEnter, SyncLeave, SyncGoto, Admitted, subVars, runVars
  <2>3. CASE SyncCheck(s) /\ ~AtCapacity
    BY <1>0, <2>3 DEF SyncCheck, AtCapacity, CapacityInv
  <2>4. CASE SyncCheck(s) /\ AtCapacity
    <3>1. activeJobs' = activeJobs /\ syncPc' = [syncPc EXCEPT ![s] = "busy"]
      BY <2>4 DEF SyncCheck, SyncGoto
    <3>2. AdmittedSync' \subseteq AdmittedSync  BY <1>0, <3>1 DEF AdmittedSync, TypeOK
    <3>3. QED  BY <1>0, <2>2, <3>1, <3>2, CapacityFrame
  <2>5. CASE SyncEnter(s)
    <3>1. /\ syncPc[s] = "enter" /\ activeJobs' = activeJobs + 1
          /\ syncPc' = [syncPc EXCEPT ![s] = "execute"]
      BY <2>5 DEF SyncEnter, SyncGoto, Counted
    <3>2. AdmittedSync = {s} /\ Admitted = {}  BY <3>1 DEF OneAdmitted, AdmittedSync
    <3>3. AdmittedSync' = {}  BY <1>0, <3>1, <3>2 DEF AdmittedSync, TypeOK
    <3>4. QED  BY <1>0, <2>2, <3>1, <3>2, <3>3 DEF CapacityInv
  <2>6. CASE SyncLeave(s)
    <3>1. activeJobs' = activeJobs - 1 /\ syncPc' = [syncPc EXCEPT ![s] = "answered"]
      BY <2>6 DEF SyncLeave, SyncGoto
    <3>2. AdmittedSync' \subseteq AdmittedSync  BY <1>0, <3>1 DEF AdmittedSync, TypeOK
    <3>3. QED  BY <1>0, <2>2, <3>1, <3>2, CapacityFrame
  <2>7. QED  BY <2>1, <2>3, <2>4, <2>5, <2>6 DEF Sync
<1>5. CASE /\ \A r \in Submissions : ~CheckLimit(r) /\ ~Enter(r) /\ ~Leave(r)
           /\ \A s \in SyncRequests : ~Sync(s)
  <2>1. UNCHANGED <<activeJobs, syncPc>> /\ Admitted' \subseteq Admitted
    BY <1>5, NobodyAdmitted
  <2>2. QED  BY <1>0, <2>1, CapacityFrame DEF AdmittedSync
<1>6. QED  BY <1>1, <1>2, <1>3, <1>4, <1>5

\* The limit on active jobs is exceeded only if two requests are admitted one after the
\* other before the first is counted (checkConcurrencyLimit reads ActiveJobs, and
\* runAsyncJob and ExecHandler add to it later): otherwise CapacityRespected holds.
THEOREM CapacityUnlessRaced == Spec /\ []OneAdmitted => []CapacityRespected
<1>1. Init => CapacityInv
  BY LimitAssumption DEF Init, CapacityInv, Admitted, AdmittedSync
<1>2. ServerInv /\ ServerInv' /\ CapacityInv /\ OneAdmitted /\ [Next]_vars => CapacityInv'
  BY CapacityPreserved
<1>3. CapacityInv => CapacityRespected  BY DEF CapacityInv, CapacityRespected
<1>4. QED  BY <1>1, <1>2, <1>3, ServerInvariant, PTL DEF Spec

-----------------------------------------------------------------------------
(* One job for each idempotency key. *)

\* A submission that has looked its key up and has neither set it nor been answered.
Deciding(r) == KeyOf[r] # NoKey /\ subPc[r] \in {"fetch", "limit", "create", "setkey"}

\* At most one submission decides about a key at a time.
OneDecides ==
    \A p, q \in Submissions : Deciding(p) /\ Deciding(q) /\ KeyOf[p] = KeyOf[q] => p = q
NoneCancelled == \A r \in Submissions : ~CancelledBy(r)

\* A stored job owns its key, and a submission that decides to make a job does so when
\* no stored job has its key.
OwnerInv(p) ==
    KeyOf[p] # NoKey =>
      /\ subPc[p] \in Keyed /\ Stored(p) => idempotency[KeyOf[p]] = p
      /\ subPc[p] = "fetch" => idempotency[KeyOf[p]] \in {found[p], NoJob}
      /\ subPc[p] \in {"limit", "create", "setkey"} =>
           \A q \in Submissions : KeyOf[q] = KeyOf[p] /\ subPc[q] \in Keyed => ~Stored(q)

\* A job that its goroutine may still write is stored, if nobody cancels it.
LEMMA StoredUnlessCancelled ==
    ASSUME ServerInv, NoneCancelled, NEW r \in Submissions,
           subPc[r] \in {"setkey"} \union Keyed, runPc[r] \notin Saved
    PROVE  Stored(r)
BY DEF ServerInv, JobInv, OnlyCancelled, NoneCancelled

\* What concerns submission p, if nobody gets a key or a record that p does not know of.
LEMMA OwnerFrame ==
    ASSUME NEW p \in Submissions, OwnerInv(p), found'[p] = found[p],
           subPc'[p] = subPc[p] \/ {subPc[p], subPc'[p]} \subseteq Keyed,
           KeyOf[p] # NoKey => idempotency'[KeyOf[p]] = idempotency[KeyOf[p]],
           \A q \in Submissions : subPc'[q] \in Keyed /\ jobs'[q].status # "absent" =>
             KeyOf[q] # KeyOf[p] \/ (subPc[q] \in Keyed /\ Stored(q))
    PROVE  OwnerInv(p)'
<1>1. SUFFICES ASSUME KeyOf[p] # NoKey
               PROVE  /\ subPc'[p] \in Keyed /\ jobs'[p].status # "absent" =>
                           idempotency'[KeyOf[p]] = p
                      /\ subPc'[p] = "fetch" => idempotency'[KeyOf[p]] \in {found'[p], NoJob}
                      /\ subPc'[p] \in {"limit", "create", "setkey"} =>
                           \A q \in Submissions : KeyOf[q] = KeyOf[p] /\ subPc'[q] \in Keyed =>
                                                    jobs'[q].status = "absent"
  BY DEF OwnerInv, Stored
<1>2. {"fetch", "limit", "create", "setkey"} \intersect Keyed = {}  BY DEF Keyed
<1>3. QED  BY <1>1, <1>2 DEF OwnerInv, Stored

\* The handler, up to SetIdempotencyKey.
LEMMA DecidingKeeps ==
    ASSUME ServerInv, \A p \in Submissions : OwnerInv(p), NEW r \in Submissions,
           Lookup(r) \/ Fetch(r) \/ CheckLimit(r) \/ Create(r), NEW p \in Submissions
    PROVE  OwnerInv(p)'
<1>0. /\ TypeOK /\ idempotency' = idempotency
      /\ KeyOf[p] # NoKey => KeyOf[p] \in Keys
  BY RequestAssumption DEF ServerInv, Lookup, Fetch, CheckLimit, Create
<1>1. PICK pc \in {"fetch", "limit", "reused", "busy", "invalid", "create", "setkey"} :
        subPc' = [subPc EXCEPT ![r] = pc]
  BY DEF Lookup, Fetch, CheckLimit, Create, Reply
<1>2. subPc'[r] = pc /\ pc \notin Keyed /\ \A q \in Submissions : q # r => subPc'[q] = subPc[q]
  BY <1>0, <1>1 DEF TypeOK, Keyed
<1>3. /\ \A q \in Submissions : q # r => jobs'[q] = jobs[q] /\ found'[q] = found[q]
      /\ \A q \in Submissions : subPc'[q] \in Keyed => subPc[q] \in Keyed /\ jobs'[q] = jobs[q]
  BY <1>0, <1>2 DEF TypeOK, Lookup, Fetch, CheckLimit, Create
<1>4. CASE p # r
  <2>1. \A q \in Submissions : subPc'[q] \in Keyed /\ jobs'[q].status # "absent" =>
          KeyOf[q] # KeyOf[p] \/ (subPc[q] \in Keyed /\ Stored(q))
    BY <1>3 DEF Stored
  <2>2. QED  BY <1>0, <1>2, <1>3, <1>4, <2>1, OwnerFrame
<1>5. CASE p = r /\ KeyOf[r] # NoKey
  <2> DEFINE Unowned == \A q \in Submissions : KeyOf[q] = KeyOf[r] /\ subPc[q] \in Keyed => ~Stored(q)
  <2>1. ASSUME pc = "fetch" PROVE idempotency[KeyOf[r]] = found'[r]
    <3>1. Lookup(r)  BY <1>0, <1>2, <2>1 DEF Fetch, CheckLimit, Create, Reply, TypeOK
    <3>2. QED  BY <1>0, <1>5, <3>1 DEF Lookup, TypeOK
  <2>2. ASSUME pc \in {"limit", "create", "setkey"} PROVE Unowned
    <3>1. CASE Lookup(r)
      <4>1. idempotency[KeyOf[r]] = NoJob
        BY <1>0, <1>2, <1>5, <2>2, <3>1 DEF Lookup, Reply, TypeOK
      <4>2. QED  BY <4>1, <1>5, IdentityAssumption DEF OwnerInv
    <3>2. CASE Fetch(r)
      <4>1. subPc[r] = "fetch" /\ ~Stored(found[r])
        BY <1>0, <1>2, <2>2, <3>2 DEF Fetch, Reply, TypeOK
      <4>2. idempotency[KeyOf[r]] \in {found[r], NoJob}  BY <1>5, <4>1 DEF OwnerInv
      <4>3. QED  BY <1>5, <4>1, <4>2, IdentityAssumption DEF OwnerInv
    <3>3. CASE CheckLimit(r) \/ Create(r)
      <4>1. subPc[r] \in {"limit", "create", "setkey"}  BY <3>3 DEF CheckLimit, Create
      <4>2. QED  BY <1>5, <4>1 DEF OwnerInv
    <3>4. QED  BY <3>1, <3>2, <3>3
  <2>3. QED  BY <1>0, <1>2, <1>3, <1>5, <2>1, <2>2 DEF OwnerInv, Stored
<1>6. CASE p = r /\ KeyOf[r] = NoKey  BY <1>6 DEF OwnerInv
<1>7. QED  BY <1>4, <1>5, <1>6

\* SetIdempotencyKey: nobody else is deciding about the key and no stored job has it.
LEMMA SetKeyKeeps ==
    ASSUME ServerInv, \A p \in Submissions : OwnerInv(p), OneDecides, NoneCancelled,
           NEW r \in Submissions, SetKey(r), NEW p \in Submissions
    PROVE  OwnerInv(p)'
<1>0. /\ TypeOK /\ UNCHANGED <<jobs, found>>
      /\ \A q \in Submissions : KeyOf[q] # NoKey => KeyOf[q] \in Keys
  BY RequestAssumption DEF ServerInv, SetKey
<1>1. subPc[r] = "setkey" /\ subPc' = [subPc EXCEPT ![r] = "launch"]  BY DEF SetKey, Reply
<1>2. subPc'[r] = "launch" /\ \A q \in Submissions : q # r => subPc'[q] = subPc[q]
  BY <1>0, <1>1 DEF TypeOK
<1>3. runPc[r] = "unborn"  BY <1>1 DEF ServerInv, JobInv, LocalInv
<1>4. Stored(r)  BY <1>1, <1>3, StoredUnlessCancelled DEF Saved
<1>5. \/ KeyOf[r] # NoKey /\ idempotency' = [idempotency EXCEPT ![KeyOf[r]] = r]
      \/ KeyOf[r] = NoKey /\ idempotency' = idempotency
  BY <1>4 DEF SetKey
<1>6. CASE p = r
  <2>1. KeyOf[r] # NoKey => idempotency'[KeyOf[r]] = r  BY <1>0, <1>5 DEF TypeOK
  <2>2. QED  BY <1>2, <1>6, <2>1 DEF OwnerInv
<1>7. CASE p # r /\ KeyOf[p] # NoKey /\ KeyOf[p] # KeyOf[r]
  <2>1. idempotency'[KeyOf[p]] = idempotency[KeyOf[p]]  BY <1>0, <1>5, <1>7 DEF TypeOK
  <2>2. \A q \in Submissions : subPc'[q] \in Keyed /\ jobs'[q].status # "absent" =>
          KeyOf[q] # KeyOf[p] \/ (subPc[q] \in Keyed /\ Stored(q))
    BY <1>0, <1>2, <1>7 DEF Stored
  <2>3. QED  BY <1>0, <1>2, <1>7, <2>1, <2>2, OwnerFrame
<1>8. CASE p # r /\ KeyOf[p] # NoKey /\ KeyOf[p] = KeyOf[r]
  <2>1. ~(subPc[p] \in Keyed /\ Stored(p))  BY <1>1, <1>8 DEF OwnerInv
  <2>2. ~Deciding(p)  BY <1>1, <1>8 DEF OneDecides, Deciding
  <2>3. QED  BY <1>0, <1>2, <1>8, <2>1, <2>2 DEF OwnerInv, Deciding, Stored
<1>9. CASE KeyOf[p] = NoKey  BY <1>9 DEF OwnerInv
<1>10. QED  BY <1>6, <1>7, <1>8, <1>9

\* A job that leaves the store may leave its key to a later one.
LEMMA RemovalKeeps ==
    ASSUME ServerInv, \A p \in Submissions : OwnerInv(p), NEW gone, Remove(gone),
           idempotency' \in {KeysWithout(gone), idempotency}, NEW p \in Submissions
    PROVE  OwnerInv(p)'
<1>1. UNCHANGED <<subPc, found>>
      /\ \A q \in Submissions : jobs'[q].status # "absent" => Stored(q) /\ q \notin gone
  BY DEF Remove, subVars, Absent, Record, Stored
<1>2. KeyOf[p] # NoKey => KeyOf[p] \in Keys  BY RequestAssumption
<1>3. CASE KeyOf[p] = NoKey  BY <1>3 DEF OwnerInv
<1>4. CASE KeyOf[p] # NoKey
  <2>1. \/ idempotency'[KeyOf[p]] = idempotency[KeyOf[p]]
        \/ idempotency[KeyOf[p]] \in gone /\ idempotency'[KeyOf[p]] = NoJob
    BY <1>2, <1>4 DEF KeysWithout
  <2>2. QED  BY <1>1, <1>4, <2>1 DEF OwnerInv, Stored
<1>5. QED  BY <1>3, <1>4

LEMMA OwnerPreserved ==
    ASSUME ServerInv, \A p \in Submissions : OwnerInv(p), OneDecides, NoneCancelled,
           NoneCancelled', [Next]_vars
    PROVE  \A p \in Submissions : OwnerInv(p)'
<1>0. TypeOK  BY DEF ServerInv
<1>1. SUFFICES ASSUME NEW p \in Submissions PROVE OwnerInv(p)'  OBVIOUS
<1>2. CASE \E r \in Submissions : Lookup(r) \/ Fetch(r) \/ CheckLimit(r) \/ Create(r)
  BY <1>2, DecidingKeeps
<1>3. CASE \E r \in Submissions : SetKey(r)  BY <1>3, SetKeyKeeps
<1>4. CASE Prune \/ ExpireRows \/ EvictRows
  <2>1. PICK gone : Remove(gone) /\ idempotency' \in {KeysWithout(gone), idempotency}
    BY <1>4 DEF Prune, ExpireRows, EvictRows, DeleteRows
  <2>2. QED  BY <2>1, RemovalKeeps
<1>5. CASE \E c \in CancelCalls : CancelWrite(c)
  <2>1. PICK c \in CancelCalls : CancelWrite(c)  BY <1>5
  <2>2. target[c] \in Submissions  BY <2>1 DEF CancelWrite, ServerInv, CopyInv
  <2>3. cancelPc'[c] = "cancelled" /\ target'[c] = target[c]
    BY <1>0, <2>1 DEF CancelWrite, Answer, TypeOK
  <2>4. QED  BY <2>2, <2>3 DEF NoneCancelled, CancelledBy
<1>6. CASE \E r \in Submissions : Begin(r) \/ Save(r)
  <2>1. PICK r \in Submissions : Begin(r) \/ Save(r)  BY <1>6
  <2>2. /\ subPc' = subPc /\ found' = found /\ idempotency' = idempotency
        /\ runPc[r] \in {"begin", "save"} /\ \E rec : Update(r, rec)
    BY <2>1 DEF Begin, Save, subVars
  <2>3. Stored(r) /\ subPc[r] \in Keyed
    <3>1. subPc[r] = "accepted"  BY <2>2 DEF ServerInv, JobInv, LocalInv
    <3>2. QED  BY <2>2, <3>1, StoredUnlessCancelled DEF Keyed, Saved
  <2>4. \A q \in Submissions : q # r => jobs'[q] = jobs[q]  BY <1>0, <2>2 DEF Update, TypeOK
  <2>5. \A q \in Submissions : subPc'[q] \in Keyed /\ jobs'[q].status # "absent" =>
          KeyOf[q] # KeyOf[p] \/ (subPc[q] \in Keyed /\ Stored(q))
    BY <2>2, <2>3, <2>4 DEF Stored
  <2>6. QED  BY <2>2, <2>5, OwnerFrame
<1>7. CASE \E r \in Submissions : Refuse(r) \/ Launch(r)
  <2>1. PICK r \in Submissions : Refuse(r) \/ Launch(r)  BY <1>7
  <2>2. /\ UNCHANGED <<jobs, found, idempotency>> /\ subPc[r] = "launch"
        /\ \E a \in {"rejected", "accepted"} : subPc' = [subPc EXCEPT ![r] = a]
    BY <2>1 DEF Refuse, Launch, Reply
  <2>3. \A q \in Submissions : subPc'[q] = subPc[q] \/ {subPc[q], subPc'[q]} \subseteq Keyed
    BY <1>0, <2>2 DEF Keyed, TypeOK
  <2>4. \A q \in Submissions : subPc'[q] \in Keyed /\ jobs'[q].status # "absent" =>
          KeyOf[q] # KeyOf[p] \/ (subPc[q] \in Keyed /\ Stored(q))
    BY <2>2, <2>3 DEF Stored
  <2>5. QED  BY <2>2, <2>3, <2>4, OwnerFrame
<1>8. CASE UNCHANGED <<subVars, jobs, idempotency>>
  <2>1. \A q \in Submissions : subPc'[q] \in Keyed /\ jobs'[q].status # "absent" =>
          KeyOf[q] # KeyOf[p] \/ (subPc[q] \in Keyed /\ Stored(q))
    BY <1>8 DEF Stored, subVars
  <2>2. QED  BY <1>8, <2>1, OwnerFrame DEF subVars
<1>9. QED
  BY ZenonT(30), <1>2, <1>3, <1>4, <1>5, <1>6, <1>7, <1>8
     DEF Next, Submit, Runner, Enter, Register, RunPool, Settle, Unregister, Leave, Deadline,
         CancelCall, CancelGet, CancelFind, CancelCtx, Sync, SyncCheck, SyncEnter, SyncLeave,
         SyncGoto, CountRows, Rest, vars

\* Two jobs are executed for one key only if two submissions of it decide at the same time
\* (runAsyncJob looks the key up long before it sets it), or if a job is cancelled, which
\* the cleanup may then remove before its goroutine stores it again without the key:
\* otherwise OneJobPerKey holds.
THEOREM OneJobPerKeyUnlessRaced == Spec /\ []OneDecides /\ []NoneCancelled => []OneJobPerKey
<1> DEFINE Owned == \A p \in Submissions : OwnerInv(p)
<1>1. Init => Owned  BY DEF Init, OwnerInv, Keyed
<1>2. ServerInv /\ Owned /\ OneDecides /\ NoneCancelled /\ NoneCancelled' /\ [Next]_vars => Owned'
  BY OwnerPreserved
<1>3. ServerInv /\ Owned => OneJobPerKey
  <2>1. SUFFICES ASSUME ServerInv, Owned, NEW p \in Submissions, NEW q \in Submissions,
                        KeyOf[p] = KeyOf[q], KeyOf[p] # NoKey,
                        Stored(p), runPc[p] # "unborn", Stored(q), runPc[q] # "unborn"
                 PROVE  p = q
    BY DEF OneJobPerKey
  <2>2. subPc[p] = "accepted" /\ subPc[q] = "accepted"
    BY <2>1 DEF ServerInv, JobInv, LocalInv
  <2>3. QED  BY <2>1, <2>2 DEF OwnerInv, Keyed
<1>4. QED  BY <1>1, <1>2, <1>3, ServerInvariant, PTL DEF Spec

-----------------------------------------------------------------------------
(* A cancel is undone, as the run MCJobServerCancel shows, only by a goroutine *)
(* that has still to declare its job running or has its verdict already.      *)

Executing == {"pool", "settleOk", "settleErr"}

\* Every cancel request is done, from the look for the cancel function to the writing of
\* its clone, while the job's goroutine executes it and the timeout has not passed.
CancelsInTime ==
    \A c \in CancelCalls : cancelPc[c] \in {"find", "cancel", "write"} =>
      runPc[target[c]] \in Executing /\ ctxErr[target[c]] # "deadline"

\* The goroutine of job j is going to write the same status as the cancel request, or did.
Doomed(j) ==
    /\ ctxErr[j] = "canceled"
    /\ runPc[j] \in Executing \union {"save"} \union Saved
    /\ runPc[j] \in {"save"} \union Saved => local[j].status = "cancelled"

StickInv ==
    /\ \A c \in CancelCalls : cancelPc[c] = "write" => ctxErr[target[c]] # "none"
    /\ \A c \in CancelCalls : cancelPc[c] = "cancelled" =>
         /\ target[c] \in Submissions
         /\ Doomed(target[c])
         /\ jobs[target[c]].status \in {"cancelled", "absent"}

\* A job that is cancelled stays so: of those who write it, the goroutine writes that it
\* is cancelled, and so does every cancel request.
LEMMA CancelledStays ==
    ASSUME ServerInv, [Next]_vars, NEW j \in Submissions, Doomed(j),
           jobs[j].status \in {"cancelled", "absent"}
    PROVE  Doomed(j)' /\ jobs'[j].status \in {"cancelled", "absent"}
<1>0. /\ TypeOK /\ subPc[j] = "accepted"
      /\ runPc[j] \notin {"unborn", "enter", "register", "begin"}
  BY DEF ServerInv, JobInv, LocalInv, Doomed, Executing, Saved
<1>1. CASE UNCHANGED <<runPc, local, ctxErr>> /\ jobs'[j].status \in {jobs[j].status, "cancelled", "absent"}
  BY <1>1 DEF Doomed
<1>2. CASE \E r \in Submissions : Submit(r)
  <2>1. PICK r \in Submissions : Submit(r)  BY <1>2
  <2>2. r # j  BY <1>0, <2>1 DEF Submit, Lookup, Fetch, CheckLimit, Create, SetKey, Refuse, Launch
  <2>3. runPc'[j] = runPc[j] /\ local'[j] = local[j] /\ ctxErr' = ctxErr /\ jobs'[j] = jobs[j]
    BY <1>0, <2>1, <2>2 DEF Submit, Lookup, Fetch, CheckLimit, Create, SetKey, Refuse, Launch,
       runVars, TypeOK
  <2>4. QED  BY <2>3 DEF Doomed
<1>3. CASE \E r \in Submissions : Runner(r)
  <2>1. PICK r \in Submissions : Runner(r)  BY <1>3
  <2>2. CASE r # j
    <3>1. runPc'[j] = runPc[j] /\ local'[j] = local[j] /\ ctxErr' = ctxErr /\ jobs'[j] = jobs[j]
      BY <1>0, <2>1, <2>2 DEF Runner, Enter, Register, Begin, RunPool, Settle, Save, Unregister,
         Leave, Goto, Update, runVars, TypeOK
    <3>2. QED  BY <3>1 DEF Doomed
  <2>3. CASE r = j
    <3>1. ~Enter(j) /\ ~Register(j) /\ ~Begin(j)  BY <1>0 DEF Enter, Register, Begin
    <3>2. CASE RunPool(j)
      BY <1>0, <3>2 DEF RunPool, Goto, Doomed, Executing, Saved, TypeOK
    <3>3. CASE Settle(j)
      <4>1. /\ ctxErr' = ctxErr /\ jobs' = jobs /\ runPc' = [runPc EXCEPT ![j] = "save"]
            /\ local' = [local EXCEPT ![j].status = "cancelled"]
        BY <3>3 DEF Settle, Goto, Verdict, Doomed
      <4>2. runPc'[j] = "save" /\ local'[j].status = "cancelled"
        BY <1>0, <4>1 DEF TypeOK, JobRecord
      <4>3. QED  BY <4>1, <4>2 DEF Doomed
    <3>4. CASE Save(j)
      <4>1. /\ ctxErr' = ctxErr /\ local' = local /\ runPc'[j] = "unregister"
            /\ local[j].status = "cancelled"
            /\ jobs'[j] \in {local[j], jobs[j]}
        BY <1>0, <3>4 DEF Save, Goto, Deferred, Update, Doomed, TypeOK
      <4>2. QED  BY <4>1 DEF Doomed, Saved
    <3>5. CASE Unregister(j) \/ Leave(j)
      BY <1>0, <3>5 DEF Unregister, Leave, Goto, Doomed, Saved, TypeOK
    <3>6. QED  BY <2>1, <2>3, <3>1, <3>2, <3>3, <3>4, <3>5 DEF Runner
  <2>4. QED  BY <2>2, <2>3
<1>4. CASE \E r \in Submissions : Deadline(r)
  <2>1. PICK r \in Submissions : Deadline(r)  BY <1>4
  <2>2. UNCHANGED <<runPc, local, jobs>> /\ ctxErr'[j] = ctxErr[j]
    BY <1>0, <2>1 DEF Deadline, Doomed, runVars, TypeOK
  <2>3. QED  BY <2>2 DEF Doomed
<1>5. CASE \E c \in CancelCalls : CancelCtx(c)
  <2>1. PICK c \in CancelCalls : CancelCtx(c)  BY <1>5
  <2>2. UNCHANGED <<runPc, local, jobs>> /\ ctxErr'[j] = ctxErr[j]
    BY <1>0, <2>1 DEF CancelCtx, Doomed, runVars, TypeOK
  <2>3. QED  BY <2>2 DEF Doomed
<1>6. CASE \E c \in CancelCalls : CancelWrite(c)
  <2>1. PICK c \in CancelCalls : CancelWrite(c)  BY <1>6
  <2>2. CancelledCopy(c).status = "cancelled"  BY <1>0 DEF CancelledCopy, TypeOK, JobRecord
  <2>3. jobs'[j] \in {jobs[j], CancelledCopy(c)}  BY <1>0, <2>1 DEF CancelWrite, Update, TypeOK
  <2>4. QED  BY <1>1, <2>1, <2>2, <2>3 DEF CancelWrite, runVars
<1>7. CASE Prune \/ ExpireRows \/ EvictRows
  <2>1. PICK gone : Remove(gone)  BY <1>7 DEF Prune, ExpireRows, EvictRows, DeleteRows
  <2>2. jobs'[j] \in {jobs[j], Absent}  BY <2>1 DEF Remove
  <2>3. QED  BY <1>1, <2>1, <2>2 DEF Remove, runVars, Absent, Record
<1>8. QED
  BY ZenonT(30), <1>1, <1>2, <1>3, <1>4, <1>5, <1>6, <1>7
     DEF Next, CancelCall, CancelGet, CancelFind, Sync, SyncCheck, SyncEnter, SyncLeave, SyncGoto,
         CountRows, Rest, vars, runVars

LEMMA StickPreserved ==
    ASSUME ServerInv, ReachInv, StickInv, CancelsInTime, [Next]_vars
    PROVE  StickInv'
<1>0. TypeOK /\ \A c \in CancelCalls : CopyInv(c)  BY DEF ServerInv
<1> DEFINE Sticks(c) ==
             /\ cancelPc[c] = "write" => ctxErr[target[c]] # "none"
             /\ cancelPc[c] = "cancelled" => /\ target[c] \in Submissions
                                             /\ Doomed(target[c])
                                             /\ jobs[target[c]].status \in {"cancelled", "absent"}
<1>1. \A q \in Submissions : ctxErr[q] # "none" => ctxErr'[q] # "none"
  <2>1. CASE UNCHANGED ctxErr  BY <2>1
  <2>2. CASE \E r \in Submissions : Deadline(r)  BY <1>0, <2>2 DEF Deadline, TypeOK
  <2>3. CASE \E c \in CancelCalls : CancelCtx(c)  BY <1>0, <2>3 DEF CancelCtx, TypeOK
  <2>4. QED
    BY ZenonT(30), <2>1, <2>2, <2>3
       DEF Next, Submit, Lookup, Fetch, CheckLimit, Create, SetKey, Refuse, Launch, Runner, Enter,
           Register, Begin, RunPool, Settle, Save, Unregister, Leave, CancelCall, CancelGet,
           CancelFind, CancelWrite, Sync, SyncCheck, SyncEnter, SyncLeave, SyncGoto, Prune,
           ExpireRows, CountRows, EvictRows, DeleteRows, Remove, Rest, vars
<1>2. ASSUME NEW c \in CancelCalls, cancelPc'[c] = cancelPc[c], target'[c] = target[c]
      PROVE  Sticks(c)'
  <2>1. cancelPc[c] = "write" => target[c] \in Submissions  BY <1>0 DEF CopyInv
  <2>2. CASE cancelPc[c] = "cancelled"
    <3>1. PICK j \in Submissions :
            target[c] = j /\ Doomed(j) /\ jobs[j].status \in {"cancelled", "absent"}
      BY <2>2 DEF StickInv
    <3>2. Doomed(j)' /\ jobs'[j].status \in {"cancelled", "absent"}  BY <3>1, CancelledStays
    <3>3. target'[c] = j  BY <1>2, <3>1
    <3>4. Doomed(target[c])'  BY <3>2, <3>3 DEF Doomed
    <3>5. QED  BY <1>2, <2>2, <3>2, <3>3, <3>4
  <2>3. CASE cancelPc[c] # "cancelled"
    BY <1>1, <1>2, <2>1, <2>3 DEF StickInv
  <2>4. QED  BY <2>2, <2>3
<1>3. CASE \E c \in CancelCalls : CancelCall(c)
  <2>1. PICK c \in CancelCalls : CancelCall(c)  BY <1>3
  <2>2. ASSUME NEW d \in CancelCalls, d # c PROVE Sticks(d)'
    <3>1. cancelPc'[d] = cancelPc[d] /\ target'[d] = target[d]
      BY <1>0, <2>1, <2>2 DEF CancelCall, CancelGet, CancelFind, CancelCtx, CancelWrite, Answer,
         TypeOK
    <3>2. QED  BY <1>2, <3>1
  <2>3. Sticks(c)'
    <3>1. CASE CancelGet(c)
      <4>1. cancelPc'[c] \in {"notFound", "conflict", "find"}
        BY <1>0, <3>1 DEF CancelGet, Answer, TypeOK
      <4>2. QED  BY <4>1
    <3>2. CASE CancelFind(c)
      <4>1. cancelPc[c] = "find" /\ target[c] \in Submissions  BY <1>0, <3>2 DEF CancelFind, CopyInv
      <4>2. runPc[target[c]] \in Executing  BY <4>1 DEF CancelsInTime
      <4>3. target[c] \in jobCancels  BY <4>1, <4>2 DEF ReachInv, Reachable, Executing
      <4>4. cancelPc'[c] = "cancel"  BY <1>0, <3>2, <4>3 DEF CancelFind, Answer, TypeOK
      <4>5. QED  BY <4>4
    <3>3. CASE CancelCtx(c)
      <4>1. cancelPc'[c] = "write" /\ target' = target /\ cancelPc[c] = "cancel"
        BY <1>0, <3>3 DEF CancelCtx, Answer, TypeOK
      <4>2. target[c] \in Submissions  BY <1>0, <4>1 DEF CopyInv
      <4>3. ctxErr'[target[c]] # "none"  BY <1>0, <3>3, <4>2 DEF CancelCtx, TypeOK
      <4>4. QED  BY <4>1, <4>3
    <3>4. CASE CancelWrite(c)
      <4>1. /\ cancelPc[c] = "write" /\ cancelPc'[c] = "cancelled" /\ target' = target
            /\ UNCHANGED <<runPc, local, ctxErr>> /\ Update(target[c], CancelledCopy(c))
        BY <1>0, <3>4 DEF CancelWrite, Answer, TypeOK, runVars
      <4>2. target[c] \in Submissions  BY <1>0, <4>1 DEF CopyInv
      <4>3. ctxErr[target[c]] = "canceled" /\ runPc[target[c]] \in Executing
        BY <1>0, <4>1, <4>2 DEF CancelsInTime, StickInv, TypeOK
      <4>4. Doomed(target[c])'  BY <4>1, <4>3 DEF Doomed, Executing, Saved
      <4>5. jobs'[target[c]] = CancelledCopy(c) \/ jobs'[target[c]].status = "absent"
        BY <1>0, <4>1, <4>2 DEF Update, Stored, TypeOK
      <4>6. CancelledCopy(c).status = "cancelled"  BY <1>0 DEF CancelledCopy, TypeOK, JobRecord
      <4>7. QED  BY <4>1, <4>2, <4>4, <4>5, <4>6
    <3>5. QED  BY <2>1, <3>1, <3>2, <3>3, <3>4 DEF CancelCall
  <2>4. \A d \in CancelCalls : Sticks(d)'  BY <2>2, <2>3
  <2>5. QED  BY <2>4 DEF StickInv
<1>4. CASE UNCHANGED cancelVars
  <2>1. \A c \in CancelCalls : Sticks(c)'  BY <1>2, <1>4 DEF cancelVars
  <2>2. QED  BY <2>1 DEF StickInv
<1>5. QED
  BY ZenonT(30), <1>3, <1>4
     DEF Next, Submit, Lookup, Fetch, CheckLimit, Create, SetKey, Refuse, Launch, Runner, Enter,
         Register, Begin, RunPool, Settle, Save, Unregister, Leave, Deadline, Sync, SyncCheck,
         SyncEnter, SyncLeave, SyncGoto, Prune, ExpireRows, CountRows, EvictRows, DeleteRows,
         Remove, Rest, vars

\* A cancel that is done while the job executes is not undone, whatever else happens:
\* CancelSticks holds if no cancel comes before the goroutine's first write of the store,
\* between its verdict and the last, or after the timeout (cancelJobInternal, runAsyncJob).
THEOREM CancelSticksInTime == Spec /\ []CancelsInTime => []CancelSticks
<1>1. Init => StickInv  BY DEF Init, StickInv
<1>2. ServerInv /\ ReachInv /\ StickInv /\ CancelsInTime /\ [Next]_vars => StickInv'
  BY StickPreserved
<1>3. StickInv => CancelSticks  BY DEF StickInv, CancelSticks
<1>4. QED  BY <1>1, <1>2, <1>3, ServerInvariant, ReachInvariant, PTL DEF Spec

-----------------------------------------------------------------------------
(* What a request has still to do.  Nothing guards its steps but where it is, *)
(* so nobody waits for anybody; the liveness that TLC checks needs besides     *)
(* only that each request is given its steps.                                  *)

HandlerLeft(pc) == CASE pc = "lookup" -> 14 [] pc = "fetch" -> 13 [] pc = "limit" -> 12
                     [] pc = "create" -> 11 [] pc = "setkey" -> 10 [] pc = "launch" -> 9
                     [] OTHER -> 0
RunnerLeft(pc)  == CASE pc = "enter" -> 8 [] pc = "register" -> 7 [] pc = "begin" -> 6
                     [] pc = "pool" -> 5 [] pc \in {"settleOk", "settleErr"} -> 4
                     [] pc = "save" -> 3 [] pc = "unregister" -> 2 [] pc = "leave" -> 1
                     [] OTHER -> 0
JobLeft(r)    == HandlerLeft(subPc[r]) + RunnerLeft(runPc[r])
SyncLeft(s)   == CASE syncPc[s] = "limit" -> 3 [] syncPc[s] = "enter" -> 2
                   [] syncPc[s] = "execute" -> 1 [] OTHER -> 0
CancelLeft(c) == CASE cancelPc[c] = "get" -> 4 [] cancelPc[c] = "find" -> 3
                   [] cancelPc[c] = "cancel" -> 2 [] cancelPc[c] = "write" -> 1 [] OTHER -> 0

\* A step takes its own request nearer to the end and none away from it.
StepCounts ==
    /\ \A r \in Submissions : /\ JobLeft(r)' <= JobLeft(r)
                              /\ Submit(r) \/ Runner(r) => JobLeft(r)' < JobLeft(r)
    /\ \A s \in SyncRequests : /\ SyncLeft(s)' <= SyncLeft(s)
                               /\ Sync(s) => SyncLeft(s)' < SyncLeft(s)
    /\ \A c \in CancelCalls : /\ CancelLeft(c)' <= CancelLeft(c)
                              /\ CancelCall(c) => CancelLeft(c)' < CancelLeft(c)

\* Who has nothing left to do has been answered, and whose goroutine has ended.
OnlyIdleLeft ==
    (/\ \A r \in Submissions : JobLeft(r) = 0
     /\ \A s \in SyncRequests : SyncLeft(s) = 0
     /\ \A c \in CancelCalls : CancelLeft(c) = 0) <=> Idle

LEMMA JobCounts ==
    ASSUME ServerInv, NEW r \in Submissions, Submit(r) \/ Runner(r)
    PROVE  /\ JobLeft(r)' < JobLeft(r)
           /\ \A q \in Submissions : q # r => subPc'[q] = subPc[q] /\ runPc'[q] = runPc[q]
           /\ UNCHANGED <<syncPc, cancelPc>>
<1>0. /\ subPc \in [Submissions -> {"lookup", "fetch", "limit", "create", "setkey", "launch"}
                                     \union Replies]
      /\ runPc \in [Submissions -> RunnerSteps \union {"unborn", "gone"}]
      /\ runPc[r] # "unborn" => subPc[r] = "accepted"
  BY DEF ServerInv, TypeOK, JobInv, LocalInv
<1>1. UNCHANGED <<syncPc, cancelPc>>
  BY DEF Submit, Lookup, Fetch, CheckLimit, Create, SetKey, Refuse, Launch, Runner, Enter, Register,
     Begin, RunPool, Settle, Save, Unregister, Leave, cancelVars
<1>2. CASE Submit(r)
  <2>1. /\ \A q \in Submissions : q # r => subPc'[q] = subPc[q] /\ runPc'[q] = runPc[q]
        /\ \/ /\ runPc'[r] = runPc[r]
              /\ \/ subPc[r] = "lookup" /\ subPc'[r] \in {"limit", "fetch"}
                 \/ subPc[r] = "fetch" /\ subPc'[r] \in {"reused", "limit"}
                 \/ subPc[r] = "limit" /\ subPc'[r] \in {"busy", "invalid", "create"}
                 \/ subPc[r] = "create" /\ subPc'[r] = "setkey"
                 \/ subPc[r] = "setkey" /\ subPc'[r] = "launch"
                 \/ subPc[r] = "launch" /\ subPc'[r] = "rejected"
           \/ subPc[r] = "launch" /\ subPc'[r] = "accepted" /\ runPc'[r] = "enter"
    BY <1>0, <1>2
       DEF Submit, Lookup, Fetch, CheckLimit, Create, SetKey, Refuse, Launch, Reply, runVars
  <2>2. runPc[r] = "unborn"  BY <1>0, <2>1
  <2>3. JobLeft(r)' < JobLeft(r)  BY <2>1, <2>2 DEF JobLeft, HandlerLeft, RunnerLeft
  <2>4. QED  BY <1>1, <2>1, <2>3
<1>3. CASE Runner(r)
  <2>1. /\ subPc' = subPc
        /\ \A q \in Submissions : q # r => runPc'[q] = runPc[q]
        /\ \/ runPc[r] = "enter" /\ runPc'[r] = "register"
           \/ runPc[r] = "register" /\ runPc'[r] = "begin"
           \/ runPc[r] = "begin" /\ runPc'[r] = "pool"
           \/ runPc[r] = "pool" /\ runPc'[r] \in {"settleOk", "settleErr"}
           \/ runPc[r] \in {"settleOk", "settleErr"} /\ runPc'[r] = "save"
           \/ runPc[r] = "save" /\ runPc'[r] = "unregister"
           \/ runPc[r] = "unregister" /\ runPc'[r] = "leave"
           \/ runPc[r] = "leave" /\ runPc'[r] = "gone"
    BY <1>0, <1>3
       DEF Runner, Enter, Register, Begin, RunPool, Settle, Save, Unregister, Leave, Goto, Deferred,
           subVars
  <2>2. subPc[r] = "accepted"  BY <1>0, <2>1
  <2>3. JobLeft(r)' < JobLeft(r)  BY <2>1, <2>2 DEF JobLeft, HandlerLeft, RunnerLeft
  <2>4. QED  BY <1>1, <2>1, <2>3
<1>4. QED  BY <1>2, <1>3

LEMMA EverythingCounts == ASSUME ServerInv, [Next]_vars PROVE [StepCounts]_vars
<1>0. /\ syncPc \in [SyncRequests -> {"limit", "enter", "execute", "busy", "invalid", "answered"}]
      /\ cancelPc \in [CancelCalls -> {"get", "find", "cancel", "write"} \union CancelReplies]
  BY DEF ServerInv, TypeOK
<1>1. /\ \A r \in Submissions : JobLeft(r) \in Nat
      /\ \A s \in SyncRequests : SyncLeft(s) \in Nat
      /\ \A c \in CancelCalls : CancelLeft(c) \in Nat
  BY DEF JobLeft, HandlerLeft, RunnerLeft, SyncLeft, CancelLeft
<1>2. CASE \E r \in Submissions : Submit(r) \/ Runner(r)
  <2>1. PICK r \in Submissions : Submit(r) \/ Runner(r)  BY <1>2
  <2>2. /\ JobLeft(r)' < JobLeft(r) /\ JobLeft(r)' \in Int
        /\ \A q \in Submissions : q # r => subPc'[q] = subPc[q] /\ runPc'[q] = runPc[q]
        /\ UNCHANGED <<syncPc, cancelPc>>
    BY <2>1, JobCounts DEF JobLeft, HandlerLeft, RunnerLeft
  <2>3. \A q \in Submissions : q # r => JobLeft(q)' = JobLeft(q) /\ ~Submit(q) /\ ~Runner(q)
    <3>1. SUFFICES ASSUME NEW q \in Submissions, q # r
                   PROVE  JobLeft(q)' = JobLeft(q) /\ ~Submit(q) /\ ~Runner(q)
      OBVIOUS
    <3>2. JobLeft(q)' = JobLeft(q)  BY <2>2, <3>1 DEF JobLeft
    <3>3. ~(Submit(q) \/ Runner(q))
      <4>1. SUFFICES ASSUME Submit(q) \/ Runner(q) PROVE FALSE  OBVIOUS
      <4>2. JobLeft(q)' < JobLeft(q)  BY <4>1, JobCounts
      <4>3. QED  BY <1>1, <3>2, <4>2
    <3>4. QED  BY <3>2, <3>3
  <2>4. \A s \in SyncRequests : SyncLeft(s)' = SyncLeft(s) /\ ~Sync(s)
    BY <1>0, <2>2 DEF SyncLeft, Sync, SyncCheck, SyncEnter, SyncLeave, SyncGoto
  <2>5. \A c \in CancelCalls : CancelLeft(c)' = CancelLeft(c) /\ ~CancelCall(c)
    BY <1>0, <2>2 DEF CancelLeft, CancelCall, CancelGet, CancelFind, CancelCtx, CancelWrite, Answer
  <2>6. QED  BY <1>1, <2>2, <2>3, <2>4, <2>5 DEF StepCounts
<1>3. CASE UNCHANGED <<subPc, runPc>>
  <2>1. \A r \in Submissions : JobLeft(r)' = JobLeft(r) /\ ~Submit(r) /\ ~Runner(r)
    <3>1. SUFFICES ASSUME NEW r \in Submissions
                   PROVE  JobLeft(r)' = JobLeft(r) /\ ~Submit(r) /\ ~Runner(r)
      OBVIOUS
    <3>2. JobLeft(r)' = JobLeft(r)  BY <1>3 DEF JobLeft
    <3>3. ~(Submit(r) \/ Runner(r))
      <4>1. SUFFICES ASSUME Submit(r) \/ Runner(r) PROVE FALSE  OBVIOUS
      <4>2. JobLeft(r)' < JobLeft(r)  BY <4>1, JobCounts
      <4>3. QED  BY <1>1, <3>2, <4>2
    <3>4. QED  BY <3>2, <3>3
  <2>2. ASSUME NEW s \in SyncRequests
        PROVE  SyncLeft(s)' <= SyncLeft(s) /\ (Sync(s) => SyncLeft(s)' < SyncLeft(s))
    <3>1. CASE syncPc' = syncPc
      BY <1>0, <1>1, <3>1 DEF SyncLeft, Sync, SyncCheck, SyncEnter, SyncLeave, SyncGoto
    <3>2. CASE \E d \in SyncRequests : Sync(d)
      <4>1. PICK d \in SyncRequests : Sync(d)  BY <3>2
      <4>2. CASE d = s
        BY <1>0, <4>1, <4>2 DEF SyncLeft, Sync, SyncCheck, SyncEnter, SyncLeave, SyncGoto
      <4>3. CASE d # s
        <5>1. syncPc'[s] = syncPc[s]
          BY <1>0, <4>1, <4>3 DEF Sync, SyncCheck, SyncEnter, SyncLeave, SyncGoto
        <5>2. ~Sync(s)
          BY <1>0, <5>1 DEF Sync, SyncCheck, SyncEnter, SyncLeave, SyncGoto
        <5>3. QED  BY <1>1, <5>1, <5>2 DEF SyncLeft
      <4>4. QED  BY <4>2, <4>3
    <3>3. QED
      BY ZenonT(30), <2>1, <3>1, <3>2
         DEF Next, Deadline, CancelCall, CancelGet, CancelFind, CancelCtx, CancelWrite, Prune,
             ExpireRows, CountRows, EvictRows, DeleteRows, Remove, Rest, vars
  <2>3. ASSUME NEW c \in CancelCalls
        PROVE  CancelLeft(c)' <= CancelLeft(c) /\ (CancelCall(c) => CancelLeft(c)' < CancelLeft(c))
    <3>1. CASE cancelPc' = cancelPc
      BY <1>0, <1>1, <3>1 DEF CancelLeft, CancelCall, CancelGet, CancelFind, CancelCtx, CancelWrite,
         Answer, CancelReplies
    <3>2. CASE \E d \in CancelCalls : CancelCall(d)
      <4>1. PICK d \in CancelCalls : CancelCall(d)  BY <3>2
      <4>2. \/ cancelPc[d] = "get" /\ cancelPc'[d] \in {"notFound", "conflict", "find"}
            \/ cancelPc[d] = "find" /\ cancelPc'[d] \in {"cancel", "write", "stillRunning"}
            \/ cancelPc[d] = "cancel" /\ cancelPc'[d] = "write"
            \/ cancelPc[d] = "write" /\ cancelPc'[d] = "cancelled"
        BY <1>0, <4>1 DEF CancelCall, CancelGet, CancelFind, CancelCtx, CancelWrite, Answer
      <4>3. CASE d = c  BY <4>2, <4>3 DEF CancelLeft
      <4>4. CASE d # c
        <5>1. cancelPc'[c] = cancelPc[c]
          BY <1>0, <4>1, <4>4 DEF CancelCall, CancelGet, CancelFind, CancelCtx, CancelWrite, Answer
        <5>2. ~CancelCall(c)
          BY <1>0, <5>1 DEF CancelCall, CancelGet, CancelFind, CancelCtx, CancelWrite, Answer
        <5>3. QED  BY <1>1, <5>1, <5>2 DEF CancelLeft
      <4>5. QED  BY <4>3, <4>4
    <3>3. QED
      BY ZenonT(30), <2>1, <3>1, <3>2
         DEF Next, Deadline, Sync, SyncCheck, SyncEnter, SyncLeave, SyncGoto, Prune,
             ExpireRows, CountRows, EvictRows, DeleteRows, Remove, Rest, vars, cancelVars
  <2>4. QED  BY <1>1, <2>1, <2>2, <2>3 DEF StepCounts
<1>4. QED
  BY ZenonT(30), <1>2, <1>3
     DEF Next, Deadline, CancelCall, CancelGet, CancelFind, CancelCtx, CancelWrite, Sync, SyncCheck,
         SyncEnter, SyncLeave, SyncGoto, Prune, ExpireRows, CountRows, EvictRows, DeleteRows,
         Remove, Rest, vars, subVars, runVars

\* No request and no goroutine of the server goes on for ever: each step of one takes it
\* nearer to its end, nobody's step takes another away from it, and who has nothing left
\* to do leaves the server Idle (runAsyncJob, cancelJobInternal, ExecHandler).
THEOREM RequestsRunOut == Spec => [][StepCounts]_vars /\ []OnlyIdleLeft
<1>1. ServerInv /\ [Next]_vars => [StepCounts]_vars  BY EverythingCounts
<1>2. ServerInv => OnlyIdleLeft
  <2>1. SUFFICES ASSUME ServerInv PROVE OnlyIdleLeft  OBVIOUS
  <2>2. TypeOK /\ \A r \in Submissions : runPc[r] # "unborn" => subPc[r] = "accepted"
    BY <2>1 DEF ServerInv, JobInv, LocalInv
  <2>3. \A r \in Submissions :
          JobLeft(r) = 0 <=> subPc[r] \in Replies /\ runPc[r] \in {"unborn", "gone"}
    BY <2>2 DEF TypeOK, JobLeft, HandlerLeft, RunnerLeft, RunnerSteps, Replies
  <2>4. \A s \in SyncRequests : SyncLeft(s) = 0 <=> syncPc[s] \in {"busy", "invalid", "answered"}
    BY <2>2 DEF TypeOK, SyncLeft
  <2>5. \A c \in CancelCalls : CancelLeft(c) = 0 <=> cancelPc[c] \in CancelReplies
    BY <2>2 DEF TypeOK, CancelLeft, CancelReplies
  <2>6. QED  BY <2>3, <2>4, <2>5 DEF OnlyIdleLeft, Idle
<1>3. QED  BY <1>1, <1>2, ServerInvariant, PTL DEF Spec

=============================================================================
