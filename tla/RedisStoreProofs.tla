-------------------------- MODULE RedisStoreProofs --------------------------
(***************************************************************************)
(* Theorems about RedisStore, for any number of jobs, servers, cancel      *)
(* calls and failures.                                                     *)
(***************************************************************************)
EXTENDS RedisStore, FiniteSetTheorems, SequenceTheorems, TLAPS

-----------------------------------------------------------------------------
(* Facts about pipelines and their commands. *)

LEMMA CommandFacts ==
    ASSUME NEW j \in Jobs, NEW status \in Status, NEW key \in {"jobs", "terminal_jobs"},
           NEW score \in Nat
    PROVE  /\ HSet(j, status) \in Commands /\ HSet(j, status).key = "job"
           /\ HSet(j, status).job = j /\ HSet(j, status).status = status
           /\ Del(j) \in Commands /\ Del(j).key = "job" /\ Del(j).job = j
           /\ Del(j).status = "absent"
           /\ ZAdd(key, j, score) \in Commands /\ ZAdd(key, j, score).key = key
           /\ ZAdd(key, j, score).job = j /\ ZAdd(key, j, score).score = score
           /\ ZRem(key, j) \in Commands /\ ZRem(key, j).key = key
           /\ ZRem(key, j).job = j /\ ZRem(key, j).score = 0
BY DEF HSet, Del, ZAdd, ZRem, Command, Commands, Status, Live, Terminal

LEMMA PipelineFacts ==
    ASSUME NEW S, NEW a \in S, NEW b \in S, NEW c \in S
    PROVE  /\ <<a>> \in Seq(S) /\ <<a, b>> \in Seq(S) /\ <<a, b, c>> \in Seq(S)
           /\ <<a>> # <<>> /\ <<a, b>> # <<>> /\ <<a, b, c>> # <<>>
           /\ Head(<<a>>) = a /\ Tail(<<a>>) = <<>>
           /\ Head(<<a, b>>) = a /\ Tail(<<a, b>>) = <<b>>
           /\ Head(<<a, b, c>>) = a /\ Tail(<<a, b, c>>) = <<b, c>>
OBVIOUS

-----------------------------------------------------------------------------
(* The inductive invariant. *)

Undisturbed(j) == ~CancelledBy(j)

\* Prune on instance i is going to delete job j, or has begun to.
Doomed(i, j) == \/ \E k \in DOMAIN toPrune[i] : toPrune[i][k] = j
                \/ \E k \in DOMAIN pipe[i] : pipe[i][k].job = j

\* Some Prune has found job j in the terminal index, or is about to.
Named(j) == terminal[j] > 0 \/ \E i \in Instances : Doomed(i, j)

\* The goroutine of job j writes no more, and what it wrote was a verdict.
Settled(j) == pipe[j] = <<>> /\ runPc[j] \in {"leave", "gone"} /\ hash[j] \notin Live

\* What a command may do to the numbers in the two indices.
ScoreInv == \A c \in Callers : \A k \in DOMAIN pipe[c] :
              /\ pipe[c][k].key = "jobs" => pipe[c][k].score \in {0, 1}
              /\ pipe[c][k].key = "terminal_jobs" => pipe[c][k].score \in 0 .. clock

\* What may be left of the pipeline of a cancel call, of a Delete, and of a job.
CancelInv(c) ==
    /\ cancelPc[c] \in {"find", "written"} => target[c] \in Jobs
    /\ pipe[c] # <<>> => cancelPc[c] = "written"
    /\ \A k \in DOMAIN pipe[c] : /\ pipe[c][k].job = target[c]
                                 /\ pipe[c][k].key = "job" => pipe[c][k].status # "absent"

PruneInv(i) ==
    \/ pipe[i] = <<>>
    \/ \E j \in Jobs :
         \/ pipe[i] = DeleteCmds(j)
         \/ /\ pipe[i] = <<ZRem("jobs", j), ZRem("terminal_jobs", j)>>
            /\ Undisturbed(j) => hash[j] = "absent"
         \/ /\ pipe[i] = <<ZRem("terminal_jobs", j)>>
            /\ Undisturbed(j) => hash[j] = "absent" /\ jobs[j] = 0

OwnInv(j) ==
    \/ pipe[j] = <<>>
    \/ /\ runPc[j] = "register"
       /\ \/ pipe[j] = CreateCmds(j)
          \/ pipe[j] = <<ZAdd("jobs", j, 1)>> /\ (Undisturbed(j) => hash[j] = "queued")
    \/ /\ runPc[j] = "run"
       /\ pipe[j] = UpdateCmds(j, "running", 0) \/ pipe[j] = <<ZRem("terminal_jobs", j)>>
    \/ /\ runPc[j] = "leave"
       /\ \E status \in Terminal, score \in 1 .. clock :
            \/ pipe[j] = UpdateCmds(j, status, score)
            \/ /\ pipe[j] = <<ZAdd("terminal_jobs", j, score)>>
               /\ Undisturbed(j) => hash[j] \in Terminal

\* Job j as far as no cancel request has disturbed it: Prune meets it only when it
\* is settled, and takes it from the terminal index last.
DeleteInv(j) ==
    Undisturbed(j) =>
      /\ Named(j) => Settled(j) /\ (jobs[j] > 0 => terminal[j] > 0)
      /\ hash[j] = "absent" /\ jobs[j] > 0 => terminal[j] > 0

Agrees(j) == hash[j] # "absent" => jobs[j] > 0 /\ (hash[j] \in Terminal <=> terminal[j] > 0)

\* What Redis has of a job, step by step of its life, even if a pipeline was cut: the
\* goroutine begins only when Create was applied in full.
KeptInv(j) ==
    Undisturbed(j) =>
      /\ runPc[j] = "create" => hash[j] = "absent"
      /\ runPc[j] = "register" => /\ hash[j] \in {"absent", "queued"}
                                  /\ pipe[j] = <<>> => hash[j] = "queued" /\ jobs[j] > 0
      /\ runPc[j] = "begin" => hash[j] = "queued" /\ jobs[j] > 0
      /\ runPc[j] = "run" => hash[j] \in Live /\ jobs[j] > 0
      /\ runPc[j] = "leave" /\ pipe[j] # <<>> => jobs[j] > 0
      /\ hash[j] \notin {"absent", "queued"} => jobs[j] > 0

\* What it has in the end of a job that was written in full.
FullInv(j) ==
    Undisturbed(j) /\ j \notin lost /\ pipe[j] = <<>> /\ runPc[j] \in {"leave", "gone"}
      => Agrees(j)

JobInv(j) == OwnInv(j) /\ DeleteInv(j) /\ KeptInv(j) /\ FullInv(j)

StoreInv == /\ TypeOK /\ ScoreInv
            /\ \A c \in CancelCalls : CancelInv(c)
            /\ \A i \in Instances : PruneInv(i)
            /\ \A j \in Jobs : JobInv(j)

USE CallerAssumption, HomeAssumption, OptionAssumption
    DEF Callers, redisVars, runVars, cancelVars, pruneVars, failVars

-----------------------------------------------------------------------------
(* What a step that is about something else leaves as it was. *)

LEMMA JobFrame ==
    ASSUME TypeOK, NEW j \in Jobs, JobInv(j),
           hash'[j] = hash[j], jobs'[j] = jobs[j], terminal'[j] = terminal[j],
           runPc'[j] = runPc[j], pipe'[j] = pipe[j],
           Undisturbed(j)' => Undisturbed(j), Named(j)' => Named(j),
           lost \subseteq lost', clock' \in {clock, clock + 1}
    PROVE  JobInv(j)'
<1>1. clock \in Nat /\ 1 .. clock \subseteq 1 .. clock'
  BY DEF TypeOK
<1>2. OwnInv(j)'
  BY ZenonT(30), <1>1 DEF JobInv, OwnInv, CreateCmds, UpdateCmds, HSet, ZAdd, ZRem, Command
<1>3. DeleteInv(j)'
  BY DEF JobInv, DeleteInv, Settled
<1>4. KeptInv(j)' /\ FullInv(j)'
  BY DEF JobInv, KeptInv, FullInv, Agrees
<1> QED BY <1>2, <1>3, <1>4 DEF JobInv

LEMMA CancelFrame ==
    ASSUME NEW c \in CancelCalls, CancelInv(c),
           pipe'[c] = pipe[c], cancelPc'[c] = cancelPc[c], target'[c] = target[c]
    PROVE  CancelInv(c)'
BY DEF CancelInv

\* Also if Redis applies a command of somebody else: what is deleted stays deleted.
LEMMA PruneFrame ==
    ASSUME NEW i \in Instances, PruneInv(i), pipe'[i] = pipe[i],
           \A j \in Jobs : Undisturbed(j)' =>
             /\ Undisturbed(j)
             /\ Doomed(i, j) /\ hash[j] = "absent" => hash'[j] = "absent"
             /\ Doomed(i, j) /\ jobs[j] = 0 => jobs'[j] = 0
    PROVE  PruneInv(i)'
<1>1. CASE pipe[i] = <<>>
  BY <1>1 DEF PruneInv
<1>2. ASSUME NEW j \in Jobs, pipe[i] = DeleteCmds(j)  PROVE PruneInv(i)'
  BY <1>2 DEF PruneInv, DeleteCmds, Del, ZRem, Command
<1>3. ASSUME NEW j \in Jobs, pipe[i] = <<ZRem("jobs", j), ZRem("terminal_jobs", j)>>,
             Undisturbed(j) => hash[j] = "absent"
      PROVE  PruneInv(i)'
  <2>1. pipe[i][1].job = j /\ 1 \in DOMAIN pipe[i]
    BY <1>3 DEF ZRem, Command
  <2>2. Doomed(i, j)
    BY <2>1 DEF Doomed
  <2> QED BY <1>3, <2>2 DEF PruneInv, ZRem, Command
<1>4. ASSUME NEW j \in Jobs, pipe[i] = <<ZRem("terminal_jobs", j)>>,
             Undisturbed(j) => hash[j] = "absent" /\ jobs[j] = 0
      PROVE  PruneInv(i)'
  <2>1. pipe[i][1].job = j /\ 1 \in DOMAIN pipe[i]
    BY <1>4 DEF ZRem, Command
  <2>2. Doomed(i, j)
    BY <2>1 DEF Doomed
  <2> QED BY <1>4, <2>2 DEF PruneInv, ZRem, Command
<1> QED BY <1>1, <1>2, <1>3, <1>4 DEF PruneInv

\* A job that still writes, or is still live, is unknown to every Prune.
LEMMA Unnamed ==
    ASSUME TypeOK, NEW j \in Jobs, DeleteInv(j), Undisturbed(j),
           pipe[j] # <<>> \/ runPc[j] \notin {"leave", "gone"} \/ hash[j] \in Live
    PROVE  ~Named(j) /\ terminal[j] = 0
BY DEF DeleteInv, Settled, Named, TypeOK

-----------------------------------------------------------------------------
(* The goroutine of a job. *)

\* It sends a pipeline of its own, or none: the other jobs and callers are unmoved.
LEMMA RunFrame ==
    ASSUME StoreInv, NEW j \in Jobs, UNCHANGED <<redisVars, cancelVars, pruneVars, lost>>,
           \A c \in Callers : c # j => pipe'[c] = pipe[c],
           \A k \in Jobs : k # j => runPc'[k] = runPc[k],
           clock' \in {clock, clock + 1}
    PROVE  /\ \A c \in CancelCalls : CancelInv(c)'
           /\ \A i \in Instances : PruneInv(i)'
           /\ \A k \in Jobs : k # j => JobInv(k)'
           /\ \A k \in Jobs : (Named(k)' <=> Named(k)) /\ (Undisturbed(k)' <=> Undisturbed(k))
<1>0. TypeOK
  BY DEF StoreInv
<1>1. \A k \in Jobs : Undisturbed(k)' <=> Undisturbed(k)
  BY DEF Undisturbed, CancelledBy
<1>2. \A i \in Instances : pipe'[i] = pipe[i]
  OBVIOUS
<1>3. \A k \in Jobs : Named(k)' <=> Named(k)
  BY <1>2 DEF Named, Doomed
<1>4. \A c \in CancelCalls : CancelInv(c)'
  BY CancelFrame DEF StoreInv
<1>5. \A i \in Instances : PruneInv(i)'
  BY <1>1, <1>2, PruneFrame DEF StoreInv
<1>6. \A k \in Jobs : k # j => JobInv(k)'
  BY <1>0, <1>1, <1>3, JobFrame DEF StoreInv
<1> QED BY <1>1, <1>3, <1>4, <1>5, <1>6

\* The pipelines sent are made of commands, with scores that fit.
LEMMA SendTypes ==
    ASSUME TypeOK, ScoreInv, NEW c \in Callers, NEW q \in Seq(Commands), Len(q) <= 3,
           \A k \in DOMAIN q : /\ q[k].key = "jobs" => q[k].score \in {0, 1}
                               /\ q[k].key = "terminal_jobs" => q[k].score \in 0 .. clock',
           clock' \in {clock, clock + 1}, pipe' = [pipe EXCEPT ![c] = q]
    PROVE  /\ pipe' \in [Callers -> Seq(Commands)] /\ \A d \in Callers : Len(pipe'[d]) <= 3
           /\ ScoreInv'
<1>1. \A d \in Callers : pipe'[d] = IF d = c THEN q ELSE pipe[d]
  BY DEF TypeOK
<1>2. 0 .. clock \subseteq 0 .. clock'
  BY DEF TypeOK
<1>3. ScoreInv'
  BY <1>1, <1>2 DEF ScoreInv
<1> QED BY <1>1, <1>3 DEF TypeOK

LEMMA CreateTypes ==
    ASSUME NEW j \in Jobs
    PROVE  /\ CreateCmds(j) \in Seq(Commands) /\ Len(CreateCmds(j)) = 2
           /\ \A k \in DOMAIN CreateCmds(j) : /\ CreateCmds(j)[k].job = j
                                              /\ CreateCmds(j)[k].key # "terminal_jobs"
                                              /\ CreateCmds(j)[k].score \in {0, 1}
<1>1. "queued" \in Status
  BY DEF Status, Live
<1>2. CreateCmds(j) \in Seq(Commands) /\ Len(CreateCmds(j)) = 2
  BY <1>1, CommandFacts, PipelineFacts DEF CreateCmds
<1>3. \A k \in DOMAIN CreateCmds(j) : /\ CreateCmds(j)[k].job = j
                                      /\ CreateCmds(j)[k].key # "terminal_jobs"
                                      /\ CreateCmds(j)[k].score \in {0, 1}
  BY DEF CreateCmds, HSet, ZAdd, Command
<1> QED BY <1>2, <1>3

LEMMA UpdateTypes ==
    ASSUME NEW j \in Jobs, NEW status \in Status, NEW score \in Nat,
           NEW q, q = UpdateCmds(j, status, score)
    PROVE  /\ q \in Seq(Commands) /\ Len(q) = 2 /\ q # <<>>
           /\ \A k \in DOMAIN q : /\ q[k].job = j /\ q[k].key # "jobs"
                                  /\ q[k].score \in {0, score}
                                  /\ q[k].key = "job" => q[k].status = status
<1>1. q \in Seq(Commands) /\ Len(q) = 2 /\ q # <<>>
  BY CommandFacts, PipelineFacts DEF UpdateCmds
<1>2. \A k \in DOMAIN q : /\ q[k].job = j /\ q[k].key # "jobs" /\ q[k].score \in {0, score}
                          /\ q[k].key = "job" => q[k].status = status
  BY DEF UpdateCmds, HSet, ZAdd, ZRem, Command
<1> QED BY <1>1, <1>2

LEMMA DeleteTypes ==
    ASSUME NEW j \in Jobs
    PROVE  /\ DeleteCmds(j) \in Seq(Commands) /\ Len(DeleteCmds(j)) = 3
           /\ \A k \in DOMAIN DeleteCmds(j) :
                DeleteCmds(j)[k].job = j /\ DeleteCmds(j)[k].score = 0
<1>1. DeleteCmds(j) \in Seq(Commands) /\ Len(DeleteCmds(j)) = 3
  BY CommandFacts, PipelineFacts DEF DeleteCmds, Status
<1>2. \A k \in DOMAIN DeleteCmds(j) : DeleteCmds(j)[k].job = j /\ DeleteCmds(j)[k].score = 0
  BY DEF DeleteCmds, Del, ZRem, Command
<1> QED BY <1>1, <1>2

\* A pipeline of its own for job j, which has none under way.
LEMMA SendPreserves ==
    ASSUME StoreInv, NEW j \in Jobs, NEW q \in Seq(Commands), Exec(j, q), Len(q) <= 3,
           \A k \in DOMAIN q : /\ q[k].key = "jobs" => q[k].score \in {0, 1}
                               /\ q[k].key = "terminal_jobs" => q[k].score \in 0 .. clock',
           clock' \in {clock, clock + 1}, NEW pc \in {"register", "run", "leave"}, Goto(j, pc),
           UNCHANGED <<redisVars, ctxErr, cancelVars, pruneVars, failVars>>,
           OwnInv(j)', DeleteInv(j)', KeptInv(j)', FullInv(j)'
    PROVE  StoreInv'
<1>0. TypeOK /\ ScoreInv
  BY DEF StoreInv
<1>1. j \in Callers /\ pipe' = [pipe EXCEPT ![j] = q] /\ runPc' = [runPc EXCEPT ![j] = pc]
  BY DEF Exec, Goto
<1>2. /\ pipe' \in [Callers -> Seq(Commands)] /\ \A d \in Callers : Len(pipe'[d]) <= 3
      /\ ScoreInv'
  BY <1>0, <1>1, SendTypes
<1>3. TypeOK'
  BY SMTT(30), <1>0, <1>1, <1>2 DEF TypeOK
<1>4. /\ \A c \in Callers : c # j => pipe'[c] = pipe[c]
      /\ \A k \in Jobs : k # j => runPc'[k] = runPc[k]
  BY <1>0, <1>1 DEF TypeOK
<1>5. /\ \A c \in CancelCalls : CancelInv(c)'
      /\ \A i \in Instances : PruneInv(i)'
      /\ \A k \in Jobs : k # j => JobInv(k)'
  BY <1>4, RunFrame
<1> QED BY <1>2, <1>3, <1>5 DEF StoreInv, JobInv

LEMMA CreatePreserves == ASSUME StoreInv, NEW j \in Jobs, Create(j)  PROVE StoreInv'
<1>0. TypeOK /\ JobInv(j)
  BY DEF StoreInv
<1>1. /\ Exec(j, CreateCmds(j)) /\ Goto(j, "register") /\ runPc[j] = "create" /\ pipe[j] = <<>>
      /\ pipe'[j] = CreateCmds(j) /\ runPc'[j] = "register" /\ CreateCmds(j) # <<>>
      /\ UNCHANGED <<redisVars, ctxErr, cancelVars, pruneVars, failVars, clock>>
  BY <1>0 DEF Create, Exec, Goto, TypeOK, CreateCmds
<1>2. (Named(j)' <=> Named(j)) /\ (Undisturbed(j)' <=> Undisturbed(j))
  BY SMTT(30), <1>0, <1>1 DEF Exec, Named, Doomed, Undisturbed, CancelledBy, TypeOK
<1>3. OwnInv(j)'
  BY <1>1 DEF OwnInv, CreateCmds, HSet, ZAdd, Command
<1>4. DeleteInv(j)' /\ KeptInv(j)' /\ FullInv(j)'
  <2>1. Undisturbed(j) => ~Named(j)
    BY <1>0, <1>1, Unnamed DEF JobInv
  <2> QED BY <1>0, <1>1, <1>2, <2>1 DEF JobInv, DeleteInv, KeptInv, FullInv
<1> QED BY <1>1, <1>3, <1>4, CreateTypes, SendPreserves

LEMMA BeginPreserves == ASSUME StoreInv, NEW j \in Jobs, Begin(j)  PROVE StoreInv'
<1> DEFINE q == UpdateCmds(j, "running", 0)
<1>0. TypeOK /\ JobInv(j) /\ "running" \in Status /\ 0 \in 0 .. clock
  BY SMTT(30) DEF StoreInv, TypeOK, Status, Live
<1>1. /\ Exec(j, q) /\ Goto(j, "run") /\ runPc[j] = "begin" /\ pipe[j] = <<>>
      /\ pipe'[j] = q /\ runPc'[j] = "run" /\ q # <<>>
      /\ UNCHANGED <<redisVars, ctxErr, cancelVars, pruneVars, failVars, clock>>
  BY <1>0 DEF Begin, Exec, Goto, TypeOK, UpdateCmds
<1>2. (Named(j)' <=> Named(j)) /\ (Undisturbed(j)' <=> Undisturbed(j))
  BY <1>0, <1>1 DEF Exec, Named, Doomed, Undisturbed, CancelledBy, TypeOK
<1>3. OwnInv(j)'
  BY <1>1 DEF OwnInv, UpdateCmds, HSet, ZAdd, ZRem, Command
<1>4. DeleteInv(j)' /\ KeptInv(j)' /\ FullInv(j)'
  <2>1. Undisturbed(j) => ~Named(j)
    BY <1>0, <1>1, Unnamed DEF JobInv
  <2> QED BY <1>0, <1>1, <1>2, <2>1 DEF JobInv, DeleteInv, KeptInv, FullInv, Live
<1>5. /\ q \in Seq(Commands) /\ Len(q) <= 3
      /\ \A k \in DOMAIN q : q[k].key # "jobs" /\ q[k].score = 0
  <2>1. /\ UpdateCmds(j, "running", 0) \in Seq(Commands) /\ Len(UpdateCmds(j, "running", 0)) = 2
        /\ \A k \in DOMAIN UpdateCmds(j, "running", 0) :
             /\ UpdateCmds(j, "running", 0)[k].key # "jobs"
             /\ UpdateCmds(j, "running", 0)[k].score \in {0, 0}
    BY <1>0, UpdateTypes
  <2> QED BY <2>1
<1> QED BY <1>0, <1>1, <1>3, <1>4, <1>5, SendPreserves

LEMMA SavePreserves == ASSUME StoreInv, NEW j \in Jobs, Save(j)  PROVE StoreInv'
<1>0. TypeOK /\ JobInv(j) /\ clock \in Nat
  BY DEF StoreInv, TypeOK
<1>1. PICK status \in Terminal : Exec(j, UpdateCmds(j, status, clock + 1))
  BY DEF Save, Terminal
<1> DEFINE q == UpdateCmds(j, status, clock + 1)
<1>2. /\ Exec(j, q) /\ Goto(j, "leave") /\ runPc[j] = "run" /\ pipe[j] = <<>>
      /\ pipe'[j] = q /\ runPc'[j] = "leave" /\ q # <<>> /\ clock' = clock + 1
      /\ UNCHANGED <<redisVars, ctxErr, cancelVars, pruneVars, failVars>>
  BY <1>0, <1>1 DEF Save, Exec, Goto, TypeOK, UpdateCmds
<1>3. (Named(j)' <=> Named(j)) /\ (Undisturbed(j)' <=> Undisturbed(j))
  BY SMTT(30), <1>0, <1>2 DEF Exec, Named, Doomed, Undisturbed, CancelledBy, TypeOK
<1>4. OwnInv(j)'
  <2>1. clock + 1 \in 1 .. clock' /\ pipe'[j] = UpdateCmds(j, status, clock + 1)
    BY <1>0, <1>2
  <2>2. UpdateCmds(j, status, clock + 1)' = UpdateCmds(j, status, clock' + 1)
    BY DEF UpdateCmds, HSet, ZAdd, ZRem, Command
  <2> QED BY <1>2, <2>1 DEF OwnInv, UpdateCmds, HSet, ZAdd, ZRem, Command
<1>5. DeleteInv(j)' /\ KeptInv(j)' /\ FullInv(j)'
  <2>1. Undisturbed(j) => ~Named(j)
    BY <1>0, <1>2, Unnamed DEF JobInv
  <2> QED BY <1>0, <1>2, <1>3, <2>1 DEF JobInv, DeleteInv, KeptInv, FullInv
<1>6. /\ q \in Seq(Commands) /\ Len(q) <= 3
      /\ \A k \in DOMAIN q : q[k].key # "jobs" /\ q[k].score \in {0, clock + 1}
  <2>1. status \in Status /\ clock + 1 \in Nat
    BY <1>0 DEF Status
  <2>2. PICK score \in Nat : score = clock + 1
    BY <2>1
  <2>3. /\ UpdateCmds(j, status, score) \in Seq(Commands) /\ Len(UpdateCmds(j, status, score)) = 2
        /\ \A k \in DOMAIN UpdateCmds(j, status, score) :
             /\ UpdateCmds(j, status, score)[k].key # "jobs"
             /\ UpdateCmds(j, status, score)[k].score \in {0, score}
    BY <2>1, UpdateTypes
  <2> QED BY <2>2, <2>3
<1>7. {0, clock + 1} \subseteq 0 .. clock'
  BY <1>0, <1>2
<1> QED BY <1>2, <1>4, <1>5, <1>6, <1>7, SendPreserves

\* The reply of the store has come: the job goes on, and nothing else.
LEMMA GoPreserves ==
    ASSUME StoreInv, NEW j \in Jobs, Register(j) \/ Leave(j)
    PROVE  StoreInv'
<1>0. TypeOK /\ ScoreInv /\ JobInv(j)
  BY DEF StoreInv
<1>1. /\ pipe[j] = <<>> /\ UNCHANGED <<pipe, redisVars, ctxErr, cancelVars, pruneVars, failVars, clock>>
      /\ \/ runPc[j] = "register" /\ runPc' = [runPc EXCEPT ![j] = "begin"]
         \/ runPc[j] = "leave" /\ runPc' = [runPc EXCEPT ![j] = "gone"]
  BY DEF Register, Leave, Free, Goto
<1>2. TypeOK' /\ ScoreInv'
  BY ZenonT(30), <1>0, <1>1 DEF TypeOK, ScoreInv
<1>3. /\ \A c \in CancelCalls : CancelInv(c)'
      /\ \A i \in Instances : PruneInv(i)'
      /\ \A k \in Jobs : k # j => JobInv(k)'
      /\ (Named(j)' <=> Named(j)) /\ (Undisturbed(j)' <=> Undisturbed(j))
  <2>1. \A k \in Jobs : k # j => runPc'[k] = runPc[k]
    BY <1>0, <1>1 DEF TypeOK
  <2> QED BY <1>1, <2>1, RunFrame
<1>4. JobInv(j)'
  <2>1. runPc'[j] = IF runPc[j] = "register" THEN "begin" ELSE "gone"
    BY <1>0, <1>1 DEF TypeOK
  <2>2. OwnInv(j)'
    BY <1>1 DEF OwnInv
  <2>3. DeleteInv(j)'
    BY <1>0, <1>1, <1>3, <2>1 DEF JobInv, DeleteInv, Settled
  <2>4. KeptInv(j)'
    BY <1>0, <1>1, <1>3, <2>1 DEF JobInv, KeptInv
  <2>5. FullInv(j)'
    BY <1>0, <1>1, <1>3, <2>1 DEF JobInv, FullInv, Agrees
  <2> QED BY <2>2, <2>3, <2>4, <2>5 DEF JobInv
<1> QED BY <1>2, <1>3, <1>4 DEF StoreInv

LEMMA RunPreserves == ASSUME StoreInv, NEW j \in Jobs, Run(j)  PROVE StoreInv'
BY CreatePreserves, BeginPreserves, SavePreserves, GoPreserves DEF Run

-----------------------------------------------------------------------------
(* A cancel call. *)

\* Of the jobs it can only disturb one; for the others nothing happens.
LEMMA CancelStep ==
    ASSUME StoreInv, NEW c \in CancelCalls, UNCHANGED <<redisVars, runPc, pruneVars, lost>>,
           cancelPc[c] # "written", CancelInv(c)', clock' \in {clock, clock + 1},
           \A d \in Callers : d # c => pipe'[d] = pipe[d],
           \A d \in CancelCalls : d # c => cancelPc'[d] = cancelPc[d] /\ target'[d] = target[d]
    PROVE  /\ \A d \in CancelCalls : CancelInv(d)'
           /\ \A i \in Instances : PruneInv(i)'
           /\ \A j \in Jobs : JobInv(j)'
<1>0. TypeOK
  BY DEF StoreInv
<1>1. \A j \in Jobs : Undisturbed(j)' => Undisturbed(j)
  BY DEF Undisturbed, CancelledBy
<1>2. /\ \A i \in Instances : pipe'[i] = pipe[i]
      /\ \A j \in Jobs : pipe'[j] = pipe[j]
  OBVIOUS
<1>3. \A j \in Jobs : Named(j)' <=> Named(j)
  BY <1>2 DEF Named, Doomed
<1>4. \A d \in CancelCalls : CancelInv(d)'
  BY CancelFrame DEF StoreInv
<1>5. \A i \in Instances : PruneInv(i)'
  BY <1>1, <1>2, PruneFrame DEF StoreInv
<1>6. \A j \in Jobs : JobInv(j)'
  BY <1>0, <1>1, <1>2, <1>3, JobFrame DEF StoreInv
<1> QED BY <1>4, <1>5, <1>6

LEMMA CancelPreserves == ASSUME StoreInv, NEW c \in CancelCalls, Cancel(c)  PROVE StoreInv'
<1>0. TypeOK /\ ScoreInv /\ CancelInv(c)
  BY DEF StoreInv
<1>1. CASE CancelGet(c)
  <2>1. PICK j \in Jobs : /\ target' = [target EXCEPT ![c] = j]
                          /\ copy' = [copy EXCEPT ![c] = hash[j]]
                          /\ \E pc \in {"find", "gone"} : cancelPc' = [cancelPc EXCEPT ![c] = pc]
    BY <1>1 DEF CancelGet
  <2>2. cancelPc[c] = "get" /\ UNCHANGED <<redisVars, pipe, runVars, pruneVars, failVars, clock>>
    BY <1>1 DEF CancelGet
  <2>3. TypeOK' /\ ScoreInv'
    BY SMTT(30), <1>0, <2>1, <2>2 DEF TypeOK, ScoreInv
  <2>4. /\ \A d \in CancelCalls : d # c => cancelPc'[d] = cancelPc[d] /\ target'[d] = target[d]
        /\ target'[c] = j /\ pipe[c] = <<>>
    BY <1>0, <2>1, <2>2 DEF TypeOK, CancelInv
  <2>5. CancelInv(c)'
    BY <2>2, <2>4 DEF CancelInv
  <2> QED BY <2>2, <2>3, <2>4, <2>5, CancelStep DEF StoreInv
<1>2. CASE CancelFind(c)
  <2>1. target[c] \in Jobs /\ clock + 1 \in Nat /\ "cancelled" \in Status
    BY <1>0, <1>2 DEF CancelFind, CancelInv, TypeOK, Status, Terminal
  <2>2. PICK score \in Nat : score = clock + 1
    BY <2>1
  <2> DEFINE q == UpdateCmds(target[c], "cancelled", score)
  <2>3. /\ cancelPc[c] = "find" /\ pipe' = [pipe EXCEPT ![c] = q] /\ clock' = clock + 1
        /\ cancelPc' = [cancelPc EXCEPT ![c] = "written"]
        /\ ctxErr' \in [Jobs -> {"none", "canceled"}]
        /\ UNCHANGED <<redisVars, runPc, target, copy, pruneVars, failVars>>
    BY <1>0, <1>2, <2>1, <2>2 DEF CancelFind, Exec, TypeOK
  <2>4. /\ q \in Seq(Commands) /\ Len(q) = 2
        /\ \A k \in DOMAIN q : /\ q[k].job = target[c] /\ q[k].key # "jobs"
                               /\ q[k].score \in {0, score}
                               /\ q[k].key = "job" => q[k].status = "cancelled"
    BY <2>1, UpdateTypes
  <2> HIDE DEF q
  <2>5. /\ pipe' \in [Callers -> Seq(Commands)] /\ \A d \in Callers : Len(pipe'[d]) <= 3
        /\ ScoreInv'
    <3>1. {0, score} \subseteq 0 .. clock' /\ clock' \in {clock, clock + 1}
      BY <1>0, <2>1, <2>2, <2>3 DEF TypeOK
    <3>2. \A k \in DOMAIN q : q[k].key # "jobs" /\ q[k].score \in 0 .. clock'
      BY <2>4, <3>1
    <3>3. c \in Callers /\ Len(q) <= 3
      BY <2>4
    <3> QED BY <1>0, <2>3, <2>4, <3>1, <3>2, <3>3, SendTypes
  <2>6. TypeOK'
    <3>1. terminal' \in [Jobs -> 0 .. clock'] /\ clock' \in Nat
      BY <1>0, <2>3 DEF TypeOK
    <3>2. cancelPc' \in [CancelCalls -> {"get", "find", "written", "gone"}]
      BY <1>0, <2>3 DEF TypeOK
    <3> QED BY <1>0, <2>3, <2>5, <3>1, <3>2 DEF TypeOK
  <2>7. /\ \A d \in CancelCalls : d # c => cancelPc'[d] = cancelPc[d] /\ target'[d] = target[d]
        /\ \A d \in Callers : d # c => pipe'[d] = pipe[d]
        /\ pipe'[c] = q /\ cancelPc'[c] = "written"
    BY <1>0, <2>3 DEF TypeOK
  <2>8. CancelInv(c)'
    BY <2>1, <2>3, <2>4, <2>7 DEF CancelInv
  <2> QED BY <2>3, <2>5, <2>6, <2>7, <2>8, CancelStep DEF StoreInv
<1>3. CASE CancelNothing(c)
  <2>1. /\ cancelPc[c] = "find" /\ cancelPc' = [cancelPc EXCEPT ![c] = "gone"]
        /\ UNCHANGED <<redisVars, pipe, runVars, target, copy, pruneVars, failVars, clock>>
    BY <1>3 DEF CancelNothing
  <2>2. TypeOK' /\ ScoreInv'
    BY <1>0, <2>1 DEF TypeOK, ScoreInv
  <2>3. /\ \A d \in CancelCalls : d # c => cancelPc'[d] = cancelPc[d] /\ target'[d] = target[d]
        /\ cancelPc'[c] = "gone" /\ pipe[c] = <<>>
    BY <1>0, <2>1 DEF TypeOK, CancelInv
  <2>4. CancelInv(c)'
    BY <2>1, <2>3 DEF CancelInv
  <2> QED BY <2>1, <2>2, <2>3, <2>4, CancelStep DEF StoreInv
<1> QED BY <1>1, <1>2, <1>3 DEF Cancel

-----------------------------------------------------------------------------
(* The cleanup. *)

\* It names only jobs that were named before, and sends a pipeline of its own or none.
LEMMA PruneStep ==
    ASSUME StoreInv, NEW i \in Instances, UNCHANGED <<redisVars, runVars, cancelVars, failVars, clock>>,
           \A d \in Callers : d # i => pipe'[d] = pipe[d],
           \A h \in Instances : h # i => toPrune'[h] = toPrune[h],
           \A j \in Jobs : Doomed(i, j)' => Named(j), PruneInv(i)'
    PROVE  /\ \A d \in CancelCalls : CancelInv(d)'
           /\ \A h \in Instances : PruneInv(h)'
           /\ \A j \in Jobs : JobInv(j)'
<1>0. TypeOK
  BY DEF StoreInv
<1>1. \A j \in Jobs : Undisturbed(j)' <=> Undisturbed(j)
  BY DEF Undisturbed, CancelledBy
<1>2. \A j \in Jobs : Named(j)' => Named(j)
  <2>1. \A h \in Instances, j \in Jobs : h # i => (Doomed(h, j)' <=> Doomed(h, j))
    BY DEF Doomed
  <2> QED BY <2>1 DEF Named
<1>3. /\ \A d \in CancelCalls : pipe'[d] = pipe[d]
      /\ \A j \in Jobs : pipe'[j] = pipe[j]
  OBVIOUS
<1>4. \A d \in CancelCalls : CancelInv(d)'
  BY <1>3, CancelFrame DEF StoreInv
<1>5. \A h \in Instances : h # i => PruneInv(h)'
  BY <1>1, PruneFrame DEF StoreInv
<1>6. \A j \in Jobs : JobInv(j)'
  BY <1>0, <1>1, <1>2, <1>3, JobFrame DEF StoreInv
<1> QED BY <1>4, <1>5, <1>6

\* The jobs read from the terminal index.
LEMMA ByScoreType ==
    ASSUME NEW S \in SUBSET Jobs, NEW q \in ByScore(S)
    PROVE  q \in Seq(Jobs) /\ \A k \in DOMAIN q : q[k] \in S
<1>1. IsFiniteSet(S)
  BY FS_Subset
<1>2. Cardinality(S) \in Nat
  BY <1>1, FS_CardinalityType
<1>3. q \in [1 .. Cardinality(S) -> S]
  BY DEF ByScore
<1> QED BY <1>2, <1>3

LEMMA PrunePreserves == ASSUME StoreInv, NEW i \in Instances, Prune(i)  PROVE StoreInv'
<1>0. TypeOK /\ ScoreInv /\ PruneInv(i)
  BY DEF StoreInv
<1>1. ASSUME NEW q \in Seq(Jobs), toPrune' = [toPrune EXCEPT ![i] = q],
             \A k \in DOMAIN q : Named(q[k]),
             UNCHANGED <<redisVars, pipe, runVars, cancelVars, failVars, clock>>,
             prunePc' \in [Instances -> {"tick", "expired", "range", "oldest"}],
             toDelete' \in [Instances -> Nat]
      PROVE  StoreInv'
  <2>1. TypeOK' /\ ScoreInv'
    BY <1>0, <1>1 DEF TypeOK, ScoreInv
  <2>2. /\ \A h \in Instances : h # i => toPrune'[h] = toPrune[h]
        /\ toPrune'[i] = q
    BY <1>0, <1>1 DEF TypeOK
  <2>3. \A j \in Jobs : Doomed(i, j)' => Named(j)
    BY SMTT(30), <1>1, <2>2 DEF Doomed, Named
  <2>4. PruneInv(i)'
    <3>1. \A j \in Jobs : Undisturbed(j)' <=> Undisturbed(j)
      BY <1>1 DEF Undisturbed, CancelledBy
    <3> QED BY <1>0, <1>1, <3>1, PruneFrame
  <2> QED BY <1>1, <2>1, <2>2, <2>3, <2>4, PruneStep DEF StoreInv
<1>2. \A k \in DOMAIN toPrune[i] : Named(toPrune[i][k])
  BY DEF Named, Doomed
<1>3. ASSUME NEW cutoff \in 0 .. clock, PruneExpired(i, cutoff)  PROVE StoreInv'
  <2>1. PICK q \in ByScore({j \in Indexed : JobTTL /\ terminal[j] <= cutoff}) :
           toPrune' = [toPrune EXCEPT ![i] = q]
    BY <1>3 DEF PruneExpired
  <2>2. {j \in Indexed : JobTTL /\ terminal[j] <= cutoff} \in SUBSET Jobs
    BY DEF Indexed
  <2>3. q \in Seq(Jobs) /\ \A k \in DOMAIN q : q[k] \in Indexed
    BY <2>1, <2>2, ByScoreType
  <2>4. \A k \in DOMAIN q : Named(q[k])
    BY <2>3 DEF Indexed, Named
  <2> QED BY <1>0, <1>1, <1>3, <2>1, <2>3, <2>4 DEF PruneExpired, PruneGoto, TypeOK
<1>4. CASE PruneNext(i)
  <2>0. toPrune[i] \in Seq(Jobs) /\ toPrune[i] # <<>>
    BY <1>0, <1>4 DEF PruneNext, TypeOK
  <2>1. PICK j \in Jobs : j = Head(toPrune[i]) /\ j = toPrune[i][1] /\ 1 \in DOMAIN toPrune[i]
    BY <2>0
  <2>2. /\ pipe' = [pipe EXCEPT ![i] = DeleteCmds(j)] /\ toPrune' = [toPrune EXCEPT ![i] = Tail(@)]
        /\ UNCHANGED <<redisVars, runVars, cancelVars, prunePc, toDelete, failVars, clock>>
    BY <1>4, <2>1 DEF PruneNext, Exec
  <2>3. /\ DeleteCmds(j) \in Seq(Commands) /\ Len(DeleteCmds(j)) = 3
        /\ \A k \in DOMAIN DeleteCmds(j) : DeleteCmds(j)[k].job = j /\ DeleteCmds(j)[k].score = 0
    BY <2>1, DeleteTypes
  <2>4. /\ pipe' \in [Callers -> Seq(Commands)] /\ \A d \in Callers : Len(pipe'[d]) <= 3
        /\ ScoreInv'
    <3>1. 0 \in 0 .. clock' /\ clock' \in {clock, clock + 1}
      BY <1>0, <2>2 DEF TypeOK
    <3>2. \A k \in DOMAIN DeleteCmds(j) :
            DeleteCmds(j)[k].score \in {0, 1} /\ DeleteCmds(j)[k].score \in 0 .. clock'
      BY <2>3, <3>1
    <3>3. i \in Callers /\ Len(DeleteCmds(j)) <= 3
      BY <2>3
    <3> QED BY <1>0, <2>2, <2>3, <3>1, <3>2, <3>3, SendTypes
  <2>5. TypeOK'
    <3>1. toPrune' \in [Instances -> Seq(Jobs)]
      <4>1. Tail(toPrune[i]) \in Seq(Jobs)
        BY <2>0
      <4> QED BY <1>0, <2>2, <4>1 DEF TypeOK
    <3> QED BY <1>0, <2>2, <2>4, <3>1 DEF TypeOK
  <2>6. /\ \A h \in Instances : h # i => toPrune'[h] = toPrune[h]
        /\ \A d \in Callers : d # i => pipe'[d] = pipe[d]
        /\ pipe'[i] = DeleteCmds(j) /\ toPrune'[i] = Tail(toPrune[i])
    BY <1>0, <2>2 DEF TypeOK
  <2>7. \A k \in Jobs : Doomed(i, k)' => Named(k)
    <3>1. \A n \in DOMAIN toPrune'[i] : n + 1 \in DOMAIN toPrune[i] /\ toPrune'[i][n] = toPrune[i][n + 1]
      BY <2>0, <2>6
    <3>2. \A n \in DOMAIN pipe'[i] : pipe'[i][n].job = j
      BY <2>3, <2>6
    <3> QED BY <1>2, <2>1, <3>1, <3>2 DEF Doomed
  <2>8. PruneInv(i)'
    <3>1. PICK k \in Jobs : k = j /\ pipe'[i] = DeleteCmds(k)
      BY <2>1, <2>6
    <3> QED BY <3>1 DEF PruneInv, DeleteCmds, Del, ZRem, Command
  <2> QED BY <2>2, <2>4, <2>5, <2>6, <2>7, <2>8, PruneStep DEF StoreInv
<1>5. CASE PruneOldest(i)
  <2>1. PICK q \in ByScore(Indexed) :
           toPrune' = [toPrune EXCEPT ![i] =
                         SubSeq(q, 1, IF toDelete[i] < Len(q) THEN toDelete[i] ELSE Len(q))]
    BY <1>5 DEF PruneOldest
  <2>2. Indexed \in SUBSET Jobs
    BY DEF Indexed
  <2>3. q \in Seq(Jobs) /\ \A k \in DOMAIN q : q[k] \in Indexed
    BY <2>1, <2>2, ByScoreType
  <2>4. PICK n \in 0 .. Len(q) : n = IF toDelete[i] < Len(q) THEN toDelete[i] ELSE Len(q)
    <3>1. toDelete[i] \in Nat /\ Len(q) \in Nat
      BY <1>0, <2>3 DEF TypeOK
    <3> QED BY <3>1
  <2>5. /\ SubSeq(q, 1, n) \in Seq(Jobs)
        /\ \A k \in DOMAIN SubSeq(q, 1, n) : k \in DOMAIN q /\ SubSeq(q, 1, n)[k] = q[k]
    BY <2>3, <2>4
  <2>6. \A k \in DOMAIN SubSeq(q, 1, n) : Named(SubSeq(q, 1, n)[k])
    BY <2>3, <2>5 DEF Indexed, Named
  <2>7. toPrune' = [toPrune EXCEPT ![i] = SubSeq(q, 1, n)]
    BY <2>1, <2>4
  <2>8. /\ UNCHANGED <<redisVars, pipe, runVars, cancelVars, failVars, clock>>
        /\ prunePc' \in [Instances -> {"tick", "expired", "range", "oldest"}]
        /\ toDelete' \in [Instances -> Nat]
    BY <1>0, <1>5 DEF PruneOldest, PruneGoto, TypeOK
  <2> QED BY <1>1, <2>5, <2>6, <2>7, <2>8
<1>6. CASE PruneCount(i) \/ PruneEnd(i)
  <2>1. Surplus \in Nat
    <3>1. IsFiniteSet(Indexed)
      BY FS_Subset DEF Indexed
    <3>2. Cardinality(Indexed) \in Nat
      BY <3>1, FS_CardinalityType
    <3> QED BY <3>2 DEF Surplus
  <2>2. /\ UNCHANGED <<redisVars, pipe, runVars, cancelVars, toPrune, failVars, clock>>
        /\ prunePc' \in [Instances -> {"tick", "expired", "range", "oldest"}]
        /\ toDelete' \in [Instances -> Nat]
    <3>1. CASE PruneCount(i)
      BY <1>0, <2>1, <3>1 DEF PruneCount, PruneGoto, Free, TypeOK
    <3>2. CASE PruneEnd(i)
      BY <1>0, <3>2 DEF PruneEnd, PruneGoto, Free, TypeOK
    <3> QED BY <1>6, <3>1, <3>2
  <2>3. toPrune[i] \in Seq(Jobs) /\ toPrune' = [toPrune EXCEPT ![i] = toPrune[i]]
    BY <1>0, <2>2 DEF TypeOK
  <2> QED BY <1>1, <1>2, <2>2, <2>3
<1> QED BY <1>3, <1>4, <1>5, <1>6 DEF Prune

-----------------------------------------------------------------------------
(* Redis applies a command. *)

\* What it does to the job of the command, and that it does nothing else.
LEMMA ApplyFacts ==
    ASSUME StoreInv, NEW c \in Callers, Apply(c), NEW m, m = Head(pipe[c])
    PROVE  /\ m \in Commands /\ pipe[c] # <<>> /\ pipe[c][1] = m /\ 1 \in DOMAIN pipe[c]
           /\ hash'[m.job] = IF m.key = "job" THEN m.status ELSE hash[m.job]
           /\ jobs'[m.job] = IF m.key = "jobs" THEN m.score ELSE jobs[m.job]
           /\ terminal'[m.job] = IF m.key = "terminal_jobs" THEN m.score ELSE terminal[m.job]
           /\ \A j \in Jobs : j # m.job =>
                hash'[j] = hash[j] /\ jobs'[j] = jobs[j] /\ terminal'[j] = terminal[j]
           /\ pipe'[c] = Tail(pipe[c]) /\ \A d \in Callers : d # c => pipe'[d] = pipe[d]
           /\ \A n \in DOMAIN pipe'[c] : n + 1 \in DOMAIN pipe[c] /\ pipe'[c][n] = pipe[c][n + 1]
           /\ UNCHANGED <<runVars, cancelVars, pruneVars, failVars, clock>>
           /\ TypeOK' /\ ScoreInv'
<1>0. TypeOK /\ ScoreInv
  BY DEF StoreInv
<1>1. /\ pipe[c] \in Seq(Commands) /\ pipe[c] # <<>> /\ pipe' = [pipe EXCEPT ![c] = Tail(@)]
      /\ UNCHANGED <<runVars, cancelVars, pruneVars, failVars, clock>>
  BY <1>0 DEF Apply, TypeOK
<1>2. /\ m \in Commands /\ pipe[c][1] = m /\ 1 \in DOMAIN pipe[c]
      /\ Tail(pipe[c]) \in Seq(Commands) /\ Len(Tail(pipe[c])) <= Len(pipe[c])
      /\ \A n \in DOMAIN Tail(pipe[c]) :
           n + 1 \in DOMAIN pipe[c] /\ Tail(pipe[c])[n] = pipe[c][n + 1]
  BY <1>1
<1>3. /\ pipe'[c] = Tail(pipe[c]) /\ \A d \in Callers : d # c => pipe'[d] = pipe[d]
      /\ pipe' \in [Callers -> Seq(Commands)]
  BY <1>0, <1>1, <1>2 DEF TypeOK
<1>4. /\ m.job \in Jobs /\ m.status \in Status
      /\ m.key = "jobs" => m.score \in {0, 1}
      /\ m.key = "terminal_jobs" => m.score \in 0 .. clock
  BY <1>0, <1>2 DEF Commands, ScoreInv
<1>5. /\ hash' = IF m.key = "job" THEN [hash EXCEPT ![m.job] = m.status] ELSE hash
      /\ jobs' = IF m.key = "jobs" THEN [jobs EXCEPT ![m.job] = m.score] ELSE jobs
      /\ terminal' = IF m.key = "terminal_jobs" THEN [terminal EXCEPT ![m.job] = m.score]
                     ELSE terminal
  BY DEF Apply
<1>6. /\ hash'[m.job] = IF m.key = "job" THEN m.status ELSE hash[m.job]
      /\ jobs'[m.job] = IF m.key = "jobs" THEN m.score ELSE jobs[m.job]
      /\ terminal'[m.job] = IF m.key = "terminal_jobs" THEN m.score ELSE terminal[m.job]
      /\ \A j \in Jobs : j # m.job =>
           hash'[j] = hash[j] /\ jobs'[j] = jobs[j] /\ terminal'[j] = terminal[j]
  BY <1>0, <1>4, <1>5 DEF TypeOK
<1>7. hash' \in [Jobs -> Status] /\ jobs' \in [Jobs -> {0, 1}] /\ terminal' \in [Jobs -> 0 .. clock]
  BY <1>0, <1>4, <1>5 DEF TypeOK
<1>8. \A d \in Callers : Len(pipe'[d]) <= 3
  <2>1. Len(pipe'[c]) <= 3
    <3>1. Len(pipe[c]) <= 3 /\ Len(pipe[c]) \in Nat /\ Len(Tail(pipe[c])) \in Nat
      BY <1>0, <1>1, <1>2 DEF TypeOK
    <3> QED BY <1>2, <1>3, <3>1
  <2> QED BY <1>0, <1>3, <2>1 DEF TypeOK
<1>9. TypeOK'
  BY <1>0, <1>1, <1>3, <1>7, <1>8 DEF TypeOK
<1>10. ScoreInv'
  BY <1>0, <1>1, <1>2, <1>3 DEF ScoreInv
<1> QED BY <1>1, <1>2, <1>3, <1>6, <1>9, <1>10

LEMMA ApplyFrame ==
    ASSUME StoreInv, NEW c \in Callers, Apply(c), NEW k \in Jobs, Head(pipe[c]).job = k,
           c \in Jobs => c = k
    PROVE  /\ \A d \in CancelCalls : CancelInv(d)'
           /\ \A j \in Jobs : j # k => JobInv(j)'
           /\ \A j \in Jobs : Undisturbed(j)' <=> Undisturbed(j)
           /\ \A i \in Instances, j \in Jobs : Doomed(i, j)' => Doomed(i, j)
<1>0. TypeOK /\ TypeOK'
  BY ApplyFacts DEF StoreInv
<1>1. /\ \A j \in Jobs : j # k =>
           hash'[j] = hash[j] /\ jobs'[j] = jobs[j] /\ terminal'[j] = terminal[j]
      /\ \A d \in Callers : d # c => pipe'[d] = pipe[d]
      /\ \A n \in DOMAIN pipe'[c] : n + 1 \in DOMAIN pipe[c] /\ pipe'[c][n] = pipe[c][n + 1]
      /\ pipe[c] # <<>>
      /\ UNCHANGED <<runVars, cancelVars, pruneVars, failVars, clock>>
  BY ApplyFacts
<1>2. \A j \in Jobs : Undisturbed(j)' <=> Undisturbed(j)
  BY <1>1 DEF Undisturbed, CancelledBy
<1>3. \A i \in Instances, j \in Jobs : Doomed(i, j)' => Doomed(i, j)
  BY <1>1 DEF Doomed
<1>4. \A d \in CancelCalls : CancelInv(d)'
  BY <1>1 DEF StoreInv, CancelInv
<1>5. \A j \in Jobs : j # k => JobInv(j)'
  <2> SUFFICES ASSUME NEW j \in Jobs, j # k  PROVE JobInv(j)'
    OBVIOUS
  <2>1. pipe'[j] = pipe[j] /\ runPc'[j] = runPc[j]
    BY <1>1
  <2>2. Named(j)' => Named(j)
    BY <1>1, <1>3 DEF Named
  <2> QED BY <1>0, <1>1, <1>2, <2>1, <2>2, JobFrame DEF StoreInv
<1> QED BY <1>2, <1>3, <1>4, <1>5

\* A pipeline of a job's own goroutine is about that job.
LEMMA OwnJob ==
    ASSUME NEW j \in Jobs, OwnInv(j), pipe[j] # <<>>
    PROVE  pipe[j][1].job = j
<1>1. \A status, score, key : /\ HSet(j, status).job = j /\ ZAdd(key, j, score).job = j
                              /\ ZRem(key, j).job = j
  BY DEF HSet, ZAdd, ZRem, Command
<1>2. CASE pipe[j] = CreateCmds(j)
  BY <1>1, <1>2 DEF CreateCmds
<1>3. CASE pipe[j] = <<ZAdd("jobs", j, 1)>>
  BY <1>1, <1>3
<1>4. ASSUME NEW status, NEW score, pipe[j] = UpdateCmds(j, status, score)
      PROVE  pipe[j][1].job = j
  BY <1>1, <1>4 DEF UpdateCmds
<1>5. CASE pipe[j] = <<ZRem("terminal_jobs", j)>>
  BY <1>1, <1>5
<1>6. ASSUME NEW score, pipe[j] = <<ZAdd("terminal_jobs", j, score)>>  PROVE pipe[j][1].job = j
  BY <1>1, <1>6
<1> QED BY <1>2, <1>3, <1>4, <1>5, <1>6 DEF OwnInv

\* A command of the job's own goroutine.
LEMMA ApplyOwnPreserves == ASSUME StoreInv, NEW j \in Jobs, Apply(j)  PROVE StoreInv'
<1> DEFINE m == Head(pipe[j])
<1>0. TypeOK /\ JobInv(j) /\ clock \in Nat
  BY DEF StoreInv, TypeOK
<1>1. /\ pipe[j] # <<>> /\ pipe'[j] = Tail(pipe[j])
      /\ hash'[m.job] = IF m.key = "job" THEN m.status ELSE hash[m.job]
      /\ jobs'[m.job] = IF m.key = "jobs" THEN m.score ELSE jobs[m.job]
      /\ terminal'[m.job] = IF m.key = "terminal_jobs" THEN m.score ELSE terminal[m.job]
      /\ \A k \in Jobs : k # m.job =>
           hash'[k] = hash[k] /\ jobs'[k] = jobs[k] /\ terminal'[k] = terminal[k]
      /\ \A d \in Callers : d # j => pipe'[d] = pipe[d]
      /\ UNCHANGED <<runVars, cancelVars, pruneVars, failVars, clock>>
      /\ TypeOK' /\ ScoreInv'
  BY ApplyFacts
<1>2. /\ "queued" \in Status /\ "running" \in Status /\ "running" \notin Terminal
      /\ Terminal \subseteq Status /\ Terminal \intersect Live = {} /\ "absent" \notin Terminal \union Live
      /\ "queued" \in Live /\ "running" \in Live
  BY DEF Status, Live, Terminal
<1>3. \/ /\ pipe[j] = <<HSet(j, "queued"), ZAdd("jobs", j, 1)>> /\ runPc[j] = "register"
      \/ /\ pipe[j] = <<ZAdd("jobs", j, 1)>> /\ runPc[j] = "register"
         /\ Undisturbed(j) => hash[j] = "queued"
      \/ /\ pipe[j] = <<HSet(j, "running"), ZRem("terminal_jobs", j)>> /\ runPc[j] = "run"
      \/ /\ pipe[j] = <<ZRem("terminal_jobs", j)>> /\ runPc[j] = "run"
      \/ \E status \in Terminal, score \in 1 .. clock :
           \/ /\ pipe[j] = <<HSet(j, status), ZAdd("terminal_jobs", j, score)>>
              /\ runPc[j] = "leave"
           \/ /\ pipe[j] = <<ZAdd("terminal_jobs", j, score)>> /\ runPc[j] = "leave"
              /\ Undisturbed(j) => hash[j] \in Terminal
  BY <1>0, <1>1, <1>2 DEF JobInv, OwnInv, CreateCmds, UpdateCmds
<1>5. m.job = j
  BY <1>0, <1>1, OwnJob, ApplyFacts DEF JobInv
<1>6. /\ \A d \in CancelCalls : CancelInv(d)'
      /\ \A k \in Jobs : k # j => JobInv(k)'
      /\ \A k \in Jobs : Undisturbed(k)' <=> Undisturbed(k)
      /\ \A i \in Instances, k \in Jobs : Doomed(i, k)' => Doomed(i, k)
  BY <1>5, ApplyFrame
<1>7. Undisturbed(j) => ~Named(j) /\ terminal[j] = 0 /\ \A i \in Instances : ~Doomed(i, j)
  BY <1>0, <1>1, Unnamed DEF JobInv, Named
<1>8. \A i \in Instances : PruneInv(i)'
  BY <1>1, <1>5, <1>6, <1>7, PruneFrame DEF StoreInv
<1>9. Undisturbed(j) => (Named(j)' <=> terminal'[j] > 0)
  BY <1>6, <1>7 DEF Named
<1>10. JobInv(j)'
  <2> HIDE DEF m
  <2> USE DEF JobInv, DeleteInv, KeptInv, FullInv, Agrees, Settled
  <2>1. CASE pipe[j] = <<HSet(j, "queued"), ZAdd("jobs", j, 1)>> /\ runPc[j] = "register"
    <3>1. /\ m = HSet(j, "queued") /\ pipe'[j] = <<ZAdd("jobs", j, 1)>> /\ pipe'[j] # <<>>
      BY <1>1, <2>1 DEF m
    <3>2. hash'[j] = "queued" /\ jobs'[j] = jobs[j] /\ terminal'[j] = terminal[j]
      BY <1>1, <1>5, <3>1 DEF HSet, Command
    <3>3. OwnInv(j)'
      BY <1>1, <2>1, <3>1, <3>2 DEF OwnInv, ZAdd, Command
    <3> QED BY <1>0, <1>1, <1>2, <1>6, <1>7, <1>9, <2>1, <3>1, <3>2, <3>3
  <2>2. CASE /\ pipe[j] = <<ZAdd("jobs", j, 1)>> /\ runPc[j] = "register"
             /\ Undisturbed(j) => hash[j] = "queued"
    <3>1. m = ZAdd("jobs", j, 1) /\ pipe'[j] = <<>>
      BY <1>1, <2>2 DEF m
    <3>2. hash'[j] = hash[j] /\ jobs'[j] = 1 /\ terminal'[j] = terminal[j]
      BY <1>1, <1>5, <3>1 DEF ZAdd, Command
    <3>3. OwnInv(j)'
      BY <3>1 DEF OwnInv
    <3> QED BY <1>0, <1>1, <1>2, <1>6, <1>7, <1>9, <2>2, <3>1, <3>2, <3>3
  <2>3. CASE pipe[j] = <<HSet(j, "running"), ZRem("terminal_jobs", j)>> /\ runPc[j] = "run"
    <3>1. m = HSet(j, "running") /\ pipe'[j] = <<ZRem("terminal_jobs", j)>> /\ pipe'[j] # <<>>
      BY <1>1, <2>3 DEF m
    <3>2. hash'[j] = "running" /\ jobs'[j] = jobs[j] /\ terminal'[j] = terminal[j]
      BY <1>1, <1>5, <3>1 DEF HSet, Command
    <3>3. OwnInv(j)'
      BY <1>1, <2>3, <3>1 DEF OwnInv, ZRem, Command
    <3> QED BY <1>0, <1>1, <1>2, <1>6, <1>7, <1>9, <2>3, <3>1, <3>2, <3>3
  <2>4. CASE pipe[j] = <<ZRem("terminal_jobs", j)>> /\ runPc[j] = "run"
    <3>1. m = ZRem("terminal_jobs", j) /\ pipe'[j] = <<>>
      BY <1>1, <2>4 DEF m
    <3>2. hash'[j] = hash[j] /\ jobs'[j] = jobs[j] /\ terminal'[j] = 0
      BY <1>1, <1>5, <3>1 DEF ZRem, Command
    <3>3. OwnInv(j)'
      BY <3>1 DEF OwnInv
    <3> QED BY <1>0, <1>1, <1>2, <1>6, <1>7, <1>9, <2>4, <3>1, <3>2, <3>3
  <2>5. ASSUME NEW status \in Terminal, NEW score \in 1 .. clock,
               pipe[j] = <<HSet(j, status), ZAdd("terminal_jobs", j, score)>>, runPc[j] = "leave"
        PROVE  JobInv(j)'
    <3>1. m = HSet(j, status) /\ pipe'[j] = <<ZAdd("terminal_jobs", j, score)>> /\ pipe'[j] # <<>>
      BY <1>1, <2>5 DEF m
    <3>2. hash'[j] = status /\ jobs'[j] = jobs[j] /\ terminal'[j] = terminal[j]
      BY <1>1, <1>5, <3>1 DEF HSet, Command
    <3>3. OwnInv(j)'
      BY <1>1, <2>5, <3>1, <3>2 DEF OwnInv, ZAdd, Command
    <3> QED BY <1>0, <1>1, <1>2, <1>6, <1>7, <1>9, <2>5, <3>1, <3>2, <3>3
  <2>6. ASSUME NEW status \in Terminal, NEW score \in 1 .. clock,
               pipe[j] = <<ZAdd("terminal_jobs", j, score)>>, runPc[j] = "leave",
               Undisturbed(j) => hash[j] \in Terminal
        PROVE  JobInv(j)'
    <3>1. m = ZAdd("terminal_jobs", j, score) /\ pipe'[j] = <<>>
      BY <1>1, <2>6 DEF m
    <3>2. hash'[j] = hash[j] /\ jobs'[j] = jobs[j] /\ terminal'[j] = score /\ score > 0
      BY <1>0, <1>1, <1>5, <3>1 DEF ZAdd, Command
    <3>3. OwnInv(j)'
      BY <3>1 DEF OwnInv
    <3> QED BY <1>0, <1>1, <1>2, <1>6, <1>7, <1>9, <2>6, <3>1, <3>2, <3>3
  <2> QED BY <1>3, <2>1, <2>2, <2>3, <2>4, <2>5, <2>6
<1> QED BY <1>1, <1>6, <1>8, <1>10 DEF StoreInv

\* A command of a cancel call, which disturbs the job it is about.
LEMMA ApplyCancelPreserves == ASSUME StoreInv, NEW c \in CancelCalls, Apply(c)  PROVE StoreInv'
<1>0. TypeOK /\ CancelInv(c)
  BY DEF StoreInv
<1>1. PICK k \in Jobs : k = target[c] /\ k = Head(pipe[c]).job /\ cancelPc[c] = "written"
  BY <1>0, ApplyFacts DEF CancelInv
<1>2. ~Undisturbed(k)
  BY <1>1 DEF Undisturbed, CancelledBy
<1>3. /\ \A j \in Jobs : j # k => hash'[j] = hash[j] /\ jobs'[j] = jobs[j]
      /\ \A d \in Callers : d # c => pipe'[d] = pipe[d]
      /\ UNCHANGED <<runVars, cancelVars, pruneVars, failVars, clock>>
      /\ TypeOK' /\ ScoreInv'
  BY <1>1, ApplyFacts
<1>4. /\ \A d \in CancelCalls : CancelInv(d)'
      /\ \A j \in Jobs : j # k => JobInv(j)'
      /\ \A j \in Jobs : Undisturbed(j)' <=> Undisturbed(j)
  BY <1>1, ApplyFrame
<1>5. \A i \in Instances : PruneInv(i)'
  BY <1>2, <1>3, <1>4, PruneFrame DEF StoreInv
<1>6. JobInv(k)'
  <2>1. OwnInv(k) /\ pipe'[k] = pipe[k] /\ runPc'[k] = runPc[k] /\ clock' = clock
    BY <1>3 DEF StoreInv, JobInv
  <2>2. OwnInv(k)'
    BY <1>2, <1>4, <2>1 DEF OwnInv, CreateCmds, UpdateCmds, HSet, ZAdd, ZRem, Command
  <2> QED BY <1>2, <1>4, <2>2 DEF JobInv, DeleteInv, KeptInv, FullInv
<1> QED BY <1>3, <1>4, <1>5, <1>6 DEF StoreInv


\* A command of a Delete that Prune has begun.  A job it meets undisturbed is settled,
\* and the terminal index is the last to forget it.
LEMMA ApplyPrunePreserves == ASSUME StoreInv, NEW i \in Instances, Apply(i)  PROVE StoreInv'
<1> DEFINE m == Head(pipe[i])
<1>0. TypeOK /\ PruneInv(i)
  BY DEF StoreInv
<1>1. /\ m \in Commands /\ pipe[i] # <<>> /\ pipe[i][1] = m /\ 1 \in DOMAIN pipe[i]
      /\ pipe'[i] = Tail(pipe[i])
      /\ hash'[m.job] = IF m.key = "job" THEN m.status ELSE hash[m.job]
      /\ jobs'[m.job] = IF m.key = "jobs" THEN m.score ELSE jobs[m.job]
      /\ terminal'[m.job] = IF m.key = "terminal_jobs" THEN m.score ELSE terminal[m.job]
      /\ \A j \in Jobs : j # m.job =>
           hash'[j] = hash[j] /\ jobs'[j] = jobs[j] /\ terminal'[j] = terminal[j]
      /\ \A d \in Callers : d # i => pipe'[d] = pipe[d]
      /\ UNCHANGED <<runVars, cancelVars, pruneVars, failVars, clock>>
      /\ TypeOK' /\ ScoreInv'
  BY ApplyFacts
<1>2. PICK k \in Jobs :
        \/ pipe[i] = <<Del(k), ZRem("jobs", k), ZRem("terminal_jobs", k)>>
        \/ /\ pipe[i] = <<ZRem("jobs", k), ZRem("terminal_jobs", k)>>
           /\ Undisturbed(k) => hash[k] = "absent"
        \/ /\ pipe[i] = <<ZRem("terminal_jobs", k)>>
           /\ Undisturbed(k) => hash[k] = "absent" /\ jobs[k] = 0
  BY <1>0, <1>1 DEF PruneInv, DeleteCmds
<1> HIDE DEF m
<1>3. /\ m.job = k /\ hash'[k] \in {hash[k], "absent"} /\ jobs'[k] \in {jobs[k], 0}
      /\ \/ /\ pipe'[i] = <<ZRem("jobs", k), ZRem("terminal_jobs", k)>>
            /\ hash'[k] = "absent" /\ jobs'[k] = jobs[k] /\ terminal'[k] = terminal[k]
         \/ /\ pipe'[i] = <<ZRem("terminal_jobs", k)>>
            /\ Undisturbed(k) => hash'[k] = "absent"
            /\ jobs'[k] = 0 /\ terminal'[k] = terminal[k]
         \/ /\ pipe'[i] = <<>>
            /\ Undisturbed(k) => hash'[k] = "absent" /\ jobs'[k] = 0
  <2>1. CASE pipe[i] = <<Del(k), ZRem("jobs", k), ZRem("terminal_jobs", k)>>
    <3>1. m = Del(k) /\ pipe'[i] = <<ZRem("jobs", k), ZRem("terminal_jobs", k)>>
      BY <1>1, <2>1 DEF m
    <3>2. m.job = k /\ m.key = "job" /\ m.status = "absent"
      BY <3>1 DEF Del, Command
    <3>3. hash'[k] = "absent" /\ jobs'[k] = jobs[k] /\ terminal'[k] = terminal[k]
      BY <1>1, <3>2
    <3> QED BY <3>1, <3>2, <3>3
  <2>2. CASE /\ pipe[i] = <<ZRem("jobs", k), ZRem("terminal_jobs", k)>>
             /\ Undisturbed(k) => hash[k] = "absent"
    <3>1. m = ZRem("jobs", k) /\ pipe'[i] = <<ZRem("terminal_jobs", k)>>
      BY <1>1, <2>2 DEF m
    <3>2. m.job = k /\ m.key = "jobs" /\ m.score = 0
      BY <3>1 DEF ZRem, Command
    <3>3. hash'[k] = hash[k] /\ jobs'[k] = 0 /\ terminal'[k] = terminal[k]
      BY <1>1, <3>2
    <3> QED BY <2>2, <3>1, <3>2, <3>3
  <2>3. CASE /\ pipe[i] = <<ZRem("terminal_jobs", k)>>
             /\ Undisturbed(k) => hash[k] = "absent" /\ jobs[k] = 0
    <3>1. m = ZRem("terminal_jobs", k) /\ pipe'[i] = <<>>
      BY <1>1, <2>3 DEF m
    <3>2. m.job = k /\ m.key = "terminal_jobs"
      BY <3>1 DEF ZRem, Command
    <3>3. hash'[k] = hash[k] /\ jobs'[k] = jobs[k]
      BY <1>1, <3>2
    <3> QED BY <2>3, <3>1, <3>2, <3>3
  <2> QED BY <1>2, <2>1, <2>2, <2>3
<1>4. /\ \A d \in CancelCalls : CancelInv(d)'
      /\ \A j \in Jobs : j # k => JobInv(j)'
      /\ \A j \in Jobs : Undisturbed(j)' <=> Undisturbed(j)
      /\ \A h \in Instances, j \in Jobs : Doomed(h, j)' => Doomed(h, j)
  BY <1>3, ApplyFrame DEF m
<1>5. Undisturbed(k) => /\ pipe[k] = <<>> /\ runPc[k] \in {"leave", "gone"} /\ hash[k] \notin Live
                        /\ jobs[k] > 0 => terminal[k] > 0
  <2>1. Named(k)
    BY <1>1, <1>3 DEF Named, Doomed
  <2> QED BY <2>1 DEF StoreInv, JobInv, DeleteInv, Settled
<1>6. \A h \in Instances : PruneInv(h)'
  <2>1. PruneInv(i)'
    BY <1>3, <1>4 DEF PruneInv, ZRem, Command
  <2>2. \A h \in Instances : h # i => PruneInv(h)'
    <3>1. \A j \in Jobs : /\ hash[j] = "absent" => hash'[j] = "absent"
                          /\ jobs[j] = 0 => jobs'[j] = 0
      BY <1>1, <1>3
    <3> QED BY <1>1, <1>4, <3>1, PruneFrame DEF StoreInv
  <2> QED BY <2>1, <2>2
<1>7. JobInv(k)'
  <2>0. pipe'[k] = pipe[k] /\ runPc'[k] = runPc[k] /\ clock' = clock
    BY <1>1
  <2>1. OwnInv(k)'
    <3>1. CASE Undisturbed(k)
      BY <1>5, <2>0, <3>1 DEF OwnInv
    <3>2. CASE ~Undisturbed(k)
      <4>1. OwnInv(k)
        BY DEF StoreInv, JobInv
      <4> QED BY <1>4, <2>0, <3>2, <4>1 DEF OwnInv, CreateCmds, UpdateCmds, HSet, ZAdd, ZRem, Command
    <3> QED BY <3>1, <3>2
  <2>2. Undisturbed(k) => hash'[k] = "absent" /\ (jobs'[k] > 0 => terminal'[k] > 0)
    BY <1>3, <1>5
  <2>3. DeleteInv(k)'
    BY <1>4, <1>5, <2>0, <2>2 DEF DeleteInv, Settled, Live
  <2>4. FullInv(k)'
    BY <1>4, <1>5, <2>0, <2>2 DEF FullInv, Agrees
  <2>5. KeptInv(k)'
    BY <1>4, <1>5, <2>0, <2>2 DEF KeptInv
  <2> QED BY <2>1, <2>3, <2>4, <2>5 DEF JobInv
<1> QED BY <1>1, <1>4, <1>6, <1>7 DEF StoreInv

LEMMA ApplyPreserves == ASSUME StoreInv, NEW c \in Callers, Apply(c)  PROVE StoreInv'
BY ApplyOwnPreserves, ApplyCancelPreserves, ApplyPrunePreserves

-----------------------------------------------------------------------------
(* Failures. *)

\* What a failure may do: pipelines lose what was not applied, their jobs count as
\* lost, and callers give up where they are.
LEMMA FailurePreserves ==
    ASSUME StoreInv, TypeOK', ScoreInv', UNCHANGED <<redisVars, target, clock>>,
           \A c \in Callers : pipe'[c] \in {pipe[c], <<>>},
           \A j \in Jobs : \/ runPc'[j] = runPc[j]
                           \/ runPc[j] # "create" /\ runPc'[j] = "gone" /\ pipe'[j] = <<>>,
           \A c \in CancelCalls : \/ cancelPc'[c] = cancelPc[c]
                                  \/ cancelPc[c] = "find" /\ cancelPc'[c] = "gone",
           \A i \in Instances : toPrune'[i] \in {toPrune[i], <<>>},
           lost \subseteq lost',
           \A j \in Jobs : pipe'[j] # pipe[j] => j \in lost',
           \A j \in Jobs : runPc'[j] = "register" => pipe'[j] = pipe[j]
    PROVE  StoreInv'
<1>0. TypeOK
  BY DEF StoreInv
<1>1. \A j \in Jobs : Undisturbed(j)' <=> Undisturbed(j)
  BY DEF Undisturbed, CancelledBy
<1>2. \A i \in Instances, j \in Jobs : Doomed(i, j)' => Doomed(i, j)
  <2>1. DOMAIN <<>> = {}
    OBVIOUS
  <2> QED BY <2>1 DEF Doomed
<1>3. \A j \in Jobs : Named(j)' => Named(j)
  BY <1>2 DEF Named
<1>4. ASSUME NEW c \in CancelCalls  PROVE CancelInv(c)'
  <2>1. CancelInv(c) /\ pipe'[c] \in {pipe[c], <<>>}
    BY DEF StoreInv
  <2>2. DOMAIN <<>> = {}
    OBVIOUS
  <2> QED BY <2>1, <2>2 DEF CancelInv
<1>5. ASSUME NEW i \in Instances  PROVE PruneInv(i)'
  <2>1. CASE pipe'[i] = <<>>
    BY <2>1 DEF PruneInv
  <2>2. CASE pipe'[i] = pipe[i]
    BY <1>1, <2>2, PruneFrame DEF StoreInv
  <2> QED BY <2>1, <2>2
<1>6. ASSUME NEW j \in Jobs  PROVE JobInv(j)'
  <2>0. JobInv(j) /\ pipe'[j] \in {pipe[j], <<>>} /\ clock' = clock
    BY DEF StoreInv
  <2>1. OwnInv(j)'
    <3>1. CASE pipe'[j] = <<>>
      BY <3>1 DEF OwnInv
    <3>2. CASE pipe'[j] = pipe[j] /\ pipe[j] # <<>>
      <4>1. runPc'[j] = runPc[j]
        BY <3>2
      <4> QED BY <1>1, <2>0, <3>2, <4>1
              DEF JobInv, OwnInv, CreateCmds, UpdateCmds, HSet, ZAdd, ZRem, Command
    <3> QED BY <2>0, <3>1, <3>2
  <2>2. DeleteInv(j)'
    <3>1. Settled(j) => Settled(j)'
      BY <2>0 DEF Settled
    <3> QED BY <1>1, <1>3, <2>0, <3>1 DEF JobInv, DeleteInv
  <2>3. FullInv(j)'
    <3> SUFFICES ASSUME Undisturbed(j), j \notin lost', pipe'[j] = <<>>,
                        runPc'[j] \in {"leave", "gone"}
                 PROVE  Agrees(j)
      BY <1>1 DEF FullInv, Agrees
    <3>1. pipe[j] = <<>> /\ j \notin lost
      OBVIOUS
    <3>2. CASE runPc[j] \in {"leave", "gone"}
      BY <2>0, <3>1, <3>2 DEF JobInv, FullInv
    <3>3. CASE runPc[j] \in {"register", "begin", "run"}
      <4>1. hash[j] \in Live /\ jobs[j] > 0
        BY <2>0, <3>1, <3>3 DEF JobInv, KeptInv, Live
      <4>2. terminal[j] = 0
        BY <1>0, <2>0, <3>3, Unnamed DEF JobInv
      <4> QED BY <4>1, <4>2 DEF Agrees, Live, Terminal
    <3>4. runPc[j] \in {"register", "begin", "run", "leave", "gone"}
      BY <1>0 DEF TypeOK
    <3> QED BY <3>2, <3>3, <3>4
  <2>4. KeptInv(j)'
    BY <1>1, <2>0 DEF JobInv, KeptInv
  <2> QED BY <2>1, <2>2, <2>3, <2>4 DEF JobInv
<1> QED BY <1>4, <1>5, <1>6 DEF StoreInv

\* The jobs whose own pipeline is among those cut short.
LEMMA UnwrittenFacts ==
    ASSUME StoreInv, NEW cs \in SUBSET Callers
    PROVE  /\ Unwritten(cs) \subseteq Jobs
           /\ \A j \in Jobs : j \in cs /\ pipe[j] # <<>> => j \in Unwritten(cs)
<1>1. \A c \in Callers : pipe[c] \in Seq(Commands)
  BY DEF StoreInv, TypeOK
<1>2. \A c \in Callers : pipe[c] # <<>> => pipe[c][1] \in Commands
  BY <1>1
<1>3. Unwritten(cs) \subseteq Jobs
  BY <1>2 DEF Unwritten, Commands
<1>4. \A j \in Jobs : pipe[j] # <<>> => pipe[j][1].job = j /\ j \notin Instances
  BY OwnJob DEF StoreInv, JobInv
<1>5. \A j \in Jobs : j \in cs /\ pipe[j] # <<>> => j \in Unwritten(cs)
  BY <1>4 DEF Unwritten
<1> QED BY <1>3, <1>5

LEMMA BreakPreserves == ASSUME StoreInv, NEW c \in Callers, Break(c)  PROVE StoreInv'
<1>0. TypeOK /\ ScoreInv
  BY DEF StoreInv
<1>1. /\ failures < MaxFailures /\ pipe' = [pipe EXCEPT ![c] = <<>>]
      /\ runPc' = IF c \in Jobs /\ runPc[c] = "register"
                  THEN [runPc EXCEPT ![c] = "gone"] ELSE runPc
      /\ lost' = lost \union Unwritten({c}) /\ failures' = failures + 1
      /\ UNCHANGED <<redisVars, ctxErr, cancelVars, pruneVars, clock>>
  BY DEF Break
<1>2. /\ Unwritten({c}) \subseteq Jobs
      /\ \A j \in Jobs : j = c /\ pipe[j] # <<>> => j \in Unwritten({c})
  <2>1. {c} \in SUBSET Callers
    OBVIOUS
  <2> QED BY <2>1, UnwrittenFacts
<1>3. /\ \A d \in Callers : pipe'[d] = IF d = c THEN <<>> ELSE pipe[d]
      /\ pipe' \in [Callers -> Seq(Commands)]
      /\ \A d \in Callers : Len(pipe'[d]) <= 3
  BY <1>0, <1>1 DEF TypeOK
<1>4. TypeOK' /\ ScoreInv'
  <2>1. runPc' \in [Jobs -> {"create", "register", "begin", "run", "leave", "gone"}]
    BY <1>0, <1>1 DEF TypeOK
  <2>2. failures' \in 0 .. MaxFailures
    BY <1>0, <1>1 DEF TypeOK
  <2>3. TypeOK'
    BY <1>0, <1>1, <1>2, <1>3, <2>1, <2>2 DEF TypeOK
  <2>4. DOMAIN <<>> = {}
    OBVIOUS
  <2>5. ScoreInv'
    BY <1>0, <1>1, <1>3, <2>4 DEF ScoreInv
  <2> QED BY <2>3, <2>5
<1>5. \A j \in Jobs : \/ runPc'[j] = runPc[j]
                      \/ runPc[j] # "create" /\ runPc'[j] = "gone" /\ pipe'[j] = <<>>
  BY <1>0, <1>1, <1>3 DEF TypeOK
<1>6. \A j \in Jobs : pipe'[j] # pipe[j] => j \in lost'
  BY <1>1, <1>2, <1>3
<1>7. \A j \in Jobs : runPc'[j] = "register" => pipe'[j] = pipe[j]
  <2>1. \A j \in Jobs : runPc'[j] = "register" => j # c
    BY <1>0, <1>1 DEF TypeOK
  <2> QED BY <1>3, <2>1
<1>8. /\ UNCHANGED <<redisVars, cancelPc, target, toPrune, clock>> /\ lost \subseteq lost'
      /\ \A d \in Callers : pipe'[d] \in {pipe[d], <<>>}
  BY <1>1, <1>3
<1> QED BY <1>4, <1>5, <1>6, <1>7, <1>8, FailurePreserves

LEMMA CrashPreserves == ASSUME StoreInv, NEW i \in Instances, Crash(i)  PROVE StoreInv'
<1>0. TypeOK /\ ScoreInv
  BY DEF StoreInv
<1>1. /\ failures < MaxFailures
      /\ pipe' = [c \in Callers |-> IF c \in On(i) THEN <<>> ELSE pipe[c]]
      /\ runPc' = [j \in Jobs |-> IF j \in On(i) /\ runPc[j] # "create" THEN "gone" ELSE runPc[j]]
      /\ cancelPc' = [c \in CancelCalls |-> IF c \in On(i) /\ cancelPc[c] = "find" THEN "gone"
                                            ELSE cancelPc[c]]
      /\ prunePc' = [prunePc EXCEPT ![i] = "tick"]
      /\ toPrune' = [toPrune EXCEPT ![i] = <<>>]
      /\ toDelete' = [toDelete EXCEPT ![i] = 0]
      /\ lost' = lost \union Unwritten(On(i)) /\ failures' = failures + 1
      /\ UNCHANGED <<redisVars, ctxErr, target, copy, clock>>
  BY DEF Crash
<1>2. /\ Unwritten(On(i)) \subseteq Jobs
      /\ \A j \in Jobs : j \in On(i) /\ pipe[j] # <<>> => j \in Unwritten(On(i))
  <2>1. On(i) \in SUBSET Callers
    BY DEF On
  <2> QED BY <2>1, UnwrittenFacts
<1>3. /\ \A c \in Callers : pipe'[c] = IF c \in On(i) THEN <<>> ELSE pipe[c]
      /\ pipe' \in [Callers -> Seq(Commands)]
      /\ \A c \in Callers : Len(pipe'[c]) <= 3
  <2>1. \A c \in Callers : pipe'[c] = IF c \in On(i) THEN <<>> ELSE pipe[c]
    BY <1>1
  <2>2. \A c \in Callers : pipe[c] \in Seq(Commands) /\ Len(pipe[c]) <= 3
    BY <1>0 DEF TypeOK
  <2>3. \A c \in Callers : pipe'[c] \in Seq(Commands) /\ Len(pipe'[c]) <= 3
    <3> SUFFICES ASSUME NEW c \in Callers  PROVE pipe'[c] \in Seq(Commands) /\ Len(pipe'[c]) <= 3
      OBVIOUS
    <3>1. CASE c \in On(i)
      <4>1. pipe'[c] = <<>>
        BY <2>1, <3>1
      <4> QED BY <4>1
    <3>2. CASE c \notin On(i)
      BY <2>1, <2>2, <3>2
    <3> QED BY <3>1, <3>2
  <2> QED BY <1>1, <2>1, <2>3
<1>4. /\ runPc' \in [Jobs -> {"create", "register", "begin", "run", "leave", "gone"}]
      /\ cancelPc' \in [CancelCalls -> {"get", "find", "written", "gone"}]
  BY <1>0, <1>1 DEF TypeOK
<1>5. toPrune' \in [Instances -> Seq(Jobs)] /\ \A h \in Instances : toPrune'[h] \in {toPrune[h], <<>>}
  BY <1>0, <1>1 DEF TypeOK
<1>6. TypeOK' /\ ScoreInv'
  <2>1. failures' \in 0 .. MaxFailures /\ lost' \subseteq Jobs
    BY <1>0, <1>1, <1>2 DEF TypeOK
  <2>2. /\ prunePc' \in [Instances -> {"tick", "expired", "range", "oldest"}]
        /\ toDelete' \in [Instances -> Nat]
    BY <1>0, <1>1 DEF TypeOK
  <2>3. TypeOK'
    BY <1>0, <1>1, <1>3, <1>4, <1>5, <2>1, <2>2 DEF TypeOK
  <2>4. DOMAIN <<>> = {}
    OBVIOUS
  <2>5. ScoreInv'
    BY <1>0, <1>1, <1>3, <2>4 DEF ScoreInv
  <2> QED BY <2>3, <2>5
<1>7. \A j \in Jobs : \/ runPc'[j] = runPc[j]
                      \/ runPc[j] # "create" /\ runPc'[j] = "gone" /\ pipe'[j] = <<>>
  BY <1>1, <1>3
<1>8. \A c \in CancelCalls : \/ cancelPc'[c] = cancelPc[c]
                             \/ cancelPc[c] = "find" /\ cancelPc'[c] = "gone"
  BY <1>1
<1>9. \A j \in Jobs : pipe'[j] # pipe[j] => j \in lost'
  BY <1>1, <1>2, <1>3
<1>10. \A j \in Jobs : runPc'[j] = "register" => pipe'[j] = pipe[j]
  <2>1. \A j \in Jobs : runPc'[j] = "register" => j \notin On(i)
    BY <1>1
  <2> QED BY <1>3, <2>1
<1>11. /\ UNCHANGED <<redisVars, target, clock>> /\ lost \subseteq lost'
       /\ \A c \in Callers : pipe'[c] \in {pipe[c], <<>>}
  BY <1>1, <1>3
<1> QED BY <1>5, <1>6, <1>7, <1>8, <1>9, <1>10, <1>11, FailurePreserves

-----------------------------------------------------------------------------
(* The theorems. *)

LEMMA InitStoreInv == Init => StoreInv
<1> SUFFICES ASSUME Init  PROVE StoreInv
  OBVIOUS
<1>0. DOMAIN <<>> = {}
  OBVIOUS
<1>1. TypeOK
  BY DEF Init, TypeOK, Status
<1>2. ScoreInv /\ (\A c \in CancelCalls : CancelInv(c)) /\ (\A i \in Instances : PruneInv(i))
  BY <1>0 DEF Init, ScoreInv, CancelInv, PruneInv
<1>3. ASSUME NEW j \in Jobs  PROVE JobInv(j)
  <2>1. ~Named(j)
    BY <1>0 DEF Init, Named, Doomed
  <2> QED BY <2>1 DEF Init, JobInv, OwnInv, DeleteInv, KeptInv, FullInv
<1> QED BY <1>1, <1>2, <1>3 DEF StoreInv

LEMMA NextStoreInv == StoreInv /\ [Next]_vars => StoreInv'
<1> SUFFICES ASSUME StoreInv, [Next]_vars  PROVE StoreInv'
  OBVIOUS
<1>1. ASSUME NEW c \in Callers, Apply(c)  PROVE StoreInv'
  BY <1>1, ApplyPreserves
<1>2. ASSUME NEW c \in Callers, Break(c)  PROVE StoreInv'
  BY <1>2, BreakPreserves
<1>3. ASSUME NEW j \in Jobs, Run(j)  PROVE StoreInv'
  BY <1>3, RunPreserves
<1>4. ASSUME NEW c \in CancelCalls, Cancel(c)  PROVE StoreInv'
  BY <1>4, CancelPreserves
<1>5. ASSUME NEW i \in Cleaners, Prune(i)  PROVE StoreInv'
  BY <1>5, PrunePreserves
<1>6. ASSUME NEW i \in Instances, Crash(i)  PROVE StoreInv'
  BY <1>6, CrashPreserves
<1>7. CASE UNCHANGED vars
  <2>1. TypeOK' /\ ScoreInv'
    BY <1>7 DEF StoreInv, vars, TypeOK, ScoreInv
  <2> QED BY <1>7, <2>1, FailurePreserves DEF vars
<1> QED BY <1>1, <1>2, <1>3, <1>4, <1>5, <1>6, <1>7 DEF Next

\* The invariant holds whatever the interleaving of the commands, the crashes and the
\* broken connections.
THEOREM StoreInvariance == Spec => []StoreInv
BY InitStoreInv, NextStoreInv, PTL DEF Spec

\* The statuses, the scores and every caller's place keep their types.
THEOREM RedisTypeCorrect == Spec => []TypeOK
<1>1. StoreInv => TypeOK
  BY DEF StoreInv
<1> QED BY <1>1, StoreInvariance, PTL

\* Of the jobs that no cancel request disturbed, the terminal index never names one that
\* is live and the listing misses none that has begun to run, even where a pipeline was
\* cut; of those written in full, both are right as soon as nothing is under way.
THEOREM IndicesInSync == Spec => []IndicesAgree
<1>1. StoreInv => IndicesAgree
  <2> SUFFICES ASSUME StoreInv, NEW j \in Jobs, ~CancelledBy(j)
               PROVE  /\ terminal[j] > 0 => hash[j] \notin Live
                      /\ hash[j] \notin {"absent", "queued"} => jobs[j] > 0
                      /\ hash[j] # "absent" /\ ~InFlight(j) /\ j \notin lost =>
                           jobs[j] > 0 /\ (hash[j] \in Terminal <=> terminal[j] > 0)
    BY DEF IndicesAgree
  <2>0. TypeOK /\ JobInv(j) /\ Undisturbed(j)
    BY DEF StoreInv, Undisturbed
  <2>1. terminal[j] > 0 => hash[j] \notin Live
    BY <2>0 DEF JobInv, DeleteInv, Named, Settled
  <2>2. hash[j] \notin {"absent", "queued"} => jobs[j] > 0
    BY <2>0 DEF JobInv, KeptInv
  <2>3. ASSUME hash[j] # "absent", ~InFlight(j), j \notin lost
        PROVE  jobs[j] > 0 /\ (hash[j] \in Terminal <=> terminal[j] > 0)
    <3>1. pipe[j] = <<>>
      <4>1. pipe[j] # <<>> => pipe[j][1].job = j /\ 1 \in DOMAIN pipe[j]
        BY <2>0, OwnJob DEF JobInv, TypeOK
      <4> QED BY <2>3, <4>1 DEF InFlight
    <3>2. CASE runPc[j] \in {"leave", "gone"}
      BY <2>0, <2>3, <3>1, <3>2 DEF JobInv, FullInv, Agrees
    <3>3. CASE runPc[j] \notin {"leave", "gone"}
      <4>1. terminal[j] = 0
        BY <2>0, <3>3, Unnamed DEF JobInv
      <4>2. hash[j] \in Live /\ jobs[j] > 0
        BY <2>0, <2>3, <3>1, <3>3 DEF JobInv, KeptInv, TypeOK, Live
      <4> QED BY <4>1, <4>2 DEF Live, Terminal
    <3> QED BY <3>2, <3>3
  <2> QED BY <2>1, <2>2, <2>3
<1> QED BY <1>1, StoreInvariance, PTL

\* A Delete that was cut short leaves the job where the next Prune finds it.
THEOREM DeletionsResume == Spec => []DeleteResumable
<1>1. StoreInv => DeleteResumable
  BY DEF StoreInv, JobInv, DeleteInv, Undisturbed, DeleteResumable
<1> QED BY <1>1, StoreInvariance, PTL

\* No cleanup, of any instance, deletes a live job that no cancel request made terminal.
THEOREM LiveJobsKept == Spec => ActiveKeptUnlessCancelled
<1>1. StoreInv /\ [Next]_vars
        => [\A j \in Jobs : hash[j] \in Live /\ hash'[j] = "absent" => CancelledBy(j)]_vars
  <2> SUFFICES ASSUME StoreInv, [Next]_vars, NEW j \in Jobs, hash[j] \in Live,
                      hash'[j] = "absent", ~CancelledBy(j)
               PROVE  FALSE
    OBVIOUS
  <2>0. JobInv(j) /\ Undisturbed(j) /\ TypeOK
    BY DEF StoreInv, Undisturbed
  <2>1. hash' # hash
    BY DEF Live
  <2>2. PICK c \in Callers : Apply(c)
    BY <2>1 DEF Next, vars, Break, Run, Create, Register, Begin, Save, Leave, Cancel, CancelGet,
       CancelFind, CancelNothing, Prune, PruneExpired, PruneNext, PruneCount, PruneOldest,
       PruneEnd, Crash
  <2>3. PICK m \in Commands : m = Head(pipe[c])
    BY <2>2, ApplyFacts
  <2>4. /\ m.job = j /\ m.key = "job" /\ m.status = "absent" /\ pipe[c] # <<>>
        /\ pipe[c][1] = m /\ 1 \in DOMAIN pipe[c]
    <3>1. "absent" \notin Live
      BY DEF Live
    <3> QED BY <2>2, <2>3, <3>1, ApplyFacts
  <2>5. CASE c \in Instances
    <3>1. Named(j)
      BY <2>4, <2>5 DEF Named, Doomed
    <3> QED BY <2>0, <3>1, Unnamed DEF JobInv
  <2>6. CASE c \in CancelCalls
    BY <2>4, <2>6 DEF StoreInv, CancelInv
  <2>7. CASE c \in Jobs
    <3>1. OwnInv(c)
      BY <2>7 DEF StoreInv, JobInv
    <3>2. \A status, score, key : /\ HSet(c, status).status = status
                                  /\ ZAdd(key, c, score).key = key /\ ZRem(key, c).key = key
      BY DEF HSet, ZAdd, ZRem, Command
    <3>3. "absent" \notin {"queued", "running"} \union Terminal
      BY DEF Terminal
    <3> QED BY <2>4, <3>1, <3>2, <3>3 DEF OwnInv, CreateCmds, UpdateCmds
  <2> QED BY <2>5, <2>6, <2>7
<1> QED BY <1>1, StoreInvariance, PTL DEF Spec, ActiveKeptUnlessCancelled

=============================================================================
