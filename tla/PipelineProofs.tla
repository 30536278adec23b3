--------------------------- MODULE PipelineProofs ---------------------------
(***************************************************************************)
(* Theorems about Pipeline, for every set of workers and requests, with    *)
(* any number of tasks, steps and calls: the workers use the shared        *)
(* template state as module Templates says, so that its theorems hold of   *)
(* them; the steps of a task run in order, with the right .Prev; and a     *)
(* task that succeeded has all its steps behind it.                        *)
(***************************************************************************)
EXTENDS Pipeline, TemplatesProofs

(* Logs as sequences. *)

Entries == (1 .. Len(Steps)) \X Events \X (0 .. Len(Steps))

\* What the log l has, before its i-th entry, of event e in step s; and at all.
HasBefore(l, i, s, e) == \E j \in 1 .. i - 1 : l[j][1] = s /\ l[j][2] = e
In(l, s, e) == HasBefore(l, Len(l) + 1, s, e)

\* StepsInOrder and OkMeansRun, of one log.
BeginsInOrder(l, i) ==
    l[i][2] = "begin" =>
      /\ ~HasBefore(l, i, l[i][1], "begin")
      /\ \A q \in 1 .. l[i][1] - 1 :
           \/ HasBefore(l, i, q, "empty") \/ HasBefore(l, i, q, "slept")
           \/ HasBefore(l, i, q, "ok") /\ q <= l[i][3]
      /\ l[i][3] # 0 => HasBefore(l, i, l[i][3], "ok")
Ordered(l) == \A i \in DOMAIN l : BeginsInOrder(l, i)
Behind(l, q) == \/ In(l, q, "empty") \/ In(l, q, "slept")
                \/ In(l, q, "begin") /\ In(l, q, "print") /\ In(l, q, "ok")

\* Step q is behind a task with the log l and p in .Prev.
BehindPrev(l, q, p) == Behind(l, q) /\ (In(l, q, "empty") \/ In(l, q, "slept") \/ q <= p)

\* A task at step s, with p in .Prev and the log l: the steps before s are behind it,
\* p has succeeded, and s has not begun unless the worker is running it.
Progress(at, s, p, l) ==
    /\ p < s
    /\ \A q \in 1 .. s - 1 : BehindPrev(l, q, p)
    /\ p # 0 => In(l, p, "ok")
    /\ \A j \in DOMAIN l : l[j][1] <= s
    /\ at \in {"render", "launch"} => \A j \in DOMAIN l : l[j][1] < s
    /\ at = "run" => In(l, s, "begin")

Working(w) == pc[w] \notin {"idle", "gone"}

\* A worker has a task iff it works on one, which nobody has counted yet.
WorkInv ==
    \A w \in Workers :
      /\ ~Working(w) => task[w] = 0 /\ prev[w] = 0
      /\ Working(w) => /\ task[w] \in Tasks /\ task[w] < next
                       /\ step[w] \in 1 .. Len(Steps)
                       /\ outcome[task[w]] = "todo"
                       /\ Progress(pc[w], step[w], prev[w], log[task[w]])
      /\ pc[w] \in {"launch", "run"} => client[w] \in Clients

\* No two workers have the same task.
OwnInv == \A v, w \in Workers : v # w /\ task[v] # 0 => task[v] # task[w]

\* The tasks still in the channel are untouched.
FreshInv == \A t \in Tasks : t >= next => outcome[t] = "todo" /\ log[t] = <<>>

\* The inductive invariant.
PipelineInv == /\ PipelineTypeOK /\ WorkInv /\ OwnInv /\ FreshInv
               /\ \A t \in Tasks : Ordered(log[t])
               /\ \A t \in Tasks : outcome[t] = "ok" => \A s \in DOMAIN Steps : Behind(log[t], s)

-----------------------------------------------------------------------------
(* Lemmas about logs. *)

\* What it means to append to a log.
LEMMA Appended ==
    ASSUME NEW E, NEW l \in Seq(E), NEW x \in Seq(E)
    PROVE  /\ l \o x \in Seq(E)
           /\ Len(l \o x) = Len(l) + Len(x)
           /\ DOMAIN (l \o x) = 1 .. Len(l) + Len(x)
           /\ \A i \in 1 .. Len(l) : (l \o x)[i] = l[i]
           /\ \A i \in 1 .. Len(x) : (l \o x)[Len(l) + i] = x[i]
           /\ \A i \in 1 .. Len(l) + Len(x) :
                i \in 1 .. Len(l) \/ \E j \in 1 .. Len(x) : i = Len(l) + j
<1>1. l \o x \in Seq(E) /\ Len(l \o x) = Len(l) + Len(x)  BY ConcatProperties
<1>2. DOMAIN (l \o x) = 1 .. Len(l) + Len(x)  BY <1>1
<1>3. \A i \in 1 .. Len(l) + Len(x) : (l \o x)[i] = IF i <= Len(l) THEN l[i] ELSE x[i - Len(l)]
  BY ConcatProperties
<1>4. Len(l) \in Nat /\ Len(x) \in Nat  OBVIOUS
<1>5. \A i \in 1 .. Len(l) : (l \o x)[i] = l[i]  BY <1>3, <1>4
<1>6. ASSUME NEW i \in 1 .. Len(x)  PROVE (l \o x)[Len(l) + i] = x[i]
  <2>1. Len(l) + i \in 1 .. Len(l) + Len(x) /\ ~(Len(l) + i <= Len(l)) /\ (Len(l) + i) - Len(l) = i
    BY <1>4
  <2>2. QED  BY <1>3, <2>1
<1>7. ASSUME NEW i \in 1 .. Len(l) + Len(x), i \notin 1 .. Len(l)
      PROVE  \E j \in 1 .. Len(x) : i = Len(l) + j
  <2>1. i - Len(l) \in 1 .. Len(x) /\ i = Len(l) + (i - Len(l))  BY <1>4, <1>7
  <2>2. QED  BY <2>1
<1>8. QED  BY <1>1, <1>2, <1>5, <1>6, <1>7

\* A log remembers, and what is appended is in it.
LEMMA Remembers ==
    ASSUME NEW E, NEW l \in Seq(E), NEW x \in Seq(E), NEW s, NEW e
    PROVE  /\ \A i \in 1 .. Len(l) + 1 : HasBefore(l \o x, i, s, e) <=> HasBefore(l, i, s, e)
           /\ In(l, s, e) => In(l \o x, s, e)
           /\ \A j \in 1 .. Len(x) : x[j][1] = s /\ x[j][2] = e => In(l \o x, s, e)
<1>0. Len(l) \in Nat /\ Len(x) \in Nat  OBVIOUS
<1>1. /\ Len(l \o x) = Len(l) + Len(x)
      /\ \A i \in 1 .. Len(l) : (l \o x)[i] = l[i]
      /\ \A i \in 1 .. Len(x) : (l \o x)[Len(l) + i] = x[i]
  BY Appended
<1>2. \A i \in 1 .. Len(l) + 1 : HasBefore(l \o x, i, s, e) <=> HasBefore(l, i, s, e)
  BY <1>0, <1>1 DEF HasBefore
<1>3. In(l, s, e) => In(l \o x, s, e)  BY <1>0, <1>1 DEF In, HasBefore
<1>4. ASSUME NEW j \in 1 .. Len(x), x[j][1] = s, x[j][2] = e  PROVE In(l \o x, s, e)
  <2>1. Len(l) + j \in 1 .. Len(l \o x) + 1 - 1 /\ (l \o x)[Len(l) + j] = x[j]
    BY <1>0, <1>1
  <2>2. QED  BY <2>1, <1>4 DEF In, HasBefore
<1>5. QED  BY <1>2, <1>3, <1>4

\* The steps that are behind a task stay behind it.
LEMMA StaysBehind ==
    ASSUME NEW E, NEW l \in Seq(E), NEW x \in Seq(E), NEW q
    PROVE  /\ Behind(l, q) => Behind(l \o x, q)
           /\ \A p : BehindPrev(l, q, p) => BehindPrev(l \o x, q, p)
BY Remembers DEF Behind, BehindPrev

\* The begin of an old entry is in order in the longer log as well.
LEMMA OldInOrder ==
    ASSUME NEW E, NEW l \in Seq(E), NEW x \in Seq(E), Ordered(l), NEW i \in 1 .. Len(l)
    PROVE  BeginsInOrder(l \o x, i)
<1>0. Len(l) \in Nat /\ i \in 1 .. Len(l) + 1 /\ i \in DOMAIN l  OBVIOUS
<1>1. (l \o x)[i] = l[i]  BY Appended
<1>2. BeginsInOrder(l, i)  BY <1>0 DEF Ordered
<1>3. \A s, e : HasBefore(l \o x, i, s, e) <=> HasBefore(l, i, s, e)  BY <1>0, Remembers
<1>4. QED  BY <1>1, <1>2, <1>3 DEF BeginsInOrder

\* A log stays in order if no step begins.
LEMMA NoBeginOrdered ==
    ASSUME NEW E, NEW l \in Seq(E), NEW x \in Seq(E), Ordered(l),
           \A j \in 1 .. Len(x) : x[j][2] # "begin"
    PROVE  Ordered(l \o x)
<1> SUFFICES ASSUME NEW i \in 1 .. Len(l) + Len(x)  PROVE BeginsInOrder(l \o x, i)
  BY Appended DEF Ordered
<1>1. CASE i \in 1 .. Len(l)  BY <1>1, OldInOrder
<1>2. CASE i \notin 1 .. Len(l)
  <2>1. PICK j \in 1 .. Len(x) : i = Len(l) + j  BY <1>2, Appended
  <2>2. (l \o x)[i][2] # "begin"  BY <2>1, Appended
  <2>3. QED  BY <2>2 DEF BeginsInOrder
<1>3. QED  BY <1>1, <1>2

\* A log stays in order if the step that comes next begins.
LEMMA BeginOrdered ==
    ASSUME NEW E, NEW l \in Seq(E), NEW x \in Seq(E), NEW s \in Nat, NEW p \in Nat,
           Len(x) = 1, x[1] = <<s, "begin", p>>, Ordered(l), Progress("launch", s, p, l)
    PROVE  Ordered(l \o x)
<1> DEFINE n == Len(l) + 1
<1>0. Len(l) \in Nat /\ Len(l) + Len(x) = n /\ 1 \in 1 .. Len(x)  OBVIOUS
<1>1. DOMAIN (l \o x) = 1 .. n
  <2>1. l \o x \in Seq(E) /\ Len(l \o x) = Len(l) + Len(x)  BY ConcatProperties
  <2>2. QED  BY <1>0, <2>1
<1>2. (l \o x)[n] = x[1]
  <2>1. \A i \in 1 .. Len(x) : (l \o x)[Len(l) + i] = x[i]  BY Appended
  <2>2. QED  BY <1>0, <2>1
<1> SUFFICES ASSUME NEW i \in 1 .. n  PROVE BeginsInOrder(l \o x, i)
  BY <1>1 DEF Ordered
<1>3. CASE i \in 1 .. Len(l)  BY <1>3, OldInOrder
<1>4. CASE i = n
  <2>1. (l \o x)[i] = <<s, "begin", p>>  BY <1>2, <1>4
  <2>2. \A q, e : HasBefore(l \o x, i, q, e) <=> In(l, q, e)  BY <1>4, Remembers DEF In
  <2>3. ~In(l, s, "begin")  BY DEF Progress, In, HasBefore
  <2>4. QED  BY <2>1, <2>2, <2>3 DEF BeginsInOrder, Progress, BehindPrev, Behind
<1>5. QED  BY <1>3, <1>4

\* A task that is done with step s comes to the next one.
LEMMA Advances ==
    ASSUME NEW E, \A e \in E : e[1] \in Nat, NEW l \in Seq(E), NEW x \in Seq(E), NEW at, NEW s \in Nat \ {0},
           NEW p \in Nat, NEW p2 \in Nat, Progress(at, s, p, l),
           \A j \in 1 .. Len(x) : x[j][1] = s,
           \/ p2 = p /\ (In(l \o x, s, "empty") \/ In(l \o x, s, "slept"))
           \/ /\ p2 = s
              /\ In(l \o x, s, "begin") /\ In(l \o x, s, "print") /\ In(l \o x, s, "ok")
    PROVE  /\ Progress("render", s + 1, p2, l \o x)
           /\ \A q \in 1 .. s : Behind(l \o x, q)
<1>1. p <= p2 /\ p2 < s + 1  BY DEF Progress
<1>2. ASSUME NEW q \in 1 .. s  PROVE BehindPrev(l \o x, q, p2)
  <2>1. CASE q = s  BY <2>1, <1>1 DEF BehindPrev, Behind
  <2>2. CASE q # s
    <3>1. q \in 1 .. s - 1  BY <2>2
    <3>2. BehindPrev(l, q, p)  BY <3>1 DEF Progress
    <3>3. BehindPrev(l \o x, q, p)  BY <3>2, StaysBehind
    <3>4. QED  BY <3>3, <1>1 DEF BehindPrev
  <2>3. QED  BY <2>1, <2>2
<1>3. p2 # 0 => In(l \o x, p2, "ok")  BY Remembers DEF Progress
<1>4. ASSUME NEW j \in 1 .. Len(l) + Len(x)  PROVE (l \o x)[j][1] < s + 1
  <2>1. CASE j \in 1 .. Len(l)
    <3>1. (l \o x)[j] = l[j]  BY <2>1, Appended
    <3>2. l[j][1] <= s /\ l[j][1] \in Nat  BY <2>1 DEF Progress
    <3>3. QED  BY SMTT(30), <3>1, <3>2
  <2>2. CASE j \notin 1 .. Len(l)
    <3>1. PICK i \in 1 .. Len(x) : j = Len(l) + i  BY <2>2, Appended
    <3>2. QED  BY <3>1, Appended
  <2>3. QED  BY <2>1, <2>2
<1>5. DOMAIN (l \o x) = 1 .. Len(l) + Len(x)  BY Appended
<1>6. \A j \in DOMAIN (l \o x) : (l \o x)[j][1] <= s + 1 /\ (l \o x)[j][1] < s + 1
  <2>1. \A j \in DOMAIN (l \o x) : (l \o x)[j] \in E  BY SMTT(30), Appended
  <2>2. QED  BY SMTT(30), <1>4, <1>5, <2>1
<1>7. QED  BY <1>1, <1>2, <1>3, <1>6 DEF Progress, BehindPrev

\* A task stays at its step, whatever is appended about it.
LEMMA StaysAt ==
    ASSUME NEW E, NEW l \in Seq(E), NEW x \in Seq(E), NEW at, NEW s \in Nat \ {0},
           NEW p \in Nat, Progress(at, s, p, l), \A j \in 1 .. Len(x) : x[j][1] = s
    PROVE  /\ Progress("failed", s, p, l \o x)
           /\ In(l \o x, s, "begin") => Progress("run", s, p, l \o x)
<1>1. ASSUME NEW q \in 1 .. s - 1  PROVE BehindPrev(l \o x, q, p)
  <2>1. BehindPrev(l, q, p)  BY DEF Progress
  <2>2. QED  BY <2>1, StaysBehind
<1>2. p # 0 => In(l \o x, p, "ok")  BY Remembers DEF Progress
<1>3. ASSUME NEW j \in 1 .. Len(l) + Len(x)  PROVE (l \o x)[j][1] <= s
  <2>1. CASE j \in 1 .. Len(l)
    <3>1. (l \o x)[j] = l[j]  BY <2>1, Appended
    <3>2. l[j][1] <= s  BY <2>1 DEF Progress
    <3>3. QED  BY <3>1, <3>2
  <2>2. CASE j \notin 1 .. Len(l)
    <3>1. PICK i \in 1 .. Len(x) : j = Len(l) + i  BY <2>2, Appended
    <3>2. QED  BY <3>1, Appended
  <2>3. QED  BY <2>1, <2>2
<1>4. DOMAIN (l \o x) = 1 .. Len(l) + Len(x)  BY Appended
<1>5. QED  BY <1>1, <1>2, <1>3, <1>4 DEF Progress

-----------------------------------------------------------------------------
(* Lemmas about the steps of a worker. *)

\* What is known of a worker at work.
LEMMA AtWork ==
    ASSUME PipelineInv, NEW w \in Workers, Working(w)
    PROVE  /\ req \in Requests /\ req.iterations \in Nat /\ Steps \in Seq(StepTemplates)
           /\ task[w] \in Tasks /\ task[w] # 0 /\ task[w] < next
           /\ step[w] \in 1 .. Len(Steps) /\ step[w] \in Nat \ {0} /\ prev[w] \in Nat
           /\ log[task[w]] \in Seq(Entries) /\ log \in [Tasks -> Seq(Entries)]
           /\ Ordered(log[task[w]])
           /\ Progress(pc[w], step[w], prev[w], log[task[w]])
           /\ \A e \in Entries : e[1] \in Nat
BY SMTT(30), RequestAssumption
   DEF PipelineInv, PipelineTypeOK, WorkInv, Entries, Tasks, Steps

\* A worker that changes nothing but its own variables and the log and the outcome of
\* its task: it goes on with the task, or counts it.
LEMMA WorkerPreserves ==
    ASSUME PipelineInv, PipelineTypeOK', NEW w \in Workers, Working(w), req' = req, next' = next,
           NEW l, NEW o, log' = [log EXCEPT ![task[w]] = l], Ordered(l),
           \A v \in Workers \ {w} : /\ pc'[v] = pc[v] /\ task'[v] = task[v] /\ step'[v] = step[v]
                                    /\ prev'[v] = prev[v] /\ client'[v] = client[v],
           \/ /\ ~Working(w)' /\ task'[w] = 0 /\ prev'[w] = 0
              /\ outcome' = [outcome EXCEPT ![task[w]] = o]
              /\ o = "ok" => \A s \in DOMAIN Steps : Behind(l, s)
           \/ /\ Working(w)' /\ task'[w] = task[w] /\ outcome' = outcome
              /\ step'[w] \in 1 .. Len(Steps)
              /\ Progress(pc'[w], step'[w], prev'[w], l)
              /\ pc'[w] \in {"launch", "run"} => client'[w] \in Clients
    PROVE  PipelineInv'
<1> DEFINE t == task[w]
<1> USE DEF PipelineInv
<1>0. /\ t \in Tasks /\ t # 0 /\ t < next /\ log \in [Tasks -> Seq(Entries)]
      /\ Tasks' = Tasks /\ Steps' = Steps
  BY AtWork DEF Tasks, Steps
<1>1. log'[t] = l /\ \A u \in Tasks \ {t} : log'[u] = log[u] /\ outcome'[u] = outcome[u]
  <2>1. log'[t] = l /\ \A u \in Tasks \ {t} : log'[u] = log[u]  BY <1>0
  <2>2. \A u \in Tasks \ {t} : outcome'[u] = outcome[u]
    <3>1. outcome \in [Tasks -> {"todo", "dropped", "ok", "fail", "timeout"}]
      BY DEF PipelineTypeOK
    <3>2. outcome' = [outcome EXCEPT ![t] = o] \/ outcome' = outcome  OBVIOUS
    <3>3. QED  BY <3>1, <3>2
  <2>3. QED  BY <2>1, <2>2
<1>2. WorkInv'
  <2>0. \A v : Progress(pc[v], step[v], prev[v], log[task[v]])' =
                  Progress(pc'[v], step'[v], prev'[v], log'[task'[v]])
    BY DEF Progress, BehindPrev, Behind, In, HasBefore
  <2> SUFFICES ASSUME NEW v \in Workers
               PROVE  /\ ~Working(v)' => task'[v] = 0 /\ prev'[v] = 0
                      /\ Working(v)' => /\ task'[v] \in Tasks /\ task'[v] < next
                                        /\ step'[v] \in 1 .. Len(Steps)
                                        /\ outcome'[task'[v]] = "todo"
                                        /\ Progress(pc'[v], step'[v], prev'[v], log'[task'[v]])
                      /\ pc'[v] \in {"launch", "run"} => client'[v] \in Clients
    BY <1>0, <2>0 DEF WorkInv
  <2>1. CASE v = w  BY <2>1, <1>0, <1>1 DEF WorkInv, Working
  <2>2. CASE v # w
    <3>1. v \in Workers \ {w}  BY <2>2
    <3>2. Working(v)' = Working(v)  BY <3>1 DEF Working
    <3>3. Working(v) => task[v] \in Tasks \ {t}  BY <3>1, <1>0 DEF WorkInv, OwnInv
    <3>4. QED  BY <3>1, <3>2, <3>3, <1>1 DEF WorkInv
  <2>3. QED  BY <2>1, <2>2
<1>3. OwnInv'  BY <1>0 DEF OwnInv
<1>4. FreshInv'
  <2>1. \A u \in Tasks : u >= next => u # t  BY <1>0 DEF PipelineTypeOK, Tasks
  <2>2. QED  BY <1>0, <1>1, <2>1 DEF FreshInv
<1>5. (\A u \in Tasks : Ordered(log[u]))'
  <2>1. \A u \in Tasks : Ordered(log'[u])  BY <1>1
  <2>2. QED  BY <2>1, <1>0 DEF Ordered, BeginsInOrder, HasBefore
<1>6. (\A u \in Tasks : outcome[u] = "ok" => \A s \in DOMAIN Steps : Behind(log[u], s))'
  <2>1. ASSUME NEW u \in Tasks, outcome'[u] = "ok", NEW s \in DOMAIN Steps
        PROVE  Behind(log'[u], s)
    <3>1. CASE u = t
      <4>1. outcome[t] = "todo"  BY DEF WorkInv
      <4>2. outcome'[t] = "ok" /\ log'[t] = l  BY <2>1, <3>1, <1>1
      <4>3. outcome' = [outcome EXCEPT ![t] = o] /\ (o = "ok" => \A q \in DOMAIN Steps : Behind(l, q))
        BY <4>1, <4>2
      <4>4. o = "ok"  BY <4>2, <4>3, <1>0 DEF PipelineTypeOK
      <4>5. QED  BY <3>1, <4>2, <4>3, <4>4
    <3>2. CASE u # t
      <4>1. log'[u] = log[u] /\ outcome[u] = "ok"  BY <2>1, <3>2, <1>1
      <4>2. QED  BY <4>1
    <3>3. QED  BY <3>1, <3>2
  <2>2. QED  BY <2>1, <1>0 DEF Behind, In, HasBefore
<1>7. QED  BY <1>2, <1>3, <1>4, <1>5, <1>6

\* Steps that leave the logs, the outcomes and the places of the workers alone.
LEMMA QuietPreserves ==
    ASSUME PipelineInv, PipelineTypeOK',
           UNCHANGED <<req, next, pc, task, step, client, prev, outcome, log>>
    PROVE  PipelineInv'
<1> USE DEF PipelineInv
<1>0. Tasks' = Tasks /\ Steps' = Steps  BY DEF Tasks, Steps
<1>1. WorkInv'
  <2>1. \A v : Progress(pc[v], step[v], prev[v], log[task[v]])' =
                  Progress(pc[v], step[v], prev[v], log[task[v]])
    BY DEF Progress, BehindPrev, Behind, In, HasBefore
  <2>2. QED  BY <1>0, <2>1 DEF WorkInv, Working
<1>2. OwnInv' /\ FreshInv'  BY <1>0 DEF OwnInv, FreshInv
<1>3. (\A t \in Tasks : Ordered(log[t]))'  BY <1>0 DEF Ordered, BeginsInOrder, HasBefore
<1>4. (\A t \in Tasks : outcome[t] = "ok" => \A s \in DOMAIN Steps : Behind(log[t], s))'
  BY <1>0 DEF Behind, In, HasBefore
<1>5. QED  BY <1>1, <1>2, <1>3, <1>4

\* What Log appends to the log of the task of w.
Noted(w, events) == [i \in DOMAIN events |-> <<step[w], events[i], prev[w]>>]

LEMMA LogAppends ==
    ASSUME PipelineInv, NEW w \in Workers, Working(w), NEW events \in Seq(Events), Log(w, events)
    PROVE  /\ Noted(w, events) \in Seq(Entries)
           /\ Len(Noted(w, events)) = Len(events)
           /\ \A i \in 1 .. Len(events) : Noted(w, events)[i] = <<step[w], events[i], prev[w]>>
           /\ log' = [log EXCEPT ![task[w]] = log[task[w]] \o Noted(w, events)]
           /\ log[task[w]] \o Noted(w, events) \in Seq(Entries)
<1>1. step[w] \in 1 .. Len(Steps) /\ prev[w] \in 0 .. Len(Steps) /\ log[task[w]] \in Seq(Entries)
  BY AtWork DEF PipelineInv, PipelineTypeOK
<1>2. DOMAIN events = 1 .. Len(events) /\ Len(events) \in Nat
      /\ \A i \in 1 .. Len(events) : events[i] \in Events
  OBVIOUS
<1>3. \A i \in 1 .. Len(events) : <<step[w], events[i], prev[w]>> \in Entries
  BY <1>1, <1>2 DEF Entries
<1>4. Noted(w, events) \in [1 .. Len(events) -> Entries]  BY <1>2, <1>3 DEF Noted
<1>5. Noted(w, events) \in Seq(Entries) /\ Len(Noted(w, events)) = Len(events)
  BY <1>2, <1>4
<1>6. \A i \in 1 .. Len(events) : Noted(w, events)[i] = <<step[w], events[i], prev[w]>>
  BY <1>2 DEF Noted
<1>7. log' = [log EXCEPT ![task[w]] = log[task[w]] \o Noted(w, events)]  BY DEF Log, Noted
<1>8. log[task[w]] \o Noted(w, events) \in Seq(Entries)  BY <1>1, <1>5, ConcatProperties
<1>9. QED  BY <1>5, <1>6, <1>7, <1>8

\* The task of a worker ends.
LEMMA EndTaskPreserves ==
    ASSUME PipelineInv, NEW w \in Workers, Working(w), NEW o \in {"ok", "fail", "timeout"},
           EndTask(w, o), UNCHANGED <<req, next, ctxErr>>,
           NEW l \in Seq(Entries), log' = [log EXCEPT ![task[w]] = l], Ordered(l),
           o = "ok" => \A s \in DOMAIN Steps : Behind(l, s)
    PROVE  PipelineInv'
<1> USE DEF EndTask
<1>1. /\ PipelineTypeOK /\ Tasks' = Tasks /\ Steps' = Steps
      /\ Len(Steps) \in Nat /\ req.iterations \in Nat
  BY AtWork DEF PipelineInv, Tasks, Steps
<1>2. log' \in [Tasks -> Seq(Entries)] /\ outcome' \in [Tasks -> {"todo", "dropped", "ok", "fail", "timeout"}]
  BY <1>1 DEF PipelineTypeOK, Entries
<1>3. PipelineTypeOK'  BY SMTT(30), <1>1, <1>2 DEF PipelineTypeOK, Entries
<1>4. ~Working(w)' /\ task'[w] = 0 /\ prev'[w] = 0  BY <1>1 DEF PipelineTypeOK, Working
<1>5. \A v \in Workers \ {w} : /\ pc'[v] = pc[v] /\ task'[v] = task[v] /\ step'[v] = step[v]
                               /\ prev'[v] = prev[v] /\ client'[v] = client[v]
  BY <1>1 DEF PipelineTypeOK
<1>6. QED  BY <1>3, <1>4, <1>5, WorkerPreserves

\* A worker comes to the next step, or its task has succeeded.
LEMMA GoOnPreserves ==
    ASSUME PipelineInv, NEW w \in Workers, Working(w), NEW p \in Nat,
           GoOn(w, step[w] + 1, p), UNCHANGED <<req, next, ctxErr>>,
           NEW l \in Seq(Entries), log' = [log EXCEPT ![task[w]] = l], Ordered(l),
           Progress("render", step[w] + 1, p, l), \A q \in 1 .. step[w] : Behind(l, q)
    PROVE  PipelineInv'
<1>1. /\ PipelineTypeOK /\ Tasks' = Tasks /\ Steps' = Steps /\ DOMAIN Steps = 1 .. Len(Steps)
      /\ Len(Steps) \in Nat /\ req.iterations \in Nat /\ step[w] \in 1 .. Len(Steps)
      /\ p <= step[w]
  BY AtWork DEF PipelineInv, Tasks, Steps, Progress
<1>2. CASE HasStep(step[w] + 1)
  <2> DEFINE s == step[w] + 1
  <2>1. s \in 1 .. Len(Steps) /\ p \in 0 .. Len(Steps)  BY <1>1, <1>2 DEF HasStep
  <2>2. /\ pc' = [pc EXCEPT ![w] = "render"]
        /\ step' = [step EXCEPT ![w] = s]
        /\ made' = [made EXCEPT ![w] = 0]
        /\ client' = [client EXCEPT ![w] = "nothing"]
        /\ prev' = [prev EXCEPT ![w] = p]
        /\ UNCHANGED <<task, timedOut, err, outcome>>
    BY <1>2 DEF GoOn
  <2>3. log' \in [Tasks -> Seq(Entries)]  BY <1>1 DEF PipelineTypeOK, Entries
  <2> HIDE DEF s
  <2>4. PipelineTypeOK'
    <3>1. /\ pc' \in [Workers -> {"idle", "render", "launch", "run", "failed", "gone"}]
          /\ step' \in [Workers -> 0 .. Len(Steps)]
          /\ made' \in [Workers -> Nat]
          /\ client' \in [Workers -> Clients \union {"nothing"}]
          /\ prev' \in [Workers -> 0 .. Len(Steps)]
      BY SMTT(30), <1>1, <2>1, <2>2 DEF PipelineTypeOK
    <3>2. QED  BY <1>1, <2>2, <2>3, <3>1 DEF PipelineTypeOK, Entries
  <2>5. Working(w)' /\ pc'[w] = "render" /\ task'[w] = task[w] /\ step'[w] = s /\ prev'[w] = p
    BY <1>1, <2>2 DEF PipelineTypeOK, Working
  <2>6. \A v \in Workers \ {w} : /\ pc'[v] = pc[v] /\ task'[v] = task[v] /\ step'[v] = step[v]
                                 /\ prev'[v] = prev[v] /\ client'[v] = client[v]
    BY <1>1, <2>2 DEF PipelineTypeOK
  <2>7. Progress(pc'[w], step'[w], prev'[w], l)  BY <2>5 DEF s
  <2>8. QED  BY <2>1, <2>2, <2>4, <2>5, <2>6, <2>7, WorkerPreserves
<1>3. CASE ~HasStep(step[w] + 1)
  <2>1. EndTask(w, "ok")  BY <1>3 DEF GoOn
  <2>2. \A q \in DOMAIN Steps : Behind(l, q)  BY <1>1, <1>3 DEF HasStep
  <2>3. QED  BY <2>1, <2>2, EndTaskPreserves
<1>4. QED  BY <1>2, <1>3

\* The client of a worker returned an error.
LEMMA BreakOffPreserves ==
    ASSUME PipelineInv, NEW w \in Workers, pc[w] \in {"launch", "run"},
           NEW r, r.err \in {"fail", "timeout"}, BreakOff(w, r), UNCHANGED <<req, next, ctxErr>>
    PROVE  PipelineInv'
<1> DEFINE l == log[task[w]] \o Noted(w, Seen(r))
<1>1. /\ PipelineTypeOK /\ Tasks' = Tasks /\ Steps' = Steps /\ Working(w)
      /\ Len(Steps) \in Nat /\ req.iterations \in Nat
  BY AtWork DEF PipelineInv, Tasks, Steps, Working
<1>2. /\ Seen(r) \in Seq(Events) /\ \A i \in 1 .. Len(Seen(r)) : Seen(r)[i] # "begin"
      /\ Seen(r) \in {<<>>, <<"print">>}
  <2>1. Seen(r) = (IF r.prints THEN <<"print">> ELSE <<>>) \o <<>>  BY DEF Seen
  <2>2. CASE r.prints
    <3>1. Seen(r) = <<"print">>  BY <2>1, <2>2
    <3>2. QED  BY <3>1 DEF Events
  <2>3. CASE ~r.prints
    <3>1. Seen(r) = <<>>  BY <2>1, <2>3
    <3>2. QED  BY <3>1 DEF Events
  <2>4. QED  BY <2>2, <2>3
<1>3. /\ Log(w, Seen(r))
      /\ pc' = [pc EXCEPT ![w] = "failed"]
      /\ err' = [err EXCEPT ![w] = r.err]
      /\ UNCHANGED <<task, timedOut, step, made, client, prev, outcome>>
  BY DEF BreakOff
<1>4. /\ Noted(w, Seen(r)) \in Seq(Entries) /\ l \in Seq(Entries)
      /\ log' = [log EXCEPT ![task[w]] = l]
      /\ \A i \in 1 .. Len(Noted(w, Seen(r))) : /\ Noted(w, Seen(r))[i][2] # "begin"
                                                /\ Noted(w, Seen(r))[i][1] = step[w]
  BY <1>1, <1>2, <1>3, LogAppends
<1>5. Ordered(l)  BY <1>1, <1>4, AtWork, NoBeginOrdered
<1>6. Progress("failed", step[w], prev[w], l)
  BY <1>1, <1>4, AtWork, StaysAt
<1> HIDE DEF l
<1>7. log' \in [Tasks -> Seq(Entries)]  BY <1>1, <1>4 DEF PipelineTypeOK, Entries
<1>8. PipelineTypeOK'  BY <1>1, <1>3, <1>7 DEF PipelineTypeOK, Entries
<1>9. Working(w)' /\ pc'[w] = "failed"  BY <1>1, <1>3 DEF PipelineTypeOK, Working
<1>10. \A v \in Workers \ {w} : pc'[v] = pc[v]  BY <1>1, <1>3 DEF PipelineTypeOK
<1>11. step[w] \in 1 .. Len(Steps)  BY <1>1, AtWork
<1>12. QED  BY <1>1, <1>3, <1>4, <1>5, <1>6, <1>8, <1>9, <1>10, <1>11, WorkerPreserves

-----------------------------------------------------------------------------
(* Every action preserves the invariant. *)

\* A worker takes a task from the channel that nobody has had.
LEMMA TakePreserves ==
    ASSUME PipelineInv, NEW w \in Workers, Take(w)
    PROVE  PipelineInv'
<1> USE DEF PipelineInv
<1>1. /\ pc[w] = "idle" /\ next \in Tasks /\ next' = next + 1
      /\ UNCHANGED <<templateVars, req, ctxErr, log>>
  BY DEF Take
<1>2. /\ req \in Requests /\ req.iterations \in Nat /\ next \in Nat /\ next # 0
      /\ Tasks' = Tasks /\ Steps' = Steps /\ Steps \in Seq(StepTemplates) /\ Len(Steps) \in Nat
  BY <1>1, RequestAssumption DEF PipelineTypeOK, Tasks, Steps
<1>3. /\ outcome[next] = "todo" /\ log[next] = <<>>
      /\ ~Working(w) /\ task[w] = 0 /\ prev[w] = 0
      /\ \A v \in Workers : task[v] # next
  BY <1>1, <1>2 DEF FreshInv, WorkInv, Working
<1>4. next' \in 1 .. req.iterations + 1  BY <1>1, <1>2 DEF Tasks
<1>5. \A v : Progress(pc[v], step[v], prev[v], log[task[v]])' =
                Progress(pc'[v], step'[v], prev'[v], log[task'[v]])
  BY <1>1 DEF Progress, BehindPrev, Behind, In, HasBefore
<1>6. (\A t \in Tasks : Ordered(log[t]))'
  BY SMTT(30), <1>1, <1>2 DEF Ordered, BeginsInOrder, HasBefore
<1>7. \A t, s : Behind(log[t], s)' = Behind(log[t], s)  BY <1>1 DEF Behind, In, HasBefore
<1>8. CASE ctxErr # "none" \/ ~HasStep(1)
  <2> DEFINE o == IF ctxErr # "none" THEN "dropped" ELSE "ok"
  <2>1. outcome' = [outcome EXCEPT ![next] = o] /\ UNCHANGED workerVars  BY <1>8 DEF Take
  <2>2. o \in {"dropped", "ok"} /\ (o = "ok" => DOMAIN Steps = {})
    BY <1>2, <1>8 DEF HasStep
  <2> HIDE DEF o
  <2>3. PipelineTypeOK'  BY <1>1, <1>2, <1>4, <2>1, <2>2 DEF PipelineTypeOK, workerVars
  <2>4. \A t \in Tasks : t # next => outcome'[t] = outcome[t]  BY <2>1 DEF PipelineTypeOK
  <2>5. WorkInv'
    <3>1. \A v \in Workers : Working(v)' = Working(v)  BY <2>1 DEF Working, workerVars
    <3>2. \A v \in Workers : Working(v) => outcome'[task[v]] = "todo" /\ task[v] < next + 1
      BY <1>2, <1>3, <2>4 DEF WorkInv, Tasks
    <3>3. QED  BY <1>1, <1>2, <1>5, <2>1, <3>1, <3>2 DEF WorkInv, workerVars
  <2>6. OwnInv'  BY <2>1 DEF OwnInv, workerVars
  <2>7. FreshInv'  BY <1>1, <1>2, <2>4 DEF FreshInv, Tasks
  <2>8. (\A t \in Tasks : outcome[t] = "ok" => \A s \in DOMAIN Steps : Behind(log[t], s))'
    <3>1. ASSUME NEW t \in Tasks, outcome'[t] = "ok", NEW s \in DOMAIN Steps
          PROVE  Behind(log[t], s)
      <4>1. CASE t = next  BY <4>1, <3>1, <2>1, <2>2 DEF PipelineTypeOK
      <4>2. CASE t # next  BY <4>2, <3>1, <2>4
      <4>3. QED  BY <4>1, <4>2
    <3>2. QED  BY <3>1, <1>2, <1>7
  <2>9. QED  BY <1>6, <2>3, <2>5, <2>6, <2>7, <2>8
<1>9. CASE ctxErr = "none" /\ HasStep(1)
  <2>1. /\ task' = [task EXCEPT ![w] = next]
        /\ pc' = [pc EXCEPT ![w] = "render"]
        /\ step' = [step EXCEPT ![w] = 1]
        /\ UNCHANGED <<timedOut, made, client, prev, err, outcome>>
    BY <1>9 DEF Take
  <2>2. 1 \in 1 .. Len(Steps)  BY <1>2, <1>9 DEF HasStep
  <2>3. next \in 0 .. req.iterations  BY <1>1, <1>2 DEF Tasks
  <2>4. PipelineTypeOK'  BY SMTT(30), <1>1, <1>2, <1>4, <2>1, <2>2, <2>3 DEF PipelineTypeOK
  <2>5. pc'[w] = "render" /\ task'[w] = next /\ step'[w] = 1 /\ prev'[w] = 0
    BY <1>3, <2>1 DEF PipelineTypeOK
  <2>6. \A v \in Workers \ {w} : pc'[v] = pc[v] /\ task'[v] = task[v] /\ step'[v] = step[v]
    BY <2>1 DEF PipelineTypeOK
  <2>7. Progress("render", 1, 0, log[next])  BY <1>3 DEF Progress
  <2>8. WorkInv'
    <3> SUFFICES ASSUME NEW v \in Workers
                 PROVE  /\ ~Working(v)' => task'[v] = 0 /\ prev'[v] = 0
                        /\ Working(v)' => /\ task'[v] \in Tasks /\ task'[v] < next + 1
                                          /\ step'[v] \in 1 .. Len(Steps)
                                          /\ outcome[task'[v]] = "todo"
                                          /\ Progress(pc'[v], step'[v], prev'[v], log[task'[v]])
                        /\ pc'[v] \in {"launch", "run"} => client[v] \in Clients
      BY <1>1, <1>2, <1>5, <2>1 DEF WorkInv
    <3>1. CASE v = w  BY <3>1, <1>1, <1>2, <1>3, <2>2, <2>5, <2>7 DEF Working
    <3>2. CASE v # w
      <4>1. Working(v)' = Working(v) /\ prev'[v] = prev[v]  BY <3>2, <2>1, <2>6 DEF Working
      <4>2. Working(v) => task[v] < next + 1  BY <1>2 DEF WorkInv, Tasks
      <4>3. QED  BY <3>2, <2>6, <4>1, <4>2 DEF WorkInv
    <3>3. QED  BY <3>1, <3>2
  <2>9. OwnInv'  BY <1>2, <1>3, <2>5, <2>6 DEF OwnInv
  <2>10. FreshInv'  BY <1>1, <1>2, <2>1 DEF FreshInv, Tasks
  <2>11. (\A t \in Tasks : outcome[t] = "ok" => \A s \in DOMAIN Steps : Behind(log[t], s))'
    BY <1>2, <1>7, <2>1
  <2>12. QED  BY <1>6, <2>4, <2>8, <2>9, <2>10, <2>11
<1>10. QED  BY <1>8, <1>9

\* A worker that finds the channel closed is gone.
LEMMA LeavePreserves ==
    ASSUME PipelineInv, NEW w \in Workers, Leave(w)
    PROVE  PipelineInv'
<1> USE DEF PipelineInv
<1>1. /\ pc[w] = "idle" /\ pc' = [pc EXCEPT ![w] = "gone"]
      /\ UNCHANGED <<templateVars, req, next, ctxErr, task, timedOut, step, made, client, prev,
                     err, outcome, log>>
  BY DEF Leave
<1>2. Tasks' = Tasks /\ Steps' = Steps  BY <1>1 DEF Tasks, Steps
<1>3. PipelineTypeOK'  BY <1>1, <1>2 DEF PipelineTypeOK
<1>4. \A v \in Workers : /\ Working(v)' = Working(v)
                         /\ Working(v) => pc'[v] = pc[v]
                         /\ pc'[v] \in {"launch", "run"} => pc[v] \in {"launch", "run"}
  BY <1>1 DEF Working, PipelineTypeOK
<1>5. \A v : Progress(pc[v], step[v], prev[v], log[task[v]])' =
                Progress(pc'[v], step[v], prev[v], log[task[v]])
  BY <1>1 DEF Progress, BehindPrev, Behind, In, HasBefore
<1>6. WorkInv'  BY <1>1, <1>2, <1>4, <1>5 DEF WorkInv
<1>7. OwnInv' /\ FreshInv'  BY <1>1, <1>2 DEF OwnInv, FreshInv
<1>8. (\A t \in Tasks : Ordered(log[t]))'
  BY <1>1, <1>2 DEF Ordered, BeginsInOrder, HasBefore
<1>9. (\A t \in Tasks : outcome[t] = "ok" => \A s \in DOMAIN Steps : Behind(log[t], s))'
  BY <1>1, <1>2 DEF Behind, In, HasBefore
<1>10. QED  BY <1>3, <1>6, <1>7, <1>8, <1>9

\* The template of a step is wrong.
LEMMA RenderErrorPreserves ==
    ASSUME PipelineInv, NEW w \in Workers, RenderError(w)
    PROVE  PipelineInv'
<1>1. Working(w) /\ EndTask(w, "fail") /\ UNCHANGED <<req, next, ctxErr, log>>
  BY DEF RenderError, Working
<1>2. log' = [log EXCEPT ![task[w]] = log[task[w]]]  BY <1>1, AtWork
<1>3. log[task[w]] \in Seq(Entries) /\ Ordered(log[task[w]])  BY <1>1, AtWork
<1>4. QED  BY <1>1, <1>2, <1>3, EndTaskPreserves

\* A step is empty and left out, or is launched.
LEMMA RenderedPreserves ==
    ASSUME PipelineInv, NEW w \in Workers, Rendered(w)
    PROVE  PipelineInv'
<1> DEFINE x == Noted(w, <<"empty">>)
           l == log[task[w]]
<1>1. pc[w] = "render" /\ Working(w) /\ UNCHANGED <<req, next, ctxErr>>
  BY DEF Rendered, Working
<1>2. PICK c \in Steps[step[w]].yields :
        \/ /\ c = "nothing"
           /\ GoOn(w, step[w] + 1, prev[w])
           /\ Log(w, <<"empty">>)
        \/ /\ c # "nothing"
           /\ pc' = [pc EXCEPT ![w] = "launch"]
           /\ client' = [client EXCEPT ![w] = c]
           /\ UNCHANGED <<task, timedOut, step, made, prev, err, outcome, log>>
  BY DEF Rendered
<1>3. CASE c = "nothing"
  <2>1. GoOn(w, step[w] + 1, prev[w]) /\ Log(w, <<"empty">>)  BY <1>2, <1>3
  <2>2. <<"empty">> \in Seq(Events) /\ Len(<<"empty">>) = 1  BY DEF Events
  <2>3. /\ x \in Seq(Entries) /\ Len(x) = 1 /\ x[1] = <<step[w], "empty", prev[w]>>
        /\ log' = [log EXCEPT ![task[w]] = l \o x] /\ l \o x \in Seq(Entries)
    <3>1. 1 \in 1 .. 1 /\ <<"empty">>[1] = "empty"  OBVIOUS
    <3>2. QED  BY <1>1, <2>1, <2>2, <3>1, LogAppends
  <2> HIDE DEF x
  <2>4. l \in Seq(Entries) /\ Ordered(l) /\ Progress("render", step[w], prev[w], l)
    BY <1>1, AtWork
  <2>5. \A j \in 1 .. Len(x) : x[j][1] = step[w] /\ x[j][2] # "begin"  BY <2>3
  <2>6. Ordered(l \o x)  BY <2>3, <2>4, <2>5, NoBeginOrdered
  <2>7. In(l \o x, step[w], "empty")
    <3>1. 1 \in 1 .. Len(x) /\ x[1][1] = step[w] /\ x[1][2] = "empty"  BY <2>3
    <3>2. QED  BY <2>3, <2>4, <3>1, Remembers
  <2>8. /\ Progress("render", step[w] + 1, prev[w], l \o x)
        /\ \A q \in 1 .. step[w] : Behind(l \o x, q)
    BY <1>1, <2>3, <2>4, <2>5, <2>7, AtWork, Advances
  <2>9. prev[w] \in Nat  BY <1>1, AtWork
  <2>10. QED  BY <1>1, <2>1, <2>3, <2>6, <2>8, <2>9, GoOnPreserves
<1>4. CASE c # "nothing"
  <2>1. /\ pc' = [pc EXCEPT ![w] = "launch"] /\ client' = [client EXCEPT ![w] = c]
        /\ UNCHANGED <<task, timedOut, step, made, prev, err, outcome, log>>
    BY <1>2, <1>4
  <2>2. /\ PipelineTypeOK /\ Tasks' = Tasks /\ Steps' = Steps
        /\ step[w] \in 1 .. Len(Steps) /\ Steps \in Seq(StepTemplates)
    BY <1>1, AtWork DEF PipelineInv, Tasks, Steps
  <2>3. c \in Clients
    <3>1. Steps[step[w]] \in StepTemplates  BY <2>2
    <3>2. QED  BY <1>2, <1>4, <3>1 DEF StepTemplates
  <2>4. PipelineTypeOK'  BY <1>1, <2>1, <2>2, <2>3 DEF PipelineTypeOK
  <2>5. Working(w)' /\ pc'[w] = "launch" /\ client'[w] = c
    BY <2>1, <2>2 DEF PipelineTypeOK, Working
  <2>6. \A v \in Workers \ {w} : pc'[v] = pc[v] /\ client'[v] = client[v]
    BY <2>1, <2>2 DEF PipelineTypeOK
  <2>7. /\ log' = [log EXCEPT ![task[w]] = l] /\ Ordered(l)
        /\ Progress("render", step[w], prev[w], l)
    BY <1>1, <2>1, AtWork
  <2>8. Progress("launch", step[w], prev[w], l)  BY <2>7 DEF Progress
  <2>9. QED  BY <1>1, <2>1, <2>2, <2>3, <2>4, <2>5, <2>6, <2>7, <2>8, WorkerPreserves
<1>5. QED  BY <1>3, <1>4

\* The client of a step takes effect, for the first time.
LEMMA BeginPreserves ==
    ASSUME PipelineInv, NEW w \in Workers, Begin(w)
    PROVE  PipelineInv'
<1> DEFINE x == Noted(w, <<"begin">>)
           l == log[task[w]]
<1>1. /\ pc[w] = "launch" /\ Working(w) /\ UNCHANGED <<req, next, ctxErr>>
      /\ pc' = [pc EXCEPT ![w] = "run"] /\ Log(w, <<"begin">>)
      /\ UNCHANGED <<task, timedOut, step, made, client, prev, err, outcome>>
  BY DEF Begin, Working
<1>2. /\ PipelineTypeOK /\ Tasks' = Tasks /\ Steps' = Steps /\ step[w] \in 1 .. Len(Steps)
      /\ l \in Seq(Entries) /\ Ordered(l) /\ Progress("launch", step[w], prev[w], l)
  BY <1>1, AtWork DEF PipelineInv, Tasks, Steps
<1>3. <<"begin">> \in Seq(Events) /\ Len(<<"begin">>) = 1  BY DEF Events
<1>4. /\ x \in Seq(Entries) /\ Len(x) = 1 /\ x[1] = <<step[w], "begin", prev[w]>>
      /\ log' = [log EXCEPT ![task[w]] = l \o x] /\ l \o x \in Seq(Entries)
  <2>1. 1 \in 1 .. 1 /\ <<"begin">>[1] = "begin"  OBVIOUS
  <2>2. QED  BY <1>1, <1>3, <2>1, LogAppends
<1> HIDE DEF x
<1>5. step[w] \in Nat \ {0} /\ prev[w] \in Nat  BY <1>1, AtWork
<1>6. Ordered(l \o x)  BY <1>2, <1>4, <1>5, BeginOrdered
<1>7. In(l \o x, step[w], "begin")
  <2>1. 1 \in 1 .. Len(x) /\ x[1][1] = step[w] /\ x[1][2] = "begin"  BY <1>4
  <2>2. QED  BY <1>2, <1>4, <2>1, Remembers
<1>8. Progress("run", step[w], prev[w], l \o x)  BY <1>2, <1>4, <1>5, <1>7, StaysAt
<1>9. log' \in [Tasks -> Seq(Entries)]  BY <1>2, <1>4 DEF PipelineTypeOK, Entries
<1>10. PipelineTypeOK'  BY <1>1, <1>2, <1>9 DEF PipelineTypeOK, Entries
<1>11. Working(w)' /\ pc'[w] = "run"  BY <1>1, <1>2 DEF PipelineTypeOK, Working
<1>12. \A v \in Workers \ {w} : pc'[v] = pc[v]  BY <1>1, <1>2 DEF PipelineTypeOK
<1>13. client[w] \in Clients  BY <1>1 DEF PipelineInv, WorkInv
<1>14. QED
  BY <1>1, <1>2, <1>4, <1>6, <1>8, <1>10, <1>11, <1>12, <1>13, WorkerPreserves

\* A client fails before it takes effect.
LEMMA RefusedPreserves ==
    ASSUME PipelineInv, NEW w \in Workers, Refused(w)
    PROVE  PipelineInv'
<1>1. pc[w] = "launch" /\ UNCHANGED <<req, next, ctxErr>>  BY DEF Refused
<1>2. PICK r \in RefusedResults(w) : BreakOff(w, r)  BY DEF Refused
<1>3. r.err \in {"fail", "timeout"}  BY DEF RefusedResults, Result
<1>4. QED  BY <1>1, <1>2, <1>3, BreakOffPreserves

\* A client returns.  A .sleep that has slept prints nothing; any other client that
\* succeeded does.
LEMMA ResultKinds ==
    ASSUME NEW w \in Workers, client[w] \in Clients, NEW r \in Results(w)
    PROVE  /\ r.err \in {"none", "fail", "timeout"}
           /\ r.err = "none" => (client[w] = ".sleep" <=> ~r.prints)
<1>1. CASE client[w] = "shell"
  BY <1>1 DEF Results, ShellResults, Result
<1>2. CASE client[w] = ".sleep"
  BY <1>2 DEF Results, SleepResults, Result
<1>3. CASE client[w] = ".http"
  BY <1>3 DEF Results, HttpResults, Result
<1>4. CASE client[w] = ".tcp"
  BY <1>4 DEF Results, TcpResults, Result
<1>5. QED  BY <1>1, <1>2, <1>3, <1>4 DEF Clients

\* A client that succeeded and left output is seen by that, and by its success.
LEMMA PrintedAndOk == <<"print">> \o <<"ok">> = <<"print", "ok">>
<1> DEFINE s == <<"print">> \o <<"ok">>
           u == <<"print", "ok">>
<1>1. <<"print">> \in Seq(Events) /\ <<"ok">> \in Seq(Events) /\ u \in Seq(Events)
  BY DEF Events
<1>2. s \in Seq(Events) /\ Len(s) = 2 /\ s[1] = "print" /\ s[2] = "ok"
  <2>1. /\ s \in Seq(Events) /\ Len(s) = Len(<<"print">>) + Len(<<"ok">>)
        /\ \A i \in 1 .. Len(<<"print">>) : s[i] = <<"print">>[i]
        /\ \A i \in 1 .. Len(<<"ok">>) : s[Len(<<"print">>) + i] = <<"ok">>[i]
    BY <1>1, Appended
  <2>2. Len(<<"print">>) = 1 /\ Len(<<"ok">>) = 1 /\ 1 \in 1 .. 1  OBVIOUS
  <2> HIDE DEF s
  <2>3. QED  BY <2>1, <2>2
<1> HIDE DEF s
<1>3. Len(u) = 2 /\ u[1] = "print" /\ u[2] = "ok"  OBVIOUS
<1> HIDE DEF u
<1>4. s = u  BY <1>1, <1>2, <1>3, SeqEqual
<1>5. QED  BY <1>4 DEF s, u

LEMMA FinishPreserves ==
    ASSUME PipelineInv, NEW w \in Workers, Finish(w)
    PROVE  PipelineInv'
<1> DEFINE l == log[task[w]]
<1>1. pc[w] = "run" /\ Working(w) /\ UNCHANGED <<req, next, ctxErr>>  BY DEF Finish, Working
<1>2. PICK r \in Results(w) :
        \/ Passes(r) /\ GoOn(w, step[w] + 1, PrevAfter(w)) /\ Log(w, Seen(r))
        \/ ~Passes(r) /\ BreakOff(w, r)
  BY DEF Finish
<1>3. /\ r.err \in {"none", "fail", "timeout"}
      /\ r.err = "none" => (client[w] = ".sleep" <=> ~r.prints)
  BY <1>1, ResultKinds DEF PipelineInv, WorkInv
<1>4. CASE ~Passes(r)
  BY <1>1, <1>2, <1>3, <1>4, BreakOffPreserves DEF Passes
<1>5. CASE Passes(r)
  <2> DEFINE x == Noted(w, Seen(r))
  <2>1. GoOn(w, step[w] + 1, PrevAfter(w)) /\ Log(w, Seen(r)) /\ r.err = "none"
    BY <1>2, <1>5 DEF Passes
  <2>2. /\ l \in Seq(Entries) /\ Ordered(l) /\ Progress("run", step[w], prev[w], l)
        /\ step[w] \in Nat \ {0} /\ prev[w] \in Nat
    BY <1>1, AtWork
  <2>3. In(l, step[w], "begin")  BY <2>2 DEF Progress
  <2>4. \/ Seen(r) = <<"slept">> /\ PrevAfter(w) = prev[w]
        \/ Seen(r) = <<"print", "ok">> /\ PrevAfter(w) = step[w]
    <3>1. CASE r.prints
      <4>1. Seen(r) = <<"print">> \o <<"ok">>  BY <2>1, <3>1 DEF Seen
      <4>2. Seen(r) = <<"print", "ok">>  BY <4>1, PrintedAndOk
      <4>3. QED  BY <4>2, <3>1, <2>1, <1>3 DEF PrevAfter
    <3>2. CASE ~r.prints
      <4>1. Seen(r) = <<>> \o <<"slept">>  BY <2>1, <3>2 DEF Seen
      <4>2. Seen(r) = <<"slept">>  BY <4>1
      <4>3. QED  BY <4>2, <3>2, <2>1, <1>3 DEF PrevAfter
    <3>3. QED  BY <3>1, <3>2
  <2>5. Seen(r) \in Seq(Events) /\ \A i \in 1 .. Len(Seen(r)) : Seen(r)[i] # "begin"
    <3>1. CASE Seen(r) = <<"slept">>  BY <3>1 DEF Events
    <3>2. CASE Seen(r) = <<"print", "ok">>
      <4>1. /\ <<"print", "ok">> \in Seq(Events)
            /\ \A i \in 1 .. 2 : <<"print", "ok">>[i] # "begin"
            /\ Len(<<"print", "ok">>) = 2
        BY DEF Events
      <4>2. QED  BY <3>2, <4>1
    <3>3. QED  BY <2>4, <3>1, <3>2
  <2>6. /\ x \in Seq(Entries) /\ Len(x) = Len(Seen(r))
        /\ \A i \in 1 .. Len(Seen(r)) : x[i] = <<step[w], Seen(r)[i], prev[w]>>
        /\ log' = [log EXCEPT ![task[w]] = l \o x] /\ l \o x \in Seq(Entries)
    BY <1>1, <2>1, <2>5, LogAppends
  <2> HIDE DEF x
  <2>7. \A j \in 1 .. Len(x) : x[j][1] = step[w] /\ x[j][2] # "begin"  BY <2>5, <2>6
  <2>8. Ordered(l \o x)  BY <2>2, <2>6, <2>7, NoBeginOrdered
  <2>9. \A i \in 1 .. Len(Seen(r)) : In(l \o x, step[w], Seen(r)[i])
    <3> SUFFICES ASSUME NEW i \in 1 .. Len(Seen(r))  PROVE In(l \o x, step[w], Seen(r)[i])
      OBVIOUS
    <3>1. i \in 1 .. Len(x) /\ x[i][1] = step[w] /\ x[i][2] = Seen(r)[i]  BY <2>6
    <3>2. QED  BY <2>2, <2>6, <3>1, Remembers
  <2>10. In(l \o x, step[w], "begin")  BY <2>2, <2>3, <2>6, Remembers
  <2>11. \/ PrevAfter(w) = prev[w] /\ In(l \o x, step[w], "slept")
         \/ /\ PrevAfter(w) = step[w]
            /\ In(l \o x, step[w], "print") /\ In(l \o x, step[w], "ok")
    <3>1. CASE Seen(r) = <<"slept">> /\ PrevAfter(w) = prev[w]
      <4>1. 1 \in 1 .. Len(Seen(r)) /\ Seen(r)[1] = "slept"  BY <3>1
      <4>2. QED  BY <2>9, <3>1, <4>1
    <3>2. CASE Seen(r) = <<"print", "ok">> /\ PrevAfter(w) = step[w]
      <4>1. /\ 1 \in 1 .. Len(Seen(r)) /\ Seen(r)[1] = "print"
            /\ 2 \in 1 .. Len(Seen(r)) /\ Seen(r)[2] = "ok"
        BY <3>2
      <4>2. QED  BY <2>9, <3>2, <4>1
    <3>3. QED  BY <2>4, <3>1, <3>2
  <2>12. PrevAfter(w) \in Nat  BY <2>2, <2>4
  <2>13. \A e \in Entries : e[1] \in Nat  BY <1>1, AtWork
  <2>14. /\ Progress("render", step[w] + 1, PrevAfter(w), l \o x)
         /\ \A q \in 1 .. step[w] : Behind(l \o x, q)
    BY <2>2, <2>6, <2>7, <2>10, <2>11, <2>12, <2>13, Advances
  <2>15. QED  BY <1>1, <2>1, <2>6, <2>8, <2>12, <2>14, GoOnPreserves
<1>6. QED  BY <1>4, <1>5

\* A task whose client returned an error is counted as failed or timed out.
LEMMA FailPreserves ==
    ASSUME PipelineInv, NEW w \in Workers, Fail(w)
    PROVE  PipelineInv'
<1>1. PICK o \in {"fail", "timeout"} : EndTask(w, o)  BY DEF Fail
<1>2. Working(w) /\ UNCHANGED <<req, next, ctxErr, log>>  BY DEF Fail, Working
<1>3. log' = [log EXCEPT ![task[w]] = log[task[w]]]  BY <1>2, AtWork
<1>4. log[task[w]] \in Seq(Entries) /\ Ordered(log[task[w]])  BY <1>2, AtWork
<1>5. QED  BY ZenonT(30), <1>1, <1>2, <1>3, <1>4, EndTaskPreserves

\* Steps of the templates and of the contexts.
LEMMA OthersPreserve ==
    ASSUME PipelineInv, NEW w,
           RenderCall(w) \/ Rendering(w) \/ CtxEnd \/ TimeOut(w) \/ UNCHANGED pipelineVars
    PROVE  PipelineInv'
<1>1. UNCHANGED <<req, next, pc, task, step, client, prev, err, outcome, log>>
  BY DEF RenderCall, Rendering, CtxEnd, TimeOut, pipelineVars, workerVars
<1>2. Tasks' = Tasks /\ Steps' = Steps /\ PipelineTypeOK
  BY <1>1 DEF Tasks, Steps, PipelineInv
<1>3. ctxErr' \in {"none", "canceled", "deadline"}
  BY <1>2, ContextAssumption
     DEF PipelineTypeOK, RenderCall, Rendering, CtxEnd, TimeOut, pipelineVars
<1>4. timedOut' \in [Workers -> BOOLEAN]
  BY <1>2
     DEF PipelineTypeOK, RenderCall, Rendering, CtxEnd, TimeOut, pipelineVars, workerVars
<1>5. made' \in [Workers -> Nat]
  BY SMTT(30), <1>2
     DEF PipelineTypeOK, RenderCall, Rendering, CtxEnd, TimeOut, pipelineVars, workerVars
<1>6. PipelineTypeOK'  BY <1>1, <1>2, <1>3, <1>4, <1>5 DEF PipelineTypeOK
<1>7. QED  BY <1>1, <1>6, QuietPreserves

\* The invariant holds before the first task.
LEMMA PipelineInitially == PipelineInit => PipelineInv
<1> SUFFICES ASSUME PipelineInit  PROVE PipelineInv
  OBVIOUS
<1>1. /\ req \in Requests /\ req.iterations \in Nat /\ Steps \in Seq(StepTemplates)
      /\ Len(Steps) \in Nat
  BY RequestAssumption DEF PipelineInit, Steps
<1>2. PipelineTypeOK  BY <1>1 DEF PipelineInit, PipelineTypeOK, Tasks
<1>3. WorkInv /\ OwnInv /\ FreshInv
  BY DEF PipelineInit, WorkInv, OwnInv, FreshInv, Working
<1>4. \A t \in Tasks : Ordered(log[t]) /\ outcome[t] # "ok"  BY DEF PipelineInit, Ordered
<1>5. QED  BY <1>2, <1>3, <1>4 DEF PipelineInv

LEMMA PipelineStepPreserves ==
    ASSUME PipelineInv, [PipelineNext]_pipelineVars
    PROVE  PipelineInv'
<1>1. CASE \E w \in Workers : Worker(w)
  BY <1>1, TakePreserves, LeavePreserves, OthersPreserve, RenderErrorPreserves,
     RenderedPreserves, BeginPreserves, RefusedPreserves, FinishPreserves, FailPreserves
     DEF Worker
<1>2. CASE \E w \in Workers : TimeOut(w)  BY <1>2, OthersPreserve
<1>3. CASE CtxEnd \/ UNCHANGED pipelineVars
  BY <1>3, OthersPreserve
<1>4. QED  BY <1>1, <1>2, <1>3 DEF PipelineNext

\* The invariant holds in every reachable state.
THEOREM PipelineInvariant == PipelineSpec => []PipelineInv
<1>1. PipelineInit => PipelineInv  BY PipelineInitially
<1>2. PipelineInv /\ [PipelineNext]_pipelineVars => PipelineInv'  BY PipelineStepPreserves
<1>3. QED  BY <1>1, <1>2, PTL DEF PipelineSpec

-----------------------------------------------------------------------------
(* Theorems. *)

\* The workers' loops over the steps are always well typed.
THEOREM PipelineTypeCorrect == PipelineSpec => []PipelineTypeOK
<1>1. PipelineInv => PipelineTypeOK  BY DEF PipelineInv
<1>2. QED  BY <1>1, PipelineInvariant, PTL

\* The steps of a task begin once each, in order, and with the output of the right
\* step in .Prev (RunPipeline).
THEOREM StepsRunInOrder == PipelineSpec => []StepsInOrder
<1>1. PipelineInv => StepsInOrder
  BY DEF PipelineInv, StepsInOrder, Before, Ordered, BeginsInOrder, HasBefore
<1>2. QED  BY <1>1, PipelineInvariant, PTL

\* A task that is counted as a success has every step behind it (RunPipeline).
THEOREM SuccessMeansRun == PipelineSpec => []OkMeansRun
<1>1. PipelineInv => OkMeansRun
  BY DEF PipelineInv, OkMeansRun, Before, Behind, In, HasBefore
<1>2. QED  BY <1>1, PipelineInvariant, PTL

\* A worker's step that is not the begin of a client does not set a worker running.
LEMMA OnlyBeginRuns ==
    ASSUME PipelineInv, PipelineNext, NEW w \in Workers, pc[w] # "run", pc'[w] = "run"
    PROVE  Begin(w)
<1>1. pc \in [Workers -> {"idle", "render", "launch", "run", "failed", "gone"}]
  BY DEF PipelineInv, PipelineTypeOK
<1>2. PICK v \in Workers : Worker(v)
  BY DEF PipelineNext, CtxEnd, TimeOut, workerVars
<1>3. Worker(v) => \/ Begin(v)
                   \/ \E p \in {"idle", "render", "launch", "failed", "gone"} :
                        pc' = [pc EXCEPT ![v] = p]
                   \/ pc' = pc
  BY DEF Worker, Take, Leave, RenderCall, RenderError, Rendered, Rendering, Refused, Finish,
         Fail, EndTask, GoOn, BreakOff, workerVars
<1>4. CASE Begin(v)  BY <1>1, <1>4 DEF Begin
<1>5. CASE ~Begin(v)  BY <1>1, <1>2, <1>3, <1>5
<1>6. QED  BY <1>4, <1>5

\* A client that is set running, unless it is a .sleep, has a live context.
LEMMA BeginsInTime ==
    ASSUME PipelineInv, PipelineNext, NEW w \in Workers,
           pc[w] # "run", pc'[w] = "run", client'[w] # ".sleep"
    PROVE  ctxErr = "none" /\ ~timedOut[w]
<1>1. Begin(w)  BY OnlyBeginRuns
<1>2. timedOut[w] \in BOOLEAN  BY DEF PipelineInv, PipelineTypeOK
<1>3. QED  BY <1>1, <1>2 DEF Begin, MayBegin, CtxErr

\* No step but a .sleep begins once its context has ended (RunPipeline).
THEOREM NoStepBeginsLate == PipelineSpec => NoStepAfterCtxEnd
<1> DEFINE InTime == \A w \in Workers :
                       pc[w] # "run" /\ pc'[w] = "run" /\ client'[w] # ".sleep"
                         => ctxErr = "none" /\ ~timedOut[w]
<1>1. PipelineInv /\ [PipelineNext]_pipelineVars => [InTime]_pipelineVars  BY BeginsInTime
<1>2. QED  BY <1>1, PipelineInvariant, PTL DEF PipelineSpec, NoStepAfterCtxEnd

\* A step of the workers is a step of module Templates or leaves its state alone.
LEMMA TemplateStep ==
    ASSUME PipelineInv, [PipelineNext]_pipelineVars
    PROVE  [TemplateNext]_templateVars
<1>1. ASSUME NEW w \in Workers, RenderCall(w)  PROVE TemplateNext
  <2>1. Working(w) /\ made[w] < Len(StepCalls(w)) /\ Enter(w, StepCalls(w)[made[w] + 1])
    BY <1>1 DEF RenderCall, Working
  <2>2. Steps \in Seq(StepTemplates) /\ step[w] \in 1 .. Len(Steps)  BY <2>1, AtWork
  <2>3. StepCalls(w) \in Seq(Calls)
    <3>1. Steps[step[w]] \in StepTemplates  BY <2>2
    <3>2. QED  BY <3>1 DEF StepCalls, StepTemplates
  <2>4. made[w] \in Nat  BY DEF PipelineInv, PipelineTypeOK
  <2>5. StepCalls(w)[made[w] + 1] \in Calls  BY <2>1, <2>3, <2>4
  <2>6. QED  BY <2>1, <2>5 DEF TemplateNext
<1>2. ASSUME NEW w \in Workers, Rendering(w)  PROVE TemplateNext
  BY <1>2 DEF Rendering, TemplateNext
<1>3. ASSUME NEW w \in Workers, Worker(w), ~RenderCall(w), ~Rendering(w)
      PROVE  UNCHANGED templateVars
  BY <1>3 DEF Worker, Take, Leave, RenderError, Rendered, Begin, Refused, Finish, Fail
<1>4. QED
  BY <1>1, <1>2, <1>3 DEF PipelineNext, TimeOut, CtxEnd, pipelineVars

\* The workers use the shared template state as module Templates describes it.
THEOREM PipelineImplementsTemplates == PipelineSpec => TemplateSpec
<1>1. PipelineInit => TemplateInit  BY DEF PipelineInit
<1>2. PipelineInv /\ [PipelineNext]_pipelineVars => [TemplateNext]_templateVars  BY TemplateStep
<1>3. QED  BY <1>1, <1>2, PipelineInvariant, PTL DEF PipelineSpec, TemplateSpec

\* Hence the counters count, the lines of files go in turn, and files are cached once,
\* in every batch.
THEOREM BatchSharesTemplates ==
    PipelineSpec => []TemplateTypeOK /\ []CountsOnce /\ []LinesInTurn /\ CachedOnce
BY PipelineImplementsTemplates, TemplateTypeCorrect, CountersCountOnce, FileLinesInTurn,
   FilesCachedOnce, PTL

=============================================================================
