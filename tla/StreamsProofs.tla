---------------------------- MODULE StreamsProofs ----------------------------
(***************************************************************************)
(* Theorems about module Streams: for every number of workers, results and *)
(* clients, and every capacity of a channel, a stream is in order and      *)
(* complete, nothing is sent on a closed channel unless RunJobPool has     *)
(* left its workers behind, and, as far as no fairness is needed, the      *)
(* stream of whoever subscribes in time comes to its end.                  *)
(***************************************************************************)
EXTENDS Streams, SequenceTheorems, FiniteSetTheorems, TLAPS

-----------------------------------------------------------------------------
(* The inductive invariant. *)

Busy(w) == IF castPc[w] \in {"execute", "sending"} THEN 1 ELSE 0

\* "done" is being broadcast, or has been.
Late == castPc[Runner] \in {"sending", "closing", "gone"}

\* The goroutines of the job: what a worker has executed was started, what it
\* broadcasts is its next result, and the goroutine of the job is past RunJobPool
\* only when the workers are, unless it has left them behind.
CastInv ==
    /\ \A w \in Workers : /\ castPc[w] \in {"range", "execute", "sending"}
                          /\ cast[w] + Busy(w) <= started
                          /\ castPc[w] = "sending" => event[w] = <<w, cast[w] + 1>>
    /\ castPc[Runner] \notin {"range", "execute", "dead"}
    /\ castPc[Runner] = "sending" => event[Runner] = Done
    /\ castPc[Runner] \in {"save", "announce"} \/ Late => aborted \/ PoolOver
    /\ closed # {} => castPc[Runner] \in {"closing", "gone"}

\* The clients that are counted.
Open     == {s \in Ws : clientPc[s] \in {"join", "store", "loop", "cleanup", "quit"}}
CountInv == activeWS = Cardinality(Open)

\* A client that has not subscribed yet, or no longer is.
Outside(s) == clientPc[s] \in {"get", "limit", "upgrade", "join", "store", "ended"}

\* What has been sent to a client, received or not.
Queue(s) == received[s] \o buf[s]

InTurn(q) == \A i, j \in DOMAIN q : i < j /\ q[i][1] = q[j][1] => q[i][2] < q[j][2]

\* An event that was sent to a client has been broadcast, or its broadcast has been
\* at that client.
SentBefore(s, e) ==
    /\ \A w \in Workers : e[1] = w =>
         \/ e[2] <= cast[w]
         \/ castPc[w] = "sending" /\ s \notin todo[w] /\ e[2] = cast[w] + 1
    /\ e = Done => Late /\ (castPc[Runner] = "sending" => s \notin todo[Runner])

Pending(s, e) == \E b \in Casters : castPc[b] = "sending" /\ s \in todo[b] /\ event[b] = e

ClientInv(s) ==
    /\ clientPc[s] # "dead"
    /\ clientPc[s] \in {"limit", "upgrade"} => s \in Ws
    /\ Outside(s) => /\ buf[s] = <<>> /\ received[s] = <<>> /\ s \notin joined /\ owed[s] = {}
                     /\ \A b \in Casters : s \notin todo[b]
    /\ InTurn(Queue(s))
    /\ \A i \in DOMAIN Queue(s) : SentBefore(s, Queue(s)[i])
    /\ \A i \in DOMAIN received[s] : received[s][i] = Done =>
         i = Len(received[s]) /\ clientPc[s] # "loop"
    /\ ~aborted => \A i \in DOMAIN buf[s] : buf[s][i] = Done => i = Len(buf[s])
    /\ \A e \in owed[s] : (\E i \in DOMAIN buf[s] : buf[s][i] = e) \/ Pending(s, e)
    /\ ~aborted /\ clientPc[s] = "cleanup" => Late /\ owed[s] = {}

LiveInv == CastInv /\ CountInv /\ \A s \in Clients : ClientInv(s)

AllDead == (\A b \in Casters : castPc[b] = "dead") /\ \A s \in Clients : clientPc[s] = "dead"

StreamInv ==
    /\ TypeOK
    /\ StreamInOrder
    /\ Dead => aborted /\ AllDead
    /\ ~Dead => LiveInv

-----------------------------------------------------------------------------
(* Sequences of events. *)

\* Where the parts of a queue are.
LEMMA QueueParts ==
    ASSUME NEW r \in Seq(Events), NEW b \in Seq(Events)
    PROVE  /\ r \o b \in Seq(Events)
           /\ \A i \in DOMAIN r : i \in DOMAIN (r \o b) /\ (r \o b)[i] = r[i]
           /\ \A i \in DOMAIN b : Len(r) + i \in DOMAIN (r \o b) /\ (r \o b)[Len(r) + i] = b[i]
<1> DEFINE q == r \o b
<1>1. /\ Len(r) \in Nat /\ DOMAIN r = 1 .. Len(r)
      /\ Len(b) \in Nat /\ DOMAIN b = 1 .. Len(b)
  OBVIOUS
<1>2. /\ q \in Seq(Events) /\ Len(q) = Len(r) + Len(b)
      /\ \A k \in 1 .. Len(r) + Len(b) : q[k] = IF k <= Len(r) THEN r[k] ELSE b[k - Len(r)]
  BY ConcatProperties
<1>3. DOMAIN q = 1 .. Len(r) + Len(b)  BY <1>2
<1> HIDE DEF q
<1>4. \A i \in DOMAIN r : i \in DOMAIN q /\ q[i] = r[i]  BY <1>1, <1>2, <1>3
<1>5. ASSUME NEW i \in DOMAIN b  PROVE Len(r) + i \in DOMAIN q /\ q[Len(r) + i] = b[i]
  <2>1. /\ Len(r) + i \in 1 .. Len(r) + Len(b) /\ ~(Len(r) + i <= Len(r))
        /\ (Len(r) + i) - Len(r) = i
    BY <1>1
  <2>2. QED  BY <1>2, <1>3, <2>1
<1>6. QED  BY <1>2, <1>4, <1>5 DEF q

\* A send appends to the queue, and a receive leaves it.
LEMMA SendQueue ==
    ASSUME NEW r \in Seq(Events), NEW b \in Seq(Events), NEW e \in Events
    PROVE  r \o Append(b, e) = Append(r \o b, e)
<1>1. <<e>> \in Seq(Events) /\ r \o b \in Seq(Events)  BY ConcatProperties
<1>2. Append(b, e) = b \o <<e>>  BY AppendIsConcat
<1>3. Append(r \o b, e) = (r \o b) \o <<e>>  BY <1>1, AppendIsConcat
<1>4. QED  BY <1>1, <1>2, <1>3, ConcatAssociative

LEMMA ReceiveQueue ==
    ASSUME NEW r \in Seq(Events), NEW b \in Seq(Events), b # <<>>
    PROVE  Append(r, Head(b)) \o Tail(b) = r \o b
<1> DEFINE h == Head(b)
           t == Tail(b)
<1>1. h \in Events /\ t \in Seq(Events) /\ <<h>> \in Seq(Events)  BY HeadTailProperties
<1>2. b = <<h>> \o t
  <2>1. /\ <<h>> \o t \in Seq(Events) /\ Len(<<h>> \o t) = Len(b)
        /\ \A i \in 1 .. Len(b) : (<<h>> \o t)[i] = b[i]
    BY <1>1, HeadTailProperties, ConcatProperties
  <2>2. QED  BY <2>1, SeqEqual
<1>3. Append(r, h) = r \o <<h>>  BY <1>1, AppendIsConcat
<1>4. QED  BY SMTT(30), <1>1, <1>2, <1>3, ConcatAssociative

LEMMA InTurnAppend ==
    ASSUME NEW q \in Seq(Events), NEW e \in Events, InTurn(q),
           \A i \in DOMAIN q : q[i][1] = e[1] => q[i][2] < e[2]
    PROVE  InTurn(Append(q, e))
<1> DEFINE p == Append(q, e)
<1>1. /\ Len(q) \in Nat /\ DOMAIN q = 1 .. Len(q) /\ DOMAIN p = 1 .. Len(q) + 1
      /\ \A i \in DOMAIN q : p[i] = q[i]
      /\ p[Len(q) + 1] = e
  BY AppendProperties
<1> HIDE DEF p
<1>2. SUFFICES ASSUME NEW i \in DOMAIN p, NEW j \in DOMAIN p, i < j, p[i][1] = p[j][1]
               PROVE  p[i][2] < p[j][2]
  BY DEF InTurn, p
<1>3. i \in DOMAIN q /\ p[i] = q[i]  BY <1>1, <1>2
<1>4. CASE j \in DOMAIN q  BY <1>1, <1>2, <1>3, <1>4 DEF InTurn
<1>5. CASE j = Len(q) + 1  BY <1>1, <1>2, <1>3, <1>5
<1>6. QED  BY <1>1, <1>4, <1>5

\* The order of what was received follows from the order of what was sent.
LEMMA ReceivedInOrder ==
    ASSUME NEW r \in Seq(Events), NEW b \in Seq(Events), InTurn(r \o b),
           \A i \in DOMAIN r : r[i] = Done => i = Len(r)
    PROVE  \A i, j \in DOMAIN r :
             i < j => r[i] # Done /\ (r[i][1] = r[j][1] => r[i][2] < r[j][2])
<1> DEFINE q == r \o b
<1>1. Len(r) \in Nat /\ Len(b) \in Nat /\ DOMAIN r = 1 .. Len(r)  OBVIOUS
<1>3. \A k \in DOMAIN r : k \in DOMAIN q /\ q[k] = r[k]  BY QueueParts
<1>4. \A i, j \in DOMAIN q : i < j /\ q[i][1] = q[j][1] => q[i][2] < q[j][2]  BY DEF InTurn
<1> HIDE DEF q
<1>5. TAKE i, j \in DOMAIN r
<1>6. HAVE i < j
<1>7. r[i] # Done  BY <1>1, <1>6
<1>8. q[i] = r[i] /\ q[j] = r[j] /\ i \in DOMAIN q /\ j \in DOMAIN q  BY <1>3
<1>9. QED  BY <1>4, <1>6, <1>7, <1>8

\* What an event is: the result of a worker, or "done".
LEMMA EventFacts ==
    /\ Done \in Events /\ Done[1] = Runner /\ Done # Nothing
    /\ \A e \in Events : e # Done => e[1] \in Workers /\ e[1] # Runner
    /\ \A w \in Workers, n \in 1 .. NumResults :
         /\ <<w, n>> \in Events /\ <<w, n>> # Done
         /\ <<w, n>>[1] = w /\ <<w, n>>[2] = n
    /\ \A e \in Events : e[2] \in Nat
    /\ Runner \notin Workers /\ Casters = Workers \union {Runner}
BY NamesAssumption, SizesAssumption DEF Events, Done, Nothing, Casters

-----------------------------------------------------------------------------
(* The invariant from its parts, and what an action keeps. *)

\* What there is to know of a state in which the process lives.
LEMMA Alive ==
    ASSUME StreamInv, ~Dead
    PROVE  TypeOK /\ StreamInOrder /\ CastInv /\ CountInv /\ \A s \in Clients : ClientInv(s)
BY DEF StreamInv, LiveInv

LEMMA Reassemble ==
    ASSUME TypeOK', CastInv', CountInv', \A s \in Clients : ClientInv(s)'
    PROVE  StreamInv'
<1>1. ~Dead'  BY DEF CastInv, Dead
<1>2. StreamInOrder'
  <2>1. SUFFICES ASSUME NEW s \in Clients
                 PROVE  \A i, j \in DOMAIN received'[s] :
                          i < j => /\ received'[s][i] # Done
                                   /\ received'[s][i][1] = received'[s][j][1] =>
                                        received'[s][i][2] < received'[s][j][2]
    BY DEF StreamInOrder
  <2>2. received'[s] \in Seq(Events) /\ buf'[s] \in Seq(Events)  BY DEF TypeOK
  <2>3. InTurn(received'[s] \o buf'[s])  BY DEF ClientInv, InTurn, Queue
  <2>4. \A i \in DOMAIN received'[s] : received'[s][i] = Done => i = Len(received'[s])
    BY DEF ClientInv
  <2>5. QED  BY <2>2, <2>3, <2>4, ReceivedInOrder
<1>3. QED  BY <1>1, <1>2 DEF StreamInv, LiveInv

\* What concerns client s, with its own state as it was.
LEMMA ClientFrame ==
    ASSUME NEW s \in Clients, TypeOK, ClientInv(s),
           clientPc'[s] = clientPc[s], buf'[s] = buf[s], received'[s] = received[s],
           s \in joined' <=> s \in joined,
           \A e \in Events : SentBefore(s, e) => SentBefore(s, e)',
           \A e \in owed'[s] : \/ e \in owed[s] /\ (Pending(s, e) => Pending(s, e)')
                              \/ Pending(s, e)',
           aborted => aborted',
           Outside(s) => owed'[s] = {} /\ \A b \in Casters : s \notin todo'[b],
           ~aborted /\ clientPc[s] = "cleanup" => Late' /\ owed'[s] = {}
    PROVE  ClientInv(s)'
<1>1. Queue(s) \in Seq(Events)
  <2>1. received[s] \in Seq(Events) /\ buf[s] \in Seq(Events)  BY DEF TypeOK
  <2>2. QED  BY <2>1, QueueParts DEF Queue
<1>2. Queue(s)' = Queue(s)  BY DEF Queue
<1>3. \A i \in DOMAIN Queue(s) : Queue(s)[i] \in Events  BY <1>1
<1>4. \A i \in DOMAIN Queue(s)' : SentBefore(s, Queue(s)[i])'
  <2>1. TAKE i \in DOMAIN Queue(s)'
  <2>2. Queue(s)[i] \in Events /\ SentBefore(s, Queue(s)[i])  BY <1>2, <1>3 DEF ClientInv
  <2>3. \A e \in Events : e = Queue(s)[i] => SentBefore(s, e)'  BY <2>2
  <2>4. \A e \in Events : e = Queue(s)'[i] => SentBefore(s, e)'  BY <1>2, <2>3
  <2>5. QED  BY <1>2, <2>2, <2>4 DEF SentBefore
<1>5. InTurn(Queue(s))'  BY <1>2 DEF ClientInv, InTurn
<1>6. \A e \in owed'[s] : (\E i \in DOMAIN buf'[s] : buf'[s][i] = e) \/ Pending(s, e)'
  BY DEF ClientInv
<1>7. Outside(s)' <=> Outside(s)  BY DEF Outside
<1>8. QED  BY <1>4, <1>5, <1>6, <1>7 DEF ClientInv

\* A step of the job's goroutines that leaves the clients alone, and what is owed to
\* them, keeps what was sent as sent and what is pending as pending.
LEMMA QuietFrame ==
    ASSUME TypeOK, CountInv, \A s \in Clients : ClientInv(s),
           UNCHANGED <<clientVars, joined, buf, owed>>,
           aborted => aborted', Late => Late',
           \A s \in Clients, e \in Events : SentBefore(s, e) => SentBefore(s, e)',
           \A s \in Clients, e \in Events : Pending(s, e) => Pending(s, e)',
           \A s \in Clients, b \in Casters : s \in todo'[b] => s \in todo[b] \/ s \in joined
    PROVE  CountInv' /\ \A s \in Clients : ClientInv(s)'
<1> USE DEF clientVars
<1>1. CountInv'  BY DEF CountInv, Open
<1>2. ASSUME NEW s \in Clients  PROVE ClientInv(s)'
  <2>1. owed[s] \subseteq Events  BY DEF TypeOK
  <2>2. Outside(s) => owed'[s] = {} /\ \A b \in Casters : s \notin todo'[b]  BY DEF ClientInv
  <2>3. ~aborted /\ clientPc[s] = "cleanup" => Late' /\ owed'[s] = {}  BY DEF ClientInv
  <2>4. QED  BY <2>1, <2>2, <2>3, ClientFrame
<1>3. QED  BY <1>1, <1>2

\* A worker takes a task, or comes back from a broadcast.
LEMMA StartPreserves ==
    ASSUME StreamInv, ~Dead, NEW w \in Workers, Start(w)
    PROVE  StreamInv'
<1> USE Alive, EventFacts DEF Start, CastGoto
<1>1. TypeOK'
  <2>1. started' \in 0 .. NumResults  BY SizesAssumption DEF TypeOK
  <2>2. QED  BY <2>1 DEF TypeOK, clientVars, chanVars
<1>2. CastInv'
  BY SMTT(30), SizesAssumption DEF TypeOK, CastInv, Busy, Late, PoolOver, clientVars, chanVars
<1>3. \A s \in Clients, e \in Events : SentBefore(s, e) => SentBefore(s, e)'
  BY DEF TypeOK, SentBefore, Late
<1>4. \A s \in Clients, e \in Events : Pending(s, e) => Pending(s, e)'
  BY DEF TypeOK, Pending
<1>5. CountInv' /\ \A s \in Clients : ClientInv(s)'
  BY <1>3, <1>4, QuietFrame DEF TypeOK, Late, chanVars
<1>6. QED  BY <1>1, <1>2, <1>5, Reassemble

LEMMA EndResultPreserves ==
    ASSUME StreamInv, ~Dead, NEW w \in Workers, EndResult(w)
    PROVE  StreamInv'
<1> USE Alive, EventFacts DEF EndResult, CastGoto, Released
<1>0. cast[w] + 1 <= started  BY DEF CastInv, Busy, TypeOK
<1>1. TypeOK'
  <2>1. cast'[w] \in 0 .. NumResults  BY <1>0, SizesAssumption DEF TypeOK
  <2>2. QED  BY <2>1 DEF TypeOK, clientVars, chanVars, jobVars
<1>2. CastInv'
  BY <1>0, SizesAssumption DEF TypeOK, CastInv, Busy, Late, PoolOver, clientVars, chanVars, jobVars
<1>3. \A s \in Clients, e \in Events : SentBefore(s, e) => SentBefore(s, e)'
  BY DEF TypeOK, SentBefore, Late
<1>4. \A s \in Clients, e \in Events : Pending(s, e) => Pending(s, e)'
  BY DEF TypeOK, Pending
<1>5. CountInv' /\ \A s \in Clients : ClientInv(s)'
  BY <1>3, <1>4, QuietFrame DEF TypeOK, Late, chanVars, jobVars
<1>6. QED  BY <1>1, <1>2, <1>5, Reassemble

\* The goroutine of the job goes on, without a broadcast before or after it; a context
\* ends; a cancel request writes the record.
LEMMA RunPreserves ==
    ASSUME StreamInv, ~Dead,
           Begin \/ PoolReturns \/ PoolAborts \/ Save \/ CtxEnd \/ CancelWrite
    PROVE  StreamInv'
<1> USE Alive, EventFacts
<1>0. /\ UNCHANGED <<started, event, todo, cast, clientVars, joined, chanVars, owed>>
      /\ aborted => aborted'
      /\ \A w \in Workers : castPc'[w] = castPc[w]
      /\ \/ castPc'[Runner] = castPc[Runner]
         \/ castPc[Runner] = "begin" /\ castPc'[Runner] = "pool"
         \/ castPc[Runner] = "pool" /\ castPc'[Runner] = "save" /\ (aborted' \/ PoolOver)
         \/ castPc[Runner] = "save" /\ castPc'[Runner] = "announce"
  BY DEF Begin, PoolReturns, PoolAborts, Save, CtxEnd, CancelWrite, CastGoto, TypeOK, jobVars, castVars
<1>1. TypeOK'
  <2> USE DEF TypeOK, CastGoto, clientVars, chanVars
  <2>1. CASE Begin        BY <2>1 DEF Begin
  <2>2. CASE PoolReturns  BY <2>2 DEF PoolReturns, jobVars
  <2>3. CASE PoolAborts   BY <2>3 DEF PoolAborts
  <2>4. CASE Save         BY <2>4 DEF Save
  <2>5. CASE CtxEnd       BY <2>5 DEF CtxEnd, castVars
  <2>6. CASE CancelWrite  BY <2>6 DEF CancelWrite, castVars
  <2>7. QED  BY <2>1, <2>2, <2>3, <2>4, <2>5, <2>6
<1>2. CastInv'
  BY <1>0 DEF CastInv, Busy, Late, PoolOver, chanVars
<1>3. \A s \in Clients, e \in Events : SentBefore(s, e) => SentBefore(s, e)'
  BY <1>0 DEF SentBefore, Late
<1>4. \A s \in Clients, e \in Events : Pending(s, e) => Pending(s, e)'
  BY <1>0 DEF Pending
<1>5. CountInv' /\ \A s \in Clients : ClientInv(s)'
  BY <1>0, <1>3, <1>4, QuietFrame DEF Late, chanVars
<1>6. QED  BY <1>1, <1>2, <1>5, Reassemble

\* closeSubscribers: nothing is left to visit of the broadcast before.
LEMMA ClosePreserves ==
    ASSUME StreamInv, ~Dead, Forget \/ (\E s \in Clients : Close(s)) \/ RunnerEnds
    PROVE  StreamInv'
<1> USE Alive, EventFacts
<1>0. /\ UNCHANGED <<started, aborted, cast, clientVars, joined, buf, owed>>
      /\ \A w \in Workers : castPc'[w] = castPc[w] /\ event'[w] = event[w] /\ todo'[w] = todo[w]
      /\ Late /\ castPc'[Runner] \in {"closing", "gone"}
      /\ castPc[Runner] = "sending" => todo[Runner] = {}
      /\ todo'[Runner] \subseteq todo[Runner] \union joined
  BY DEF Forget, Close, RunnerEnds, Released, CastGoto, TypeOK, Late, Closing, Members, jobVars, chanVars
<1>1. TypeOK'
  <2>1. CASE Forget  BY <2>1 DEF TypeOK, Forget, CastGoto, Closing, Members, clientVars, chanVars, jobVars
  <2>2. ASSUME NEW s \in Clients, Close(s)  PROVE TypeOK'  BY <2>2 DEF TypeOK, Close, clientVars, jobVars
  <2>3. CASE RunnerEnds
    BY <2>3 DEF TypeOK, RunnerEnds, CastGoto, Released, clientVars, chanVars, jobVars
  <2>4. QED  BY <2>1, <2>2, <2>3
<1>2. CastInv'
  BY <1>0 DEF CastInv, Busy, Late, PoolOver
<1>3. \A s \in Clients, e \in Events : SentBefore(s, e) => SentBefore(s, e)'
  BY <1>0 DEF SentBefore, Late
<1>4. \A s \in Clients, e \in Events : Pending(s, e) => Pending(s, e)'
  BY <1>0 DEF Pending, Late
<1>5. CountInv' /\ \A s \in Clients : ClientInv(s)'
  BY <1>0, <1>3, <1>4, QuietFrame DEF Late
<1>6. QED  BY <1>1, <1>2, <1>5, Reassemble

-----------------------------------------------------------------------------
(* Broadcasts. *)

\* A broadcast begins: its event is new, and owed to the clients its Range will visit.
LEMMA LoadPreserves ==
    ASSUME TypeOK, CastInv, CountInv, \A s \in Clients : ClientInv(s),
           NEW b \in Casters, NEW e \in Events, Load(b, e), CastGoto(b, "sending"),
           castPc[b] \in {"execute", "announce"},
           \A w \in Workers : e[1] = w => w = b /\ castPc[w] = "execute",
           e = Done => b = Runner,
           UNCHANGED <<jobVars, cast, entry, deleted, clientVars, joined, chanVars>>
    PROVE  CountInv' /\ \A s \in Clients : ClientInv(s)'
<1> USE DEF Load, CastGoto, clientVars, chanVars, jobVars
<1>0. b # Runner <=> b \in Workers  BY EventFacts
<1>1. CountInv'  BY DEF CountInv, Open
<1>2. Late => Late' /\ (aborted \/ b = Runner)
  BY <1>0 DEF CastInv, Late, PoolOver, TypeOK
<1>3. ASSUME NEW s \in Clients  PROVE ClientInv(s)'
  <2>1. \A f \in Events : SentBefore(s, f) => SentBefore(s, f)'
    BY <1>0, <1>2, EventFacts DEF SentBefore, TypeOK, Late, CastInv
  <2>2. Pending(s, e)' \/ s \notin Members(entry)  BY DEF Pending, TypeOK
  <2>3. \A f \in Events : Pending(s, f) => Pending(s, f)'  BY DEF Pending, TypeOK
  <2>4. owed[s] \subseteq Events  BY DEF TypeOK
  <2>5. \A f \in owed'[s] : (f \in owed[s] /\ (Pending(s, f) => Pending(s, f)')) \/ Pending(s, f)'
    BY <2>2, <2>3, <2>4 DEF TypeOK
  <2>6. Outside(s) => owed'[s] = {} /\ \A a \in Casters : s \notin todo'[a]
    BY DEF ClientInv, Members, TypeOK
  <2>7. ~aborted /\ clientPc[s] = "cleanup" => Late' /\ owed'[s] = {}
    <3>1. SUFFICES ASSUME ~aborted, clientPc[s] = "cleanup"  PROVE FALSE
      OBVIOUS
    <3>2. Late  BY <3>1 DEF ClientInv
    <3>3. QED  BY <1>2, <3>1, <3>2, EventFacts DEF Late, CastInv
  <2>8. QED  BY <2>1, <2>5, <2>6, <2>7, ClientFrame
<1>4. QED  BY <1>1, <1>3

LEMMA LoadTypes ==
    ASSUME TypeOK, NEW b \in Casters, NEW e \in Events, Load(b, e), CastGoto(b, "sending"),
           UNCHANGED <<jobVars, cast, entry, deleted, clientVars, joined, chanVars>>
    PROVE  TypeOK'
<1> USE DEF TypeOK, Load, CastGoto
<1>1. event' \in [Casters -> Events \union {Nothing}]  OBVIOUS
<1>2. owed' \in [Clients -> SUBSET Events]
  <2>1. \A s \in Clients : owed[s] \union {e} \in SUBSET Events  OBVIOUS
  <2>2. QED  BY <2>1
<1>3. todo' \in [Casters -> SUBSET Clients]  BY DEF Members
<1>4. QED  BY <1>1, <1>2, <1>3 DEF clientVars, chanVars, jobVars

LEMMA OnResultPreserves ==
    ASSUME StreamInv, ~Dead, NEW w \in Workers, OnResult(w)
    PROVE  StreamInv'
<1> DEFINE e == <<w, cast[w] + 1>>
<1>0. TypeOK /\ CastInv /\ CountInv /\ \A s \in Clients : ClientInv(s)  BY Alive
<1>1. cast[w] + 1 \in 1 .. NumResults
  BY <1>0, SizesAssumption DEF OnResult, CastInv, Busy, TypeOK
<1>2. e \in Events /\ e # Done /\ e[1] = w /\ w \in Casters  BY <1>1, EventFacts
<1>3. /\ castPc[w] = "execute" /\ Load(w, e) /\ CastGoto(w, "sending")
      /\ UNCHANGED <<jobVars, cast, entry, deleted, clientVars, joined, chanVars>>
      /\ event' = [event EXCEPT ![w] = <<w, cast[w] + 1>>]
  BY DEF OnResult, Load
<1> HIDE DEF e
<1>4. TypeOK'  BY <1>0, <1>2, <1>3, LoadTypes
<1>5. CastInv'
  BY <1>0, <1>3, EventFacts DEF TypeOK, CastInv, Busy, Late, PoolOver, CastGoto, chanVars, jobVars
<1>6. CountInv' /\ \A s \in Clients : ClientInv(s)'
  <2>1. castPc[w] \in {"execute", "announce"}  BY <1>3
  <2>2. \A v \in Workers : e[1] = v => v = w /\ castPc[v] = "execute"  BY <1>2, <1>3
  <2>3. e = Done => w = Runner  BY <1>2
  <2>4. QED  BY <1>0, <1>2, <1>3, <2>1, <2>2, <2>3, LoadPreserves
<1>7. QED  BY <1>4, <1>5, <1>6, Reassemble

LEMMA AnnouncePreserves ==
    ASSUME StreamInv, ~Dead, Announce
    PROVE  StreamInv'
<1>0. TypeOK /\ CastInv /\ CountInv /\ \A s \in Clients : ClientInv(s)  BY Alive
<1>1. /\ castPc[Runner] = "announce" /\ Load(Runner, Done) /\ CastGoto(Runner, "sending")
      /\ UNCHANGED <<jobVars, cast, entry, deleted, clientVars, joined, chanVars>>
      /\ event' = [event EXCEPT ![Runner] = Done]
  BY DEF Announce, Load
<1>2. Runner \in Casters /\ Done \in Events  BY EventFacts
<1>3. TypeOK'  BY <1>0, <1>1, <1>2, LoadTypes
<1>4. CastInv'
  BY <1>0, <1>1, EventFacts DEF TypeOK, CastInv, Busy, Late, PoolOver, CastGoto, chanVars, jobVars
<1>5. CountInv' /\ \A s \in Clients : ClientInv(s)'
  <2>1. castPc[Runner] \in {"execute", "announce"}  BY <1>1
  <2>2. \A v \in Workers : Done[1] = v => v = Runner /\ castPc[v] = "execute"  BY EventFacts
  <2>3. QED  BY <1>0, <1>1, <1>2, <2>1, <2>2, LoadPreserves
<1>6. QED  BY <1>3, <1>4, <1>5, Reassemble

\* What comes after the events sent to a client, while its broadcast is at the client.
LEMMA ComesLast ==
    ASSUME TypeOK, CastInv, NEW s \in Clients, ClientInv(s),
           NEW b \in Casters, castPc[b] = "sending", s \in todo[b]
    PROVE  /\ event[b] \in Events
           /\ \A i \in DOMAIN Queue(s) :
                Queue(s)[i][1] = event[b][1] => Queue(s)[i][2] < event[b][2]
           /\ ~aborted \/ b = Runner => \A i \in DOMAIN Queue(s) : Queue(s)[i] # Done
<1>1. Queue(s) \in Seq(Events)
  <2>1. received[s] \in Seq(Events) /\ buf[s] \in Seq(Events)  BY DEF TypeOK
  <2>2. QED  BY <2>1, QueueParts DEF Queue
<1>2. \A i \in DOMAIN Queue(s) : Queue(s)[i] \in Events /\ SentBefore(s, Queue(s)[i])
  BY <1>1 DEF ClientInv
<1>3. CASE b = Runner
  <2>1. event[b] = Done  BY <1>3 DEF CastInv
  <2>2. \A i \in DOMAIN Queue(s) : Queue(s)[i] # Done
    BY <1>2, <1>3 DEF SentBefore
  <2>3. QED  BY <1>2, <2>1, <2>2, EventFacts
<1>4. CASE b \in Workers
  <2>1. event[b] = <<b, cast[b] + 1>>  BY <1>4 DEF CastInv
  <2>2. cast[b] \in Nat /\ cast[b] + 1 \in 1 .. NumResults
    BY <1>4, SizesAssumption DEF CastInv, Busy, TypeOK
  <2>3. event[b] \in Events /\ event[b][1] = b /\ event[b][2] = cast[b] + 1
    BY <1>4, <2>1, <2>2, EventFacts
  <2>4. ASSUME NEW i \in DOMAIN Queue(s), Queue(s)[i][1] = b
        PROVE  Queue(s)[i][2] < cast[b] + 1
    <3>1. Queue(s)[i][2] <= cast[b]  BY <1>2, <1>4, <2>4 DEF SentBefore
    <3>2. QED  BY <1>2, <2>2, <3>1, EventFacts
  <2>5. ~aborted => ~Late  BY <1>4 DEF CastInv, PoolOver
  <2>6. ~aborted => \A i \in DOMAIN Queue(s) : Queue(s)[i] # Done
    BY <1>2, <2>5 DEF SentBefore
  <2>7. QED  BY <1>4, <2>3, <2>4, <2>6, EventFacts
<1>5. QED  BY <1>3, <1>4, EventFacts

\* A broadcast has been at a client, whose channel was full or took the event.
LEMMA VisitPreserves ==
    ASSUME TypeOK, CastInv, CountInv, \A q \in Clients : ClientInv(q),
           NEW b \in Casters, NEW s \in Clients,
           castPc[b] = "sending", s \in todo[b], todo' = [todo EXCEPT ![b] = Unvisited(b, s)],
           \/ owed' = [owed EXCEPT ![s] = @ \ {event[b]}] /\ UNCHANGED buf
           \/ buf' = Sent(b, s) /\ ~Full(s) /\ UNCHANGED owed,
           UNCHANGED <<jobVars, castPc, event, ranged, cast, entry, deleted, clientVars, joined, closed>>
    PROVE  StreamInv'
<1> USE DEF Unvisited, jobVars, clientVars
<1>0. TypeOK'
  <2>1. CASE owed' = [owed EXCEPT ![s] = @ \ {event[b]}] /\ UNCHANGED buf
    BY <2>1 DEF TypeOK
  <2>2. CASE buf' = Sent(b, s) /\ ~Full(s) /\ UNCHANGED owed
    <3>1. event[b] \in Events /\ buf[s] \in Seq(Events)  BY ComesLast DEF TypeOK
    <3>2. /\ Append(buf[s], event[b]) \in Seq(Events)
          /\ Len(Append(buf[s], event[b])) = Len(buf[s]) + 1 /\ Len(buf[s]) \in Nat
      BY <3>1, AppendProperties
    <3>3. Len(buf[s]) + 1 <= BufCap  BY <2>2, <3>2, SizesAssumption DEF Full
    <3>4. buf' \in [Clients -> Seq(Events)] /\ \A q \in Clients : Len(buf'[q]) <= BufCap
      BY <2>2, <3>2, <3>3 DEF Sent, TypeOK
    <3>5. QED  BY <2>2, <3>4 DEF TypeOK
  <2>3. QED  BY <2>1, <2>2
<1>1. CastInv'
  BY DEF CastInv, Busy, Late, PoolOver
<1>2. CountInv'  BY DEF CountInv, Open
<1>3. \A q \in Clients, e \in Events : SentBefore(q, e) => SentBefore(q, e)'
  BY DEF SentBefore, Late, TypeOK
<1>4. \A q \in Clients, e \in Events : Pending(q, e) =>
        Pending(q, e)' \/ (q = s /\ e = event[b])
  BY DEF Pending, TypeOK
<1>5. ~Outside(s)  BY DEF ClientInv
<1>6. ASSUME NEW q \in Clients, q # s \/ UNCHANGED buf  PROVE ClientInv(q)'
  <2>1. owed'[q] \subseteq owed[q] /\ owed[q] \subseteq Events /\ buf'[q] = buf[q]
    BY <1>6 DEF TypeOK, Sent
  <2>2. q = s => event[b] \notin owed'[q]
    BY <1>6, AppendProperties DEF TypeOK, Sent
  <2>3. \A e \in owed'[q] : e \in owed[q] /\ (Pending(q, e) => Pending(q, e)')
    BY <1>4, <2>1, <2>2
  <2>4. Outside(q) => owed'[q] = {} /\ \A a \in Casters : q \notin todo'[a]
    BY <2>1 DEF ClientInv, TypeOK
  <2>5. ~aborted /\ clientPc[q] = "cleanup" => Late' /\ owed'[q] = {}
    BY <2>1 DEF ClientInv, Late
  <2>6. QED  BY <1>3, <2>1, <2>3, <2>4, <2>5, ClientFrame
<1>7. ASSUME buf' = Sent(b, s), UNCHANGED owed  PROVE ClientInv(s)'
  <2> DEFINE e == event[b]
             q == Queue(s)
  <2>1. /\ received[s] \in Seq(Events) /\ buf[s] \in Seq(Events) /\ e \in Events
        /\ received'[s] = received[s] /\ buf'[s] = Append(buf[s], e)
    BY <1>7, ComesLast DEF TypeOK, Sent
  <2>2. /\ Len(buf[s]) \in Nat /\ DOMAIN buf[s] = 1 .. Len(buf[s])
        /\ Len(buf'[s]) = Len(buf[s]) + 1 /\ DOMAIN buf'[s] = 1 .. Len(buf[s]) + 1
        /\ \A i \in DOMAIN buf[s] : buf'[s][i] = buf[s][i]
        /\ buf'[s][Len(buf[s]) + 1] = e
    BY <2>1, AppendProperties
  <2>3. q \in Seq(Events)  BY <2>1, QueueParts DEF Queue
  <2>4. Queue(s)' = Append(q, e)  BY ZenonT(30), <2>1, SendQueue DEF Queue
  <2>5. InTurn(Append(q, e))
    <3>1. InTurn(q)  BY DEF ClientInv
    <3>2. \A i \in DOMAIN q : q[i][1] = e[1] => q[i][2] < e[2]  BY ComesLast
    <3>3. QED  BY <2>1, <2>3, <3>1, <3>2, InTurnAppend
  <2>6. SentBefore(s, e)'
    <3>1. s \notin todo'[b] /\ castPc'[b] = "sending"  BY DEF TypeOK
    <3>2. CASE b = Runner  BY <3>1, <3>2, EventFacts DEF SentBefore, CastInv, Late
    <3>3. CASE b \in Workers
      <4>1. e = <<b, cast[b] + 1>>  BY <3>3 DEF CastInv
      <4>2. cast[b] + 1 \in 1 .. NumResults
        BY <3>3, SizesAssumption DEF CastInv, Busy, TypeOK
      <4>3. e # Done /\ e[1] = b /\ e[2] = cast[b] + 1  BY <3>3, <4>1, <4>2, EventFacts
      <4>4. QED  BY <3>1, <3>3, <4>3 DEF SentBefore
    <3>4. QED  BY <3>2, <3>3, EventFacts
  <2>7. \A i \in DOMAIN Queue(s)' : SentBefore(s, Queue(s)[i])'
    <3>1. TAKE i \in DOMAIN Queue(s)'
    <3>2. /\ Len(q) \in Nat /\ DOMAIN q = 1 .. Len(q) /\ DOMAIN Append(q, e) = 1 .. Len(q) + 1
          /\ \A j \in DOMAIN q : Append(q, e)[j] = q[j] /\ q[j] \in Events
          /\ Append(q, e)[Len(q) + 1] = e
      BY <2>1, <2>3, AppendProperties
    <3>3. CASE i \in DOMAIN q
      <4>1. q[i] \in Events /\ SentBefore(s, q[i]) /\ Queue(s)'[i] = q[i]
        BY <2>4, <3>2, <3>3 DEF ClientInv
      <4>2. \A f \in Events : f = q[i] => SentBefore(s, f)'  BY <1>3, <4>1
      <4>3. \A f \in Events : f = Queue(s)'[i] => SentBefore(s, f)'  BY <4>1, <4>2
      <4>4. QED  BY <4>1, <4>3 DEF SentBefore
    <3>4. CASE i = Len(q) + 1
      <4>1. Queue(s)'[i] = event'[b]  BY <2>4, <3>2, <3>4
      <4>2. QED  BY <2>6, <4>1 DEF SentBefore
    <3>5. QED  BY <2>4, <3>2, <3>3, <3>4
  <2>8. ~aborted => \A i \in DOMAIN buf'[s] : buf'[s][i] = Done => i = Len(buf'[s])
    <3>1. SUFFICES ASSUME ~aborted, NEW i \in DOMAIN buf[s]  PROVE buf[s][i] # Done
      BY <2>2
    <3>2. \A j \in DOMAIN buf[s] :
            Len(received[s]) + j \in DOMAIN q /\ q[Len(received[s]) + j] = buf[s][j]
      BY <2>1, QueueParts DEF Queue
    <3> HIDE DEF q
    <3>3. \A j \in DOMAIN q : q[j] # Done  BY <3>1, ComesLast DEF q
    <3>4. QED  BY <3>2, <3>3
  <2>9. \A f \in owed'[s] : (\E i \in DOMAIN buf'[s] : buf'[s][i] = f) \/ Pending(s, f)'
    <3>1. TAKE f \in owed'[s]
    <3>2. f \in owed[s] /\ f \in Events  BY <1>7 DEF TypeOK
    <3>3. CASE \E i \in DOMAIN buf[s] : buf[s][i] = f  BY <2>2, <3>3
    <3>4. CASE Pending(s, f)  BY <1>4, <2>2, <3>2, <3>4
    <3>5. QED  BY <3>2, <3>3, <3>4 DEF ClientInv
  <2>10. QED
    BY <1>5, <1>7, <2>1, <2>4, <2>5, <2>7, <2>8, <2>9 DEF ClientInv, Outside, Late, InTurn
<1>8. QED  BY <1>0, <1>1, <1>2, <1>6, <1>7, Reassemble

\* A send on a closed channel means that RunJobPool has left its workers behind.
LEMMA PanicPreserves ==
    ASSUME StreamInv, ~Dead, NEW b \in Casters, NEW s \in Clients, Send(b, s), s \in closed, Panic
    PROVE  StreamInv'
<1>0. TypeOK /\ StreamInOrder /\ CastInv  BY Alive
<1>1. b \in Workers /\ castPc[b] = "sending"
  BY <1>0, EventFacts DEF Send, CastInv
<1>2. aborted  BY <1>0, <1>1 DEF CastInv, PoolOver, Late
<1>3. /\ UNCHANGED <<jobVars, event, ranged, cast, entry, deleted, slot, received, activeWS, joined,
                     closed, buf, owed>>
      /\ todo' = [todo EXCEPT ![b] = Unvisited(b, s)]
  BY DEF Send
<1>4. TypeOK'
  BY <1>0, <1>3 DEF TypeOK, Panic, jobVars, Unvisited
<1>5. StreamInOrder'  BY <1>0, <1>3 DEF StreamInOrder
<1>6. Dead' /\ AllDead'  BY EventFacts DEF Dead, AllDead, Panic
<1>7. QED  BY <1>2, <1>3, <1>4, <1>5, <1>6 DEF StreamInv, jobVars

LEMMA SendPreserves ==
    ASSUME StreamInv, ~Dead, NEW b \in Casters, NEW s \in Clients, Send(b, s)
    PROVE  StreamInv'
<1>1. CASE s \in closed /\ Panic  BY <1>1, PanicPreserves
<1>2. CASE ~(s \in closed /\ Panic)
  <2>1. /\ castPc[b] = "sending" /\ s \in todo[b] /\ todo' = [todo EXCEPT ![b] = Unvisited(b, s)]
        /\ \/ owed' = [owed EXCEPT ![s] = @ \ {event[b]}] /\ UNCHANGED buf
           \/ buf' = Sent(b, s) /\ ~Full(s) /\ UNCHANGED owed
        /\ UNCHANGED <<jobVars, castPc, event, ranged, cast, entry, deleted, clientVars, joined, closed>>
    BY <1>2 DEF Send, clientVars
  <2>2. QED  BY <2>1, Alive, VisitPreserves
<1>3. QED  BY <1>1, <1>2

-----------------------------------------------------------------------------
(* The clients. *)

\* A step of one client leaves the job's goroutines and the other clients alone.
LEMMA OthersFrame ==
    ASSUME TypeOK, CastInv, \A q \in Clients : ClientInv(q), NEW s \in Clients,
           UNCHANGED <<jobVars, castPc, event, cast>>, closed' \subseteq closed,
           \A q \in Clients \ {s} :
             /\ clientPc'[q] = clientPc[q] /\ buf'[q] = buf[q] /\ received'[q] = received[q]
             /\ owed'[q] = owed[q] /\ (q \in joined' <=> q \in joined)
             /\ \A b \in Casters : q \in todo'[b] <=> q \in todo[b]
    PROVE  CastInv' /\ \A q \in Clients \ {s} : ClientInv(q)'
<1> USE DEF jobVars
<1>1. CastInv'  BY DEF CastInv, Busy, Late, PoolOver
<1>2. ASSUME NEW q \in Clients \ {s}  PROVE ClientInv(q)'
  <2>1. \A e \in Events : SentBefore(q, e) => SentBefore(q, e)'
    BY EventFacts DEF SentBefore, Late
  <2>2. \A e \in owed'[q] : e \in owed[q] /\ (Pending(q, e) => Pending(q, e)')
    BY DEF Pending
  <2>3. Outside(q) => owed'[q] = {} /\ \A b \in Casters : q \notin todo'[b]
    BY DEF ClientInv
  <2>4. ~aborted /\ clientPc[q] = "cleanup" => Late' /\ owed'[q] = {}
    BY DEF ClientInv, Late
  <2>5. QED  BY <2>1, <2>2, <2>3, <2>4, ClientFrame
<1>3. QED  BY <1>1, <1>2

\* The counter of WebSocket clients stays right, and within its bounds.
LEMMA CountFrame ==
    ASSUME TypeOK, CountInv, NEW s \in Clients,
           \A q \in Clients \ {s} : clientPc'[q] = clientPc[q],
           \/ activeWS' = activeWS /\ (s \in Open' <=> s \in Open)
           \/ activeWS' = activeWS + 1 /\ s \in Open' \ Open
           \/ activeWS' = activeWS - 1 /\ s \in Open \ Open'
    PROVE  CountInv' /\ activeWS' \in 0 .. Cardinality(Ws)
<1>1. IsFiniteSet(Open) /\ IsFiniteSet(Open') /\ Open' \subseteq Ws
  BY SizesAssumption, FS_Subset DEF Open
<1>2. \A q \in Clients \ {s} : q \in Open' <=> q \in Open
  BY DEF Open
<1>3. Open \subseteq Clients /\ Open' \subseteq Clients  BY DEF Open, Clients
<1>4. activeWS' = Cardinality(Open')
  <2>1. CASE activeWS' = activeWS /\ (s \in Open' <=> s \in Open)
    <3>1. Open' = Open  BY <1>2, <1>3, <2>1
    <3>2. QED  BY <2>1, <3>1 DEF CountInv
  <2>2. CASE activeWS' = activeWS + 1 /\ s \in Open' \ Open
    <3>1. Open' = Open \union {s} /\ s \notin Open  BY <1>2, <1>3, <2>2
    <3>2. Cardinality(Open') = Cardinality(Open) + 1  BY <1>1, <3>1, FS_AddElement
    <3>3. QED  BY <2>2, <3>2 DEF CountInv
  <2>3. CASE activeWS' = activeWS - 1 /\ s \in Open \ Open'
    <3>1. Open' = Open \ {s} /\ s \in Open  BY <1>2, <1>3, <2>3
    <3>2. Cardinality(Open') = Cardinality(Open) - 1  BY <1>1, <3>1, FS_RemoveElement
    <3>3. QED  BY <2>3, <3>2 DEF CountInv
  <2>4. QED  BY <2>1, <2>2, <2>3
<1>5. Cardinality(Open') \in Nat /\ Cardinality(Open') <= Cardinality(Ws) /\ Cardinality(Ws) \in Nat
  BY <1>1, SizesAssumption, FS_Subset, FS_CardinalityType
<1>6. QED  BY <1>4, <1>5 DEF CountInv

\* A handler before it has subscribed.
LEMMA ComingPreserves ==
    ASSUME StreamInv, ~Dead, NEW s \in Clients, Get(s) \/ Limit(s) \/ Upgrade(s) \/ Join(s)
    PROVE  StreamInv'
<1>0. TypeOK /\ CastInv /\ CountInv /\ \A q \in Clients : ClientInv(q)  BY Alive
<1>1. /\ UNCHANGED <<jobVars, castVars, deleted, received, joined, chanVars, owed>>
      /\ \A q \in Clients \ {s} : clientPc'[q] = clientPc[q] /\ slot'[q] = slot[q]
      /\ \/ clientPc[s] = "get" /\ clientPc'[s] = "ended" /\ UNCHANGED activeWS
         \/ clientPc[s] = "get" /\ s \in Ws /\ clientPc'[s] = "limit" /\ UNCHANGED activeWS
         \/ clientPc[s] = "get" /\ s \in Sse /\ clientPc'[s] = "join" /\ UNCHANGED activeWS
         \/ clientPc[s] = "limit" /\ clientPc'[s] \in {"ended", "upgrade"} /\ UNCHANGED activeWS
         \/ clientPc[s] = "upgrade" /\ clientPc'[s] = "ended" /\ UNCHANGED activeWS
         \/ clientPc[s] = "upgrade" /\ clientPc'[s] = "join" /\ activeWS' = activeWS + 1
         \/ clientPc[s] = "join" /\ clientPc'[s] = "store" /\ UNCHANGED activeWS
  BY <1>0 DEF Get, Limit, Upgrade, Join, ClientGoto, TypeOK
<1>2. CountInv' /\ activeWS' \in 0 .. Cardinality(Ws)
  <2>1. s \in Sse => s \notin Ws  BY NamesAssumption
  <2>2. clientPc[s] \in {"limit", "upgrade"} => s \in Ws  BY <1>0 DEF ClientInv
  <2>3. \/ activeWS' = activeWS /\ (s \in Open' <=> s \in Open)
        \/ activeWS' = activeWS + 1 /\ s \in Open' \ Open
    BY <1>1, <2>1, <2>2 DEF Open
  <2>4. QED  BY <1>0, <1>1, <2>3, CountFrame
<1>3. TypeOK'
  <2>1. \E pc \in {"ended", "limit", "join", "upgrade", "store"} :
          clientPc' = [clientPc EXCEPT ![s] = pc]
    BY DEF Get, Limit, Upgrade, Join, ClientGoto
  <2>2. slot' \in [Clients -> {"none", "first", "late"}] /\ entry' \in {"none", "first", "late"}
    <3>1. \/ UNCHANGED <<slot, entry>>
          \/ entry' \in {entry, "first", "late"} /\ slot' = [slot EXCEPT ![s] = entry']
      BY DEF Get, Limit, Upgrade, Join
    <3>2. entry' \in {"none", "first", "late"}  BY <1>0, <3>1 DEF TypeOK
    <3>3. slot \in [Clients -> {"none", "first", "late"}]  BY <1>0 DEF TypeOK
    <3>4. QED  BY <3>1, <3>2, <3>3
  <2>3. clientPc' \in [Clients -> {"get", "limit", "upgrade", "join", "store", "loop", "cleanup",
                                   "quit", "ended", "dead"}]
    BY <1>0, <2>1 DEF TypeOK
  <2>4. QED  BY <1>0, <1>1, <1>2, <2>2, <2>3 DEF TypeOK, jobVars, castVars, chanVars
<1>4. CastInv' /\ \A q \in Clients \ {s} : ClientInv(q)'
  BY <1>0, <1>1, OthersFrame DEF castVars, chanVars
<1>5. ClientInv(s)'
  <2>1. Outside(s)  BY <1>1 DEF Outside
  <2>2. /\ buf'[s] = <<>> /\ received'[s] = <<>> /\ s \notin joined' /\ owed'[s] = {}
        /\ \A b \in Casters : s \notin todo'[b]
    BY <1>0, <1>1, <2>1 DEF ClientInv, castVars, chanVars
  <2>3. clientPc'[s] # "dead" /\ clientPc'[s] # "cleanup"
        /\ (clientPc'[s] \in {"limit", "upgrade"} => s \in Ws)
    BY <1>0, <1>1 DEF ClientInv
  <2>4. DOMAIN Queue(s)' = {}  BY <2>2 DEF Queue
  <2>5. QED  BY <2>2, <2>3, <2>4 DEF ClientInv, InTurn
<1>6. QED  BY <1>2, <1>3, <1>4, <1>5, Reassemble

\* A handler has subscribed: nothing was sent to it before.
LEMMA StorePreserves ==
    ASSUME StreamInv, ~Dead, NEW s \in Clients, Store(s)
    PROVE  StreamInv'
<1>0. TypeOK /\ CastInv /\ CountInv /\ \A q \in Clients : ClientInv(q)  BY Alive
<1>1. /\ UNCHANGED <<jobVars, castPc, event, ranged, cast, entry, deleted, slot, received, activeWS,
                     chanVars, owed>>
      /\ clientPc[s] = "store" /\ clientPc' = [clientPc EXCEPT ![s] = "loop"]
      /\ joined' = joined \union {s}
      /\ DOMAIN todo' = Casters
      /\ \A b \in Casters : todo'[b] = todo[b] \/ todo'[b] = todo[b] \union {s}
      /\ \E R \in SUBSET Casters :
           todo' = [b \in Casters |-> IF b \in R THEN todo[b] \union {s} ELSE todo[b]]
  BY DEF Store, ClientGoto
<1>2. CountInv' /\ activeWS' \in 0 .. Cardinality(Ws)
  <2>1. s \in Open' <=> s \in Open  BY <1>0, <1>1 DEF Open, TypeOK
  <2>2. QED  BY <1>0, <1>1, <2>1, CountFrame
<1>3. TypeOK'
  <2>1. todo' \in [Casters -> SUBSET Clients]  BY <1>0, <1>1 DEF TypeOK
  <2>2. QED  BY <1>0, <1>1, <2>1 DEF TypeOK, jobVars, chanVars
<1>4. CastInv' /\ \A q \in Clients \ {s} : ClientInv(q)'
  BY <1>0, <1>1, OthersFrame DEF chanVars
<1>5. ClientInv(s)'
  <2>1. buf'[s] = <<>> /\ received'[s] = <<>> /\ owed'[s] = {}
    BY <1>0, <1>1 DEF ClientInv, Outside, chanVars
  <2>2. clientPc'[s] = "loop"  BY <1>0, <1>1 DEF TypeOK
  <2>3. DOMAIN Queue(s)' = {}  BY <2>1 DEF Queue
  <2>4. QED  BY <2>1, <2>2, <2>3 DEF ClientInv, InTurn, Outside
<1>6. QED  BY <1>2, <1>3, <1>4, <1>5, Reassemble

\* Once "done" has been at a client, or its channel was closed, nothing more is under
\* way to it, unless RunJobPool has left its workers behind.
LEMMA NothingPending ==
    ASSUME CastInv, NEW s \in Clients, Late, ~aborted,
           castPc[Runner] = "sending" => s \notin todo[Runner]
    PROVE  \A e : ~Pending(s, e)
BY EventFacts DEF CastInv, PoolOver, Pending

\* An event is read, and "done" is the last one.
LEMMA ReceivePreserves ==
    ASSUME StreamInv, ~Dead, NEW s \in Clients, Receive(s)
    PROVE  StreamInv'
<1> DEFINE h == Head(buf[s])
           t == Tail(buf[s])
<1>0. TypeOK /\ CastInv /\ CountInv /\ ClientInv(s) /\ \A q \in Clients : ClientInv(q)  BY Alive
<1>1. /\ UNCHANGED <<jobVars, castVars, entry, deleted, slot, activeWS, joined, closed>>
      /\ clientPc[s] = "loop" /\ buf[s] # <<>>
      /\ received' = [received EXCEPT ![s] = Append(@, h)]
      /\ buf' = [buf EXCEPT ![s] = t]
      /\ owed' = [owed EXCEPT ![s] = @ \ {h}]
      /\ clientPc' = [clientPc EXCEPT ![s] = IF h = Done THEN "cleanup" ELSE "loop"]
  BY DEF Receive, ClientGoto
<1>2. received[s] \in Seq(Events) /\ buf[s] \in Seq(Events)  BY <1>0 DEF TypeOK
<1>3. /\ h \in Events /\ t \in Seq(Events) /\ Len(t) = Len(buf[s]) - 1 /\ Len(buf[s]) \in Nat \ {0}
      /\ DOMAIN buf[s] = 1 .. Len(buf[s]) /\ DOMAIN t = 1 .. Len(buf[s]) - 1
      /\ \A i \in 1 .. Len(buf[s]) - 1 : t[i] = buf[s][i + 1]
      /\ h = buf[s][1]
  BY <1>1, <1>2, HeadTailProperties
<1>4. /\ Append(received[s], h) \in Seq(Events) /\ Len(Append(received[s], h)) = Len(received[s]) + 1
      /\ Len(received[s]) \in Nat /\ DOMAIN received[s] = 1 .. Len(received[s])
      /\ DOMAIN Append(received[s], h) = 1 .. Len(received[s]) + 1
      /\ \A i \in DOMAIN received[s] : Append(received[s], h)[i] = received[s][i]
      /\ Append(received[s], h)[Len(received[s]) + 1] = h
  BY <1>2, <1>3, AppendProperties
<1>5. /\ received'[s] = Append(received[s], h) /\ buf'[s] = t /\ owed'[s] = owed[s] \ {h}
      /\ clientPc'[s] = IF h = Done THEN "cleanup" ELSE "loop"
  BY <1>0, <1>1 DEF TypeOK
<1>6. Queue(s)' = Queue(s)  BY ZenonT(30), <1>1, <1>2, <1>5, ReceiveQueue DEF Queue
<1> HIDE DEF h, t
<1>7. CountInv' /\ activeWS' \in 0 .. Cardinality(Ws)
  <2>1. s \in Open' <=> s \in Open  BY <1>1, <1>5 DEF Open
  <2>2. QED  BY <1>0, <1>1, <2>1, CountFrame
<1>8. TypeOK'
  <2>1. buf' \in [Clients -> Seq(Events)] /\ \A q \in Clients : Len(buf'[q]) <= BufCap
    BY SMTT(30), <1>0, <1>1, <1>3, SizesAssumption DEF TypeOK
  <2>2. received' \in [Clients -> Seq(Events)]  BY <1>0, <1>1, <1>4 DEF TypeOK
  <2>3. QED  BY <1>0, <1>1, <2>1, <2>2 DEF TypeOK, jobVars, castVars
<1>9. CastInv' /\ \A q \in Clients \ {s} : ClientInv(q)'
  BY <1>0, <1>1, OthersFrame DEF castVars
<1>10. ClientInv(s)'
  <2>1. \A e \in Events : SentBefore(s, e) => SentBefore(s, e)'
    BY <1>1 DEF SentBefore, Late, castVars
  <2>2. \A e : Pending(s, e)' <=> Pending(s, e)  BY <1>1 DEF Pending, castVars
  <2>3. \A i \in DOMAIN Queue(s)' : SentBefore(s, Queue(s)[i])'
    <3>1. TAKE i \in DOMAIN Queue(s)'
    <3>2. Queue(s) \in Seq(Events)  BY <1>2, QueueParts DEF Queue
    <3>3. Queue(s)[i] \in Events /\ SentBefore(s, Queue(s)[i])  BY <1>0, <1>6, <3>2 DEF ClientInv
    <3>4. \A e \in Events : e = Queue(s)'[i] => SentBefore(s, e)'  BY <1>6, <2>1, <3>3
    <3>5. QED  BY <1>6, <3>3, <3>4 DEF SentBefore
  <2>4. InTurn(Queue(s))'  BY <1>0, <1>6 DEF ClientInv, InTurn
  <2>5. \A i \in DOMAIN received'[s] : received'[s][i] = Done =>
          i = Len(received'[s]) /\ clientPc'[s] # "loop"
    BY <1>0, <1>1, <1>4, <1>5 DEF ClientInv
  <2>6. ~aborted => \A i \in DOMAIN t : t[i] = Done => i = Len(t)
    BY <1>0, <1>3 DEF ClientInv
  <2>7. \A e \in owed'[s] : (\E i \in DOMAIN t : t[i] = e) \/ Pending(s, e)'
    <3>1. TAKE e \in owed'[s]
    <3>2. e \in owed[s] /\ e # h  BY <1>5
    <3>3. ASSUME NEW i \in DOMAIN buf[s], buf[s][i] = e  PROVE \E j \in DOMAIN t : t[j] = e
      <4>1. i - 1 \in DOMAIN t /\ (i - 1) + 1 = i  BY <1>3, <3>2, <3>3
      <4>2. QED  BY <1>3, <3>3, <4>1
    <3>4. QED  BY <1>0, <2>2, <3>2, <3>3 DEF ClientInv
  <2>8. ~aborted /\ h = Done => Late /\ owed'[s] = {}
    <3>1. SUFFICES ASSUME ~aborted, h = Done  PROVE Late /\ owed'[s] = {}
      OBVIOUS
    <3>2. \E i \in DOMAIN Queue(s) : Queue(s)[i] = Done
      <4>1. 1 \in DOMAIN buf[s] /\ buf[s][1] = Done  BY <1>3, <3>1
      <4>2. Len(received[s]) + 1 \in DOMAIN Queue(s) /\ Queue(s)[Len(received[s]) + 1] = Done
        BY ZenonT(30), <1>2, <4>1, QueueParts DEF Queue
      <4>3. QED  BY <4>2
    <3>3. Late /\ (castPc[Runner] = "sending" => s \notin todo[Runner])
      BY <1>0, <3>2 DEF ClientInv, SentBefore
    <3>4. DOMAIN t = {}
      <4>1. 1 \in DOMAIN buf[s] /\ buf[s][1] = Done  BY <1>3, <3>1
      <4>2. 1 = Len(buf[s])  BY <1>0, <3>1, <4>1 DEF ClientInv
      <4>3. QED  BY <1>3, <4>2
    <3>5. \A e : ~Pending(s, e)'  BY <1>0, <2>2, <3>1, <3>3, NothingPending
    <3>6. QED  BY <2>7, <3>3, <3>4, <3>5
  <2>9. QED
    BY <1>0, <1>1, <1>5, <2>3, <2>4, <2>5, <2>6, <2>7, <2>8
       DEF ClientInv, Outside, Late, castVars, jobVars
<1>11. QED  BY <1>7, <1>8, <1>9, <1>10, Reassemble

\* A handler leaves its loop: because its channel is closed and empty, or in the midst.
LEMMA LoopEndPreserves ==
    ASSUME StreamInv, ~Dead, NEW s \in Clients, HangUp(s) \/ Disconnect(s)
    PROVE  StreamInv'
<1>0. TypeOK /\ CastInv /\ CountInv /\ ClientInv(s) /\ \A q \in Clients : ClientInv(q)  BY Alive
<1>1. /\ UNCHANGED <<jobVars, castVars, entry, deleted, slot, received, activeWS, joined, chanVars, owed>>
      /\ clientPc[s] = "loop"
      /\ \/ clientPc' = [clientPc EXCEPT ![s] = "quit"]
         \/ clientPc' = [clientPc EXCEPT ![s] = "cleanup"] /\ buf[s] = <<>> /\ s \in closed
  BY DEF HangUp, Disconnect, ClientGoto
<1>2. /\ \A q \in Clients \ {s} : clientPc'[q] = clientPc[q]
      /\ clientPc'[s] \in {"quit", "cleanup"}
      /\ clientPc'[s] = "cleanup" => buf[s] = <<>> /\ s \in closed
  BY <1>0, <1>1 DEF TypeOK
<1>3. CountInv' /\ activeWS' \in 0 .. Cardinality(Ws)
  <2>1. s \in Open' <=> s \in Open  BY <1>1, <1>2 DEF Open
  <2>2. QED  BY <1>0, <1>1, <1>2, <2>1, CountFrame
<1>4. TypeOK'
  <2>1. clientPc' \in [Clients -> {"get", "limit", "upgrade", "join", "store", "loop", "cleanup",
                                   "quit", "ended", "dead"}]
    BY SMTT(30), <1>0, <1>1 DEF TypeOK
  <2>2. QED  BY <1>0, <1>1, <2>1 DEF TypeOK, jobVars, castVars, chanVars
<1>5. CastInv' /\ \A q \in Clients \ {s} : ClientInv(q)'
  BY <1>0, <1>1, <1>2, OthersFrame DEF castVars, chanVars
<1>6. ClientInv(s)'
  <2>1. \A e : (SentBefore(s, e)' <=> SentBefore(s, e)) /\ (Pending(s, e)' <=> Pending(s, e))
    BY <1>1 DEF SentBefore, Pending, Late, castVars
  <2>2. Queue(s)' = Queue(s)  BY <1>1 DEF Queue, chanVars
  <2>3. \A i \in DOMAIN Queue(s)' : SentBefore(s, Queue(s)[i])'
    BY <1>0, <1>1, <2>2 DEF ClientInv, SentBefore, Late, castVars
  <2>4. ~aborted /\ clientPc'[s] = "cleanup" => Late /\ owed[s] = {}
    <3>1. SUFFICES ASSUME ~aborted, clientPc'[s] = "cleanup"  PROVE Late /\ owed[s] = {}
      OBVIOUS
    <3>2. castPc[Runner] \in {"closing", "gone"}  BY <1>0, <1>2, <3>1 DEF CastInv
    <3>3. \A e : ~Pending(s, e)  BY <1>0, <3>1, <3>2, NothingPending DEF Late
    <3>4. QED  BY <1>0, <1>2, <3>1, <3>2, <3>3 DEF ClientInv, Late
  <2>5. QED
    BY <1>0, <1>1, <1>2, <2>1, <2>2, <2>3, <2>4
       DEF ClientInv, Outside, Late, InTurn, castVars, jobVars, chanVars
<1>7. QED  BY <1>3, <1>4, <1>5, <1>6, Reassemble

\* The deferred calls of a handler.
LEMMA CleanupPreserves ==
    ASSUME StreamInv, ~Dead, NEW s \in Clients, Cleanup(s)
    PROVE  StreamInv'
<1>0. TypeOK /\ CastInv /\ CountInv /\ \A q \in Clients : ClientInv(q)  BY Alive
<1>1. CountInv' /\ activeWS' \in 0 .. Cardinality(Ws)
  <2>1. clientPc[s] \in {"cleanup", "quit"} /\ clientPc'[s] = "ended"  BY <1>0 DEF TypeOK, Cleanup, ClientGoto
  <2>2. \/ activeWS' = activeWS /\ (s \in Open' <=> s \in Open)
        \/ activeWS' = activeWS - 1 /\ s \in Open \ Open'
    BY <2>1 DEF Open, Cleanup
  <2>3. \A q \in Clients \ {s} : clientPc'[q] = clientPc[q]  BY <1>0 DEF TypeOK, Cleanup, ClientGoto
  <2>4. QED  BY <1>0, <2>2, <2>3, CountFrame
<1>2. TypeOK'
  <2>1. buf' \in [Clients -> Seq(Events)] /\ \A q \in Clients : Len(buf'[q]) <= BufCap
    <3>1. <<>> \in Seq(Events) /\ Len(<<>>) <= BufCap  BY SizesAssumption
    <3>2. QED  BY <1>0, <3>1 DEF TypeOK, Cleanup
  <2>2. received' \in [Clients -> Seq(Events)]
    <3>1. <<>> \in Seq(Events)  OBVIOUS
    <3>2. QED  BY <1>0, <3>1 DEF TypeOK, Cleanup
  <2>3. QED  BY <1>0, <1>1, <2>1, <2>2 DEF TypeOK, jobVars, Cleanup, ClientGoto
<1>3. CastInv' /\ \A q \in Clients \ {s} : ClientInv(q)'
  <2>1. \A q \in Clients \ {s} :
          /\ clientPc'[q] = clientPc[q] /\ buf'[q] = buf[q] /\ received'[q] = received[q]
          /\ owed'[q] = owed[q] /\ (q \in joined' <=> q \in joined)
          /\ \A b \in Casters : q \in todo'[b] <=> q \in todo[b]
    BY <1>0 DEF TypeOK, Cleanup, ClientGoto
  <2>2. QED  BY <1>0, <2>1, OthersFrame DEF Cleanup
<1>4. ClientInv(s)'
  <2>1. /\ buf'[s] = <<>> /\ received'[s] = <<>> /\ s \notin joined' /\ owed'[s] = {}
        /\ clientPc'[s] = "ended" /\ \A b \in Casters : s \notin todo'[b]
    BY <1>0 DEF TypeOK, Cleanup, ClientGoto
  <2>2. DOMAIN Queue(s)' = {}  BY <2>1 DEF Queue
  <2>3. QED  BY <2>1, <2>2 DEF ClientInv, InTurn
<1>5. QED  BY <1>1, <1>2, <1>3, <1>4, Reassemble

-----------------------------------------------------------------------------
(* The specification. *)

\* A process that has died does nothing more.
LEMMA DeadStays ==
    ASSUME StreamInv, Dead, Next
    PROVE  UNCHANGED vars
<1>1. /\ \A b \in Casters : castPc[b] = "dead"
      /\ \A s \in Clients : clientPc[s] = "dead"
      /\ castPc[Runner] = "dead" /\ \A w \in Workers : castPc[w] = "dead"
  BY EventFacts DEF StreamInv, AllDead
<1>2. ASSUME NEW b \in Casters, NEW s \in Clients  PROVE ~Send(b, s)  BY <1>1 DEF Send
<1>3. ASSUME NEW w \in Workers  PROVE ~Worker(w)
  BY <1>1, <1>2, EventFacts DEF Worker, Start, OnResult, EndResult
<1>4. ~Run /\ ~CtxEnd /\ ~CancelWrite
  BY <1>1, <1>2, EventFacts
     DEF Run, Begin, PoolReturns, PoolAborts, Save, Announce, Forget, Close, RunnerEnds, CtxEnd, CancelWrite
<1>5. ASSUME NEW s \in Clients  PROVE ~(Get(s) \/ Handler(s) \/ Disconnect(s))
  BY <1>1 DEF Get, Handler, Limit, Upgrade, Join, Store, Receive, HangUp, Cleanup, Disconnect
<1>6. QED  BY <1>3, <1>4, <1>5 DEF Next, Rest

LEMMA StutterPreserves ==
    ASSUME StreamInv, UNCHANGED vars
    PROVE  StreamInv'
<1> USE DEF vars, jobVars, castVars, clientVars, chanVars
<1>1. TypeOK'  BY DEF StreamInv, TypeOK
<1>2. StreamInOrder'  BY DEF StreamInv, StreamInOrder
<1>3. Dead' => aborted' /\ AllDead'  BY DEF StreamInv, Dead, AllDead
<1>4. ~Dead' => LiveInv'
  <2>1. SUFFICES ASSUME ~Dead  PROVE LiveInv'
    BY DEF Dead
  <2>2. CastInv'  BY <2>1, Alive DEF CastInv, Busy, Late, PoolOver
  <2>3. CountInv' /\ \A s \in Clients : ClientInv(s)'
    BY <2>1, Alive, QuietFrame DEF Late, SentBefore, Pending
  <2>4. QED  BY <2>2, <2>3 DEF LiveInv
<1>5. QED  BY <1>1, <1>2, <1>3, <1>4 DEF StreamInv

LEMMA StreamInitially == Init => StreamInv
<1> SUFFICES ASSUME Init  PROVE StreamInv
  OBVIOUS
<1> USE DEF Init
<1>1. TypeOK
  <2>1. <<>> \in Seq(Events) /\ Len(<<>>) <= BufCap  BY SizesAssumption
  <2>2. Cardinality(Ws) \in Nat  BY SizesAssumption, FS_CardinalityType
  <2>3. castPc \in [Casters -> {"range", "begin"}] /\ event \in [Casters -> {Nothing}]
    OBVIOUS
  <2>4. buf \in [Clients -> Seq(Events)] /\ \A s \in Clients : Len(buf[s]) <= BufCap
    BY <2>1
  <2>5. received \in [Clients -> Seq(Events)]  BY <2>1
  <2>6. cast \in [Workers -> 0 .. NumResults] /\ activeWS \in 0 .. Cardinality(Ws) /\ started \in 0 .. NumResults
    BY <2>2, SizesAssumption
  <2>7. QED  BY <2>3, <2>4, <2>5, <2>6 DEF TypeOK
<1>2. StreamInOrder  BY DEF StreamInOrder
<1>3. ~Dead  BY EventFacts DEF Dead
<1>4. CastInv  BY EventFacts, SizesAssumption DEF CastInv, Busy, Late, PoolOver
<1>5. CountInv
  <2>1. Open = {}  BY DEF Open, Clients
  <2>2. QED  BY <2>1, FS_EmptySet DEF CountInv
<1>6. ASSUME NEW s \in Clients  PROVE ClientInv(s)
  <2>1. buf[s] = <<>> /\ received[s] = <<>> /\ clientPc[s] = "get" /\ owed[s] = {}  OBVIOUS
  <2>2. DOMAIN Queue(s) = {}  BY <2>1 DEF Queue
  <2>3. QED  BY <2>1, <2>2 DEF ClientInv, InTurn
<1>7. QED  BY <1>1, <1>2, <1>3, <1>4, <1>5, <1>6 DEF StreamInv, LiveInv

LEMMA StreamStepPreserves == StreamInv /\ [Next]_vars => StreamInv'
<1> SUFFICES ASSUME StreamInv, [Next]_vars  PROVE StreamInv'
  OBVIOUS
<1>1. CASE UNCHANGED vars  BY <1>1, StutterPreserves
<1>2. CASE Dead /\ Next  BY <1>2, DeadStays, StutterPreserves
<1>3. CASE ~Dead /\ Next
  <2> USE <1>3
  <2>1. ASSUME NEW w \in Workers, Worker(w)  PROVE StreamInv'
    <3>1. w \in Casters  BY EventFacts
    <3>2. QED
      BY <2>1, <3>1, StartPreserves, OnResultPreserves, SendPreserves, EndResultPreserves DEF Worker
  <2>2. CASE Run
    <3>1. Runner \in Casters  BY EventFacts
    <3>2. QED  BY <2>2, <3>1, RunPreserves, AnnouncePreserves, ClosePreserves, SendPreserves DEF Run
  <2>3. CASE CtxEnd \/ CancelWrite  BY <2>3, RunPreserves
  <2>4. ASSUME NEW s \in Clients, Get(s) \/ Handler(s) \/ Disconnect(s)  PROVE StreamInv'
    BY <2>4, ComingPreserves, StorePreserves, ReceivePreserves, LoopEndPreserves, CleanupPreserves
       DEF Handler
  <2>5. CASE Rest  BY <2>5, StutterPreserves DEF Rest
  <2>6. QED  BY <2>1, <2>2, <2>3, <2>4, <2>5 DEF Next
<1>4. QED  BY <1>1, <1>2, <1>3

\* StreamInv is an inductive invariant of the streams.
THEOREM StreamInvariant == Spec => []StreamInv
<1>1. Init => StreamInv  BY StreamInitially
<1>2. StreamInv /\ [Next]_vars => StreamInv'  BY StreamStepPreserves
<1>3. QED  BY <1>1, <1>2, PTL DEF Spec

\* The state of the streams is well typed, and no channel holds more than it can, for
\* every number of workers, results and clients.
THEOREM StreamsTypeCorrect == Spec => []TypeOK
<1>1. StreamInv => TypeOK  BY DEF StreamInv
<1>2. QED  BY <1>1, StreamInvariant, PTL

\* broadcast sends on a channel that closeSubscribers has closed only if RunJobPool has
\* returned during the ramp-up, before its workers.
THEOREM ClosedChannelsSafe == Spec => []NoSendOnClosed
<1>1. StreamInv => NoSendOnClosed  BY DEF StreamInv, NoSendOnClosed
<1>2. QED  BY <1>1, StreamInvariant, PTL

\* Every client sees each result at most once, those of a worker in order, and "done" last.
THEOREM StreamsInOrder == Spec => []StreamInOrder
<1>1. StreamInv => StreamInOrder  BY DEF StreamInv
<1>2. QED  BY <1>1, StreamInvariant, PTL

\* A stream that the server ends is complete but for what was dropped.
THEOREM StreamsComplete == Spec => []StreamComplete
<1>1. StreamInv => StreamComplete
  BY DEF StreamInv, LiveInv, ClientInv, AllDead, StreamComplete
<1>2. QED  BY <1>1, StreamInvariant, PTL

-----------------------------------------------------------------------------
(* What SubscribedEnds rests on: a subscriber is never lost from sight, and  *)
(* as long as one is in sight, somebody can act.                             *)

\* Client s is subscribed, and its channel will be closed: closeSubscribers will find it
\* in the inner map, has it still to visit, or has closed it.
Served(s) ==
    /\ ~Dead /\ s \in joined
    /\ \/ slot[s] = "first" /\ ~deleted
       \/ castPc[Runner] = "closing" /\ s \in todo[Runner]
       \/ s \in closed

\* A subscriber that closeSubscribers is to reach stays one until its handler has
\* returned, whatever joins, leaves or broadcasts meanwhile.
NobodyForgotten ==
    [][\A s \in Clients : Served(s) => Served(s)' \/ clientPc'[s] \in {"ended", "dead"}]_vars

\* The guards of the goroutines that must run (the actions under Fairness).
RunnerCan ==
    \/ castPc[Runner] \in {"begin", "save", "announce", "sending", "closing"}
    \/ castPc[Runner] = "pool" /\ PoolOver /\ (ctxEnded \/ started = NumResults)
    \/ castPc[Runner] = "pool" /\ RampUp /\ ctxEnded
WorkerCan(w) ==
    \/ castPc[w] \in {"execute", "sending"}
    \/ castPc[w] = "range" /\ castPc[Runner] = "pool" /\ ~ctxEnded /\ started < NumResults
HandlerCan(s) ==
    \/ clientPc[s] \in {"limit", "upgrade", "join", "store", "cleanup", "quit"}
    \/ clientPc[s] = "loop" /\ (buf[s] # <<>> \/ s \in closed)

\* While the stream of a subscriber is open, its handler, the goroutine of the job or a
\* worker can go on: nobody waits for a close that nobody is left to perform.
ServedGoOn ==
    \A s \in Clients : Served(s) => HandlerCan(s) \/ RunnerCan \/ \E w \in Workers : WorkerCan(w)

\* Before closeSubscribers takes it, the inner map of the job is the only one there is.
Closed  == castPc[Runner] \in {"closing", "gone"}
SlotInv ==
    ~Dead => /\ deleted <=> Closed
             /\ ~Closed => /\ entry # "late"
                           /\ \A s \in Clients : slot[s] = "first" => entry = "first"

\* A step that leaves the maps alone and neither begins nor ends the closing.
LEMMA SlotFrame ==
    ASSUME SlotInv, ~Dead, UNCHANGED <<entry, deleted, slot>>, Closed' <=> Closed
    PROVE  SlotInv'
BY DEF SlotInv

\* What a step of a worker, or a send, leaves alone unless the process dies.
LEMMA SendLeaves ==
    ASSUME StreamInv, NEW b \in Casters, NEW s \in Clients, Send(b, s)
    PROVE  /\ UNCHANGED <<entry, deleted, slot, joined, closed>>
           /\ \/ Dead' /\ \A c \in Clients : clientPc'[c] = "dead"
              \/ UNCHANGED castPc /\ UNCHANGED clientPc
           /\ castPc[Runner] # "sending" => todo'[Runner] = todo[Runner]
<1> USE DEF Send, Unvisited
<1>1. Runner \in Casters  BY EventFacts
<1>2. UNCHANGED <<entry, deleted, slot, joined, closed>>  OBVIOUS
<1>3. Panic => Dead' /\ \A c \in Clients : clientPc'[c] = "dead"  BY <1>1 DEF Panic, Dead
<1>4. castPc[Runner] # "sending" => todo'[Runner] = todo[Runner]  BY <1>1 DEF StreamInv, TypeOK
<1>5. QED  BY <1>2, <1>3, <1>4

LEMMA WorkerLeaves ==
    ASSUME StreamInv, NEW w \in Workers, Worker(w)
    PROVE  /\ UNCHANGED <<entry, deleted, slot, joined, closed>>
           /\ \/ Dead' /\ \A c \in Clients : clientPc'[c] = "dead"
              \/ castPc'[Runner] = castPc[Runner] /\ UNCHANGED clientPc
           /\ castPc[Runner] # "sending" => todo'[Runner] = todo[Runner]
<1>1. w \in Casters /\ Runner \in Casters /\ w # Runner  BY EventFacts
<1>2. CASE \E s \in Clients : Send(w, s)  BY <1>1, <1>2, SendLeaves
<1>3. CASE Start(w) \/ EndResult(w)
  BY <1>1, <1>3 DEF Start, EndResult, Released, CastGoto, clientVars, chanVars, StreamInv, TypeOK
<1>4. CASE OnResult(w)
  <2>1. castPc'[Runner] = castPc[Runner] /\ todo'[Runner] = todo[Runner]
    BY <1>1, <1>4 DEF OnResult, Load, CastGoto, StreamInv, TypeOK
  <2>2. QED  BY <1>4, <2>1 DEF OnResult, clientVars, chanVars
<1>5. QED  BY <1>2, <1>3, <1>4 DEF Worker

LEMMA SlotStep ==
    ASSUME StreamInv, SlotInv, [Next]_vars
    PROVE  SlotInv'
<1>0. Runner \in Casters  BY EventFacts
<1>1. CASE UNCHANGED vars
  <2>1. UNCHANGED <<entry, deleted, slot, castPc>>  BY <1>1 DEF vars, castVars, clientVars
  <2>2. QED  BY <2>1 DEF SlotInv, Dead, Closed
<1>2. CASE Dead /\ Next
  <2>1. Dead'  BY <1>2, DeadStays DEF vars, castVars, Dead
  <2>2. QED  BY <2>1 DEF SlotInv
<1>3. CASE ~Dead /\ Next
  <2> USE <1>3
  <2>0. TypeOK  BY DEF StreamInv
  <2>1. ASSUME NEW w \in Workers, Worker(w)  PROVE SlotInv'
    <3>1. Dead' \/ castPc'[Runner] = castPc[Runner]  BY <2>1, WorkerLeaves
    <3>2. UNCHANGED <<entry, deleted, slot>>  BY <2>1, WorkerLeaves
    <3>3. CASE Dead'  BY <3>3 DEF SlotInv
    <3>4. CASE castPc'[Runner] = castPc[Runner]  BY <3>2, <3>4, SlotFrame DEF Closed
    <3>5. QED  BY <3>1, <3>3, <3>4
  <2>2. ASSUME NEW s \in Clients, Send(Runner, s)  PROVE SlotInv'
    <3>1. Dead' \/ castPc'[Runner] = castPc[Runner]  BY <1>0, <2>2, SendLeaves
    <3>2. UNCHANGED <<entry, deleted, slot>>  BY <1>0, <2>2, SendLeaves
    <3>3. CASE Dead'  BY <3>3 DEF SlotInv
    <3>4. CASE castPc'[Runner] = castPc[Runner]  BY <3>2, <3>4, SlotFrame DEF Closed
    <3>5. QED  BY <3>1, <3>3, <3>4
  <2>3. CASE Begin \/ PoolReturns \/ PoolAborts \/ Save \/ Announce
    <3>1. UNCHANGED <<entry, deleted, slot>> /\ ~Closed /\ ~Closed'
      BY <1>0, <2>0, <2>3
         DEF Begin, PoolReturns, PoolAborts, Save, Announce, CastGoto, Closed, clientVars, TypeOK
    <3>2. QED  BY <3>1, SlotFrame
  <2>4. CASE Forget
    <3>1. deleted' /\ Closed'  BY <1>0, <2>0, <2>4 DEF Forget, CastGoto, Closed, TypeOK
    <3>2. QED  BY <3>1 DEF SlotInv
  <2>5. CASE RunnerEnds \/ \E s \in Clients : Close(s)
    <3>1. UNCHANGED <<entry, deleted, slot>> /\ Closed /\ Closed'
      BY <1>0, <2>0, <2>5 DEF RunnerEnds, Close, CastGoto, Closed, clientVars, TypeOK
    <3>2. QED  BY <3>1, SlotFrame
  <2>6. CASE CtxEnd \/ CancelWrite \/ Rest
    BY <2>6, SlotFrame DEF CtxEnd, CancelWrite, Rest, vars, castVars, clientVars, Closed
  <2>7. ASSUME NEW s \in Clients, Get(s) \/ Handler(s) \/ Disconnect(s)  PROVE SlotInv'
    <3>1. CASE Get(s) \/ Limit(s) \/ Upgrade(s) \/ Store(s) \/ Receive(s) \/ HangUp(s) \/ Disconnect(s)
      BY <3>1, SlotFrame
         DEF Get, Limit, Upgrade, Store, Receive, HangUp, Disconnect, castVars, Closed
    <3>2. CASE Join(s)
      <4>1. UNCHANGED castPc /\ UNCHANGED deleted /\ slot' = [slot EXCEPT ![s] = entry']
        BY <3>2 DEF Join, castVars
      <4>2. (deleted' <=> Closed')  BY <4>1 DEF SlotInv, Closed
      <4>3. CASE Closed  BY <4>1, <4>2, <4>3 DEF SlotInv, Closed
      <4>4. CASE ~Closed
        <5>1. ~deleted /\ entry \in {"none", "first"}  BY <2>0, <4>4 DEF SlotInv, TypeOK
        <5>2. entry' = "first"  BY <3>2, <5>1 DEF Join
        <5>3. QED  BY <4>1, <4>2, <5>2 DEF SlotInv
      <4>5. QED  BY <4>3, <4>4
    <3>3. CASE Cleanup(s)
      <4>1. /\ UNCHANGED castPc /\ UNCHANGED deleted /\ UNCHANGED entry
            /\ slot' = [slot EXCEPT ![s] = "none"]
        BY <3>3 DEF Cleanup
      <4>2. \A c \in Clients : slot'[c] = "first" => slot[c] = "first"  BY <2>0, <4>1 DEF TypeOK
      <4>3. QED  BY <4>1, <4>2 DEF SlotInv, Closed
    <3>4. QED  BY <2>7, <3>1, <3>2, <3>3 DEF Handler
  <2>8. QED  BY <2>1, <2>2, <2>3, <2>4, <2>5, <2>6, <2>7 DEF Next, Run
<1>4. QED  BY <1>1, <1>2, <1>3

LEMMA SlotInvariant == Spec => [](StreamInv /\ SlotInv)
<1>1. Init => SlotInv  BY EventFacts DEF Init, SlotInv, Closed
<1>2. StreamInv /\ SlotInv /\ [Next]_vars => SlotInv'  BY SlotStep
<1>3. QED  BY <1>1, <1>2, StreamInvariant, PTL DEF Spec

\* Every step keeps a served client served, or ends its handler.
LEMMA ServedStep ==
    ASSUME StreamInv, SlotInv, [Next]_vars, NEW s \in Clients, Served(s)
    PROVE  Served(s)' \/ clientPc'[s] \in {"ended", "dead"}
<1>0. /\ Runner \in Casters /\ TypeOK /\ ~Dead
      /\ s \in joined /\ clientPc[s] \in {"loop", "cleanup", "quit"}
  BY EventFacts, Alive DEF Served, StreamInv, ClientInv, Outside, TypeOK
<1>1. CASE UNCHANGED vars
  BY <1>1 DEF Served, Dead, vars, castVars, clientVars, chanVars
<1>2. CASE Next
  <2> USE <1>0
  <2>1. ASSUME NEW b \in Casters, NEW c \in Clients, Send(b, c)
        PROVE  Served(s)' \/ clientPc'[s] \in {"ended", "dead"}
    <3>1. CASE \A d \in Clients : clientPc'[d] = "dead"  BY <3>1
    <3>2. CASE UNCHANGED castPc
      <4>1. UNCHANGED <<deleted, slot, joined, closed>>  BY <2>1, SendLeaves
      <4>2. castPc[Runner] # "sending" => todo'[Runner] = todo[Runner]  BY <2>1, SendLeaves
      <4>3. QED  BY <3>2, <4>1, <4>2 DEF Served, Dead
    <3>3. QED  BY <2>1, <3>1, <3>2, SendLeaves
  <2>2. ASSUME NEW w \in Workers, Worker(w)
        PROVE  Served(s)' \/ clientPc'[s] \in {"ended", "dead"}
    <3>1. CASE \A d \in Clients : clientPc'[d] = "dead"  BY <3>1
    <3>2. CASE castPc'[Runner] = castPc[Runner]
      <4>1. UNCHANGED <<deleted, slot, joined, closed>>  BY <2>2, WorkerLeaves
      <4>2. castPc[Runner] # "sending" => todo'[Runner] = todo[Runner]  BY <2>2, WorkerLeaves
      <4>3. QED  BY <3>2, <4>1, <4>2 DEF Served, Dead
    <3>3. QED  BY <2>2, <3>1, <3>2, WorkerLeaves
  <2>3. CASE Begin \/ PoolReturns \/ PoolAborts \/ Save \/ Announce
    <3>1. /\ UNCHANGED <<deleted, slot, joined, closed>>
          /\ castPc[Runner] # "closing" /\ castPc'[Runner] # "dead"
      BY <2>3
         DEF Begin, PoolReturns, PoolAborts, Save, Announce, CastGoto, clientVars, chanVars, TypeOK
    <3>2. QED  BY <3>1 DEF Served, Dead
  <2>4. CASE Forget
    <3>1. /\ UNCHANGED <<slot, joined, closed>> /\ castPc'[Runner] = "closing"
          /\ todo'[Runner] = Members(entry) /\ castPc[Runner] = "sending"
      BY <2>4 DEF Forget, CastGoto, Closing, clientVars, chanVars, TypeOK
    <3>2. CASE s \in closed  BY <3>1, <3>2 DEF Served, Dead
    <3>3. CASE slot[s] = "first"
      <4>1. entry = "first"  BY <3>1, <3>3 DEF SlotInv, Closed
      <4>2. s \in todo'[Runner]  BY <3>1, <3>3, <4>1 DEF Members
      <4>3. QED  BY <3>1, <4>2 DEF Served, Dead
    <3>4. QED  BY <3>1, <3>2, <3>3 DEF Served
  <2>5. ASSUME NEW c \in Clients, Close(c)  PROVE Served(s)'
    <3>1. /\ UNCHANGED <<slot, joined, deleted, castPc>> /\ closed' = closed \union {c}
          /\ todo'[Runner] = todo[Runner] \ {c} /\ castPc[Runner] = "closing"
      BY <2>5 DEF Close, clientVars, TypeOK
    <3>2. QED  BY <3>1 DEF Served, Dead
  <2>6. CASE RunnerEnds
    <3>1. /\ UNCHANGED <<slot, joined, closed, deleted>> /\ todo[Runner] = {}
          /\ castPc'[Runner] = "gone"
      BY <2>6 DEF RunnerEnds, CastGoto, clientVars, chanVars, TypeOK
    <3>2. QED  BY <3>1 DEF Served, Dead
  <2>7. CASE CtxEnd \/ CancelWrite \/ Rest
    BY <2>7 DEF CtxEnd, CancelWrite, Rest, vars, castVars, clientVars, chanVars, Served, Dead
  <2>8. ASSUME NEW c \in Clients, Get(c) \/ Handler(c) \/ Disconnect(c)
        PROVE  Served(s)' \/ clientPc'[s] \in {"ended", "dead"}
    <3>1. CASE Get(c) \/ Limit(c) \/ Upgrade(c) \/ Receive(c) \/ HangUp(c) \/ Disconnect(c)
      BY <3>1
         DEF Get, Limit, Upgrade, Receive, HangUp, Disconnect, castVars, chanVars, Served, Dead
    <3>2. CASE Join(c)
      <4>1. c # s  BY <3>2 DEF Join
      <4>2. slot'[s] = slot[s] /\ UNCHANGED <<castPc, todo, deleted, joined, closed>>
        BY <3>2, <4>1 DEF Join, castVars, chanVars, TypeOK
      <4>3. QED  BY <4>2 DEF Served, Dead
    <3>3. CASE Store(c)
      <4>1. UNCHANGED <<castPc, slot, deleted, closed>> /\ joined \subseteq joined'
        BY <3>3 DEF Store, chanVars
      <4>2. todo[Runner] \subseteq todo'[Runner]  BY <3>3 DEF Store
      <4>3. QED  BY <4>1, <4>2 DEF Served, Dead
    <3>4. CASE Cleanup(c)
      <4>1. CASE c = s  BY <3>4, <4>1 DEF Cleanup, ClientGoto, TypeOK
      <4>2. CASE c # s
        <5>1. /\ UNCHANGED <<castPc, deleted>> /\ slot'[s] = slot[s]
              /\ s \in joined' /\ (s \in closed => s \in closed')
              /\ (s \in todo[Runner] => s \in todo'[Runner])
          BY <3>4, <4>2 DEF Cleanup, TypeOK
        <5>2. QED  BY <5>1 DEF Served, Dead
      <4>3. QED  BY <4>1, <4>2
    <3>5. QED  BY <2>8, <3>1, <3>2, <3>3, <3>4 DEF Handler
  <2>9. QED  BY <1>2, <2>1, <2>2, <2>3, <2>4, <2>5, <2>6, <2>7, <2>8 DEF Next, Run
<1>3. QED  BY <1>1, <1>2

\* Whoever subscribes before closeSubscribers takes the map stays in its sight until his
\* stream has ended.
THEOREM SubscribersKept == Spec => NobodyForgotten
<1>1. StreamInv /\ SlotInv /\ [Next]_vars =>
        [\A s \in Clients : Served(s) => Served(s)' \/ clientPc'[s] \in {"ended", "dead"}]_vars
  BY ServedStep
<1>2. QED  BY <1>1, SlotInvariant, PTL DEF Spec, NobodyForgotten

\* As long as such a stream is open, its handler or the job can go on.  RunJobPool has at
\* least one worker.
THEOREM SubscribersServed ==
    ASSUME Workers # {}
    PROVE  Spec => []ServedGoOn
<1>1. ASSUME StreamInv, SlotInv, NEW s \in Clients, Served(s)
      PROVE  HandlerCan(s) \/ RunnerCan \/ \E w \in Workers : WorkerCan(w)
  <2>0. /\ ~Dead /\ s \in joined /\ TypeOK /\ CastInv /\ ClientInv(s)
        /\ clientPc[s] \in {"loop", "cleanup", "quit"}
    BY <1>1, Alive DEF Served, ClientInv, Outside, TypeOK
  <2>1. CASE clientPc[s] \in {"cleanup", "quit"} \/ s \in closed  BY <2>0, <2>1 DEF HandlerCan
  <2>2. CASE castPc[Runner] = "closing"  BY <2>2 DEF RunnerCan
  <2>3. CASE ~deleted
    <3>1. castPc[Runner] \in {"begin", "pool", "save", "announce", "sending"}
      BY <1>1, <2>0, <2>3, EventFacts DEF SlotInv, Closed, CastInv, TypeOK
    <3>2. CASE castPc[Runner] # "pool"  BY <3>1, <3>2 DEF RunnerCan
    <3>3. CASE castPc[Runner] = "pool" /\ PoolOver
      <4>1. CASE ctxEnded \/ started = NumResults  BY <3>3, <4>1 DEF RunnerCan
      <4>2. CASE ~ctxEnded /\ started # NumResults
        <5>1. started < NumResults  BY <2>0, <4>2, SizesAssumption DEF TypeOK
        <5>2. PICK w \in Workers : TRUE  OBVIOUS
        <5>3. WorkerCan(w)  BY <3>3, <4>2, <5>1 DEF WorkerCan, PoolOver
        <5>4. QED  BY <5>3
      <4>3. QED  BY <4>1, <4>2
    <3>4. CASE ~PoolOver
      <4>1. PICK w \in Workers : castPc[w] # "range"  BY <3>4 DEF PoolOver
      <4>2. WorkerCan(w)  BY <2>0, <4>1 DEF CastInv, WorkerCan
      <4>3. QED  BY <4>2
    <3>5. QED  BY <3>1, <3>2, <3>3, <3>4
  <2>4. QED  BY <1>1, <2>0, <2>1, <2>2, <2>3 DEF Served
<1>2. StreamInv /\ SlotInv => ServedGoOn  BY <1>1 DEF ServedGoOn
<1>3. QED  BY <1>2, SlotInvariant, PTL

-----------------------------------------------------------------------------
(* How much the goroutines of the job have still to do. *)

\* The clients a Range of broadcaster b may still visit: those it has found, and those
\* who may come to the map while it goes on.
ToCome      == {s \in Clients : clientPc[s] \in {"get", "limit", "upgrade", "join", "store"}}
Audience(b) == todo[b] \union ToCome

\* The steps the goroutine of the job has before it, but for its visits.
PhaseOf(pc) == CASE pc = "begin"    -> 6
                 [] pc = "pool"     -> 5
                 [] pc = "save"     -> 4
                 [] pc = "announce" -> 3
                 [] pc = "sending"  -> 2
                 [] pc = "closing"  -> 1
                 [] OTHER           -> 0
Phase       == PhaseOf(castPc[Runner])

\* The same of a worker.
StageOf(pc)    == CASE pc = "execute" -> 2
                    [] pc = "sending" -> 1
                    [] OTHER          -> 0
ResultsLeft(w) == 3 * (NumResults - started) + StageOf(castPc[w])

\* A number and a set fall, or do not rise, in their lexicographic order.
Falls(n, m, A, B)    == n < m \/ (n = m /\ A \subseteq B /\ A # B)
NotRises(n, m, A, B) == n < m \/ (n = m /\ A \subseteq B)

\* Every step of the goroutine of the job, or of a worker, leaves it less to do, and no
\* other step gives it more.
RunnerCounts ==
    /\ Run => Falls(Phase', Phase, Audience(Runner)', Audience(Runner))
    /\ NotRises(Phase', Phase, Audience(Runner)', Audience(Runner))
WorkerCounts(w) ==
    /\ Worker(w) => Falls(ResultsLeft(w)', ResultsLeft(w), Audience(w)', Audience(w))
    /\ NotRises(ResultsLeft(w)', ResultsLeft(w), Audience(w)', Audience(w))
EveryStepCounts == [][RunnerCounts /\ \A w \in Workers : WorkerCounts(w)]_vars

\* What is left to do is a number.
LEMMA LeftTyped ==
    ASSUME TypeOK
    PROVE  Phase \in 0 .. 6 /\ \A w \in Workers : StageOf(castPc[w]) \in 0 .. 2 /\ ResultsLeft(w) \in Nat
<1>1. Runner \in Casters /\ started \in 0 .. NumResults  BY EventFacts DEF TypeOK
<1>2. Phase \in 0 .. 6  BY <1>1 DEF TypeOK, Phase, PhaseOf
<1>3. ASSUME NEW w \in Workers  PROVE StageOf(castPc[w]) \in 0 .. 2 /\ ResultsLeft(w) \in Nat
  <2>1. StageOf(castPc[w]) \in 0 .. 2  BY DEF StageOf
  <2>2. QED  BY <1>1, <2>1, SizesAssumption DEF ResultsLeft
<1>4. QED  BY <1>2, <1>3

\* A visit: the client was in the audience, and leaves it.
LEMMA VisitCounts ==
    ASSUME StreamInv, ~Dead, NEW b \in Casters, NEW s \in Clients, Send(b, s)
    PROVE  /\ Audience(b)' \subseteq Audience(b)
           /\ \A c \in Casters : Audience(c)' \subseteq Audience(c)
           /\ UNCHANGED started
           /\ \/ UNCHANGED castPc /\ Audience(b)' # Audience(b)
              \/ \A c \in Casters : castPc'[c] = "dead"
<1>1. TypeOK /\ ClientInv(s)  BY Alive
<1>2. s \in todo[b] /\ s \notin ToCome  BY <1>1 DEF Send, ClientInv, Outside, ToCome
<1>3. /\ todo'[b] = todo[b] \ {s} /\ UNCHANGED started
      /\ \A c \in Casters : todo'[c] \subseteq todo[c]
  BY <1>1 DEF Send, Unvisited, jobVars, TypeOK
<1>4. CASE UNCHANGED castPc /\ UNCHANGED clientPc
  <2>1. ToCome' = ToCome  BY <1>4 DEF ToCome
  <2>2. QED  BY <1>2, <1>3, <1>4, <2>1 DEF Audience
<1>5. CASE Panic
  <2>1. ToCome' = {}  BY <1>5 DEF Panic, ToCome
  <2>2. \A c \in Casters : castPc'[c] = "dead"  BY <1>5 DEF Panic
  <2>3. QED  BY <1>3, <2>1, <2>2 DEF Audience
<1>6. QED  BY <1>4, <1>5 DEF Send

\* A step of a client makes no Range longer.
LEMMA ClientCounts ==
    ASSUME TypeOK, NEW s \in Clients, Get(s) \/ Handler(s) \/ Disconnect(s)
    PROVE  UNCHANGED <<castPc, started>> /\ \A b \in Casters : Audience(b)' \subseteq Audience(b)
<1>1. CASE Get(s) \/ Limit(s) \/ Upgrade(s) \/ Join(s) \/ Receive(s) \/ HangUp(s) \/ Disconnect(s)
  <2>1. UNCHANGED <<castPc, started, todo>>
    BY <1>1 DEF Get, Limit, Upgrade, Join, Receive, HangUp, Disconnect, castVars, jobVars
  <2>2. ToCome' \subseteq ToCome
    BY <1>1
       DEF Get, Limit, Upgrade, Join, Receive, HangUp, Disconnect, ClientGoto, ToCome, TypeOK
  <2>3. QED  BY <2>1, <2>2 DEF Audience
<1>2. CASE Store(s)
  <2>1. /\ UNCHANGED <<castPc, started>> /\ s \in ToCome
        /\ \A b \in Casters : todo'[b] \subseteq todo[b] \union {s}
    BY <1>2 DEF Store, jobVars, ToCome
  <2>2. ToCome' \subseteq ToCome  BY <1>2 DEF Store, ClientGoto, ToCome, TypeOK
  <2>3. QED  BY <2>1, <2>2 DEF Audience
<1>3. CASE Cleanup(s)
  <2>1. UNCHANGED <<castPc, started>> /\ \A b \in Casters : todo'[b] \subseteq todo[b]
    BY <1>3 DEF Cleanup, jobVars
  <2>2. ToCome' \subseteq ToCome  BY <1>3 DEF Cleanup, ClientGoto, ToCome, TypeOK
  <2>3. QED  BY <2>1, <2>2 DEF Audience
<1>4. QED  BY <1>1, <1>2, <1>3 DEF Handler

\* What the goroutine of the job has to do.
LEMMA RunnerStepCounts ==
    ASSUME StreamInv, [Next]_vars
    PROVE  RunnerCounts
<1>0. Runner \in Casters /\ TypeOK /\ Phase \in 0 .. 6
  BY EventFacts, LeftTyped DEF StreamInv
<1> USE <1>0
<1>1. CASE UNCHANGED vars \/ (Dead /\ Next)
  <2>1. UNCHANGED vars  BY <1>1, DeadStays
  <2>2. UNCHANGED <<castPc, todo, clientPc>>  BY <2>1 DEF vars, castVars, clientVars
  <2>3. Phase' = Phase /\ Audience(Runner)' = Audience(Runner)
    BY <2>2 DEF Phase, Audience, ToCome
  <2>4. ~Run
    <3>1. CASE Dead /\ Next
      BY <3>1, EventFacts
         DEF Dead, Run, Begin, PoolReturns, PoolAborts, Save, Announce, Forget, RunnerEnds, Send, Close
    <3>2. CASE UNCHANGED vars
      <4>1. ASSUME NEW s \in Clients  PROVE ~Send(Runner, s) /\ ~Close(s)
        BY <2>2 DEF Send, Close, Unvisited, TypeOK
      <4>2. ~Begin /\ ~PoolReturns /\ ~PoolAborts /\ ~Save /\ ~Announce /\ ~Forget /\ ~RunnerEnds
        BY <2>2
           DEF Begin, PoolReturns, PoolAborts, Save, Announce, Forget, RunnerEnds, CastGoto, TypeOK
      <4>3. QED  BY <4>1, <4>2 DEF Run
    <3>3. QED  BY <1>1, <3>1, <3>2
  <2>5. QED  BY <2>3, <2>4 DEF RunnerCounts, NotRises
<1>2. CASE ~Dead /\ Next
  <2>1. ASSUME NEW w \in Workers, Worker(w)
        PROVE  NotRises(Phase', Phase, Audience(Runner)', Audience(Runner))
    <3>1. w \in Casters /\ w # Runner  BY EventFacts
    <3>2. ASSUME NEW s \in Clients, Send(w, s)
          PROVE  NotRises(Phase', Phase, Audience(Runner)', Audience(Runner))
      <4>1. Audience(Runner)' \subseteq Audience(Runner)  BY <1>2, <3>1, <3>2, VisitCounts
      <4>2. castPc'[Runner] = castPc[Runner] \/ castPc'[Runner] = "dead"
        BY <1>2, <3>1, <3>2, VisitCounts
      <4>3. Phase' = Phase \/ Phase' = 0  BY <4>2 DEF Phase, PhaseOf
      <4>4. QED  BY <4>1, <4>3 DEF NotRises
    <3>3. ASSUME Start(w) \/ OnResult(w) \/ EndResult(w)
          PROVE  NotRises(Phase', Phase, Audience(Runner)', Audience(Runner))
      <4>1. castPc'[Runner] = castPc[Runner] /\ todo'[Runner] = todo[Runner] /\ UNCHANGED clientPc
        BY <3>1, <3>3 DEF Start, OnResult, EndResult, Load, CastGoto, clientVars, TypeOK
      <4>2. QED  BY <4>1 DEF NotRises, Phase, Audience, ToCome
    <3>4. QED  BY <2>1, <3>2, <3>3 DEF Worker
  <2>2. ASSUME Run  PROVE Falls(Phase', Phase, Audience(Runner)', Audience(Runner))
    <3>1. ASSUME NEW s \in Clients, Send(Runner, s)
          PROVE  Falls(Phase', Phase, Audience(Runner)', Audience(Runner))
      <4>1. Audience(Runner)' \subseteq Audience(Runner)  BY <1>2, <3>1, VisitCounts
      <4>2. CASE castPc' = castPc /\ Audience(Runner)' # Audience(Runner)
        BY <4>1, <4>2 DEF Falls, Phase
      <4>3. CASE castPc'[Runner] = "dead"
        <5>1. Phase = 2 /\ Phase' = 0  BY <3>1, <4>3 DEF Send, Phase, PhaseOf
        <5>2. QED  BY <5>1 DEF Falls
      <4>4. QED  BY <1>2, <3>1, <4>2, <4>3, VisitCounts
    <3>2. ASSUME NEW s \in Clients, Close(s)
          PROVE  Falls(Phase', Phase, Audience(Runner)', Audience(Runner))
      <4>1. ClientInv(s)  BY <1>2, Alive
      <4>2. s \in todo[Runner] /\ s \notin ToCome  BY <3>2, <4>1 DEF Close, ClientInv, Outside, ToCome
      <4>3. UNCHANGED <<castPc, clientPc>> /\ todo'[Runner] = todo[Runner] \ {s}
        BY <3>2 DEF Close, clientVars, TypeOK
      <4>4. ToCome' = ToCome /\ Phase' = Phase  BY <4>3 DEF ToCome, Phase
      <4>5. QED  BY <4>2, <4>3, <4>4 DEF Falls, Audience
    <3>3. CASE Begin \/ PoolReturns \/ PoolAborts \/ Save \/ Announce \/ Forget \/ RunnerEnds
      <4>1. \/ castPc[Runner] = "begin" /\ castPc'[Runner] = "pool"
            \/ castPc[Runner] = "pool" /\ castPc'[Runner] = "save"
            \/ castPc[Runner] = "save" /\ castPc'[Runner] = "announce"
            \/ castPc[Runner] = "announce" /\ castPc'[Runner] = "sending"
            \/ castPc[Runner] = "sending" /\ castPc'[Runner] = "closing"
            \/ castPc[Runner] = "closing" /\ castPc'[Runner] = "gone"
        BY <3>3
           DEF Begin, PoolReturns, PoolAborts, Save, Announce, Forget, RunnerEnds, CastGoto, TypeOK
      <4>2. Phase' < Phase  BY <4>1 DEF Phase, PhaseOf
      <4>3. QED  BY <4>2 DEF Falls
    <3>4. QED  BY <2>2, <3>1, <3>2, <3>3 DEF Run
  <2>3. ASSUME CtxEnd \/ CancelWrite \/ Rest
        PROVE  NotRises(Phase', Phase, Audience(Runner)', Audience(Runner))
    <3>1. UNCHANGED <<castPc, todo, clientPc>>
      BY <2>3 DEF CtxEnd, CancelWrite, Rest, vars, castVars, clientVars
    <3>2. QED  BY <3>1 DEF NotRises, Phase, Audience, ToCome
  <2>4. ASSUME NEW s \in Clients, Get(s) \/ Handler(s) \/ Disconnect(s)
        PROVE  NotRises(Phase', Phase, Audience(Runner)', Audience(Runner))
    BY <2>4, ClientCounts DEF NotRises, Phase
  <2>5. Falls(Phase', Phase, Audience(Runner)', Audience(Runner)) =>
          NotRises(Phase', Phase, Audience(Runner)', Audience(Runner))
    BY DEF Falls, NotRises
  <2>6. Run => Falls(Phase', Phase, Audience(Runner)', Audience(Runner))  BY <2>2
  <2>7. NotRises(Phase', Phase, Audience(Runner)', Audience(Runner))
    BY <1>2, <2>1, <2>2, <2>3, <2>4, <2>5 DEF Next
  <2>8. QED  BY <2>6, <2>7 DEF RunnerCounts
<1>3. QED  BY <1>1, <1>2

\* What a worker has to do.
LEMMA WorkerStepCounts ==
    ASSUME StreamInv, [Next]_vars, NEW w \in Workers
    PROVE  WorkerCounts(w)
<1> DEFINE Rests == NotRises(ResultsLeft(w)', ResultsLeft(w), Audience(w)', Audience(w))
           Works == Falls(ResultsLeft(w)', ResultsLeft(w), Audience(w)', Audience(w))
<1>0. /\ w \in Casters /\ w # Runner /\ TypeOK
      /\ started \in 0 .. NumResults /\ NumResults \in Nat /\ StageOf(castPc[w]) \in 0 .. 2
  BY EventFacts, LeftTyped, SizesAssumption DEF StreamInv, TypeOK
<1> USE <1>0
<1>1. Works => Rests  BY DEF Falls, NotRises
<1>2. ASSUME castPc'[w] = castPc[w], UNCHANGED started, Audience(w)' \subseteq Audience(w)
      PROVE  Rests
  BY <1>2 DEF NotRises, ResultsLeft
<1>3. CASE UNCHANGED vars \/ (Dead /\ Next)
  <2>1. UNCHANGED vars  BY <1>3, DeadStays
  <2>2. UNCHANGED <<castPc, todo, clientPc, started>>  BY <2>1 DEF vars, castVars, clientVars, jobVars
  <2>3. Rests
    <3>1. Audience(w)' = Audience(w)  BY <2>2 DEF Audience, ToCome
    <3>2. QED  BY <1>2, <2>2, <3>1
  <2>4. ~Worker(w)
    <3>1. CASE Dead /\ Next
      <4>1. castPc[w] = "dead"  BY <3>1 DEF StreamInv, AllDead
      <4>2. QED  BY <4>1 DEF Worker, Start, OnResult, Send, EndResult
    <3>2. CASE UNCHANGED vars
      <4>1. ASSUME NEW s \in Clients  PROVE ~Send(w, s)
        BY <2>2 DEF Send, Unvisited, TypeOK
      <4>2. ~Start(w) /\ ~OnResult(w) /\ ~EndResult(w)
        BY <2>2 DEF Start, OnResult, EndResult, CastGoto, TypeOK
      <4>3. QED  BY <4>1, <4>2 DEF Worker
    <3>3. QED  BY <1>3, <3>1, <3>2
  <2>5. QED  BY <2>3, <2>4 DEF WorkerCounts
<1>4. CASE ~Dead /\ Next
  <2>1. ASSUME NEW b \in Casters, NEW s \in Clients, Send(b, s)  PROVE Rests /\ (b = w => Works)
    <3>1. Audience(w)' \subseteq Audience(w) /\ UNCHANGED started
      BY <1>4, <2>1, VisitCounts
    <3>2. CASE UNCHANGED castPc /\ Audience(b)' # Audience(b)
      <4>1. ResultsLeft(w)' = ResultsLeft(w)  BY <3>1, <3>2 DEF ResultsLeft
      <4>2. QED  BY <3>1, <3>2, <4>1 DEF Falls, NotRises
    <3>3. CASE castPc'[w] = "dead"
      <4>1. StageOf(castPc'[w]) = 0 /\ (b = w => StageOf(castPc[w]) = 1)
        BY <2>1, <3>3 DEF Send, StageOf
      <4>2. /\ ResultsLeft(w)' = 3 * (NumResults - started)
            /\ ResultsLeft(w) = 3 * (NumResults - started) + StageOf(castPc[w])
        BY <3>1, <4>1 DEF ResultsLeft
      <4>3. ResultsLeft(w)' <= ResultsLeft(w) /\ (b = w => ResultsLeft(w)' < ResultsLeft(w))
        BY <4>1, <4>2
      <4>4. ResultsLeft(w)' < ResultsLeft(w) \/ ResultsLeft(w)' = ResultsLeft(w)
        BY <4>1, <4>2
      <4>5. QED  BY <3>1, <4>3, <4>4 DEF Falls, NotRises
    <3>4. QED  BY <1>4, <2>1, <3>2, <3>3, VisitCounts
  <2>2. ASSUME NEW v \in Workers, Start(v)  PROVE Works
    <3>1. started' = started + 1 /\ started < NumResults /\ (v # w => castPc'[w] = castPc[w])
      BY <2>2 DEF Start, CastGoto, TypeOK
    <3>2. StageOf(castPc'[w]) \in 0 .. 2  BY DEF StageOf
    <3>3. ResultsLeft(w)' = 3 * (NumResults - started - 1) + StageOf(castPc'[w])
      BY <3>1, <3>2 DEF ResultsLeft
    <3>4. ResultsLeft(w)' < ResultsLeft(w)  BY <3>1, <3>2, <3>3 DEF ResultsLeft
    <3>5. QED  BY <3>4 DEF Falls
  <2>3. ASSUME NEW v \in Workers, OnResult(v) \/ EndResult(v)  PROVE Rests /\ (v = w => Works)
    <3>1. v \in Casters /\ UNCHANGED started  BY <2>3, EventFacts DEF OnResult, EndResult, jobVars
    <3>2. CASE v = w
      <4>1. StageOf(castPc'[w]) + 1 = StageOf(castPc[w])
        BY <2>3, <3>2 DEF OnResult, EndResult, CastGoto, StageOf, TypeOK
      <4>2. StageOf(castPc'[w]) \in 0 .. 2  BY DEF StageOf
      <4>3. ResultsLeft(w)' < ResultsLeft(w)  BY <3>1, <4>1, <4>2 DEF ResultsLeft
      <4>4. QED  BY <1>1, <4>3 DEF Falls
    <3>3. CASE v # w
      <4>1. castPc'[w] = castPc[w] /\ todo'[w] = todo[w] /\ UNCHANGED clientPc
        BY <2>3, <3>1, <3>3 DEF OnResult, EndResult, Load, CastGoto, clientVars, TypeOK
      <4>2. Audience(w)' = Audience(w)  BY <4>1 DEF Audience, ToCome
      <4>3. QED  BY <1>2, <3>1, <3>3, <4>1, <4>2
    <3>4. QED  BY <3>2, <3>3
  <2>4. ASSUME Begin \/ PoolReturns \/ PoolAborts \/ Save \/ Announce \/ Forget \/ RunnerEnds
               \/ (\E s \in Clients : Close(s)) \/ CtxEnd \/ CancelWrite \/ Rest
        PROVE  Rests
    <3>1. UNCHANGED started /\ UNCHANGED clientPc
      BY <2>4
         DEF Begin, PoolReturns, PoolAborts, Save, Announce, Forget, RunnerEnds, Close, CtxEnd,
             CancelWrite, Rest, vars, jobVars, clientVars
    <3>2. castPc'[w] = castPc[w] /\ todo'[w] = todo[w]
      <4>1. CASE Begin \/ PoolReturns \/ PoolAborts \/ Save
        BY <4>1 DEF Begin, PoolReturns, PoolAborts, Save, CastGoto, TypeOK
      <4>2. CASE Announce \/ Forget \/ RunnerEnds
        BY <4>2 DEF Announce, Load, Forget, RunnerEnds, CastGoto, TypeOK
      <4>3. CASE (\E s \in Clients : Close(s)) \/ CtxEnd \/ CancelWrite \/ Rest
        BY <4>3 DEF Close, CtxEnd, CancelWrite, Rest, vars, castVars, TypeOK
      <4>4. QED  BY <2>4, <4>1, <4>2, <4>3
    <3>3. Audience(w)' = Audience(w)  BY <3>1, <3>2 DEF Audience, ToCome
    <3>4. QED  BY <1>2, <3>1, <3>2, <3>3
  <2>5. ASSUME NEW s \in Clients, Get(s) \/ Handler(s) \/ Disconnect(s)  PROVE Rests
    BY <1>2, <2>5, ClientCounts
  <2>6. Worker(w) => Works  BY <2>1, <2>2, <2>3 DEF Worker
  <2>7. ASSUME NEW v \in Workers, Worker(v)  PROVE Rests
    <3>1. v \in Casters  BY EventFacts
    <3>2. QED  BY <1>1, <2>1, <2>2, <2>3, <2>7, <3>1 DEF Worker
  <2>8. ASSUME Run  PROVE Rests
    <3>1. Runner \in Casters  BY EventFacts
    <3>2. QED  BY <2>1, <2>4, <2>8, <3>1 DEF Run
  <2> HIDE DEF Rests, Works
  <2>9. Rests  BY <1>4, <2>4, <2>5, <2>7, <2>8 DEF Next
  <2>10. QED  BY <2>6, <2>9 DEF WorkerCounts, Rests, Works
<1>5. QED  BY <1>3, <1>4

\* The job never goes on for ever, whoever subscribes: with finitely many clients the pairs
\* that fall here cannot fall for ever.
THEOREM BroadcastsRunOut == Spec => EveryStepCounts
<1>1. StreamInv /\ [Next]_vars => [RunnerCounts /\ \A w \in Workers : WorkerCounts(w)]_vars
  BY RunnerStepCounts, WorkerStepCounts
<1>2. QED  BY <1>1, StreamInvariant, PTL DEF Spec, EveryStepCounts

=============================================================================
