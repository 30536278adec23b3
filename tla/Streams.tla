------------------------------- MODULE Streams -------------------------------
(***************************************************************************)
(* The live event streams of one asynchronous job (internal/server/        *)
(* server.go): subscribe, broadcast and closeSubscribers over the          *)
(* concurrent map jobSubscribers, the SSE handler (JobStreamHandler), the  *)
(* WebSocket handler (WebsocketHandler) and the end of the job's           *)
(* background goroutine, which sends "done" and closes the channels.       *)
(*                                                                         *)
(* The workers of RunJobPool appear as far as they call OnResult.  The     *)
(* operations of sync.Map are atomic, except Range: it visits what was in  *)
(* the map when it began and is still there, and may visit what comes      *)
(* later.  The n-th event that a worker w broadcasts is <<w, n>>, the one  *)
(* that ends the job is Done.  Heartbeats, pings and the snapshot a        *)
(* WebSocket gets first are left out, and a cancel action sent over the    *)
(* WebSocket is any other cancel request.                                  *)
(***************************************************************************)
EXTENDS Integers, Sequences, FiniteSets

CONSTANTS
    Workers,       \* the workers of the job's pool
    Runner,        \* the job's background goroutine
    NumResults,    \* bound: how many commands the batch executes
    Sse,           \* the requests to JobStreamHandler
    Ws,            \* the requests to WebsocketHandler
    BufCap,        \* capacity of a subscriber's channel, 100 in the code
    WSMaxClients,  \* the limit on WebSocket clients
    RampUp         \* TRUE iff RunJobPool may abandon its workers during ramp-up

ASSUME NamesAssumption == Runner \notin Workers /\ Sse \intersect Ws = {}
ASSUME SizesAssumption == /\ {NumResults, WSMaxClients} \subseteq Nat
                          /\ BufCap \in Nat \ {0}
                          /\ RampUp \in BOOLEAN
                          /\ IsFiniteSet(Workers) /\ IsFiniteSet(Ws)

Clients == Sse \union Ws
Casters == Workers \union {Runner}
Done    == <<Runner, 0>>
Nothing == <<Runner, -1>>

VARIABLES
    terminal,  \* the store says that the job is over
    ctxEnded,  \* the job's context has ended
    started,   \* how many executions have started
    castPc,    \* each broadcaster: the next step of its goroutine
    event,     \* each broadcaster: the event it broadcasts, or Nothing
    ranged,    \* each broadcaster: the inner map its Range goes over
    todo,      \* each broadcaster: the clients its Range has still to visit
    cast,      \* each worker: how many results it has broadcast
    aborted,   \* RunJobPool returned during ramp-up
    entry,     \* jobSubscribers[jobID]: "none", or the inner map "first" or "late"
    deleted,   \* closeSubscribers has run LoadAndDelete
    clientPc,  \* each client: the next step of its handler
    slot,      \* each client: the inner map LoadOrStore gave it
    joined,    \* the clients whose channel is stored in their inner map
    buf,       \* each client: the buffer of its channel
    closed,    \* the clients whose channel is closed
    received,  \* each client: what was written to its connection
    activeWS,  \* the atomic counter Server.activeWSClients
    owed       \* history: the events broadcast while a client was subscribed, less
               \* those it received and those dropped because its channel was full

jobVars    == <<terminal, ctxEnded, started, aborted>>
castVars   == <<castPc, event, ranged, todo, cast>>
clientVars == <<clientPc, slot, received, activeWS>>
chanVars   == <<buf, closed>>
vars == <<jobVars, castVars, entry, deleted, clientVars, joined, chanVars, owed>>

Init ==
    /\ terminal = FALSE /\ ctxEnded = FALSE
    /\ started = 0 /\ aborted = FALSE
    /\ castPc = [b \in Casters |-> IF b = Runner THEN "begin" ELSE "range"]
    /\ event = [b \in Casters |-> Nothing]
    /\ ranged = [b \in Casters |-> "none"]
    /\ todo = [b \in Casters |-> {}]
    /\ cast = [w \in Workers |-> 0]
    /\ entry = "none" /\ deleted = FALSE
    /\ clientPc = [s \in Clients |-> "get"]
    /\ slot = [s \in Clients |-> "none"]
    /\ joined = {}
    /\ buf = [s \in Clients |-> <<>>]
    /\ closed = {}
    /\ received = [s \in Clients |-> <<>>]
    /\ activeWS = 0
    /\ owed = [s \in Clients |-> {}]

Members(m) == {s \in joined : slot[s] = m}

-----------------------------------------------------------------------------
(* Mutated forms of the definitions below, one per bug the properties are    *)
(* meant to catch.  Nothing in the specification uses them.                  *)
VisitAgain(b, s)   == todo[b]
UncheckedBuffer(s) == FALSE
PoolNotAwaited     == TRUE
CloseNobody        == {}

-----------------------------------------------------------------------------
(* broadcast(jobID, event), called by the workers and by the goroutine. *)

CastGoto(b, pc) == castPc' = [castPc EXCEPT ![b] = pc]

\* jobSubscribers.Load, and the Range begins if there is an inner map.
Load(b, e) ==
    /\ event' = [event EXCEPT ![b] = e]
    /\ ranged' = [ranged EXCEPT ![b] = entry]
    /\ todo' = [todo EXCEPT ![b] = Members(entry)]
    /\ owed' = [s \in Clients |-> IF s \in Members(entry) THEN owed[s] \union {e} ELSE owed[s]]

Unvisited(b, s) == todo[b] \ {s}
Full(s)         == Len(buf[s]) >= BufCap
Sent(b, s)      == [buf EXCEPT ![s] = Append(buf[s], event[b])]

\* A panic in one goroutine takes the process down.
Panic == /\ castPc' = [b \in Casters |-> "dead"]
         /\ clientPc' = [s \in Clients |-> "dead"]

\* select { case ch <- event: default: }.  A send on a closed channel panics.
Send(b, s) ==
    /\ castPc[b] = "sending"
    /\ s \in todo[b]
    /\ todo' = [todo EXCEPT ![b] = Unvisited(b, s)]
    /\ \/ s \in closed /\ Panic /\ UNCHANGED <<buf, owed>>
       \/ /\ s \notin closed /\ Full(s)
          /\ owed' = [owed EXCEPT ![s] = @ \ {event[b]}]
          /\ UNCHANGED <<castPc, clientPc, buf>>
       \/ /\ s \notin closed /\ ~Full(s)
          /\ buf' = Sent(b, s)
          /\ UNCHANGED <<castPc, clientPc, owed>>
    /\ UNCHANGED <<jobVars, event, ranged, cast, entry, deleted, slot, received, activeWS, joined,
                   closed>>

\* The call returns.
Released(b) == event' = [event EXCEPT ![b] = Nothing] /\ ranged' = [ranged EXCEPT ![b] = "none"]

-----------------------------------------------------------------------------
(* The workers of RunJobPool. *)

\* A worker takes a task while the context is live.
Start(w) ==
    /\ castPc[w] = "range" /\ castPc[Runner] = "pool"
    /\ ~ctxEnded /\ started < NumResults
    /\ started' = started + 1
    /\ CastGoto(w, "execute")
    /\ UNCHANGED <<terminal, ctxEnded, aborted, event, ranged, todo, cast, entry, deleted,
                   clientVars, joined, chanVars, owed>>

\* The command has ended: opts.OnResult(detail).
OnResult(w) ==
    /\ castPc[w] = "execute"
    /\ Load(w, <<w, cast[w] + 1>>)
    /\ CastGoto(w, "sending")
    /\ UNCHANGED <<jobVars, cast, entry, deleted, clientVars, joined, chanVars>>

EndResult(w) ==
    /\ castPc[w] = "sending" /\ todo[w] = {}
    /\ cast' = [cast EXCEPT ![w] = cast[w] + 1]
    /\ Released(w)
    /\ CastGoto(w, "range")
    /\ UNCHANGED <<jobVars, todo, entry, deleted, clientVars, joined, chanVars, owed>>

Worker(w) == Start(w) \/ OnResult(w) \/ (\E s \in Clients : Send(w, s)) \/ EndResult(w)

-----------------------------------------------------------------------------
(* The background goroutine. *)

\* JobStore.Update with the job running, also over a cancelled one.
Begin ==
    /\ castPc[Runner] = "begin"
    /\ terminal' = FALSE
    /\ CastGoto(Runner, "pool")
    /\ UNCHANGED <<ctxEnded, started, aborted, event, ranged, todo, cast, entry, deleted,
                   clientVars, joined, chanVars, owed>>

PoolOver == \A w \in Workers : castPc[w] = "range"

\* wg.Wait() is over, and the channel of tasks drained.
PoolReturns ==
    /\ castPc[Runner] = "pool"
    /\ PoolOver
    /\ ctxEnded \/ started = NumResults
    /\ CastGoto(Runner, "save")
    /\ UNCHANGED <<jobVars, event, ranged, todo, cast, entry, deleted, clientVars, joined, chanVars,
                   owed>>

\* RunJobPool returns during ramp-up, whatever its workers do.
PoolAborts ==
    /\ castPc[Runner] = "pool"
    /\ RampUp /\ ctxEnded
    /\ aborted' = TRUE
    /\ CastGoto(Runner, "save")
    /\ UNCHANGED <<terminal, ctxEnded, started, event, ranged, todo, cast, entry, deleted,
                   clientVars, joined, chanVars, owed>>

\* JobStore.Update with the final record.
Save ==
    /\ castPc[Runner] = "save"
    /\ terminal' = TRUE
    /\ CastGoto(Runner, "announce")
    /\ UNCHANGED <<ctxEnded, started, aborted, event, ranged, todo, cast, entry, deleted,
                   clientVars, joined, chanVars, owed>>

\* s.broadcast(jobID, "done")
Announce ==
    /\ castPc[Runner] = "announce"
    /\ Load(Runner, Done)
    /\ CastGoto(Runner, "sending")
    /\ UNCHANGED <<jobVars, cast, entry, deleted, clientVars, joined, chanVars>>

\* What the Range of closeSubscribers goes over.
Closing == Members(entry)

\* closeSubscribers: LoadAndDelete, and its Range begins.
Forget ==
    /\ castPc[Runner] = "sending" /\ todo[Runner] = {}
    /\ entry' = "none" /\ deleted' = TRUE
    /\ ranged' = [ranged EXCEPT ![Runner] = entry]
    /\ todo' = [todo EXCEPT ![Runner] = Closing]
    /\ CastGoto(Runner, "closing")
    /\ UNCHANGED <<jobVars, event, cast, clientVars, joined, chanVars, owed>>

Close(s) ==
    /\ castPc[Runner] = "closing"
    /\ s \in todo[Runner]
    /\ closed' = closed \union {s}
    /\ todo' = [todo EXCEPT ![Runner] = @ \ {s}]
    /\ UNCHANGED <<jobVars, castPc, event, ranged, cast, entry, deleted, clientVars, joined, buf,
                   owed>>

RunnerEnds ==
    /\ castPc[Runner] = "closing" /\ todo[Runner] = {}
    /\ Released(Runner)
    /\ CastGoto(Runner, "gone")
    /\ UNCHANGED <<jobVars, todo, cast, entry, deleted, clientVars, joined, chanVars,
                   owed>>

Run == \/ Begin \/ PoolReturns \/ PoolAborts \/ Save \/ Announce \/ Forget \/ RunnerEnds
       \/ \E s \in Clients : Send(Runner, s) \/ Close(s)

-----------------------------------------------------------------------------
(* The job's context, and the store as other requests change it. *)

\* The timeout passes, or a cancel request calls cancel().
CtxEnd ==
    /\ ~ctxEnded /\ castPc[Runner] \in {"begin", "pool"}
    /\ ctxEnded' = TRUE
    /\ UNCHANGED <<terminal, started, aborted, castVars, entry, deleted, clientVars, joined,
                   chanVars, owed>>

\* A cancel request writes the job as cancelled, after cancel() or while the job
\* is still queued.
CancelWrite ==
    /\ ~terminal
    /\ \/ castPc[Runner] = "begin"
       \/ ctxEnded /\ castPc[Runner] \in {"pool", "save"}
    /\ terminal' = TRUE
    /\ UNCHANGED <<ctxEnded, started, aborted, castVars, entry, deleted, clientVars, joined,
                   chanVars, owed>>

-----------------------------------------------------------------------------
(* The handlers of the clients. *)

ClientGoto(s, pc) == clientPc' = [clientPc EXCEPT ![s] = pc]

\* JobStore.Get: 404 if a job that was over has been evicted.  To SSE a terminal
\* job is replayed from its report, which ends the stream; a WebSocket does not
\* ask for the status.
Get(s) ==
    /\ clientPc[s] = "get"
    /\ \/ terminal /\ ClientGoto(s, "ended")
       \/ s \in Ws /\ ClientGoto(s, "limit")
       \/ s \in Sse /\ ~terminal /\ ClientGoto(s, "join")
    /\ UNCHANGED <<jobVars, castVars, entry, deleted, slot, received, activeWS, joined, chanVars,
                   owed>>

\* The limit on WebSocket clients: 503.
Limit(s) ==
    /\ clientPc[s] = "limit"
    /\ ClientGoto(s, IF activeWS >= WSMaxClients THEN "ended" ELSE "upgrade")
    /\ UNCHANGED <<jobVars, castVars, entry, deleted, slot, received, activeWS, joined, chanVars,
                   owed>>

\* The connection is upgraded, or fails, and the client counted.
Upgrade(s) ==
    /\ clientPc[s] = "upgrade"
    /\ \/ ClientGoto(s, "ended") /\ UNCHANGED activeWS
       \/ ClientGoto(s, "join") /\ activeWS' = activeWS + 1
    /\ UNCHANGED <<jobVars, castVars, entry, deleted, slot, received, joined, chanVars, owed>>

\* subscribe: LoadOrStore makes a new inner map if there is none.
Join(s) ==
    /\ clientPc[s] = "join"
    /\ entry' = CASE entry # "none" -> entry
                  [] entry = "none" /\ ~deleted -> "first"
                  [] entry = "none" /\ deleted  -> "late"
    /\ slot' = [slot EXCEPT ![s] = entry']
    /\ ClientGoto(s, "store")
    /\ UNCHANGED <<jobVars, castVars, deleted, received, activeWS, joined, chanVars, owed>>

\* subMap.Store: a Range that is going on may or may not come to the new key.
Store(s) ==
    /\ clientPc[s] = "store"
    /\ joined' = joined \union {s}
    /\ \E R \in SUBSET {b \in Casters : ranged[b] = slot[s] /\ castPc[b] \in {"sending", "closing"}} :
         todo' = [b \in Casters |-> IF b \in R THEN todo[b] \union {s} ELSE todo[b]]
    /\ ClientGoto(s, "loop")
    /\ UNCHANGED <<jobVars, castPc, event, ranged, cast, entry, deleted, slot, received, activeWS,
                   chanVars, owed>>

\* An event arrives and is written out; "done" ends the stream.
Receive(s) ==
    /\ clientPc[s] = "loop" /\ buf[s] # <<>>
    /\ received' = [received EXCEPT ![s] = Append(@, Head(buf[s]))]
    /\ buf' = [buf EXCEPT ![s] = Tail(@)]
    /\ owed' = [owed EXCEPT ![s] = @ \ {Head(buf[s])}]
    /\ ClientGoto(s, IF Head(buf[s]) = Done THEN "cleanup" ELSE "loop")
    /\ UNCHANGED <<jobVars, castVars, entry, deleted, slot, activeWS, joined, closed>>

\* The channel is closed and drained.
HangUp(s) ==
    /\ clientPc[s] = "loop" /\ buf[s] = <<>> /\ s \in closed
    /\ ClientGoto(s, "cleanup")
    /\ UNCHANGED <<jobVars, castVars, entry, deleted, slot, received, activeWS, joined, chanVars,
                   owed>>

\* The client goes away: its context ends, or a write to it fails.
Disconnect(s) ==
    /\ clientPc[s] = "loop"
    /\ ClientGoto(s, "quit")
    /\ UNCHANGED <<jobVars, castVars, entry, deleted, slot, received, activeWS, joined, chanVars,
                   owed>>

\* The deferred calls: the key is deleted, a WebSocket is counted off, and the
\* connection closed.  What a Range still sends to the channel, nobody reads.
Cleanup(s) ==
    /\ clientPc[s] \in {"cleanup", "quit"}
    /\ joined' = joined \ {s}
    /\ todo' = [b \in Casters |-> todo[b] \ {s}]
    /\ activeWS' = IF s \in Ws THEN activeWS - 1 ELSE activeWS
    /\ slot' = [slot EXCEPT ![s] = "none"]
    /\ buf' = [buf EXCEPT ![s] = <<>>] /\ received' = [received EXCEPT ![s] = <<>>]
    /\ closed' = closed \ {s} /\ owed' = [owed EXCEPT ![s] = {}]
    /\ ClientGoto(s, "ended")
    /\ UNCHANGED <<jobVars, castPc, event, ranged, cast, entry, deleted>>

Handler(s) == \/ Limit(s) \/ Upgrade(s) \/ Join(s) \/ Store(s) \/ Receive(s) \/ HangUp(s)
              \/ Cleanup(s)

-----------------------------------------------------------------------------
Dead == castPc[Runner] = "dead"

\* The job is over and so are all streams, or the process has died.
Rest ==
    /\ \/ Dead
       \/ castPc[Runner] = "gone" /\ PoolOver /\ \A s \in Clients : clientPc[s] = "ended"
    /\ UNCHANGED vars

Next ==
    \/ \E w \in Workers : Worker(w)
    \/ Run
    \/ CtxEnd
    \/ CancelWrite
    \/ \E s \in Clients : Get(s) \/ Handler(s) \/ Disconnect(s)
    \/ Rest

Spec == Init /\ [][Next]_vars

\* The goroutines that can run do run, commands end and a stream that is open is
\* read.  No client has to come or go, the context need not end.
Fairness == /\ \A w \in Workers : WF_vars(Worker(w))
            /\ WF_vars(Run)
            /\ \A s \in Clients : WF_vars(Handler(s))
FairSpec == Spec /\ Fairness

-----------------------------------------------------------------------------
(* Properties. *)

Events == (Workers \X (1 .. NumResults)) \union {Done}

\* Type correctness of the streams' state; a channel never holds more than it can.
TypeOK ==
    /\ {terminal, ctxEnded, deleted, aborted} \subseteq BOOLEAN
    /\ started \in 0 .. NumResults
    /\ castPc \in [Casters -> {"range", "execute", "sending", "begin", "pool", "save", "announce",
                               "closing", "gone", "dead"}]
    /\ event \in [Casters -> Events \union {Nothing}]
    /\ ranged \in [Casters -> {"none", "first", "late"}]
    /\ todo \in [Casters -> SUBSET Clients]
    /\ cast \in [Workers -> 0 .. NumResults]
    /\ entry \in {"none", "first", "late"}
    /\ clientPc \in [Clients -> {"get", "limit", "upgrade", "join", "store", "loop", "cleanup",
                                 "quit", "ended", "dead"}]
    /\ slot \in [Clients -> {"none", "first", "late"}]
    /\ joined \subseteq Clients /\ closed \subseteq Clients
    /\ buf \in [Clients -> Seq(Events)] /\ \A s \in Clients : Len(buf[s]) <= BufCap
    /\ received \in [Clients -> Seq(Events)]
    /\ activeWS \in 0 .. Cardinality(Ws)
    /\ owed \in [Clients -> SUBSET Events]

\* No event is sent on a closed channel, which would take the whole server down,
\* as long as RunJobPool waited for the workers that broadcast.
NoSendOnClosed == Dead => aborted

\* A client sees every result at most once, those of one worker in the order in
\* which it executed them, and "done" after all of them.
StreamInOrder ==
    \A s \in Clients : \A i, j \in DOMAIN received[s] :
      i < j => /\ received[s][i] # Done
               /\ received[s][i][1] = received[s][j][1] => received[s][i][2] < received[s][j][2]

\* A stream the server ended has delivered every event that was broadcast while
\* the client was subscribed, except those dropped because its channel was full.
StreamComplete == ~aborted => \A s \in Clients : clientPc[s] = "cleanup" => owed[s] = {}

\* A stream that is subscribed before closeSubscribers takes the map away ends,
\* even if "done" was dropped because its channel was full.
SubscribedEnds ==
    \A s \in Clients :
      s \in joined /\ slot[s] = "first" /\ ~deleted ~> clientPc[s] \in {"ended", "dead"}

-----------------------------------------------------------------------------
\* What README.md promises and the code does not keep: "the stream continues until
\* the job reaches a terminal state, at which point a final summary event is sent
\* and the connection is closed".
StreamEnds ==
    \A s \in Sse : clientPc[s] = "loop" ~> clientPc[s] # "loop"

=============================================================================
