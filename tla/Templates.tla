------------------------------ MODULE Templates ------------------------------
(***************************************************************************)
(* The state that the templates of one batch share (TemplateState in       *)
(* internal/engine/template.go): the named counters, the cached lines of   *)
(* data files and a cursor into each file.  Workers that render their      *)
(* commands call counter, fileLine and fileLineAt at the same time.  The   *)
(* other template functions keep no state.                                 *)
(*                                                                         *)
(* The maps are sync.Maps and the numbers in them atomic; the first load   *)
(* of a file is guarded by a mutex, with the cache looked up before and    *)
(* after taking it.  A counter or cursor is a cell on the heap, named      *)
(* after the worker that allocated it: LoadOrStore allocates one on every  *)
(* call and keeps it if the key is new.  A file is abstracted to how many  *)
(* lines it has when it is read, which may differ from one read to the     *)
(* next, or fail.                                                          *)
(***************************************************************************)
EXTENDS Integers, Sequences

CONSTANTS
    Workers,   \* the goroutines that render templates
    Counters,  \* the names of counters
    Files,     \* the names of data files
    MaxLines,  \* bound: how many lines a file has at most
    NoWorker

ASSUME KeyAssumption   == Counters \intersect Files = {}
ASSUME LineAssumption  == MaxLines \in Nat
ASSUME OwnerAssumption == NoWorker \notin Workers

Keys == Counters \union Files
Calls == ({"counter"} \X Counters) \union ({"fileLine", "fileLineAt"} \X Files)

Missing == -1   \* no lines: not cached, or the read failed

VARIABLES
    callPc,    \* each worker: the next step of its call, "idle" if it makes none
    call,      \* each worker: its call, the function and the key
    lines,     \* each worker: what getCachedLines gave it, the number of lines
    cell,      \* each worker: the cell LoadOrStore gave it
    cellOf,    \* counters and fileCursors: the cell of each key
    value,     \* the number in each cell
    fileLines, \* the cache of files: the number of lines
    lockedBy,  \* the holder of TemplateState.mu
    handed     \* history: the results each key has given, in order

templateVars == <<callPc, call, lines, cell, cellOf, value, fileLines, lockedBy, handed>>

NoCall == <<"none", "none">>

TemplateInit ==
    /\ callPc = [w \in Workers |-> "idle"]
    /\ call = [w \in Workers |-> NoCall]
    /\ lines = [w \in Workers |-> Missing]
    /\ cell = [w \in Workers |-> NoWorker]
    /\ cellOf = [k \in Keys |-> NoWorker]
    /\ value = [k \in Keys |-> [w \in Workers |-> 0]]
    /\ fileLines = [f \in Files |-> Missing]
    /\ lockedBy = NoWorker
    /\ handed = [k \in Keys |-> <<>>]

CallGoto(w, pc) == callPc' = [callPc EXCEPT ![w] = pc]

\* The call returns, or goes on at pc with n lines: its variables end with it.
Returns(w) ==
    /\ CallGoto(w, "idle")
    /\ call' = [call EXCEPT ![w] = NoCall]
    /\ lines' = [lines EXCEPT ![w] = Missing]
    /\ cell' = [cell EXCEPT ![w] = NoWorker]

GoesOn(w, pc, n) ==
    /\ CallGoto(w, pc)
    /\ lines' = [lines EXCEPT ![w] = n]
    /\ UNCHANGED <<call, cell>>

Name(w) == call[w][1]
Key(w)  == call[w][2]

-----------------------------------------------------------------------------
(* Mutated forms of the definitions below, one per bug the properties are    *)
(* meant to catch.  Nothing in the specification uses them.                  *)
StoreAlways(k, w)   == w
NoSecondLook(w)     == FALSE
KeepLock            == lockedBy
FromTwo(w, n)       == (n % lines[w]) + 1
FromZero(w, n)      == n % lines[w]
LoadedTwoUp(w, n)   == IF Name(w) = "fileLine" /\ n > 1 THEN GoesOn(w, "cell", n) ELSE Returns(w)

-----------------------------------------------------------------------------
(* counter and fileLine: the cell of a key. *)

\* The cell of key k after LoadOrStore by worker w.
LoadOrStored(k, w) == IF cellOf[k] = NoWorker THEN w ELSE cellOf[k]

LoadOrStore(w) ==
    /\ callPc[w] = "cell"
    /\ cellOf' = [cellOf EXCEPT ![Key(w)] = LoadOrStored(Key(w), w)]
    /\ cell' = [cell EXCEPT ![w] = LoadOrStored(Key(w), w)]
    /\ CallGoto(w, "add")
    /\ UNCHANGED <<call, lines, value, fileLines, lockedBy, handed>>

\* The line that fileLine returns for the n-th draw of the cursor.
LineAt(w, n) == ((n - 1) % lines[w]) + 1

\* Add(1), and the call returns the counter or the line at the cursor.
Add(w) ==
    /\ callPc[w] = "add"
    /\ LET k == Key(w)
           n == value[k][cell[w]] + 1
       IN  /\ value' = [value EXCEPT ![k][cell[w]] = n]
           /\ handed' = [handed EXCEPT ![k] =
                           Append(@, IF k \in Counters THEN n ELSE LineAt(w, n))]
    /\ Returns(w)
    /\ UNCHANGED <<cellOf, fileLines, lockedBy>>

-----------------------------------------------------------------------------
(* getCachedLines *)

\* The caller goes on with n lines: fileLine draws from them if there are any,
\* fileLineAt only indexes them, and both return the empty string on an error.
Loaded(w, n) == IF Name(w) = "fileLine" /\ n > 0 THEN GoesOn(w, "cell", n) ELSE Returns(w)

\* The cache is looked up without the mutex.
Lookup(w) ==
    /\ callPc[w] = "lookup"
    /\ IF fileLines[Key(w)] = Missing THEN GoesOn(w, "lock", Missing)
       ELSE Loaded(w, fileLines[Key(w)])
    /\ UNCHANGED <<cellOf, value, fileLines, lockedBy, handed>>

Lock(w) ==
    /\ callPc[w] = "lock"
    /\ lockedBy = NoWorker
    /\ lockedBy' = w
    /\ CallGoto(w, "recheck")
    /\ UNCHANGED <<call, lines, cell, cellOf, value, fileLines, handed>>

\* Another worker may have loaded the file while this one waited.
CachedByNow(w) == fileLines[Key(w)] # Missing

Recheck(w) ==
    /\ callPc[w] = "recheck"
    /\ IF CachedByNow(w) THEN GoesOn(w, "unlock", fileLines[Key(w)])
       ELSE GoesOn(w, "read", Missing)
    /\ UNCHANGED <<cellOf, value, fileLines, lockedBy, handed>>

\* The file is opened and scanned; only a scan without an error is cached.
Read(w) ==
    /\ callPc[w] = "read"
    /\ \E n \in 0 .. MaxLines \union {Missing} :
         /\ GoesOn(w, "unlock", n)
         /\ fileLines' = IF n = Missing THEN fileLines ELSE [fileLines EXCEPT ![Key(w)] = n]
    /\ UNCHANGED <<cellOf, value, lockedBy, handed>>

\* What the deferred Unlock leaves.
Released == NoWorker

Unlock(w) ==
    /\ callPc[w] = "unlock"
    /\ lockedBy' = Released
    /\ Loaded(w, lines[w])
    /\ UNCHANGED <<cellOf, value, fileLines, handed>>

-----------------------------------------------------------------------------
\* A template calls one of the functions.
Enter(w, c) ==
    /\ callPc[w] = "idle"
    /\ call' = [call EXCEPT ![w] = c]
    /\ CallGoto(w, IF c[1] = "counter" THEN "cell" ELSE "lookup")
    /\ UNCHANGED <<lines, cell, cellOf, value, fileLines, lockedBy, handed>>

CallStep(w) == \/ LoadOrStore(w) \/ Add(w) \/ Lookup(w) \/ Lock(w) \/ Recheck(w)
               \/ Read(w) \/ Unlock(w)

TemplateNext == \E w \in Workers : (\E c \in Calls : Enter(w, c)) \/ CallStep(w)

TemplateSpec == TemplateInit /\ [][TemplateNext]_templateVars

-----------------------------------------------------------------------------
(* Properties. *)

\* Type correctness of the shared template state and of the calls on it.
TemplateTypeOK ==
    /\ callPc \in [Workers -> {"idle", "cell", "add", "lookup", "lock", "recheck", "read",
                               "unlock"}]
    /\ call \in [Workers -> Calls \union {NoCall}]
    /\ lines \in [Workers -> Nat \union {Missing}]
    /\ cell \in [Workers -> Workers \union {NoWorker}]
    /\ cellOf \in [Keys -> Workers \union {NoWorker}]
    /\ value \in [Keys -> [Workers -> Nat]]
    /\ fileLines \in [Files -> Nat \union {Missing}]
    /\ lockedBy \in Workers \union {NoWorker}
    /\ handed \in [Keys -> Seq(Nat \ {0})]

\* A counter gives 1, 2, 3, ...: however many workers use it, and whoever of them
\* is first, no number is given twice and none is left out.
CountsOnce == \A k \in Counters : \A i \in DOMAIN handed[k] : handed[k][i] = i

\* fileLine gives the lines of a file in turn, one worker after the other, and
\* starts again after the last: no line is given again before all others were.
LinesInTurn ==
    \A f \in Files : \A i \in DOMAIN handed[f] :
      /\ fileLines[f] > 0
      /\ handed[f][i] = ((i - 1) % fileLines[f]) + 1

\* A file is cached once and for all: its lines never change under the workers
\* that draw from it, even if the file does and two workers load it at a time.
CachedOnce ==
    [][\A f \in Files : fileLines[f] # Missing => fileLines'[f] = fileLines[f]]_templateVars

\* However the calls of the workers interleave, each has its effect at one moment
\* between its begin and its return, as module Dispenser says.
D == INSTANCE Dispenser WITH asked <- call, linesOf <- fileLines
ImplementsDispenser == D!Spec

=============================================================================
