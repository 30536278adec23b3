--------------------------- MODULE TemplatesProofs ---------------------------
(***************************************************************************)
(* Theorems about Templates, for every set of workers, counters and files  *)
(* and every length of a file: the state is well typed, a counter counts,  *)
(* the lines of a file are handed out in turn, and a file that is cached   *)
(* stays as it is.                                                         *)
(***************************************************************************)
EXTENDS Templates, SequenceTheorems, TLAPS

OnFile == {"lookup", "lock", "recheck", "read", "unlock"}

\* The call of a worker that is at work on one is a call of the functions above, with
\* a file for getCachedLines.
CallInv ==
    \A w \in Workers : callPc[w] # "idle" =>
      /\ call[w] \in Calls
      /\ Name(w) = "counter" => Key(w) \in Counters
      /\ Name(w) # "counter" => Key(w) \in Files
      /\ callPc[w] \in OnFile => Name(w) # "counter"

\* A worker that draws from a file draws from the lines that are cached.
DrawInv ==
    \A w \in Workers :
      /\ callPc[w] \in {"cell", "add"} /\ Name(w) # "counter" =>
           lines[w] > 0 /\ lines[w] = fileLines[Key(w)]
      /\ callPc[w] = "unlock" /\ lines[w] # Missing => lines[w] = fileLines[Key(w)]

\* A worker adds to the one cell of its key.
CellInv == \A w \in Workers : callPc[w] = "add" => cell[w] # NoWorker /\ cell[w] = cellOf[Key(w)]

\* That cell holds how many results the key has given, and without one there are none.
ValueInv ==
    \A k \in Keys : /\ cellOf[k] = NoWorker =>
                         handed[k] = <<>> /\ \A w \in Workers : value[k][w] = 0
                    /\ cellOf[k] # NoWorker => value[k][cellOf[k]] = Len(handed[k])

\* Between Lock and Unlock is who holds the mutex, and no other worker caches a file
\* that it is about to read.
LockInv ==
    \A w \in Workers :
      /\ callPc[w] \in {"recheck", "read", "unlock"} => lockedBy = w
      /\ callPc[w] = "read" => fileLines[Key(w)] = Missing

\* The inductive invariant.
TemplateInv == /\ TemplateTypeOK /\ CallInv /\ DrawInv /\ CellInv /\ ValueInv /\ LockInv
               /\ CountsOnce /\ LinesInTurn

-----------------------------------------------------------------------------
\* What a call is about.
LEMMA CallFacts ==
    ASSUME NEW c \in Calls
    PROVE  /\ c[2] \in Keys
           /\ c[1] = "counter" => c[2] \in Counters
           /\ c[1] # "counter" => c[2] \in Files
BY DEF Calls, Keys

\* A remainder lies below its divisor.
LEMMA Remainder ==
    ASSUME NEW a \in Int, NEW b \in Nat \ {0}
    PROVE  a % b \in 0 .. b - 1
OBVIOUS

\* The invariant holds before the first call.
LEMMA TemplateInitially == TemplateInit => TemplateInv
BY OwnerAssumption, LineAssumption
   DEF TemplateInit, TemplateInv, TemplateTypeOK, CallInv, DrawInv, CellInv, ValueInv, LockInv,
       CountsOnce, LinesInTurn, Keys, Missing, OnFile

\* A call begins.
LEMMA EnterPreserves ==
    ASSUME TemplateInv, NEW w \in Workers, NEW c \in Calls, Enter(w, c)
    PROVE  TemplateInv'
<1> USE DEF Enter, CallGoto, TemplateInv, Name, Key
<1>1. TemplateTypeOK'  BY DEF TemplateTypeOK
<1>2. CallInv'         BY CallFacts DEF TemplateTypeOK, CallInv, OnFile
<1>3. DrawInv'         BY DEF TemplateTypeOK, DrawInv
<1>4. CellInv'         BY DEF TemplateTypeOK, CellInv
<1>5. ValueInv'        BY DEF ValueInv
<1>6. LockInv'         BY DEF TemplateTypeOK, LockInv
<1>7. CountsOnce' /\ LinesInTurn'  BY DEF CountsOnce, LinesInTurn
<1>8. QED  BY <1>1, <1>2, <1>3, <1>4, <1>5, <1>6, <1>7

\* The cell of a key is chosen once.
LEMMA LoadOrStorePreserves ==
    ASSUME TemplateInv, NEW w \in Workers, LoadOrStore(w)
    PROVE  TemplateInv'
<1> DEFINE k == Key(w)
<1> USE DEF LoadOrStore, CallGoto, TemplateInv, Name, Key
<1>0. k \in Keys /\ LoadOrStored(k, w) \in Workers /\ LoadOrStored(k, w) # NoWorker
  BY OwnerAssumption DEF TemplateTypeOK, CallInv, Keys, LoadOrStored
<1>1. TemplateTypeOK'  BY <1>0 DEF TemplateTypeOK
<1>2. CallInv'         BY DEF TemplateTypeOK, CallInv, OnFile
<1>3. DrawInv'         BY DEF TemplateTypeOK, DrawInv
<1>4. CellInv'
  <2> SUFFICES ASSUME NEW v \in Workers, callPc'[v] = "add"
               PROVE  (cell[v] # NoWorker /\ cell[v] = cellOf[Key(v)])'
    BY DEF CellInv
  <2>1. CASE v = w  BY <2>1, <1>0 DEF TemplateTypeOK
  <2>2. CASE v # w
    <3>1. callPc[v] = "add"  BY <2>2 DEF TemplateTypeOK
    <3>2. cell[v] # NoWorker /\ cell[v] = cellOf[Key(v)]  BY <3>1 DEF CellInv
    <3>3. Key(v) = k => cellOf'[k] = cellOf[k]  BY <3>2 DEF LoadOrStored, TemplateTypeOK
    <3>4. QED  BY <2>2, <3>2, <3>3 DEF TemplateTypeOK
  <2>3. QED  BY <2>1, <2>2
<1>5. ValueInv'
  <2> SUFFICES ASSUME NEW j \in Keys
               PROVE  /\ cellOf'[j] = NoWorker =>
                           handed[j] = <<>> /\ \A v \in Workers : value[j][v] = 0
                      /\ cellOf'[j] # NoWorker => value[j][cellOf'[j]] = Len(handed[j])
    BY DEF ValueInv
  <2>1. CASE j = k /\ cellOf[k] = NoWorker
    <3>1. cellOf'[j] = w  BY <2>1, <1>0 DEF LoadOrStored, TemplateTypeOK
    <3>2. handed[j] = <<>> /\ value[j][w] = 0  BY <2>1 DEF ValueInv
    <3>3. QED  BY <3>1, <3>2, OwnerAssumption
  <2>2. CASE ~(j = k /\ cellOf[k] = NoWorker)
    BY <2>2, <1>0 DEF LoadOrStored, TemplateTypeOK, ValueInv
  <2>3. QED  BY <2>1, <2>2
<1>6. LockInv'         BY DEF TemplateTypeOK, LockInv
<1>7. CountsOnce' /\ LinesInTurn'  BY DEF CountsOnce, LinesInTurn
<1>8. QED  BY <1>1, <1>2, <1>3, <1>4, <1>5, <1>6, <1>7

\* The call returns the next number of its key.
LEMMA AddPreserves ==
    ASSUME TemplateInv, NEW w \in Workers, Add(w)
    PROVE  TemplateInv'
<1> DEFINE k == Key(w)
           n == value[k][cell[w]] + 1
           result == IF k \in Counters THEN n ELSE LineAt(w, n)
<1> USE DEF Add, Returns, CallGoto, TemplateInv, Name, Key
<1>0. /\ k \in Keys /\ cell[w] \in Workers /\ cell[w] = cellOf[k] /\ cell[w] # NoWorker
      /\ n = Len(handed[k]) + 1 /\ n \in Nat \ {0}
      /\ handed[k] \in Seq(Nat \ {0})
      /\ k \notin Counters => /\ k \in Files /\ lines[w] = fileLines[k]
                              /\ lines[w] \in Nat \ {0}
  <2>1. k \in Keys /\ (k \notin Counters => k \in Files /\ Name(w) # "counter")
    BY DEF CallInv, Keys, Calls
  <2>2. cell[w] = cellOf[k] /\ cell[w] # NoWorker  BY DEF CellInv
  <2>3. cell[w] \in Workers  BY <2>2 DEF TemplateTypeOK
  <2>4. value[k][cell[w]] = Len(handed[k]) /\ handed[k] \in Seq(Nat \ {0})
    BY <2>1, <2>2 DEF ValueInv, TemplateTypeOK
  <2>5. k \notin Counters => lines[w] = fileLines[k] /\ lines[w] \in Nat \ {0}
    BY SMTT(30), <2>1 DEF DrawInv, TemplateTypeOK, Missing
  <2>6. QED  BY <2>1, <2>2, <2>3, <2>4, <2>5
<1>1. result \in Nat \ {0}
  <2>1. k \in Counters => result = n  OBVIOUS
  <2>2. ASSUME k \notin Counters  PROVE (n - 1) % lines[w] \in Nat
    <3> HIDE DEF n
    <3>1. n - 1 \in Int /\ lines[w] \in Nat \ {0}  BY <1>0, <2>2
    <3>2. (n - 1) % lines[w] \in 0 .. lines[w] - 1  BY <3>1, Remainder
    <3>3. QED  BY <3>1, <3>2
  <2>3. k \notin Counters => result = ((n - 1) % lines[w]) + 1  BY DEF LineAt
  <2>4. QED  BY <2>1, <2>2, <2>3, <1>0
<1>2. /\ handed' = [handed EXCEPT ![k] = Append(handed[k], result)]
      /\ value' = [value EXCEPT ![k][cell[w]] = n]
  BY SMTT(30)
<1>3. /\ handed'[k] = Append(handed[k], result)
      /\ \A j \in Keys : j # k => handed'[j] = handed[j] /\ value'[j] = value[j]
      /\ value'[k] = [value[k] EXCEPT ![cell[w]] = n]
      /\ value'[k][cell[w]] = n
  <2>. HIDE DEF result, n
  <2>1. handed \in [Keys -> Seq(Nat \ {0})] /\ value \in [Keys -> [Workers -> Nat]]
    BY SMTT(30) DEF TemplateTypeOK
  <2>2. handed'[k] = Append(handed[k], result)  BY <1>0, <1>2, <2>1
  <2>3. \A j \in Keys : j # k => handed'[j] = handed[j] /\ value'[j] = value[j]
    BY <1>0, <1>2, <2>1
  <2>4. value'[k] = [value[k] EXCEPT ![cell[w]] = n]  BY <1>0, <1>2, <2>1
  <2>5. value'[k][cell[w]] = n  BY <1>0, <2>1, <2>4
  <2>6. QED  BY <2>2, <2>3, <2>4, <2>5
<1>. DEFINE now == handed'[k]
<1>13. /\ Len(now) = n /\ DOMAIN now = 1 .. n
       /\ \A i \in 1 .. n - 1 : now[i] = handed[k][i]
       /\ now[n] = result
  <2>. HIDE DEF Add, TemplateInv
  <2>1. /\ Append(handed[k], result) \in Seq(Nat \ {0})
        /\ Len(Append(handed[k], result)) = Len(handed[k]) + 1
        /\ \A i \in 1 .. Len(handed[k]) : Append(handed[k], result)[i] = handed[k][i]
        /\ Append(handed[k], result)[Len(handed[k]) + 1] = result
    BY <1>0, <1>1, AppendProperties
  <2>2. now = Append(handed[k], result)  BY <1>3
  <2>. HIDE DEF now, result, n
  <2>3. Len(handed[k]) = n - 1  BY <1>0
  <2>4. now \in Seq(Nat \ {0}) /\ Len(now) = n  BY <2>1, <2>2, <1>0
  <2>5. DOMAIN now = 1 .. n  BY <2>4
  <2>6. QED  BY SMTT(30), <2>1, <2>2, <2>3, <2>4, <2>5, <1>0
<1>. HIDE DEF now, result
<1>4. TemplateTypeOK'
  <2>1. handed' \in [Keys -> Seq(Nat \ {0})]  BY SMTT(30), <1>0, <1>1, <1>2 DEF TemplateTypeOK
  <2>2. value' \in [Keys -> [Workers -> Nat]]  BY <1>0, <1>2 DEF TemplateTypeOK
  <2>3. QED  BY <2>1, <2>2 DEF TemplateTypeOK, Missing
<1>5. CallInv'   BY DEF TemplateTypeOK, CallInv, OnFile
<1>6. DrawInv'   BY DEF TemplateTypeOK, DrawInv
<1>7. CellInv'   BY DEF TemplateTypeOK, CellInv
<1>9. LockInv'   BY DEF TemplateTypeOK, LockInv
<1>14. ValueInv /\ CountsOnce /\ LinesInTurn /\ UNCHANGED <<cellOf, fileLines>>  OBVIOUS
<1>. HIDE DEF Add, TemplateInv, n, k
<1>15. Len(handed[k]) = n - 1 /\ DOMAIN handed[k] = 1 .. n - 1 /\ n \in Nat \ {0}  BY <1>0
<1>8. ValueInv'
  <2> SUFFICES ASSUME NEW j \in Keys
               PROVE  /\ cellOf[j] = NoWorker =>
                           handed'[j] = <<>> /\ \A v \in Workers : value'[j][v] = 0
                      /\ cellOf[j] # NoWorker => value'[j][cellOf[j]] = Len(handed'[j])
    BY <1>14 DEF ValueInv
  <2>1. CASE j = k
    <3>1. cellOf[k] # NoWorker /\ value'[k][cellOf[k]] = n  BY <1>0, <1>3
    <3>2. Len(handed'[k]) = n  BY <1>13 DEF now
    <3>3. QED  BY <2>1, <3>1, <3>2
  <2>2. CASE j # k  BY <2>2, <1>3, <1>14 DEF ValueInv
  <2>3. QED  BY <2>1, <2>2
<1>10. CountsOnce'
  <2> SUFFICES ASSUME NEW c \in Counters, NEW i \in DOMAIN handed'[c]  PROVE handed'[c][i] = i
    BY DEF CountsOnce
  <2>1. CASE c = k
    <3>1. i \in 1 .. n  BY <2>1, <1>13 DEF now
    <3>2. CASE i = n  BY <3>2, <2>1, <1>13 DEF now, result
    <3>3. CASE i # n
      <4>1. i \in 1 .. n - 1  BY <3>1, <3>3, <1>15
      <4>2. handed'[c][i] = handed[k][i]  BY <2>1, <4>1, <1>13 DEF now
      <4>3. QED  BY <4>1, <4>2, <2>1, <1>14, <1>15 DEF CountsOnce
    <3>4. QED  BY <3>2, <3>3
  <2>2. CASE c # k  BY <2>2, <1>3, <1>14 DEF CountsOnce, Keys
  <2>3. QED  BY <2>1, <2>2
<1>11. LinesInTurn'
  <2> SUFFICES ASSUME NEW f \in Files, NEW i \in DOMAIN handed'[f]
               PROVE  fileLines[f] > 0 /\ handed'[f][i] = ((i - 1) % fileLines[f]) + 1
    BY <1>14 DEF LinesInTurn
  <2>1. CASE f = k
    <3>0. k \notin Counters /\ fileLines[k] > 0 /\ lines[w] = fileLines[k]
      BY <2>1, <1>0, KeyAssumption
    <3>1. i \in 1 .. n  BY <2>1, <1>13 DEF now
    <3>2. CASE i = n
      <4>1. handed'[f][i] = LineAt(w, n)  BY <3>0, <3>2, <2>1, <1>13 DEF now, result
      <4>2. LineAt(w, n) = ((n - 1) % lines[w]) + 1  BY DEF LineAt
      <4>3. QED  BY <4>1, <4>2, <3>0, <3>2, <2>1
    <3>3. CASE i # n
      <4>1. i \in 1 .. n - 1  BY <3>1, <3>3, <1>15
      <4>2. handed'[f][i] = handed[k][i]  BY <2>1, <4>1, <1>13 DEF now
      <4>3. QED  BY <4>1, <4>2, <2>1, <1>14, <1>15 DEF LinesInTurn
    <3>4. QED  BY <3>2, <3>3
  <2>2. CASE f # k  BY <2>2, <1>3, <1>14 DEF LinesInTurn, Keys
  <2>3. QED  BY <2>1, <2>2
<1>12. QED  BY <1>4, <1>5, <1>6, <1>7, <1>8, <1>9, <1>10, <1>11 DEF TemplateInv

\* The invariant is about the variables alone.
LEMMA StutterPreserves ==
    ASSUME TemplateInv, UNCHANGED templateVars
    PROVE  TemplateInv'
BY DEF templateVars, TemplateInv, TemplateTypeOK, CallInv, DrawInv, CellInv, ValueInv, LockInv,
       CountsOnce, LinesInTurn, Name, Key

\* What a worker finds in the cache is a number of lines.
LEMMA CachedLines ==
    ASSUME TemplateTypeOK, NEW f \in Files
    PROVE  fileLines[f] \in Nat \union {Missing}
BY DEF TemplateTypeOK

\* A worker at work on a file is at work on a file.
LEMMA KeyOfFile ==
    ASSUME TemplateInv, NEW w \in Workers, callPc[w] \in OnFile
    PROVE  Key(w) \in Files /\ Name(w) # "counter"
BY DEF TemplateInv, CallInv, OnFile

\* The worker goes on with the lines it found: with none it goes on to draw or to return.
LEMMA LoadedPreserves ==
    ASSUME TemplateInv, NEW w \in Workers, NEW n \in Nat \union {Missing},
           callPc[w] \in OnFile, n # Missing => n = fileLines[Key(w)],
           Loaded(w, n), UNCHANGED <<cellOf, value, fileLines, handed>>,
           lockedBy' \in Workers \union {NoWorker},
           \A v \in Workers \ {w} : lockedBy = v => lockedBy' = v
    PROVE  TemplateInv'
<1> USE DEF Loaded, GoesOn, Returns, CallGoto, TemplateInv, Name, Key
<1>1. Name(w) # "counter"  BY KeyOfFile
<1>2. TemplateTypeOK'
  <2>1. /\ callPc' \in [Workers -> {"idle", "cell", "add", "lookup", "lock", "recheck", "read",
                                   "unlock"}]
        /\ call' \in [Workers -> Calls \union {NoCall}]
    BY ZenonT(30) DEF TemplateTypeOK
  <2>2. lines' \in [Workers -> Nat \union {Missing}]  BY DEF TemplateTypeOK
  <2>3. cell' \in [Workers -> Workers \union {NoWorker}]  BY DEF TemplateTypeOK
  <2>4. QED  BY <2>1, <2>2, <2>3 DEF TemplateTypeOK
<1>3. CallInv'         BY <1>1 DEF TemplateTypeOK, CallInv, OnFile
<1>4. CellInv'         BY DEF TemplateTypeOK, CellInv
<1>5. ValueInv'        BY DEF ValueInv
<1>6. /\ callPc'[w] \in {"idle", "cell"}
      /\ callPc'[w] = "cell" => call'[w] = call[w] /\ lines'[w] = n /\ n > 0 /\ n # Missing
  BY DEF TemplateTypeOK, Missing
<1>7. \A v \in Workers \ {w} :
        callPc'[v] = callPc[v] /\ call'[v] = call[v] /\ lines'[v] = lines[v]
  BY DEF TemplateTypeOK
<1> HIDE DEF Loaded, GoesOn, Returns, CallGoto
<1>8. DrawInv'  BY <1>6, <1>7 DEF DrawInv
<1>9. LockInv'  BY <1>6, <1>7 DEF LockInv
<1>10. CountsOnce' /\ LinesInTurn'  BY DEF CountsOnce, LinesInTurn
<1>11. QED  BY <1>2, <1>3, <1>4, <1>5, <1>8, <1>9, <1>10

\* The worker goes on within getCachedLines.
LEMMA GoesOnPreserves ==
    ASSUME TemplateInv, NEW w \in Workers, NEW n \in Nat \union {Missing},
           NEW pc \in {"lock", "read", "unlock"},
           callPc[w] \in OnFile, GoesOn(w, pc, n),
           pc \in {"read", "unlock"} => lockedBy = w,
           pc = "read" => fileLines[Key(w)] = Missing,
           n # Missing => n = fileLines[Key(w)],
           UNCHANGED <<cellOf, value, fileLines, lockedBy, handed>>
    PROVE  TemplateInv'
<1> USE DEF GoesOn, CallGoto, TemplateInv, Name, Key
<1>1. TemplateTypeOK'  BY DEF TemplateTypeOK
<1>2. CallInv'   BY DEF TemplateTypeOK, CallInv, OnFile
<1>3. DrawInv'   BY DEF TemplateTypeOK, DrawInv
<1>4. CellInv'   BY DEF TemplateTypeOK, CellInv
<1>5. ValueInv'  BY DEF ValueInv
<1>6. LockInv'   BY DEF TemplateTypeOK, LockInv
<1>7. CountsOnce' /\ LinesInTurn'  BY DEF CountsOnce, LinesInTurn
<1>8. QED  BY <1>1, <1>2, <1>3, <1>4, <1>5, <1>6, <1>7

\* The first look at the cache.
LEMMA LookupPreserves ==
    ASSUME TemplateInv, NEW w \in Workers, Lookup(w)
    PROVE  TemplateInv'
<1>1. callPc[w] \in OnFile /\ TemplateTypeOK  BY DEF Lookup, OnFile, TemplateInv
<1>2. Key(w) \in Files  BY <1>1, KeyOfFile
<1>3. CASE fileLines[Key(w)] = Missing
  BY <1>1, <1>3, GoesOnPreserves DEF Lookup
<1>4. CASE fileLines[Key(w)] # Missing
  <2>1. Loaded(w, fileLines[Key(w)])  BY <1>4 DEF Lookup
  <2>2. lockedBy \in Workers \union {NoWorker}  BY <1>1 DEF TemplateTypeOK
  <2>3. QED  BY <1>1, <1>2, <2>1, <2>2, CachedLines, LoadedPreserves DEF Lookup
<1>5. QED  BY <1>3, <1>4

\* Only a mutex that nobody holds is taken.
LEMMA LockPreserves ==
    ASSUME TemplateInv, NEW w \in Workers, Lock(w)
    PROVE  TemplateInv'
<1> USE DEF Lock, CallGoto, TemplateInv, Name, Key
<1>1. TemplateTypeOK'  BY DEF TemplateTypeOK
<1>2. CallInv'   BY DEF TemplateTypeOK, CallInv, OnFile
<1>3. DrawInv'   BY DEF TemplateTypeOK, DrawInv
<1>4. CellInv'   BY DEF TemplateTypeOK, CellInv
<1>5. ValueInv'  BY DEF ValueInv
<1>6. LockInv'   BY OwnerAssumption DEF TemplateTypeOK, LockInv
<1>7. CountsOnce' /\ LinesInTurn'  BY DEF CountsOnce, LinesInTurn
<1>8. QED  BY <1>1, <1>2, <1>3, <1>4, <1>5, <1>6, <1>7

\* The second look at the cache.
LEMMA RecheckPreserves ==
    ASSUME TemplateInv, NEW w \in Workers, Recheck(w)
    PROVE  TemplateInv'
<1>1. callPc[w] \in OnFile /\ TemplateTypeOK  BY DEF Recheck, OnFile, TemplateInv
<1>2. Key(w) \in Files /\ lockedBy = w
  BY <1>1, KeyOfFile DEF Recheck, TemplateInv, LockInv
<1>3. CASE CachedByNow(w)
  BY <1>1, <1>2, <1>3, CachedLines, GoesOnPreserves DEF Recheck
<1>4. CASE ~CachedByNow(w)
  BY <1>1, <1>2, <1>4, GoesOnPreserves DEF Recheck, CachedByNow
<1>5. QED  BY <1>3, <1>4

\* The holder of the mutex caches a file that was not.
LEMMA ReadPreserves ==
    ASSUME TemplateInv, NEW w \in Workers, Read(w)
    PROVE  TemplateInv'
<1>1. callPc[w] \in OnFile /\ TemplateTypeOK  BY DEF Read, OnFile, TemplateInv
<1>2. /\ Key(w) \in Files /\ Name(w) # "counter"
      /\ lockedBy = w /\ fileLines[Key(w)] = Missing
  BY <1>1, KeyOfFile DEF Read, TemplateInv, LockInv
<1>3. PICK n \in 0 .. MaxLines \union {Missing} :
        /\ GoesOn(w, "unlock", n)
        /\ fileLines' = IF n = Missing THEN fileLines ELSE [fileLines EXCEPT ![Key(w)] = n]
  BY DEF Read
<1>4. n \in Nat \union {Missing}  BY LineAssumption
<1>5. UNCHANGED <<cellOf, value, lockedBy, handed>>  BY DEF Read
<1>6. CASE n = Missing  BY <1>1, <1>2, <1>3, <1>4, <1>5, <1>6, GoesOnPreserves
<1>7. CASE n # Missing
  <2>1. fileLines' = [fileLines EXCEPT ![Key(w)] = n] /\ n \in Nat  BY <1>3, <1>4, <1>7
  <2> USE DEF GoesOn, CallGoto, TemplateInv, Name, Key
  <2>2. TemplateTypeOK'  BY <1>1, <1>2, <1>3, <1>5, <2>1 DEF TemplateTypeOK
  <2>3. CallInv'   BY <1>1, <1>3, <1>5 DEF TemplateTypeOK, CallInv, OnFile
  <2>4. \A f \in Files : fileLines[f] # Missing => fileLines'[f] = fileLines[f]
    BY <1>1, <1>2, <2>1 DEF TemplateTypeOK
  <2>5. DrawInv'
    <3> SUFFICES ASSUME NEW v \in Workers
                 PROVE  /\ callPc'[v] \in {"cell", "add"} /\ Name(v)' # "counter" =>
                             lines'[v] > 0 /\ lines'[v] = fileLines'[Key(v)']
                        /\ callPc'[v] = "unlock" /\ lines'[v] # Missing =>
                             lines'[v] = fileLines'[Key(v)']
      BY DEF DrawInv
    <3>1. call' = call  BY <1>3
    <3>2. CASE v = w  BY <3>1, <3>2, <1>1, <1>2, <1>3, <2>1 DEF TemplateTypeOK
    <3>3. CASE v # w
      <4>1. callPc'[v] = callPc[v] /\ lines'[v] = lines[v]
        BY <3>3, <1>1, <1>3 DEF TemplateTypeOK
      <4>2. callPc[v] # "unlock"  BY <1>2, <3>3 DEF LockInv
      <4>3. ASSUME callPc[v] \in {"cell", "add"}, Name(v) # "counter"
            PROVE  lines[v] > 0 /\ lines[v] = fileLines'[Key(v)]
        <5>1. lines[v] > 0 /\ lines[v] = fileLines[Key(v)]  BY <4>3 DEF DrawInv
        <5>2. Key(v) \in Files  BY <4>3 DEF CallInv
        <5>3. QED  BY <5>1, <5>2, <2>4 DEF Missing
      <4>4. QED  BY <3>1, <4>1, <4>2, <4>3
    <3>4. QED  BY <3>2, <3>3
  <2>6. CellInv'   BY <1>1, <1>3, <1>5 DEF TemplateTypeOK, CellInv
  <2>7. ValueInv'  BY <1>5 DEF ValueInv
  <2>8. LockInv'   BY <1>1, <1>2, <1>3, <1>5, <2>1 DEF TemplateTypeOK, LockInv
  <2>9. CountsOnce' BY <1>5 DEF CountsOnce
  <2>10. LinesInTurn'
    <3> SUFFICES ASSUME NEW f \in Files, NEW i \in DOMAIN handed[f]
                 PROVE  fileLines'[f] > 0 /\ handed[f][i] = ((i - 1) % fileLines'[f]) + 1
      BY <1>5 DEF LinesInTurn
    <3>1. fileLines[f] > 0 /\ handed[f][i] = ((i - 1) % fileLines[f]) + 1  BY DEF LinesInTurn
    <3>2. fileLines'[f] = fileLines[f]  BY <3>1, <2>4 DEF Missing
    <3>3. QED  BY <3>1, <3>2
  <2>11. QED  BY <2>2, <2>3, <2>5, <2>6, <2>7, <2>8, <2>9, <2>10
<1>8. QED  BY <1>6, <1>7

\* The holder of the mutex releases it.
LEMMA UnlockPreserves ==
    ASSUME TemplateInv, NEW w \in Workers, Unlock(w)
    PROVE  TemplateInv'
<1>1. callPc[w] \in OnFile /\ TemplateTypeOK  BY DEF Unlock, OnFile, TemplateInv
<1>2. Key(w) \in Files  BY <1>1, KeyOfFile
<1>3. lockedBy = w  BY DEF Unlock, TemplateInv, LockInv
<1>4. lines[w] \in Nat \union {Missing}  BY <1>1 DEF TemplateTypeOK
<1>5. lines[w] # Missing => lines[w] = fileLines[Key(w)]  BY DEF Unlock, TemplateInv, DrawInv
<1>6. lockedBy' \in Workers \union {NoWorker}  BY DEF Unlock, Released
<1>7. QED  BY <1>1, <1>3, <1>4, <1>5, <1>6, LoadedPreserves DEF Unlock

-----------------------------------------------------------------------------
\* Every step of a call preserves the invariant.
LEMMA CallStepPreserves ==
    ASSUME TemplateInv, NEW w \in Workers, CallStep(w)
    PROVE  TemplateInv'
BY LoadOrStorePreserves, AddPreserves, LookupPreserves, LockPreserves, RecheckPreserves,
   ReadPreserves, UnlockPreserves DEF CallStep

\* Every step of the templates preserves the invariant.
LEMMA TemplateStepPreserves ==
    ASSUME TemplateInv, [TemplateNext]_templateVars
    PROVE  TemplateInv'
BY EnterPreserves, CallStepPreserves, StutterPreserves DEF TemplateNext

\* The invariant holds in every reachable state.
THEOREM TemplateInvariant == TemplateSpec => []TemplateInv
<1>1. TemplateInit => TemplateInv  BY TemplateInitially
<1>2. TemplateInv /\ [TemplateNext]_templateVars => TemplateInv'  BY TemplateStepPreserves
<1>3. QED  BY <1>1, <1>2, PTL DEF TemplateSpec

\* The shared template state is always well typed.
THEOREM TemplateTypeCorrect == TemplateSpec => []TemplateTypeOK
<1>1. TemplateInv => TemplateTypeOK  BY DEF TemplateInv
<1>2. QED  BY <1>1, TemplateInvariant, PTL

\* A counter gives every number once, whoever uses it (the function counter).
THEOREM CountersCountOnce == TemplateSpec => []CountsOnce
<1>1. TemplateInv => CountsOnce  BY DEF TemplateInv
<1>2. QED  BY <1>1, TemplateInvariant, PTL

\* The lines of a file are handed out in turn (the function fileLine).
THEOREM FileLinesInTurn == TemplateSpec => []LinesInTurn
<1>1. TemplateInv => LinesInTurn  BY DEF TemplateInv
<1>2. QED  BY <1>1, TemplateInvariant, PTL

\* A step of a call leaves the files alone that are cached.
LEMMA CallStepKeepsFiles ==
    ASSUME TemplateInv, NEW w \in Workers, CallStep(w), NEW f \in Files, fileLines[f] # Missing
    PROVE  fileLines'[f] = fileLines[f]
<1>1. CASE Read(w)
  <2>1. callPc[w] = "read" /\ fileLines[Key(w)] = Missing /\ TemplateTypeOK
    BY <1>1 DEF Read, TemplateInv, LockInv
  <2>2. QED  BY <1>1, <2>1 DEF Read, TemplateTypeOK
<1>2. CASE ~Read(w)
  BY <1>2 DEF CallStep, LoadOrStore, Add, Lookup, Lock, Recheck, Unlock
<1>3. QED  BY <1>1, <1>2

\* What is cached of a file never changes (getCachedLines).
THEOREM FilesCachedOnce == TemplateSpec => CachedOnce
<1> DEFINE Kept == \A f \in Files : fileLines[f] # Missing => fileLines'[f] = fileLines[f]
<1>1. TemplateInv /\ [TemplateNext]_templateVars => [Kept]_templateVars
  BY CallStepKeepsFiles DEF TemplateNext, Enter, templateVars
<1>2. QED  BY <1>1, TemplateInvariant, PTL DEF TemplateSpec, CachedOnce

-----------------------------------------------------------------------------
(* The calls are atomic: Templates implements Dispenser. *)

\* A worker without a call has none noted; one that is about to release the mutex has
\* found in the cache, or cached, what it goes on with, nothing if nothing is there; and
\* fileLineAt draws nothing.
ReturnInv ==
    \A w \in Workers : /\ callPc[w] = "idle" => call[w] = NoCall
                       /\ callPc[w] = "unlock" => lines[w] = fileLines[Key(w)]
                       /\ callPc[w] \in {"cell", "add"} => Name(w) # "fileLineAt"

\* No call is the absence of one.
LEMMA CallIsSomething ==
    ASSUME NEW c \in Calls
    PROVE  c # NoCall /\ c[1] \in {"counter", "fileLine", "fileLineAt"}
BY DEF Calls, NoCall

\* What a worker knows when it returns is kept by every step.
LEMMA ReturnPreserved ==
    ASSUME TemplateInv, ReturnInv, [TemplateNext]_templateVars
    PROVE  ReturnInv'
<1> USE DEF Key, Name
<1>0. /\ callPc \in [Workers -> {"idle", "cell", "add", "lookup", "lock", "recheck", "read",
                                 "unlock"}]
      /\ call \in [Workers -> Calls \union {NoCall}]
      /\ lines \in [Workers -> Nat \union {Missing}]
      /\ fileLines \in [Files -> Nat \union {Missing}]
  BY DEF TemplateInv, TemplateTypeOK
<1>1. CASE UNCHANGED templateVars  BY <1>1 DEF templateVars, ReturnInv
<1>2. ASSUME NEW w \in Workers, NEW c \in Calls, Enter(w, c)  PROVE ReturnInv'
  BY <1>0, <1>2, CallIsSomething DEF Enter, CallGoto, ReturnInv
<1>3. ASSUME NEW w \in Workers, LoadOrStore(w)  PROVE ReturnInv'
  BY <1>0, <1>3 DEF LoadOrStore, CallGoto, ReturnInv
<1>4. ASSUME NEW w \in Workers, Add(w)  PROVE ReturnInv'
  BY <1>0, <1>4 DEF Add, Returns, CallGoto, ReturnInv
<1>5. ASSUME NEW w \in Workers, Lookup(w) \/ Unlock(w)  PROVE ReturnInv'
  BY <1>0, <1>5 DEF Lookup, Unlock, Loaded, GoesOn, Returns, CallGoto, ReturnInv
<1>6. ASSUME NEW w \in Workers, Lock(w)  PROVE ReturnInv'
  BY <1>0, <1>6 DEF Lock, CallGoto, ReturnInv
<1>7. ASSUME NEW w \in Workers, Recheck(w)  PROVE ReturnInv'
  BY <1>0, <1>7 DEF Recheck, GoesOn, CallGoto, ReturnInv
<1>8. ASSUME NEW w \in Workers, Read(w)  PROVE ReturnInv'
  <2>1. /\ callPc[w] = "read" /\ Key(w) \in Files /\ fileLines[Key(w)] = Missing
        /\ \A v \in Workers \ {w} : callPc[v] # "unlock"
    BY <1>8, KeyOfFile DEF Read, OnFile, TemplateInv, LockInv
  <2>2. PICK n \in 0 .. MaxLines \union {Missing} :
          /\ GoesOn(w, "unlock", n)
          /\ fileLines' = IF n = Missing THEN fileLines ELSE [fileLines EXCEPT ![Key(w)] = n]
    BY <1>8 DEF Read
  <2>3. \A v \in Workers \ {w} : callPc'[v] = callPc[v]  BY <1>0, <2>2 DEF GoesOn, CallGoto
  <2>4. callPc'[w] = "unlock" /\ lines'[w] = n /\ call' = call
    BY <1>0, <2>2 DEF GoesOn, CallGoto
  <2>5. fileLines'[Key(w)] = n  BY <1>0, <2>1, <2>2
  <2>6. QED  BY <2>1, <2>3, <2>4, <2>5 DEF ReturnInv
<1>9. QED  BY <1>1, <1>2, <1>3, <1>4, <1>5, <1>6, <1>7, <1>8 DEF TemplateNext, CallStep

\* It holds in every reachable state.
LEMMA ReturnInvariant == TemplateSpec => []ReturnInv
<1>1. TemplateInit => ReturnInv  BY ZenonT(30) DEF TemplateInit, ReturnInv
<1>2. TemplateInv /\ ReturnInv /\ [TemplateNext]_templateVars => ReturnInv'  BY ReturnPreserved
<1>3. QED  BY <1>1, <1>2, TemplateInvariant, PTL DEF TemplateSpec

\* A call that begins asks the dispenser.
LEMMA EnterAsks ==
    ASSUME TemplateInv, ReturnInv, NEW w \in Workers, NEW c \in Calls, Enter(w, c)
    PROVE  D!Ask(w, c)
BY DEF Enter, ReturnInv, D!Ask, D!Nothing, NoCall

\* A call that returns without having drawn comes back from the dispenser.
LEMMA ReturnComesBack ==
    ASSUME TemplateInv, NEW w \in Workers, callPc[w] \in OnFile, Returns(w),
           Name(w) = "fileLine" => fileLines[Key(w)] \in {Missing, 0},
           UNCHANGED <<fileLines, handed>>
    PROVE  D!ComeBack(w, call[w]) /\ call[w] \in Calls
<1>1. call[w] \in Calls /\ Name(w) \in {"fileLine", "fileLineAt"}
  BY CallIsSomething DEF TemplateInv, CallInv, OnFile, Name
<1>2. QED  BY <1>1 DEF Returns, D!ComeBack, D!Nothing, D!Unread, NoCall, Missing, Name, Key

\* The cursor or counter of a key stands at what has been handed out, so Add draws what
\* is due.
LEMMA AddDraws ==
    ASSUME TemplateInv, ReturnInv, NEW w \in Workers, Add(w)
    PROVE  D!Draw(w, call[w]) /\ call[w] \in Calls
<1> DEFINE k == Key(w)
           n == value[k][cell[w]] + 1
<1>1. /\ call[w] \in Calls /\ callPc[w] = "add"
      /\ (Name(w) = "counter" => k \in Counters) /\ (Name(w) # "counter" => k \in Files)
  BY DEF Add, TemplateInv, CallInv
<1>2. Name(w) \in {"counter", "fileLine", "fileLineAt"}  BY <1>1, CallIsSomething DEF Name
<1>3. /\ k \in Keys /\ value[k][cell[w]] = Len(handed[k]) /\ Len(handed[k]) \in Nat
  <2>1. cell[w] = cellOf[k] /\ cell[w] # NoWorker  BY <1>1 DEF TemplateInv, CellInv
  <2>2. k \in Keys  BY <1>1 DEF Keys
  <2>3. handed[k] \in Seq(Nat \ {0})  BY <2>2 DEF TemplateInv, TemplateTypeOK
  <2>4. QED  BY <2>1, <2>2, <2>3 DEF TemplateInv, ValueInv
<1>4. k \notin Counters => lines[w] = fileLines[k] /\ fileLines[k] > 0
  BY <1>1 DEF TemplateInv, DrawInv
<1>5. Name(w) # "counter" => lines[w] = fileLines[k] /\ fileLines[k] > 0
  BY <1>1 DEF TemplateInv, DrawInv
<1>6. (IF k \in Counters THEN n ELSE LineAt(w, n)) = D!Due(k)
  BY <1>3, <1>4 DEF D!Due, LineAt
<1>7. handed' = [handed EXCEPT ![k] = Append(handed[k], D!Due(k))]
  BY <1>6 DEF Add
<1>8. Name(w) # "fileLineAt"  BY <1>1 DEF ReturnInv
<1>9. QED
  BY <1>1, <1>2, <1>5, <1>7, <1>8 DEF Add, Returns, D!Draw, D!Nothing, NoCall, Name, Key

\* A worker that caches a file loads the dispenser's, which it asked for.
LEMMA ReadLoads ==
    ASSUME TemplateInv, NEW w \in Workers, Read(w)
    PROVE  (UNCHANGED D!vars) \/ (D!Load(Key(w)) /\ Key(w) \in Files)
<1>1. /\ callPc[w] = "read" /\ callPc[w] \in OnFile /\ Key(w) \in Files
      /\ fileLines[Key(w)] = Missing /\ call[w] \in Calls /\ Name(w) # "counter"
  BY KeyOfFile DEF Read, OnFile, TemplateInv, LockInv, CallInv
<1>2. call[w] \in {"fileLine", "fileLineAt"} \X {Key(w)}  BY <1>1 DEF Calls, Name, Key
<1>3. fileLines \in [Files -> Nat \union {Missing}]  BY DEF TemplateInv, TemplateTypeOK
<1>4. PICK n \in 0 .. MaxLines \union {Missing} :
        /\ GoesOn(w, "unlock", n)
        /\ fileLines' = IF n = Missing THEN fileLines ELSE [fileLines EXCEPT ![Key(w)] = n]
  BY DEF Read
<1>5. call' = call /\ handed' = handed  BY <1>4 DEF Read, GoesOn
<1>6. CASE n = Missing  BY <1>4, <1>5, <1>6 DEF D!vars
<1>7. CASE n # Missing
  <2>1. n \in Nat  BY <1>7, LineAssumption
  <2>2. fileLines' = [fileLines EXCEPT ![Key(w)] = n] /\ fileLines'[Key(w)] = n
    BY <1>1, <1>3, <1>4, <1>7
  <2>3. QED  BY <1>1, <1>2, <1>5, <2>1, <2>2 DEF D!Load, D!Unread, Missing
<1>8. QED  BY <1>6, <1>7

\* Going on within a call is nothing to the dispenser, returning from it without a line
\* is coming back.
LEMMA LoadedComesBack ==
    ASSUME TemplateInv, NEW w \in Workers, callPc[w] \in OnFile, NEW n,
           Loaded(w, n), n = fileLines[Key(w)], UNCHANGED <<fileLines, handed>>
    PROVE  (UNCHANGED D!vars) \/ (D!ComeBack(w, call[w]) /\ call[w] \in Calls)
<1>1. CASE Name(w) = "fileLine" /\ n > 0  BY <1>1 DEF Loaded, GoesOn, D!vars
<1>2. CASE ~(Name(w) = "fileLine" /\ n > 0)
  <2>1. Returns(w)  BY <1>2 DEF Loaded
  <2>2. n \in Nat \union {Missing}  BY KeyOfFile DEF TemplateInv, TemplateTypeOK
  <2>3. Name(w) = "fileLine" => fileLines[Key(w)] \in {Missing, 0}  BY <1>2, <2>2 DEF Missing
  <2>4. QED  BY <2>1, <2>3, ReturnComesBack
<1>3. QED  BY <1>1, <1>2

\* Every step of a call is one of the dispenser or nothing to it.
LEMMA DispenserStep ==
    ASSUME TemplateInv, ReturnInv, [TemplateNext]_templateVars
    PROVE  [D!Next]_(D!vars)
<1> USE DEF D!Next
<1>0. D!Calls = Calls  BY DEF D!Calls, Calls
<1>1. CASE UNCHANGED templateVars  BY <1>1 DEF templateVars, D!vars
<1>2. ASSUME NEW w \in Workers, NEW c \in Calls, Enter(w, c)  PROVE D!Next
  BY <1>0, <1>2, EnterAsks
<1>3. ASSUME NEW w \in Workers, LoadOrStore(w) \/ Lock(w) \/ Recheck(w)
      PROVE  UNCHANGED D!vars
  BY <1>3 DEF LoadOrStore, Lock, Recheck, GoesOn, D!vars
<1>4. ASSUME NEW w \in Workers, Add(w)  PROVE D!Next  BY <1>0, <1>4, AddDraws
<1>5. ASSUME NEW w \in Workers, Lookup(w)  PROVE [D!Next]_(D!vars)
  <2>1. callPc[w] \in OnFile  BY <1>5 DEF Lookup, OnFile
  <2>2. CASE fileLines[Key(w)] = Missing  BY <1>5, <2>2 DEF Lookup, GoesOn, D!vars
  <2>3. CASE fileLines[Key(w)] # Missing
    BY <1>0, <1>5, <2>1, <2>3, LoadedComesBack DEF Lookup
  <2>4. QED  BY <2>2, <2>3
<1>6. ASSUME NEW w \in Workers, Read(w)  PROVE [D!Next]_(D!vars)  BY <1>6, ReadLoads
<1>7. ASSUME NEW w \in Workers, Unlock(w)  PROVE [D!Next]_(D!vars)
  <2>1. callPc[w] \in OnFile /\ lines[w] = fileLines[Key(w)]
    BY <1>7 DEF Unlock, OnFile, ReturnInv
  <2>2. QED  BY <1>0, <1>7, <2>1, LoadedComesBack DEF Unlock
<1>8. QED  BY <1>1, <1>2, <1>3, <1>4, <1>5, <1>6, <1>7 DEF TemplateNext, CallStep

\* The template functions are linearizable: each call takes effect at one moment between
\* its begin and its return (counter, fileLine, fileLineAt and getCachedLines).
THEOREM CallsAreAtomic == TemplateSpec => ImplementsDispenser
<1>1. TemplateInit => D!Init
  BY DEF TemplateInit, D!Init, D!Nothing, D!Unread, NoCall, Missing, Keys
<1>2. TemplateInv /\ ReturnInv /\ [TemplateNext]_templateVars => [D!Next]_(D!vars)
  BY DispenserStep
<1>3. QED
  BY <1>1, <1>2, TemplateInvariant, ReturnInvariant, PTL
     DEF TemplateSpec, ImplementsDispenser, D!Spec

=============================================================================
