------------------------------ MODULE Dispenser ------------------------------
(***************************************************************************)
(* What the state that templates share promises to those who call it,      *)
(* without heap cells, cursors, cache misses or a mutex: between its call  *)
(* and its return a counter or fileLine draws once, at one moment, the     *)
(* number or line that is due; a file is loaded once, for somebody who     *)
(* asked for it; and fileLine comes back without a line only from a file   *)
(* that has none or has not been read.  Templates implements this.         *)
(***************************************************************************)
EXTENDS Integers, Sequences

CONSTANTS Workers, Counters, Files

VARIABLES
    asked,    \* each worker: the call it is waiting for, a function and a key
    linesOf,  \* each file: how many lines it has, Unread before it is loaded
    handed    \* each key: what has been drawn from it, in order

vars == <<asked, linesOf, handed>>

Unread  == -1
Nothing == <<"none", "none">>
Calls   == ({"counter"} \X Counters) \union ({"fileLine", "fileLineAt"} \X Files)

Init ==
    /\ asked = [w \in Workers |-> Nothing]
    /\ linesOf = [f \in Files |-> Unread]
    /\ handed = [k \in Counters \union Files |-> <<>>]

Ask(w, c) ==
    /\ asked[w] = Nothing
    /\ asked' = [asked EXCEPT ![w] = c]
    /\ UNCHANGED <<linesOf, handed>>

Load(f) ==
    /\ linesOf[f] = Unread
    /\ \E w \in Workers : asked[w] \in {"fileLine", "fileLineAt"} \X {f}
    /\ linesOf'[f] \in Nat
    /\ linesOf' = [linesOf EXCEPT ![f] = linesOf'[f]]
    /\ UNCHANGED <<asked, handed>>

\* The next number of a counter, the next line of a file.
Due(k) == IF k \in Counters THEN Len(handed[k]) + 1 ELSE (Len(handed[k]) % linesOf[k]) + 1

Draw(w, c) ==
    /\ asked[w] = c
    /\ c[1] \in {"counter", "fileLine"}
    /\ c[1] = "fileLine" => linesOf[c[2]] > 0
    /\ handed' = [handed EXCEPT ![c[2]] = Append(@, Due(c[2]))]
    /\ asked' = [asked EXCEPT ![w] = Nothing]
    /\ UNCHANGED linesOf

\* A call returns that draws nothing.
ComeBack(w, c) ==
    /\ asked[w] = c
    /\ c[1] \in {"fileLine", "fileLineAt"}
    /\ c[1] = "fileLine" => linesOf[c[2]] \in {Unread, 0}
    /\ asked' = [asked EXCEPT ![w] = Nothing]
    /\ UNCHANGED <<linesOf, handed>>

Next == \/ \E w \in Workers, c \in Calls : Ask(w, c) \/ Draw(w, c) \/ ComeBack(w, c)
        \/ \E f \in Files : Load(f)

Spec == Init /\ [][Next]_vars

=============================================================================
