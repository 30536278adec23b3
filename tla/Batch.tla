-------------------------------- MODULE Batch --------------------------------
(***************************************************************************)
(* What a batch of executions promises, without workers, channels or       *)
(* counters: every task ends at most once, in success, in failure or       *)
(* dropped; a task is dropped only if the batch was interrupted; and the   *)
(* verdict of a batch that was not interrupted is given when all its tasks *)
(* have ended and says how.  JobPool implements this.                      *)
(***************************************************************************)
EXTENDS Integers

CONSTANT Tasks

VARIABLES
    outcome,      \* each task: "todo", "ok", "fail" or "dropped"
    interrupted,  \* the context has ended
    verdict       \* "none" until the batch returns

vars == <<outcome, interrupted, verdict>>

Init ==
    /\ outcome = [t \in Tasks |-> "todo"]
    /\ interrupted = FALSE
    /\ verdict = "none"

\* A task ends.  This may come after the verdict of an interrupted batch.
Finish(t) ==
    /\ outcome[t] = "todo"
    /\ verdict \in {"none", "interrupted"}
    /\ \E o \in {"ok", "fail", "dropped"} :
         /\ o = "dropped" => interrupted
         /\ outcome' = [outcome EXCEPT ![t] = o]
    /\ UNCHANGED <<interrupted, verdict>>

Interrupt ==
    /\ verdict = "none"
    /\ interrupted' = TRUE
    /\ UNCHANGED <<outcome, verdict>>

ConcludeInterrupted ==
    /\ verdict = "none"
    /\ interrupted
    /\ verdict' = "interrupted"
    /\ UNCHANGED <<outcome, interrupted>>

\* All, some or none of the tasks succeeded.
Judged == IF \A t \in Tasks : outcome[t] = "ok" THEN "success"
          ELSE IF \A t \in Tasks : outcome[t] = "fail" THEN "failure" ELSE "partial"

Conclude ==
    /\ verdict = "none"
    /\ ~interrupted
    /\ \A t \in Tasks : outcome[t] \in {"ok", "fail"}
    /\ verdict' = Judged
    /\ UNCHANGED <<outcome, interrupted>>

Next == (\E t \in Tasks : Finish(t)) \/ Interrupt \/ ConcludeInterrupted \/ Conclude

Spec == Init /\ [][Next]_vars

=============================================================================
