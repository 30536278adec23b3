----------------------------- MODULE MCExecution -----------------------------
(* Instances of Delivery, with Pipeline and Templates, and of ExecText for TLC. *)
EXTENDS Delivery, ExecText

Request(iterations, exec, timeout, callback) ==
    [iterations |-> iterations, exec |-> exec, timeout |-> timeout, callback |-> callback]
Template(calls, yields) == [calls |-> calls, yields |-> yields]

Count  == <<"counter", "c">>
Line   == <<"fileLine", "f">>
LineAtTwo == <<"fileLineAt", "f">>

\* Two workers share a counter; two workers share a file; one task goes through every
\* client; a batch of two tasks with a timeout is told to a callback URL; a pipeline
\* without steps.
Counts == Request(2, <<Template(<<Count, Count>>, {"shell"})>>, FALSE, FALSE)
Draws  == Request(2, <<Template(<<Line, Line>>, {"shell"})>>, FALSE, FALSE)
Mixed  == Request(1, <<Template(<<LineAtTwo>>, {"shell", ".http"}),
                       Template(<<>>, {".sleep", ".tcp", "nothing"}),
                       Template(<<Line>>, {".tcp", "nothing"})>>, TRUE, FALSE)
Told   == Request(2, <<Template(<<>>, {"shell"}), Template(<<>>, {".sleep"})>>, TRUE, TRUE)

Empty  == Request(1, <<>>, FALSE, FALSE)

AllRequests == {Counts, Draws, Mixed, Told, Empty}

=============================================================================
