----------------------------- MODULE MCJobServer -----------------------------
(* Instances of JobServer for TLC. *)
EXTENDS JobServer

CONSTANTS r1, r2, k1

TwoSubmissions == {r1, r2}
OneKey         == {k1}
SameKey        == [r \in TwoSubmissions |-> k1]
NoKeys         == [r \in TwoSubmissions |-> NoKey]
OnlyFirst      == {r1}
OnlySecond     == {r2}
=============================================================================
