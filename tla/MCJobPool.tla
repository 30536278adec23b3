------------------------------ MODULE MCJobPool ------------------------------
(* Instances of JobPool for TLC. *)
EXTENDS JobPool

BothEnds == {"canceled", "deadline"}
OnlyCancel == {"canceled"}
=============================================================================
