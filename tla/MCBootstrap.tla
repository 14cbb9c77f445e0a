----------------------------- MODULE MCBootstrap -----------------------------
(***************************************************************************)
(* Instances of Bootstrap for TLC.                                         *)
(***************************************************************************)
EXTENDS Bootstrap

NoFailure == [faults |-> 0, disconnects |-> 0, crashes |-> 0]

OneFailureEach == [faults |-> 1, disconnects |-> 1, crashes |-> 1]
=============================================================================
