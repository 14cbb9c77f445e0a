---------------------------- MODULE MCTokenCache ----------------------------
(***************************************************************************)
(* Instances of TokenCache for TLC.                                        *)
(***************************************************************************)
EXTENDS TokenCache

TwoOutages == [calls |-> 1, outages |-> 2]
=============================================================================
