-------------------------- MODULE MCTenantLifecycle --------------------------
(***************************************************************************)
(* Instances of TenantLifecycle for TLC: how often each perturbation may   *)
(* happen in a run, and which values are interchangeable.                  *)
(***************************************************************************)
EXTENDS TenantLifecycle, TLC

NoFailure == [faults |-> 0, disconnects |-> 0, crashes |-> 0, disables |-> 0]

\* One failure of each kind, and no change made in the WebAdmin.
OneFailureEach == [faults |-> 1, disconnects |-> 1, crashes |-> 1, disables |-> 0]

OneFault == [NoFailure EXCEPT !.faults = 1]

OneDisconnect == [NoFailure EXCEPT !.disconnects = 1]

LostCall == [NoFailure EXCEPT !.faults = 1, !.disables = 1]

Interchangeable ==
  Permutations(Handlers) \cup Permutations(Usernames)
    \cup Permutations(PublicKeys) \cup Permutations(TenantIDs)
=============================================================================
