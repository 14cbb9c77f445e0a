----------------------------- MODULE MCSftpHooks -----------------------------
(***************************************************************************)
(* Instances of SftpHooks for TLC.  Files: a good one; one that repeats a  *)
(* key and then has a bad line; one without a required column.             *)
(***************************************************************************)
EXTENDS SftpHooks, TLC

CONSTANTS line, blob, a, b, v1, v2

OneKey == line :> blob

NoPasswords == [t \in TenantIDs |-> None]

R(k, v) == [key |-> k, value |-> v]

Sample == {
  [columns |-> {"key", "title", "value"}, lines |-> <<R(a, v1)>>],
  [columns |-> Columns, lines |-> <<R(a, v1), R(a, v2), Bad, R(b, v2)>>],
  [columns |-> {"key", "value"}, lines |-> <<R(b, v1)>>]}

TwoUploads == [uploads |-> 2, resends |-> 1, failures |-> 1]
=============================================================================
