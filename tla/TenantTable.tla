----------------------------- MODULE TenantTable -----------------------------
(***************************************************************************)
(* The SQLite table "tenants" as the rest of the program may rely on it,   *)
(* whatever the requests that write it run into: each statement changes    *)
(* one row, a username has at most one row, and a tenant id is written for *)
(* one username only and never again once its row is gone.  The tenant     *)
(* service implements this module, and the hooks are checked against it.   *)
(***************************************************************************)
CONSTANTS Usernames, PublicKeys, TenantIDs, None

VARIABLES
  table,  \* the rows
  owner   \* owner[t]: the username tenant id t was used up for, or None

vars == <<table, owner>>

Row == [username : Usernames, tenant_id : TenantIDs, public_key : PublicKeys \cup {None}]

Init == table = {} /\ owner = [t \in TenantIDs |-> None]

\* UNIQUE(username), UNIQUE(tenant_id), and an id that newTenantID never gave before.
Insert(u, t, k) ==
  /\ owner[t] = None /\ \A r \in table : r.username # u
  /\ table' = table \cup {[username |-> u, tenant_id |-> t, public_key |-> k]}
  /\ owner' = [owner EXCEPT ![t] = u]

Update(r, k) ==
  /\ table' = (table \ {r}) \cup {[r EXCEPT !.public_key = k]}
  /\ UNCHANGED owner

Delete(r) == table' = table \ {r} /\ UNCHANGED owner

\* Creates end without a row; so do all that a crash cuts short.
Retire ==
  /\ owner' \in [TenantIDs -> Usernames \cup {None}]
  /\ \A t \in TenantIDs : owner[t] # None => owner'[t] = owner[t]
  /\ UNCHANGED table

Next ==
  \/ \E u \in Usernames, t \in TenantIDs, k \in PublicKeys \cup {None} : Insert(u, t, k)
  \/ \E r \in table : Delete(r) \/ \E k \in PublicKeys : Update(r, k)
  \/ Retire

Spec == Init /\ [][Next]_vars
=============================================================================
