--------------------------- MODULE TenantDirectory ---------------------------
(***************************************************************************)
(* What the tenant service promises, as if its two systems were one: a     *)
(* directory in which each operation on a tenant is a single step.  A      *)
(* tenant appears whole, only its key ever changes, it goes whole, and its *)
(* tenant id is never handed out again.                                    *)
(***************************************************************************)
CONSTANTS Usernames, PublicKeys, TenantIDs, None

VARIABLES
  directory,  \* the tenants provisioned in both systems
  unused,     \* tenant ids that no tenant has had yet
  lost        \* usernames a failure has taken out of the promise for good

vars == <<directory, unused, lost>>

Entry == [username : Usernames, tenant_id : TenantIDs, public_key : PublicKeys \cup {None}]

TypeOK ==
  /\ directory \subseteq Entry
  /\ unused \subseteq TenantIDs
  /\ lost \subseteq Usernames

Init == directory = {} /\ unused = TenantIDs /\ lost = {}

Provision(u, t, k) ==
  /\ u \notin lost /\ t \in unused
  /\ \A e \in directory : e.username # u
  /\ directory' = directory \cup {[username |-> u, tenant_id |-> t, public_key |-> k]}
  /\ unused' = unused \ {t}
  /\ UNCHANGED lost

Rotate(e, k) ==
  /\ directory' = (directory \ {e}) \cup {[e EXCEPT !.public_key = k]}
  /\ UNCHANGED <<unused, lost>>

Remove(e) ==
  /\ directory' = directory \ {e}
  /\ UNCHANGED <<unused, lost>>

\* A create that fails uses up its tenant id.
Discard(t) ==
  /\ unused' = unused \ {t}
  /\ UNCHANGED <<directory, lost>>

\* A failure between the writes of some requests: nothing is promised any more
\* of their usernames, and creates that were cut short use up their ids.
GiveUp(us, ids) ==
  /\ lost' = lost \cup us
  /\ directory' = {e \in directory : e.username \notin us}
  /\ unused' = unused \ ids

Next ==
  \/ \E u \in Usernames, t \in TenantIDs, k \in PublicKeys \cup {None} : Provision(u, t, k)
  \/ \E e \in directory : Remove(e) \/ \E k \in PublicKeys : Rotate(e, k)
  \/ \E t \in unused : Discard(t)
  \/ \E us \in SUBSET Usernames, ids \in SUBSET unused : GiveUp(us, ids)

Spec == Init /\ [][Next]_vars

\* A username names at most one tenant, a tenant id at most one username, and
\* no id of a tenant is still to be handed out.
OneTenantEach ==
  /\ \A d, e \in directory : d.username = e.username \/ d.tenant_id = e.tenant_id => d = e
  /\ \A e \in directory : e.tenant_id \notin unused /\ e.username \notin lost
=============================================================================
