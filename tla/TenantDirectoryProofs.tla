------------------------ MODULE TenantDirectoryProofs ------------------------
(***************************************************************************)
(* What the directory itself guarantees, and so every system that          *)
(* implements it.                                                          *)
(***************************************************************************)
EXTENDS TenantDirectory, TLAPS

Inv == TypeOK /\ OneTenantEach

LEMMA NextInv == Inv /\ [Next]_vars => Inv'
<1> SUFFICES ASSUME Inv, [Next]_vars PROVE Inv'
  OBVIOUS
<1>1. ASSUME NEW u \in Usernames, NEW t \in TenantIDs, NEW k \in PublicKeys \cup {None},
             Provision(u, t, k)
      PROVE  Inv'
  <2>1. PICK e : /\ e = [username |-> u, tenant_id |-> t, public_key |-> k]
                 /\ directory' = directory \cup {e}
    BY <1>1 DEF Provision
  <2>2. e \in Entry /\ e.username = u /\ e.tenant_id = t
    BY <2>1 DEF Entry
  <2>3. \A d \in directory : d.username # u /\ d.tenant_id # t
    BY <1>1 DEF Provision, Inv, OneTenantEach
  <2> QED
    BY <1>1, <2>1, <2>2, <2>3 DEF Provision, Inv, TypeOK, OneTenantEach
<1>2. ASSUME NEW e \in directory, NEW k \in PublicKeys, Rotate(e, k) PROVE Inv'
  <2>1. e \in Entry
    BY DEF Inv, TypeOK
  <2>2. PICK d : d = [e EXCEPT !.public_key = k]
    OBVIOUS
  <2>3. d \in Entry /\ d.username = e.username /\ d.tenant_id = e.tenant_id
    BY <2>1, <2>2 DEF Entry
  <2>4. directory' = (directory \ {e}) \cup {d} /\ UNCHANGED <<unused, lost>>
    BY <1>2, <2>2 DEF Rotate
  <2> QED
    BY <2>3, <2>4 DEF Inv, TypeOK, OneTenantEach
<1>3. ASSUME NEW e \in directory, Remove(e) PROVE Inv'
  BY <1>3 DEF Remove, Inv, TypeOK, OneTenantEach
<1>4. ASSUME NEW t \in unused, Discard(t) PROVE Inv'
  BY <1>4 DEF Discard, Inv, TypeOK, OneTenantEach
<1>5. ASSUME NEW us \in SUBSET Usernames, NEW ids \in SUBSET unused, GiveUp(us, ids) PROVE Inv'
  BY <1>5 DEF GiveUp, Inv, TypeOK, OneTenantEach
<1>6. CASE UNCHANGED vars
  BY <1>6 DEF vars, Inv, TypeOK, OneTenantEach
<1> QED
  BY <1>1, <1>2, <1>3, <1>4, <1>5, <1>6 DEF Next

\* In the directory a username names one tenant and a tenant id one username,
\* and the id of a tenant is never handed out again: what newTenantID and the
\* UNIQUE constraints of the tenants table are for.
THEOREM OneTenant == Spec => []OneTenantEach
<1>1. Init => Inv
  BY DEF Init, Inv, TypeOK, OneTenantEach
<1> QED
  BY <1>1, NextInv, PTL DEF Spec, Inv
=============================================================================
