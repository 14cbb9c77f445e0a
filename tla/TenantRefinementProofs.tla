----------------------- MODULE TenantRefinementProofs -----------------------
(***************************************************************************)
(* The tenant service implements TenantDirectory: served to clients that   *)
(* take turns on a tenant, its two systems behave as one directory.  And   *)
(* it implements TenantTable: served to any clients, its table is the one  *)
(* that the hooks rely on, and its statements find the rows they are meant *)
(* for while these are there.  All for every value of the constants.       *)
(***************************************************************************)
EXTENDS TenantAgreementProofs

Inv == TypeInv /\ Issuance /\ Lockstep /\ FreshIDs

LEMMA InvInvariant ==
  ASSUME SerialClients
  PROVE  Spec => []Inv
BY TypeInvariant, IssuanceInvariant, LockstepInvariant, FreshIDsInvariant, PTL DEF Inv

-----------------------------------------------------------------------------
(* When the abstract state stays or loses what was given up on.             *)

\* Entries depend on which accounts are established and on nothing else.
LEMMA SameProvisioned ==
  ASSUME \A x \in users : Established(x) =>
           \E y \in users' : Established(y)' /\ EntryOf(y) = EntryOf(x),
         \A y \in users' : Established(y)' =>
           \E x \in users : Established(x) /\ EntryOf(y) = EntryOf(x)
  PROVE  Provisioned' = Provisioned
<1>1. ASSUME NEW e, e \in Provisioned PROVE e \in Provisioned'
  <2>1. PICK x \in users : Established(x) /\ e = EntryOf(x)
    BY <1>1 DEF Provisioned
  <2>2. PICK y \in users' : Established(y)' /\ EntryOf(y) = EntryOf(x)
    BY <2>1
  <2> QED
    BY <2>1, <2>2 DEF Provisioned, EntryOf
<1>2. ASSUME NEW e, e \in Provisioned' PROVE e \in Provisioned
  <2>1. PICK y \in users' : Established(y)' /\ e = EntryOf(y)
    BY <1>2 DEF Provisioned, EntryOf
  <2>2. PICK x \in users : Established(x) /\ EntryOf(y) = EntryOf(x)
    BY <2>1
  <2> QED
    BY <2>1, <2>2 DEF Provisioned
<1> QED
  BY <1>1, <1>2

\* A tenant id under way is not used up.
LEMMA HeldIDsAreUnused ==
  ASSUME Inv, NEW h \in Handlers, req[h].pc \in CreatePCs
  PROVE  req[h].tenant_id \in UnusedIDs
BY DEF Inv, TypeInv, RequestsReady, UnusedIDs, CreatePCs

\* When a create ends, its id is used up; nothing else changes what is unused.
LEMMA UnusedAfterFinish ==
  ASSUME Inv, NEW h \in Handlers, req[h].pc \in CreatePCs, Finish(h), UNCHANGED issued
  PROVE  UnusedIDs' = UnusedIDs \ {req[h].tenant_id}
<1>1. /\ issued[req[h].tenant_id] # None
      /\ req[h].tenant_id \in TenantIDs
  BY NoneIsNoValue DEF Inv, Issuance, RequestsIssued, TypeInv, RequestsReady, CreatePCs
<1>2. req'[h].pc = "idle" /\ \A g \in Handlers : g # h => req'[g] = req[g]
  BY DEF Finish, Inv, TypeInv, TypeOK, NoRequest
<1>3. \A g \in Handlers : req[g].pc \in CreatePCs /\ g # h => req[g].tenant_id # req[h].tenant_id
  BY DEF Inv, FreshIDs
<1>4. \A t : t = req[h].tenant_id => t \notin UnusedIDs'
  <2>1. ASSUME NEW t, t = req[h].tenant_id PROVE t \notin UnusedIDs'
    <3>1. issued'[t] # None
      BY <1>1, <2>1
    <3>2. \A g \in Handlers : req'[g].pc \in CreatePCs => req'[g].tenant_id # t
      BY <1>2, <1>3, <2>1 DEF CreatePCs
    <3> QED
      BY <3>1, <3>2 DEF UnusedIDs
  <2> QED
    BY <2>1
<1>5. \A t : t # req[h].tenant_id => (t \in UnusedIDs' <=> t \in UnusedIDs)
  BY <1>2 DEF UnusedIDs, CreatePCs
<1> QED
  BY <1>4, <1>5

LEMMA UnusedStay ==
  ASSUME UNCHANGED issued,
         \A g \in Handlers :
           /\ req'[g].pc \in CreatePCs <=> req[g].pc \in CreatePCs
           /\ req[g].pc \in CreatePCs => req'[g].tenant_id = req[g].tenant_id
  PROVE  UNCHANGED UnusedIDs
BY DEF UnusedIDs

\* A username given up on takes its entry out of the directory.
LEMMA ProvisionedAfterDisturb ==
  ASSUME NEW us, Disturb(us), UNCHANGED users,
         \A r : r.username \notin us => (r \in tenants <=> r \in tenants')
  PROVE  Provisioned' = {e \in Provisioned : e.username \notin us}
<1>1. \A x \in users : Established(x)' <=> (Established(x) /\ x.username \notin us)
  BY DEF Established, Disturb, Named
<1>2. \A x : EntryOf(x)' = EntryOf(x) /\ EntryOf(x).username = x.username
  BY DEF EntryOf
<1> QED
  BY <1>1, <1>2 DEF Provisioned

-----------------------------------------------------------------------------
(* How the steps of the service look from the directory.                    *)

DirectoryStep == Directory!Next \/ UNCHANGED <<Provisioned, UnusedIDs, disturbed>>

LEMMA Discards ==
  ASSUME NEW t \in UnusedIDs, UnusedIDs' = UnusedIDs \ {t}, UNCHANGED <<Provisioned, disturbed>>
  PROVE  DirectoryStep
BY DEF DirectoryStep, Directory!Next, Directory!Discard

LEMMA GivesUp ==
  ASSUME NEW us \in SUBSET Usernames, Disturb(us), UNCHANGED users,
         \A r : r.username \notin us => (r \in tenants <=> r \in tenants'),
         UnusedIDs' \subseteq UnusedIDs
  PROVE  DirectoryStep
<1>1. Provisioned' = {e \in Provisioned : e.username \notin us}
  BY ProvisionedAfterDisturb
<1>2. PICK ids \in SUBSET UnusedIDs : UnusedIDs' = UnusedIDs \ ids
  <2>1. UnusedIDs' = UnusedIDs \ (UnusedIDs \ UnusedIDs')
    OBVIOUS
  <2> QED
    BY <2>1
<1> QED
  BY <1>1, <1>2 DEF DirectoryStep, Directory!Next, Directory!GiveUp, Disturb

\* A create that ends without a row discards its id; so does one that is given
\* up on.
LEMMA CreateEnds ==
  ASSUME Inv, NEW h \in Handlers, req[h].pc \in CreatePCs, Finish(h), UNCHANGED issued,
         \/ UNCHANGED <<Provisioned, disturbed>>
         \/ UNCHANGED <<tenants, users>> /\ Disturb({req[h].username})
  PROVE  DirectoryStep
<1>1. UnusedIDs' = UnusedIDs \ {req[h].tenant_id} /\ req[h].tenant_id \in UnusedIDs
  BY UnusedAfterFinish, HeldIDsAreUnused
<1>2. {req[h].username} \in SUBSET Usernames
  BY DEF Inv, TypeInv, RequestsReady, CreatePCs
<1> QED
  BY <1>1, <1>2, Discards, GivesUp

\* The directory does not tell accounts apart that are not established.
LEMMA OthersEstablished ==
  ASSUME UNCHANGED <<tenants, disturbed>>, NEW u,
         \A x : x.username # u => (x \in users <=> x \in users'),
         \A x \in users : x.username = u => ~Established(x),
         \A x \in users' : x.username = u => ~Established(x)
  PROVE  UNCHANGED Provisioned
<1>1. \A x : Established(x)' <=> Established(x)
  BY DEF Established, Named
<1>2. \A x \in users : Established(x) => x \in users'
  OBVIOUS
<1>3. \A x \in users' : Established(x)' => x \in users
  BY <1>1
<1> QED
  BY <1>1, <1>2, <1>3, SameProvisioned

LEMMA GivenUpNotEstablished ==
  ASSUME NEW x, x.username \in disturbed
  PROVE  ~Established(x)
BY DEF Established

\* A step of a rotation or a delete leaves the ids of the creates alone.
LEMMA ModifyLeavesUnused ==
  ASSUME Inv, NEW h \in Handlers, req[h].pc \notin CreatePCs, req'[h].pc \notin CreatePCs,
         UNCHANGED issued, \A g \in Handlers : g # h => req'[g] = req[g]
  PROVE  UNCHANGED UnusedIDs
BY DEF UnusedIDs

-----------------------------------------------------------------------------
(* The steps of a create. *)

LEMMA StartCreateSeen ==
  ASSUME Inv, NEW h \in Handlers, NEW u \in Usernames, NEW k \in Keys, NEW t \in TenantIDs,
         StartCreate(h, u, k, t)
  PROVE  DirectoryStep
<1>1. UNCHANGED <<tenants, users, disturbed>> /\ issued[t] = None
  BY DEF StartCreate, FreshTenantIDs
<1>2. UNCHANGED Provisioned
  BY <1>1 DEF Provisioned, EntryOf, Established, Named
<1>3. /\ req'[h].pc \in CreatePCs /\ req'[h].tenant_id = t /\ req[h].pc \notin CreatePCs
      /\ \A g \in Handlers : g # h => req'[g] = req[g]
  BY DEF StartCreate, NoRequest, CreatePCs, Inv, TypeInv, TypeOK
<1>4. \A s \in TenantIDs : issued'[s] = IF s = t THEN u ELSE issued[s]
  BY DEF StartCreate, Inv, TypeInv, TypeOK
<1>5. UNCHANGED UnusedIDs
  BY <1>1, <1>3, <1>4 DEF UnusedIDs
<1> QED
  BY <1>1, <1>2, <1>5 DEF DirectoryStep

\* A tenant id that a create holds has no row, so its account is not yet seen.
LEMMA CreatorUnseen ==
  ASSUME Inv, NEW h \in Handlers, req[h].pc \in CreatePCs,
         NEW x, x.username = req[h].username, x.home = req[h].home
  PROVE  ~Established(x)
BY DEF Inv, FreshIDs, TypeInv, RequestsReady, Established, Named

LEMMA CreateUserSeen ==
  ASSUME Inv, NEW h \in Handlers, CreateUser(h)
  PROVE  DirectoryStep
<1>1. /\ req[h].pc = "create_user" /\ UNCHANGED <<tenants, issued>>
      /\ req \in [Handlers -> Request] /\ req[h] \in Request
  BY DEF CreateUser, SFTPGoCall, Inv, TypeInv, TypeOK
<1>2. CASE /\ Accepts(Wire(h)) /\ users' = Served(Wire(h)) /\ Goto(h, "insert")
           /\ UNCHANGED disturbed
  <2>1. /\ Named(users, req[h].username) = {}
        /\ users' = users \cup {Wire(h).account}
        /\ Wire(h).account.username = req[h].username /\ Wire(h).account.home = req[h].home
    BY <1>1, <1>2 DEF Served, Accepts, Wire, Method
  <2>2. \A x \in users : x.username # req[h].username
    BY <2>1 DEF Named
  <2>3. ~Established(Wire(h).account)
    BY <1>1, <2>1, CreatorUnseen DEF CreatePCs
  <2>4. PICK a : a = Wire(h).account
    OBVIOUS
  <2>5. PICK u : u = req[h].username
    OBVIOUS
  <2>6. UNCHANGED Provisioned
    <3>1. /\ \A x : x.username # u => (x \in users <=> x \in users')
          /\ \A x \in users : x.username = u => ~Established(x)
          /\ \A x \in users' : x.username = u => ~Established(x)
      BY <2>1, <2>2, <2>3, <2>4, <2>5
    <3> QED
      BY <1>1, <1>2, <3>1, OthersEstablished
  <2>7. UNCHANGED UnusedIDs
    <3>1. /\ req'[h].pc = "insert" /\ req'[h].tenant_id = req[h].tenant_id
          /\ \A g \in Handlers : g # h => req'[g] = req[g]
      BY <1>1, <1>2 DEF Goto, Request
    <3> QED
      BY <1>1, <3>1, UnusedStay DEF CreatePCs
  <2> QED
    BY <1>2, <2>6, <2>7 DEF DirectoryStep
<1>3. CASE /\ UNCHANGED <<tenants, users>> /\ Finish(h)
           /\ UNCHANGED disturbed \/ Disturb({req[h].username})
  <2>1. UNCHANGED disturbed => UNCHANGED Provisioned
    BY <1>3 DEF Provisioned, EntryOf, Established, Named
  <2> QED
    BY <1>1, <1>3, <2>1, CreateEnds DEF CreatePCs
<1> QED
  BY <1>2, <1>3, CallOutcomes DEF CreateUser

LEMMA RollbackUserSeen ==
  ASSUME Inv, NEW h \in Handlers, RollbackUser(h)
  PROVE  DirectoryStep
<1>1. req[h].pc = "rollback" /\ UNCHANGED <<tenants, issued>> /\ Finish(h)
  BY DEF RollbackUser
<1>2. CASE users' = Served(Wire(h)) /\ UNCHANGED disturbed
  <2>1. users' = {x \in users : x.username # req[h].username}
    <3>1. Wire(h).method = "DELETE" /\ Wire(h).account.username = req[h].username
      BY <1>1 DEF Wire, Method
    <3> QED
      BY <1>2, <3>1 DEF Served, Accepts, Named
  <2>2. ASSUME NEW x \in users, x.username = req[h].username PROVE ~Established(x)
    <3>1. CASE x.username \in disturbed
      BY <3>1, GivenUpNotEstablished
    <3>2. CASE x.username \notin disturbed
      <4>1. PICK y \in users : y.username = req[h].username /\ y.home = req[h].home
        BY <1>1, <2>2, <3>2 DEF Inv, Lockstep, CreatorsHaveAccounts, Posted
      <4>2. x = y
        BY <2>2, <4>1 DEF Inv, Lockstep, UniqueAccounts
      <4> QED
        BY <1>1, <4>1, <4>2, CreatorUnseen DEF CreatePCs
    <3> QED
      BY <3>1, <3>2
  <2>3. PICK u : u = req[h].username
    OBVIOUS
  <2>4. UNCHANGED Provisioned
    <3>1. /\ \A x : x.username # u => (x \in users <=> x \in users')
          /\ \A x \in users : x.username = u => ~Established(x)
          /\ \A x \in users' : x.username = u => ~Established(x)
      BY <2>1, <2>2, <2>3
    <3> QED
      BY <1>1, <1>2, <3>1, OthersEstablished
  <2> QED
    BY <1>1, <1>2, <2>4, CreateEnds DEF CreatePCs
<1>3. CASE UNCHANGED users /\ Disturb({req[h].username})
  BY <1>1, <1>3, CreateEnds DEF CreatePCs
<1> QED
  BY <1>2, <1>3 DEF RollbackUser

\* Whether an account is established depends on the names in the rows alone.
LEMMA SameRowsSeen ==
  ASSUME UNCHANGED <<users, disturbed>>, \A x \in users : Established(x)' <=> Established(x)
  PROVE  UNCHANGED Provisioned
BY SameProvisioned

\* The INSERT is the step at which the tenant appears in the directory.
LEMMA InsertedSeen ==
  ASSUME Inv, NEW h \in Handlers, req[h].pc = "insert", InsertRow(h), Finish(h),
         ~Clash(req[h].username, req[h].tenant_id), UNCHANGED <<users, disturbed, issued>>
  PROVE  DirectoryStep
<1>1. PICK u, t, k : u = req[h].username /\ t = req[h].tenant_id /\ k = req[h].public_key
  OBVIOUS
<1>2. /\ u \in Usernames /\ t \in TenantIDs /\ k \in Keys /\ req[h].home = t
  BY <1>1 DEF Inv, TypeInv, TypeOK, RequestsReady, Request, CreatePCs
<1>3. PICK row : /\ tenants' = tenants \cup {row}
                 /\ row.username = u /\ row.tenant_id = t
  <2>1. PICK i : tenants' = tenants \cup {[id |-> i, tenant_id |-> t, username |-> u, public_key |-> k]}
    BY <1>1 DEF InsertRow
  <2>2. PICK row : row = [id |-> i, tenant_id |-> t, username |-> u, public_key |-> k]
    OBVIOUS
  <2> QED
    BY <2>1, <2>2
<1>4. t \in UnusedIDs /\ UnusedIDs' = UnusedIDs \ {t}
  BY <1>1, HeldIDsAreUnused, UnusedAfterFinish DEF CreatePCs
<1>5. \A x \in users : x.username # u => (Established(x)' <=> Established(x))
  BY <1>3 DEF Established, Named
<1>6. \A r \in tenants : r.username # u
  BY <1>1 DEF Clash
<1>7. CASE u \in disturbed
  <2>1. UNCHANGED Provisioned
    BY <1>5, <1>7, SameRowsSeen DEF Established
  <2> QED
    BY <1>4, <2>1, Discards
<1>8. CASE u \notin disturbed
  <2>1. PICK x \in users : x.username = u /\ x.home = t /\ x.public_key = k
    BY <1>1, <1>2, <1>8 DEF Inv, Lockstep, CreatorsHaveAccounts, Posted
  <2>2. Established(x)' /\ ~Established(x)
    BY <1>3, <1>6, <1>8, <2>1 DEF Established, Named
  <2>3. \A y \in users : y # x => y.username # u
    BY <2>1 DEF Inv, Lockstep, UniqueAccounts
  <2>4. EntryOf(x) = [username |-> u, tenant_id |-> t, public_key |-> k]
    BY <2>1 DEF EntryOf
  <2>5. Provisioned' = Provisioned \cup {EntryOf(x)}
    BY <1>5, <2>2, <2>3 DEF Provisioned, EntryOf
  <2>6. \A e \in Provisioned : e.username # u
    BY <1>6 DEF Provisioned, EntryOf, Established, Named
  <2>7. Directory!Provision(u, t, k)
    BY <1>4, <1>8, <2>4, <2>5, <2>6 DEF Directory!Provision
  <2> QED
    BY <1>2, <2>7 DEF DirectoryStep, Directory!Next, Keys
<1> QED
  BY <1>7, <1>8

LEMMA InsertTenantSeen ==
  ASSUME Inv, NEW h \in Handlers, InsertTenant(h)
  PROVE  DirectoryStep
<1>1. /\ req[h].pc = "insert" /\ UNCHANGED <<users, issued>>
      /\ req \in [Handlers -> Request] /\ req[h] \in Request /\ req[h].username \in Usernames
  BY DEF InsertTenant, Inv, TypeInv, TypeOK, RequestsReady
<1>2. CASE /\ InsertRow(h) /\ Finish(h) /\ ~Clash(req[h].username, req[h].tenant_id)
           /\ UNCHANGED disturbed
  BY <1>1, <1>2, InsertedSeen
<1>3. ASSUME \/ req' = [req EXCEPT ![h].pc = "rollback"]
             \/ req' = [req EXCEPT ![h].pc = "rollback", ![h].cancelled = TRUE]
      PROVE  UNCHANGED UnusedIDs
  <2>1. /\ req'[h].pc = "rollback" /\ req'[h].tenant_id = req[h].tenant_id
        /\ \A g \in Handlers : g # h => req'[g] = req[g]
    BY <1>1, <1>3 DEF Request
  <2> QED
    BY <1>1, <2>1, UnusedStay DEF CreatePCs
<1>4. CASE Goto(h, "rollback") /\ UNCHANGED <<tenants, disturbed>>
  <2>1. UNCHANGED Provisioned
    BY <1>1, <1>4 DEF Provisioned, EntryOf, Established, Named
  <2> QED
    BY <1>3, <1>4, <2>1 DEF DirectoryStep, Goto
<1>5. CASE /\ req' = [req EXCEPT ![h].pc = "rollback", ![h].cancelled = TRUE]
           /\ InsertRow(h) /\ Disturb({req[h].username})
  <2>1. PICK us : us = {req[h].username}
    OBVIOUS
  <2>2. \A r : r.username \notin us => (r \in tenants <=> r \in tenants')
    BY <1>5, <2>1 DEF InsertRow
  <2> QED
    BY <1>1, <1>3, <1>5, <2>1, <2>2, GivesUp
<1> QED
  BY <1>2, <1>4, <1>5 DEF InsertTenant

-----------------------------------------------------------------------------
(* The steps of a rotation and of a delete. *)

\* Resolving an id, the GET, and a call that ends a request leave the directory.
LEMMA ModifierMovesSeen ==
  ASSUME Inv, NEW h \in Handlers, req[h].pc \notin CreatePCs, req'[h].pc \notin CreatePCs,
         \A g \in Handlers : g # h => req'[g] = req[g],
         UNCHANGED <<tenants, users, issued>>,
         UNCHANGED disturbed \/ (req[h].pc # "idle" /\ Disturb({req[h].username}))
  PROVE  DirectoryStep
<1>1. UNCHANGED UnusedIDs
  BY ModifyLeavesUnused
<1>2. CASE UNCHANGED disturbed
  <2>1. UNCHANGED Provisioned
    BY <1>2 DEF Provisioned, EntryOf, Established, Named
  <2> QED
    BY <1>1, <1>2, <2>1 DEF DirectoryStep
<1>3. CASE req[h].pc # "idle" /\ Disturb({req[h].username})
  <2>1. {req[h].username} \in SUBSET Usernames
    BY <1>3 DEF Inv, TypeInv, RequestsReady
  <2> QED
    BY <1>1, <1>3, <2>1, GivesUp
<1> QED
  BY <1>2, <1>3

LEMMA EndedCallSeen ==
  ASSUME Inv, NEW h \in Handlers, req[h].pc \in ModifyPCs, Finish(h),
         UNCHANGED <<tenants, users, issued>>,
         UNCHANGED disturbed \/ Disturb({req[h].username})
  PROVE  DirectoryStep
<1>1. req'[h].pc = "idle" /\ \A g \in Handlers : g # h => req'[g] = req[g]
  BY DEF Finish, NoRequest, Inv, TypeInv, TypeOK
<1> QED
  BY <1>1, ModifierMovesSeen DEF ModifyPCs, CreatePCs

\* The account of an undisturbed tenant that a request rotates or deletes is
\* the established one, and the only one of its username.
LEMMA ModifiedAccount ==
  ASSUME Inv, NEW h \in Handlers, req[h].pc \in {"put_user", "delete_user"},
         req[h].username \notin disturbed
  PROVE  \E x \in users :
           /\ Established(x) /\ x.username = req[h].username /\ x.home = req[h].tenant_id
           /\ \A y \in users : y.username = req[h].username => y = x
<1>1. PICK r \in tenants : r.tenant_id = req[h].tenant_id /\ r.username = req[h].username
  BY DEF Inv, Lockstep, ModifiersHaveRows, ModifyPCs
<1>2. ~DeletingRow(req[h].username)
  BY ModifierSees DEF Inv, ModifyPCs
<1>3. PICK x \in users : x.username = r.username /\ x.home = r.tenant_id
  BY <1>1, <1>2 DEF Inv, Lockstep, RowsHaveAccounts
<1>4. Established(x)
  BY <1>1, <1>3 DEF Established, Named
<1>5. \A y \in users : y.username = req[h].username => y = x
  BY <1>1, <1>3 DEF Inv, Lockstep, UniqueAccounts
<1> QED
  BY <1>1, <1>3, <1>4, <1>5

\* A rotation is seen at its PUT.
LEMMA PutUserSeen ==
  ASSUME Inv, NEW h \in Handlers, PutUser(h)
  PROVE  DirectoryStep
<1>1. /\ req[h].pc = "put_user" /\ UNCHANGED <<tenants, issued>>
      /\ req \in [Handlers -> Request] /\ req[h] \in Request
      /\ req[h].public_key \in PublicKeys
  BY DEF PutUser, SFTPGoCall, Inv, TypeInv, TypeOK, RequestsReady
<1>2. CASE /\ Accepts(Wire(h)) /\ users' = Served(Wire(h)) /\ Goto(h, "update_row")
           /\ UNCHANGED disturbed
  <2>1. PICK u, k, a : u = req[h].username /\ k = req[h].public_key /\ a = Wire(h).account
    OBVIOUS
  <2>2. /\ users' = {IF x.username = u THEN a ELSE x : x \in users}
        /\ a.username = u /\ a.home = req[h].home /\ a.public_key = k
    BY <1>1, <1>2, <2>1 DEF Served, Wire, Method
  <2>3. UNCHANGED UnusedIDs
    <3>1. req'[h].pc = "update_row" /\ \A g \in Handlers : g # h => req'[g] = req[g]
      BY <1>1, <1>2 DEF Goto, Request
    <3> QED
      BY <1>1, <3>1, ModifyLeavesUnused DEF CreatePCs
  <2>4. \A x : Established(x)' <=> Established(x)
    BY <1>1, <1>2 DEF Established, Named
  <2>5. CASE u \in disturbed
    <3>1. /\ \A x : x.username # u => (x \in users <=> x \in users')
          /\ \A x \in users : x.username = u => ~Established(x)
          /\ \A x \in users' : x.username = u => ~Established(x)
      BY <2>2, <2>5, GivenUpNotEstablished
    <3>2. UNCHANGED Provisioned
      BY <1>1, <1>2, <3>1, OthersEstablished
    <3> QED
      BY <1>2, <2>3, <3>2 DEF DirectoryStep
  <2>6. CASE u \notin disturbed
    <3>1. PICK x \in users : /\ Established(x) /\ x.username = u /\ x.home = req[h].tenant_id
                             /\ \A y \in users : y.username = u => y = x
      BY <1>1, <2>1, <2>6, ModifiedAccount
    <3>2. a.home = x.home
      BY <1>1, <2>1, <2>2, <2>6, <3>1 DEF Inv, Lockstep, PutsKeepHomes
    <3>3. users' = (users \ {x}) \cup {a}
      BY <2>2, <3>1
    <3>4. Established(a)
      BY <2>2, <3>1, <3>2 DEF Established
    <3>5. EntryOf(a) = [EntryOf(x) EXCEPT !.public_key = k]
      BY <2>2, <3>1, <3>2 DEF EntryOf
    <3>6. \A y \in users : y # x => EntryOf(y) # EntryOf(x)
      BY <3>1 DEF EntryOf
    <3>7. Provisioned' = (Provisioned \ {EntryOf(x)}) \cup {EntryOf(a)}
      BY <2>4, <3>1, <3>3, <3>4, <3>6 DEF Provisioned, EntryOf
    <3>8. EntryOf(x) \in Provisioned
      BY <3>1 DEF Provisioned
    <3>9. Directory!Rotate(EntryOf(x), k)
      BY <1>2, <2>3, <3>5, <3>7 DEF Directory!Rotate
    <3> QED
      BY <1>1, <2>1, <3>8, <3>9 DEF DirectoryStep, Directory!Next
  <2> QED
    BY <2>5, <2>6
<1>3. CASE /\ UNCHANGED <<tenants, users>> /\ Finish(h)
           /\ UNCHANGED disturbed \/ Disturb({req[h].username})
  BY <1>1, <1>3, EndedCallSeen DEF ModifyPCs
<1> QED
  BY <1>2, <1>3, CallOutcomes DEF PutUser

\* A removal is seen at the DELETE in SFTPGo.
LEMMA DeleteUserSeen ==
  ASSUME Inv, NEW h \in Handlers, DeleteUser(h)
  PROVE  DirectoryStep
<1>1. /\ req[h].pc = "delete_user" /\ UNCHANGED <<tenants, issued>>
      /\ req \in [Handlers -> Request] /\ req[h] \in Request
  BY DEF DeleteUser, SFTPGoCall, Inv, TypeInv, TypeOK
<1>2. CASE /\ Accepts(Wire(h)) /\ users' = Served(Wire(h)) /\ Goto(h, "delete_row")
           /\ UNCHANGED disturbed
  <2>1. PICK u : u = req[h].username
    OBVIOUS
  <2>2. users' = {x \in users : x.username # u}
    BY <1>1, <1>2, <2>1 DEF Served, Wire, Method, Named
  <2>3. UNCHANGED UnusedIDs
    <3>1. req'[h].pc = "delete_row" /\ \A g \in Handlers : g # h => req'[g] = req[g]
      BY <1>1, <1>2 DEF Goto, Request
    <3> QED
      BY <1>1, <3>1, ModifyLeavesUnused DEF CreatePCs
  <2>4. \A x : Established(x)' <=> Established(x)
    BY <1>1, <1>2 DEF Established, Named
  <2>5. CASE u \in disturbed
    <3>1. /\ \A x : x.username # u => (x \in users <=> x \in users')
          /\ \A x \in users : x.username = u => ~Established(x)
          /\ \A x \in users' : x.username = u => ~Established(x)
      BY <2>2, <2>5, GivenUpNotEstablished
    <3>2. UNCHANGED Provisioned
      BY <1>1, <1>2, <3>1, OthersEstablished
    <3> QED
      BY <1>2, <2>3, <3>2 DEF DirectoryStep
  <2>6. CASE u \notin disturbed
    <3>1. PICK x \in users : /\ Established(x) /\ x.username = u
                             /\ \A y \in users : y.username = u => y = x
      BY <1>1, <2>1, <2>6, ModifiedAccount
    <3>2. users' = users \ {x}
      BY <2>2, <3>1
    <3>3. \A y \in users : y # x => EntryOf(y) # EntryOf(x)
      BY <3>1 DEF EntryOf
    <3>4. Provisioned' = Provisioned \ {EntryOf(x)}
      BY <2>4, <3>1, <3>2, <3>3 DEF Provisioned, EntryOf
    <3>5. EntryOf(x) \in Provisioned
      BY <3>1 DEF Provisioned
    <3>6. Directory!Remove(EntryOf(x))
      BY <1>2, <2>3, <3>4 DEF Directory!Remove
    <3> QED
      BY <3>5, <3>6 DEF DirectoryStep, Directory!Next
  <2> QED
    BY <2>5, <2>6
<1>3. CASE /\ UNCHANGED <<tenants, users>> /\ Finish(h)
           /\ UNCHANGED disturbed \/ Disturb({req[h].username})
  BY <1>1, <1>3, EndedCallSeen DEF ModifyPCs
<1> QED
  BY <1>2, <1>3, CallOutcomes DEF DeleteUser

LEMMA UpdateRowSeen ==
  ASSUME Inv, NEW h \in Handlers, UpdateRow(h)
  PROVE  DirectoryStep
<1>1. /\ req[h].pc = "update_row" /\ UNCHANGED <<users, issued>> /\ Finish(h)
      /\ req'[h].pc = "idle" /\ \A g \in Handlers : g # h => req'[g] = req[g]
  BY DEF UpdateRow, Finish, NoRequest, Inv, TypeInv, TypeOK
<1>2. CASE tenants' = WithKey(req[h].id, req[h].public_key) /\ UNCHANGED disturbed
  <2>1. ASSUME NEW r \in tenants
        PROVE  \E s \in tenants' : s.username = r.username /\ s.tenant_id = r.tenant_id
    <3>1. r \in Row
      BY DEF Inv, TypeInv, TypeOK
    <3>2. PICK s : s = IF r.id = req[h].id THEN [r EXCEPT !.public_key = req[h].public_key] ELSE r
      OBVIOUS
    <3>3. s \in tenants'
      BY <1>2, <3>2 DEF WithKey
    <3> QED
      BY <3>1, <3>2, <3>3 DEF Row
  <2>2. ASSUME NEW s \in tenants'
        PROVE  \E r \in tenants : s.username = r.username /\ s.tenant_id = r.tenant_id
    <3>1. PICK r \in tenants :
            s = IF r.id = req[h].id THEN [r EXCEPT !.public_key = req[h].public_key] ELSE r
      BY <1>2 DEF WithKey
    <3>2. r \in Row
      BY DEF Inv, TypeInv, TypeOK
    <3> QED
      BY <3>1, <3>2 DEF Row
  <2>3. \A x \in users : Established(x)' <=> Established(x)
    BY <1>2, <2>1, <2>2 DEF Established, Named
  <2>4. UNCHANGED Provisioned
    BY <1>1, <1>2, <2>3, SameRowsSeen
  <2>5. UNCHANGED UnusedIDs
    BY <1>1, ModifyLeavesUnused DEF CreatePCs
  <2> QED
    BY <1>2, <2>4, <2>5 DEF DirectoryStep
<1>3. CASE UNCHANGED tenants /\ Disturb({req[h].username})
  BY <1>1, <1>3, EndedCallSeen DEF ModifyPCs
<1> QED
  BY <1>2, <1>3 DEF UpdateRow

\* The row that goes belongs to a tenant that is out of the directory already.
LEMMA DeleteRowSeen ==
  ASSUME Inv, NEW h \in Handlers, DeleteRow(h)
  PROVE  DirectoryStep
<1>1. /\ req[h].pc = "delete_row" /\ UNCHANGED <<users, issued>> /\ Finish(h)
      /\ req'[h].pc = "idle" /\ \A g \in Handlers : g # h => req'[g] = req[g]
  BY DEF DeleteRow, Finish, NoRequest, Inv, TypeInv, TypeOK
<1>2. CASE tenants' = WithoutRow(req[h].id) /\ UNCHANGED disturbed
  <2>1. PICK u : u = req[h].username
    OBVIOUS
  <2>2. \A r \in tenants : r.username # u => r \in tenants'
    BY <1>1, <1>2, <2>1 DEF WithoutRow, Inv, Lockstep, ModifiersHaveRows, UniqueRows, ModifyPCs
  <2>3. ASSUME NEW x \in users, x.username = u, u \notin disturbed PROVE ~Established(x)
    <3>1. DeletingRow(u)
      BY <1>1, <2>1 DEF DeletingRow
    <3>2. PICK g \in Handlers : Posted(g) /\ req[g].username = u
      BY <2>3, <3>1 DEF Inv, Lockstep, AccountsHaveOwners, PostedFor
    <3>3. PICK y \in users : y.username = u /\ y.home = req[g].home
      BY <2>3, <3>2 DEF Inv, Lockstep, CreatorsHaveAccounts
    <3>4. x = y
      BY <2>3, <3>3 DEF Inv, Lockstep, UniqueAccounts
    <3> QED
      BY <2>3, <3>2, <3>3, <3>4, CreatorUnseen DEF Posted, CreatePCs
  <2>4. \A x \in users : Established(x)' <=> Established(x)
    <3>1. \A x \in users : Established(x)' => Established(x)
      BY <1>2 DEF Established, Named, WithoutRow
    <3>2. \A x \in users : Established(x) => x.username # u
      BY <2>3, GivenUpNotEstablished
    <3>3. \A x \in users : Established(x) => Established(x)'
      BY <1>2, <2>2, <3>2 DEF Established, Named
    <3> QED
      BY <3>1, <3>3
  <2>5. UNCHANGED Provisioned
    BY <1>1, <1>2, <2>4, SameRowsSeen
  <2>6. UNCHANGED UnusedIDs
    BY <1>1, ModifyLeavesUnused DEF CreatePCs
  <2> QED
    BY <1>2, <2>5, <2>6 DEF DirectoryStep
<1>3. CASE UNCHANGED tenants /\ Disturb({req[h].username})
  BY <1>1, <1>3, EndedCallSeen DEF ModifyPCs
<1> QED
  BY <1>2, <1>3 DEF DeleteRow

LEMMA LocalModifySeen ==
  ASSUME Inv, NEW h \in Handlers,
         \/ GetUser(h)
         \/ \E row \in tenants, k \in Keys : StartUpdate(h, row, k) \/ StartDelete(h, row)
  PROVE  DirectoryStep
<1>1. req \in [Handlers -> Request] /\ req[h] \in Request
  BY DEF Inv, TypeInv, TypeOK
<1>2. CASE GetUser(h)
  <2>1. req'[h].pc \in {"idle", "put_user"}
    <3>1. CASE Finish(h)
      BY <1>1, <3>1 DEF Finish, NoRequest
    <3>2. CASE \E x \in Named(users, req[h].username) :
                 req' = [req EXCEPT ![h] = WithFieldsOf(req[h], x)]
      BY <1>1, <3>2 DEF WithFieldsOf, Request
    <3> QED
      BY <1>2, <3>1, <3>2 DEF GetUser
  <2>2. \A g \in Handlers : g # h => req'[g] = req[g]
    BY <1>1, <1>2 DEF GetUser, Finish
  <2> QED
    BY <1>2, <2>1, <2>2, ModifierMovesSeen DEF GetUser, CreatePCs
<1>3. CASE \E row \in tenants, k \in Keys : StartUpdate(h, row, k) \/ StartDelete(h, row)
  <2>1. PICK row \in tenants, k \in Keys : StartUpdate(h, row, k) \/ StartDelete(h, row)
    BY <1>3
  <2>2. req'[h].pc \in ModifyPCs /\ \A g \in Handlers : g # h => req'[g] = req[g]
    <3>1. ASSUME NEW pc \in ModifyPCs, NEW j, Resolve(h, row, pc, j)
          PROVE  req'[h].pc = pc /\ \A g \in Handlers : g # h => req'[g] = req[g]
      BY <1>1, <3>1 DEF Resolve, NoRequest
    <3> QED
      BY <2>1, <3>1 DEF StartUpdate, StartDelete, ModifyPCs
  <2> QED
    BY <2>1, <2>2, ModifierMovesSeen
       DEF StartUpdate, StartDelete, Resolve, CreatePCs, ModifyPCs
<1> QED
  BY <1>2, <1>3

-----------------------------------------------------------------------------
(* The environment. *)

LEMMA CrashSeen ==
  ASSUME Inv, Crash
  PROVE  DirectoryStep
<1>1. PICK us : Disturb(us) /\ us \subseteq {req[h].username : h \in OnTheWire \cup HalfDone}
  BY DEF Crash
<1>2. us \in SUBSET Usernames
  BY <1>1 DEF Inv, TypeInv, RequestsReady, OnTheWire, HalfDone, WritePCs
<1>3. UnusedIDs' \subseteq UnusedIDs
  BY DEF Crash, UnusedIDs, NoRequest, CreatePCs
<1> QED
  BY <1>1, <1>2, <1>3, GivesUp DEF Crash

LEMMA DeliverStraySeen ==
  ASSUME Inv, NEW w \in stray, DeliverStray(w)
  PROVE  DirectoryStep
<1>1. PICK u : u = w.account.username /\ u \in disturbed
  BY DEF Inv, Lockstep, StrayCallsDisturb
<1>2. w \in Calls
  BY DEF Inv, TypeInv, TypeOK
<1>3. \A x : x.username # u => (x \in users <=> x \in users')
  BY <1>1, <1>2 DEF DeliverStray, Served, Named, Calls
<1>4. UNCHANGED Provisioned
  <2>1. /\ \A x \in users : x.username = u => ~Established(x)
        /\ \A x \in users' : x.username = u => ~Established(x)
    BY <1>1, GivenUpNotEstablished
  <2> QED
    BY <1>3, <2>1, OthersEstablished DEF DeliverStray
<1> QED
  BY <1>4 DEF DirectoryStep, DeliverStray, UnusedIDs

LEMMA DisableUserSeen ==
  ASSUME Inv, NEW x \in users, DisableUser(x)
  PROVE  DirectoryStep
<1>1. PICK y : y = [x EXCEPT !.status = 0]
  OBVIOUS
<1>2. users' = (users \ {x}) \cup {y} /\ UNCHANGED <<tenants, req, issued, disturbed>>
  BY <1>1 DEF DisableUser
<1>3. EntryOf(y) = EntryOf(x) /\ (Established(y) <=> Established(x))
  BY <1>1 DEF EntryOf, Established, Inv, TypeInv, TypeOK, Account
<1>4. \A z : Established(z)' <=> Established(z)
  BY <1>2 DEF Established, Named
<1>5. UNCHANGED Provisioned
  <2>1. ASSUME NEW z \in users, Established(z)
        PROVE  \E v \in users' : Established(v)' /\ EntryOf(v) = EntryOf(z)
    BY <1>2, <1>3, <1>4, <2>1
  <2>2. ASSUME NEW z \in users', Established(z)'
        PROVE  \E v \in users : Established(v) /\ EntryOf(z) = EntryOf(v)
    BY <1>2, <1>3, <1>4, <2>2
  <2> QED
    BY <2>1, <2>2, SameProvisioned
<1> QED
  BY <1>2, <1>5 DEF DirectoryStep, UnusedIDs

LEMMA DisconnectSeen ==
  ASSUME Inv, NEW h \in Handlers, Disconnect(h)
  PROVE  DirectoryStep
<1>1. UNCHANGED <<tenants, users, issued, disturbed>>
  BY DEF Disconnect
<1>2. \A g \in Handlers : req'[g].pc = req[g].pc /\ req'[g].tenant_id = req[g].tenant_id
  BY DEF Disconnect, Inv, TypeInv, TypeOK, Request
<1>3. UNCHANGED UnusedIDs
  BY <1>1, <1>2, UnusedStay
<1>4. UNCHANGED Provisioned
  BY <1>1 DEF Provisioned, EntryOf, Established, Named
<1> QED
  BY <1>1, <1>3, <1>4 DEF DirectoryStep

-----------------------------------------------------------------------------

LEMMA StepSeen == Inv /\ [Next]_vars => DirectoryStep
<1> SUFFICES ASSUME Inv, [Next]_vars PROVE DirectoryStep
  OBVIOUS
<1>1. CASE UNCHANGED vars
  BY <1>1 DEF DirectoryStep, Provisioned, EntryOf, Established, Named, UnusedIDs, vars
<1>2. ASSUME NEW h \in Handlers, Arrive(h) \/ Step(h) PROVE DirectoryStep
  BY <1>2, StartCreateSeen, LocalModifySeen, CreateUserSeen, InsertTenantSeen, RollbackUserSeen,
     PutUserSeen, UpdateRowSeen, DeleteUserSeen, DeleteRowSeen DEF Arrive, Step, Keys
<1>3. CASE Environment
  BY <1>3, CrashSeen, DeliverStraySeen, DisableUserSeen, DisconnectSeen DEF Environment
<1> QED
  BY <1>1, <1>2, <1>3 DEF Next

\* With clients that take turns on a tenant, whatever fails, the SFTPGo user
\* store and the SQLite table behave as one directory of tenants: each create,
\* rotation and removal is a single step of it or none.
THEOREM Refinement == ASSUME SerialClients PROVE Spec => ImplementsDirectory
<1>1. Init => Directory!Init
  BY DEF Init, Directory!Init, Provisioned, UnusedIDs
<1>2. Inv /\ [Next]_vars => [Directory!Next]_(Directory!vars)
  BY StepSeen DEF DirectoryStep, Directory!vars
<1> QED
  BY <1>1, <1>2, InvInvariant, PTL DEF Spec, ImplementsDirectory, Directory!Spec

-----------------------------------------------------------------------------
(* The table.  What it needs of the requests holds whoever sends them.      *)

\* Rows are told apart by username and by row id, an id whose row is yet to be
\* written has none, and what an UPDATE writes is a key.
TableInv ==
  /\ UniqueRows
  /\ \A r \in tenants : ~Writing(r.tenant_id)
  /\ \A h \in Handlers : req[h].pc = "update_row" => req[h].public_key \in PublicKeys

\* Creates neither start nor write a row, and what requests hold stays.
LEMMA TableInvStays ==
  ASSUME TypeInv, TableInv, UniqueRows',
         \A s \in tenants' : \E r \in tenants : s.tenant_id = r.tenant_id,
         \A t : Writing(t)' => Writing(t),
         \A h \in Handlers : req'[h].pc = "update_row" =>
           req[h].pc \in {"put_user", "update_row"} /\ req'[h].public_key = req[h].public_key
  PROVE  TableInv'
<1>1. \A r \in tenants' : ~Writing(r.tenant_id)'
  BY DEF TableInv, Writing
<1>2. \A h \in Handlers : req[h].pc \in {"put_user", "update_row"} => req[h].public_key \in PublicKeys
  BY DEF TableInv, TypeInv, RequestsReady
<1> QED
  BY <1>1, <1>2 DEF TableInv

\* A statement that goes by a row id keeps names and ids of all rows.
LEMMA RowsStayUnique ==
  ASSUME TypeInv, UniqueRows, NEW id, NEW k,
         tenants' = WithKey(id, k) \/ tenants' = WithoutRow(id)
  PROVE  /\ UniqueRows'
         /\ \A s \in tenants' : \E r \in tenants : s.tenant_id = r.tenant_id
<1>1. CASE tenants' = WithKey(id, k)
  <2>1. \A s \in tenants' : \E r \in tenants :
          /\ s = IF r.id = id THEN [r EXCEPT !.public_key = k] ELSE r
          /\ s.username = r.username /\ s.id = r.id /\ s.tenant_id = r.tenant_id
    BY <1>1 DEF WithKey, TypeInv, TypeOK, Row
  <2> QED
    BY <2>1 DEF UniqueRows
<1>2. CASE tenants' = WithoutRow(id)
  BY <1>2 DEF WithoutRow, UniqueRows
<1> QED
  BY <1>1, <1>2

\* A new row takes a username and a row id that no row has, and an id of which
\* its create was the only holder.
LEMMA InsertedUnique ==
  ASSUME TypeInv, FreshIDs, TableInv, NEW h \in Handlers, req[h].pc = "insert",
         ~Clash(req[h].username, req[h].tenant_id), InsertRow(h),
         req'[h].pc \in {"idle", "rollback"}, \A g \in Handlers : g # h => req'[g] = req[g]
  PROVE  TableInv'
<1>1. PICK i \in NextRowIDs :
        tenants' = tenants \cup {[id |-> i, tenant_id |-> req[h].tenant_id,
                                  username |-> req[h].username,
                                  public_key |-> req[h].public_key]}
  BY DEF InsertRow
<1>2. PICK n : n = [id |-> i, tenant_id |-> req[h].tenant_id, username |-> req[h].username,
                    public_key |-> req[h].public_key]
  OBVIOUS
<1>3. /\ tenants' = tenants \cup {n}
      /\ n.id = i /\ n.tenant_id = req[h].tenant_id /\ n.username = req[h].username
  BY <1>1, <1>2
<1>4. \A r \in tenants : r.username # n.username /\ r.id # n.id
  BY <1>3 DEF Clash, NextRowIDs, TypeInv, TypeOK, Row
<1>5. UniqueRows'
  BY <1>3, <1>4 DEF TableInv, UniqueRows
<1>6. \A g \in Handlers : req'[g].pc \in {"create_user", "insert"} =>
        /\ req[g].pc \in {"create_user", "insert"} /\ req'[g].tenant_id = req[g].tenant_id
        /\ req[g].tenant_id # req[h].tenant_id
  BY DEF FreshIDs, CreatePCs
<1>7. \A r \in tenants' : ~Writing(r.tenant_id)'
  BY <1>3, <1>6 DEF TableInv, Writing
<1>8. \A g \in Handlers : req'[g].pc = "update_row" => req'[g].public_key \in PublicKeys
  BY DEF TableInv
<1> QED
  BY <1>5, <1>7, <1>8 DEF TableInv

LEMMA TableInvNext ==
  TypeInv /\ Issuance /\ FreshIDs /\ TableInv /\ [Next]_vars => TableInv'
<1> SUFFICES ASSUME TypeInv, Issuance, FreshIDs, TableInv, [Next]_vars PROVE TableInv'
  OBVIOUS
<1>1. req \in [Handlers -> Request] /\ \A h \in Handlers : req[h] \in Request
  BY DEF TypeInv, TypeOK
<1>2. ASSUME NEW h \in Handlers, NEW u \in Usernames, NEW k \in Keys, NEW t \in TenantIDs,
             StartCreate(h, u, k, t)
      PROVE  TableInv'
  <2>1. UNCHANGED tenants /\ issued[t] = None
    BY <1>2 DEF StartCreate, FreshTenantIDs
  <2>2. /\ req'[h].tenant_id = t /\ req'[h].pc = "create_user"
        /\ \A g \in Handlers : g # h => req'[g] = req[g]
    BY <1>1, <1>2 DEF StartCreate, NoRequest
  <2>3. \A r \in tenants : r.tenant_id # t
    BY <2>1, NoneIsNoValue DEF Issuance, RowsIssued, TypeInv, TypeOK, Row
  <2>4. \A r \in tenants : ~Writing(r.tenant_id)'
    BY <2>2, <2>3 DEF TableInv, Writing
  <2> QED
    BY <2>1, <2>2, <2>4 DEF TableInv, UniqueRows
<1>3. ASSUME UNCHANGED tenants,
             \A t : Writing(t)' => Writing(t),
             \A h \in Handlers : req'[h].pc = "update_row" =>
               req[h].pc \in {"put_user", "update_row"} /\ req'[h].public_key = req[h].public_key
      PROVE  TableInv'
  <2>1. UniqueRows'
    BY <1>3 DEF TableInv, UniqueRows
  <2> QED
    BY <1>3, <2>1, TableInvStays
<1>4. CASE UNCHANGED vars
  BY <1>3, <1>4 DEF vars, Writing
<1>5. ASSUME NEW h \in Handlers, NEW row \in tenants, NEW k \in Keys,
             StartUpdate(h, row, k) \/ StartDelete(h, row)
      PROVE  TableInv'
  <2>1. /\ UNCHANGED tenants /\ req'[h].pc \in {"get_user", "delete_user"}
        /\ \A g \in Handlers : g # h => req'[g] = req[g]
    BY <1>1, <1>5 DEF StartUpdate, StartDelete, Resolve, NoRequest
  <2> QED
    BY <1>3, <2>1 DEF Writing
<1>6. ASSUME NEW h \in Handlers, InsertTenant(h) PROVE TableInv'
  <2>1. req[h].pc = "insert"
    BY <1>6 DEF InsertTenant
  <2>2. /\ req'[h].pc \in {"idle", "rollback"}
        /\ \A g \in Handlers : g # h => req'[g] = req[g]
    BY <1>1, <1>6 DEF InsertTenant, Finish, Goto, NoRequest, Request
  <2>3. CASE UNCHANGED tenants
    BY <1>3, <2>2, <2>3 DEF Writing
  <2>4. CASE InsertRow(h) /\ ~Clash(req[h].username, req[h].tenant_id)
    BY <2>1, <2>2, <2>4, InsertedUnique
  <2> QED
    BY <1>6, <2>3, <2>4 DEF InsertTenant
<1>7. ASSUME NEW h \in Handlers, UpdateRow(h) \/ DeleteRow(h) PROVE TableInv'
  <2>1. /\ req'[h].pc = "idle" /\ \A g \in Handlers : g # h => req'[g] = req[g]
    BY <1>1, <1>7 DEF UpdateRow, DeleteRow, Finish, NoRequest
  <2>2. CASE UNCHANGED tenants
    BY <1>3, <2>1, <2>2 DEF Writing
  <2>3. CASE tenants' = WithKey(req[h].id, req[h].public_key) \/ tenants' = WithoutRow(req[h].id)
    BY <2>1, <2>3, RowsStayUnique, TableInvStays DEF TableInv, Writing
  <2> QED
    BY <1>7, <2>2, <2>3 DEF UpdateRow, DeleteRow
<1>8. ASSUME NEW h \in Handlers,
             CreateUser(h) \/ RollbackUser(h) \/ GetUser(h) \/ PutUser(h) \/ DeleteUser(h)
      PROVE  TableInv'
  <2>1. UNCHANGED tenants /\ \A g \in Handlers : g # h => req'[g] = req[g]
    BY <1>1, <1>8 DEF CreateUser, RollbackUser, GetUser, PutUser, DeleteUser, SFTPGoCall,
                      Finish, Goto
  <2>2. /\ req'[h].pc = "update_row" =>
             req[h].pc = "put_user" /\ req'[h].public_key = req[h].public_key
        /\ req'[h].pc \in {"create_user", "insert"} =>
             req[h].pc = "create_user" /\ req'[h].tenant_id = req[h].tenant_id
    <3>1. CASE Finish(h)
      BY <1>1, <3>1 DEF Finish, NoRequest
    <3>2. CASE Goto(h, "insert") /\ req[h].pc = "create_user"
      BY <1>1, <3>2 DEF Goto, Request
    <3>3. CASE Goto(h, "update_row") /\ req[h].pc = "put_user"
      BY <1>1, <3>3 DEF Goto, Request
    <3>4. CASE Goto(h, "delete_row")
      BY <1>1, <3>4 DEF Goto, Request
    <3>5. CASE \E x \in users : req' = [req EXCEPT ![h] = WithFieldsOf(@, x)]
      BY <1>1, <3>5 DEF WithFieldsOf, Request
    <3> QED
      BY <1>8, <3>1, <3>2, <3>3, <3>4, <3>5, CallOutcomes
         DEF CreateUser, PutUser, DeleteUser, RollbackUser, GetUser, Named
  <2> QED
    BY <1>3, <2>1, <2>2 DEF Writing
<1>9. CASE Environment
  <2>1. ASSUME NEW h \in Handlers, Disconnect(h), NEW g \in Handlers
        PROVE  /\ req'[g].pc = req[g].pc /\ req'[g].tenant_id = req[g].tenant_id
               /\ req'[g].public_key = req[g].public_key
    BY <1>1, <2>1 DEF Disconnect, Request
  <2>2. CASE \E h \in Handlers : Disconnect(h)
    BY <1>3, <2>1, <2>2 DEF Disconnect, Writing
  <2>3. CASE Crash
    BY <1>3, <2>3 DEF Crash, NoRequest, Writing
  <2>4. CASE UNCHANGED <<tenants, req>>
    BY <1>3, <2>4 DEF Writing
  <2> QED
    BY <1>9, <2>2, <2>3, <2>4 DEF Environment, DeliverStray, DisableUser
<1> QED
  BY <1>2, <1>4, <1>5, <1>6, <1>7, <1>8, <1>9 DEF Next, Arrive, Step, Keys

LEMMA TableInvariant == Spec => []TableInv
<1>1. Init => TableInv
  BY DEF Init, TableInv, UniqueRows, NoRequest
<1> QED
  BY <1>1, TableInvNext, TypeInvariant, IssuanceInvariant, FreshIDsInvariant, PTL DEF Spec

-----------------------------------------------------------------------------
(* Which row a statement hits.                                              *)

\* The tenant a request resolved keeps its row id while it is there, and no create
\* is to write its tenant id again.
ResolvedRows ==
  \A h \in Handlers : req[h].pc \in ModifyPCs =>
    /\ ~Writing(req[h].tenant_id)
    /\ \A r \in tenants : r.tenant_id = req[h].tenant_id => r.id = req[h].id

\* Creates neither start nor write a row, and what requests resolved stays.
LEMMA ResolvedStay ==
  ASSUME ResolvedRows,
         \A s \in tenants' : \E r \in tenants : s.tenant_id = r.tenant_id /\ s.id = r.id,
         \A t : Writing(t)' => Writing(t),
         \A h \in Handlers : req'[h].pc \in ModifyPCs =>
           /\ req[h].pc \in ModifyPCs
           /\ req'[h].tenant_id = req[h].tenant_id /\ req'[h].id = req[h].id
  PROVE  ResolvedRows'
<1> SUFFICES ASSUME NEW h \in Handlers, req'[h].pc \in ModifyPCs
             PROVE  /\ ~Writing(req[h].tenant_id)'
                    /\ \A s \in tenants' : s.tenant_id = req'[h].tenant_id => s.id = req'[h].id
  BY DEF ResolvedRows
<1>1. /\ ~Writing(req[h].tenant_id) /\ req'[h].tenant_id = req[h].tenant_id
      /\ req'[h].id = req[h].id
      /\ \A r \in tenants : r.tenant_id = req[h].tenant_id => r.id = req[h].id
  BY DEF ResolvedRows
<1>2. ~Writing(req[h].tenant_id)'
  BY <1>1 DEF Writing
<1> QED
  BY <1>1, <1>2

LEMMA ResolvedRowsNext ==
  TypeInv /\ Issuance /\ FreshIDs /\ TableInv /\ ResolvedRows /\ [Next]_vars => ResolvedRows'
<1> SUFFICES ASSUME TypeInv, Issuance, FreshIDs, TableInv, ResolvedRows, [Next]_vars
             PROVE  ResolvedRows'
  OBVIOUS
<1>1. req \in [Handlers -> Request] /\ \A h \in Handlers : req[h] \in Request
  BY DEF TypeInv, TypeOK
<1>2. ASSUME NEW h \in Handlers, NEW u \in Usernames, NEW k \in Keys, NEW t \in TenantIDs,
             StartCreate(h, u, k, t)
      PROVE  ResolvedRows'
  <2>1. UNCHANGED tenants /\ issued[t] = None
    BY <1>2 DEF StartCreate, FreshTenantIDs
  <2>2. /\ req'[h].tenant_id = t /\ req'[h].pc = "create_user"
        /\ \A g \in Handlers : g # h => req'[g] = req[g]
    BY <1>1, <1>2 DEF StartCreate, NoRequest
  <2>3. \A g \in Handlers : req[g].pc \in ModifyPCs => req[g].tenant_id # t
    BY <2>1, NoneIsNoValue DEF Issuance, RequestsIssued, TypeInv, RequestsReady, ModifyPCs
  <2>4. \A g \in Handlers : req'[g].pc \in ModifyPCs =>
          g # h /\ ~Writing(req[g].tenant_id) /\ req'[g] = req[g] /\ req[g].tenant_id # t
    BY <2>2, <2>3 DEF ResolvedRows, ModifyPCs
  <2>5. \A g \in Handlers : req'[g].pc \in ModifyPCs => ~Writing(req[g].tenant_id)'
    BY <2>2, <2>4 DEF Writing
  <2> QED
    BY <2>1, <2>4, <2>5 DEF ResolvedRows
<1>3. ASSUME NEW h \in Handlers, NEW row \in tenants, NEW k \in Keys,
             StartUpdate(h, row, k) \/ StartDelete(h, row)
      PROVE  ResolvedRows'
  <2>1. /\ UNCHANGED tenants /\ req'[h].pc \in {"get_user", "delete_user"}
        /\ req'[h].tenant_id = row.tenant_id /\ req'[h].id = row.id
        /\ \A g \in Handlers : g # h => req'[g] = req[g]
    BY <1>1, <1>3 DEF StartUpdate, StartDelete, Resolve, NoRequest
  <2>2. ~Writing(row.tenant_id)
    BY DEF TableInv
  <2>3. \A t : Writing(t)' => Writing(t)
    BY <2>1 DEF Writing
  <2>4. \A r \in tenants : r.tenant_id = row.tenant_id => r = row
    BY DEF Issuance, RowsIssued, TableInv, UniqueRows
  <2>5. ~Writing(req[h].tenant_id)'
    BY <2>1, <2>2 DEF Writing
  <2>6. ASSUME NEW g \in Handlers, g # h, req'[g].pc \in ModifyPCs
        PROVE  ~Writing(req[g].tenant_id)'
    BY <2>1, <2>6 DEF Writing, ResolvedRows
  <2> QED
    BY <2>1, <2>4, <2>5, <2>6 DEF ResolvedRows
<1>4. ASSUME NEW h \in Handlers, InsertTenant(h) PROVE ResolvedRows'
  <2>1. req[h].pc = "insert" /\ Writing(req[h].tenant_id)
    BY <1>4 DEF InsertTenant, Writing
  <2>2. /\ req'[h].pc \in {"idle", "rollback"}
        /\ \A g \in Handlers : g # h => req'[g] = req[g]
    BY <1>1, <1>4 DEF InsertTenant, Finish, Goto, NoRequest, Request
  <2>3. \A t : Writing(t)' => Writing(t)
    BY <2>2 DEF Writing
  <2>4. CASE UNCHANGED tenants
    BY <2>2, <2>3, <2>4, ResolvedStay DEF ModifyPCs
  <2>5. CASE InsertRow(h)
    <3>1. PICK n : n.tenant_id = req[h].tenant_id /\ tenants' = tenants \cup {n}
      BY <2>5 DEF InsertRow
    <3>2. \A g \in Handlers : req'[g].pc \in ModifyPCs =>
            /\ req'[g] = req[g] /\ ~Writing(req[g].tenant_id)
            /\ req[g].tenant_id # req[h].tenant_id
      BY <2>1, <2>2 DEF ResolvedRows, ModifyPCs
    <3>3. \A g \in Handlers : req'[g].pc \in ModifyPCs => ~Writing(req[g].tenant_id)'
      BY <2>2, <3>2 DEF Writing
    <3> QED
      BY <3>1, <3>2, <3>3 DEF ResolvedRows
  <2> QED
    BY <1>4, <2>4, <2>5 DEF InsertTenant
<1>5. ASSUME NEW h \in Handlers, UpdateRow(h) \/ DeleteRow(h) PROVE ResolvedRows'
  <2>1. /\ req'[h].pc = "idle" /\ \A g \in Handlers : g # h => req'[g] = req[g]
    BY <1>1, <1>5 DEF UpdateRow, DeleteRow, Finish, NoRequest
  <2>2. \A s \in tenants' : \E r \in tenants : s.tenant_id = r.tenant_id /\ s.id = r.id
    BY <1>5 DEF UpdateRow, DeleteRow, WithKey, WithoutRow, TypeInv, TypeOK, Row
  <2> QED
    BY <2>1, <2>2, ResolvedStay DEF Writing, ModifyPCs
<1>6. ASSUME NEW h \in Handlers,
             CreateUser(h) \/ RollbackUser(h) \/ GetUser(h) \/ PutUser(h) \/ DeleteUser(h)
      PROVE  ResolvedRows'
  <2>1. UNCHANGED tenants /\ \A g \in Handlers : g # h => req'[g] = req[g]
    BY <1>1, <1>6 DEF CreateUser, RollbackUser, GetUser, PutUser, DeleteUser, SFTPGoCall,
                      Finish, Goto
  <2>2. /\ req'[h].pc \in ModifyPCs =>
             /\ req[h].pc \in ModifyPCs
             /\ req'[h].tenant_id = req[h].tenant_id /\ req'[h].id = req[h].id
        /\ req'[h].pc \in {"create_user", "insert"} =>
             req[h].pc = "create_user" /\ req'[h].tenant_id = req[h].tenant_id
    <3>1. CASE Finish(h)
      BY <1>1, <3>1 DEF Finish, NoRequest, ModifyPCs
    <3>2. CASE Goto(h, "insert") /\ req[h].pc = "create_user"
      BY <1>1, <3>2 DEF Goto, Request, ModifyPCs
    <3>3. CASE (Goto(h, "update_row") \/ Goto(h, "delete_row")) /\ req[h].pc \in ModifyPCs
      BY <1>1, <3>3 DEF Goto, Request
    <3>4. CASE /\ req[h].pc \in ModifyPCs
               /\ \E x \in users : req' = [req EXCEPT ![h] = WithFieldsOf(@, x)]
      BY <1>1, <3>4 DEF WithFieldsOf, Request
    <3> QED
      BY <1>6, <3>1, <3>2, <3>3, <3>4, CallOutcomes
         DEF CreateUser, PutUser, DeleteUser, RollbackUser, GetUser, Named, ModifyPCs
  <2> QED
    BY <2>1, <2>2, ResolvedStay DEF Writing
<1>7. CASE Environment
  <2>1. ASSUME NEW h \in Handlers, Disconnect(h), NEW g \in Handlers
        PROVE  /\ req'[g].pc = req[g].pc /\ req'[g].tenant_id = req[g].tenant_id
               /\ req'[g].id = req[g].id
    BY <1>1, <2>1 DEF Disconnect, Request
  <2>2. CASE \E h \in Handlers : Disconnect(h)
    BY <2>1, <2>2, ResolvedStay DEF Disconnect, Writing
  <2>3. CASE Crash
    BY <2>3 DEF Crash, NoRequest, ResolvedRows, ModifyPCs
  <2>4. CASE UNCHANGED <<tenants, req>>
    BY <2>4 DEF ResolvedRows, Writing
  <2> QED
    BY <1>7, <2>2, <2>3, <2>4 DEF Environment, DeliverStray, DisableUser
<1>8. CASE UNCHANGED vars
  BY <1>8 DEF vars, ResolvedRows, Writing
<1> QED
  BY <1>2, <1>3, <1>4, <1>5, <1>6, <1>7, <1>8 DEF Next, Arrive, Step, Keys

LEMMA ResolvedRowsInvariant == Spec => []ResolvedRows
<1>1. Init => ResolvedRows
  BY DEF Init, ResolvedRows, NoRequest, ModifyPCs
<1> QED
  BY <1>1, ResolvedRowsNext, TypeInvariant, IssuanceInvariant, FreshIDsInvariant, TableInvariant,
     PTL DEF Spec

\* Clients, failures and restarts as they please: a late UPDATE or DELETE goes
\* astray only when the tenant its request resolved is gone, however often row ids
\* came back meanwhile.
THEOREM AddressedComesFirst == Spec => AddressedFirst
<1>1. ASSUME TypeInv, TableInv, ResolvedRows, NEW h \in Handlers, UpdateRow(h) \/ DeleteRow(h),
             NEW s \in tenants, s.tenant_id = req[h].tenant_id, NEW r \in tenants \ tenants'
      PROVE  r.tenant_id = req[h].tenant_id
  <2>1. s.id = req[h].id
    BY <1>1 DEF ResolvedRows, UpdateRow, DeleteRow, ModifyPCs
  <2>2. r.id = req[h].id
    BY <1>1 DEF UpdateRow, DeleteRow, WithKey, WithoutRow
  <2> QED
    BY <1>1, <2>1, <2>2 DEF TableInv, UniqueRows
<1>2. TypeInv /\ TableInv /\ ResolvedRows =>
        [\A h \in Handlers :
           (UpdateRow(h) \/ DeleteRow(h)) /\ (\E r \in tenants : r.tenant_id = req[h].tenant_id)
           => \A r \in tenants \ tenants' : r.tenant_id = req[h].tenant_id]_vars
  BY <1>1
<1> QED
  BY <1>2, TypeInvariant, TableInvariant, ResolvedRowsInvariant, PTL DEF AddressedFirst

-----------------------------------------------------------------------------
(* How the steps of the service look from the table.                        *)

TableStep == Table!Next \/ UNCHANGED <<Entries, Owners>>

\* Rows stay and no create starts; those that end retire their ids.
LEMMA RetiresSeen ==
  ASSUME TypeInv, UNCHANGED <<tenants, issued>>, \A t : Writing(t)' => Writing(t)
  PROVE  TableStep
<1>1. UNCHANGED Entries
  BY DEF Entries, EntryOfRow
<1>2. issued \in [TenantIDs -> Usernames \cup {None}]
  BY DEF TypeInv, TypeOK
<1>3. \A t \in TenantIDs : /\ Owners[t] = IF Writing(t) THEN None ELSE issued[t]
                           /\ Owners'[t] = IF Writing(t)' THEN None ELSE issued[t]
  BY DEF Owners
<1>4. Owners' \in [TenantIDs -> Usernames \cup {None}]
  BY <1>2 DEF Owners
<1>5. \A t \in TenantIDs : Owners[t] # None => Owners'[t] = Owners[t]
  BY <1>3
<1> QED
  BY <1>1, <1>4, <1>5 DEF TableStep, Table!Next, Table!Retire

LEMMA StartCreateUnseen ==
  ASSUME TypeInv, NEW h \in Handlers, NEW u \in Usernames, NEW k \in Keys, NEW t \in TenantIDs,
         StartCreate(h, u, k, t)
  PROVE  TableStep
<1>1. /\ UNCHANGED tenants /\ req[h].pc = "idle"
      /\ issued[t] = None /\ issued' = [issued EXCEPT ![t] = u]
      /\ issued \in [TenantIDs -> Usernames \cup {None}]
  BY DEF StartCreate, FreshTenantIDs, TypeInv, TypeOK
<1>2. /\ req'[h].tenant_id = t /\ req'[h].pc = "create_user"
      /\ \A g \in Handlers : g # h => req'[g] = req[g]
  BY DEF StartCreate, NoRequest, TypeInv, TypeOK
<1>3. Writing(t)' /\ \A s : s # t => (Writing(s)' <=> Writing(s))
  BY <1>1, <1>2 DEF Writing
<1>4. \A s \in TenantIDs :
        (IF Writing(s)' THEN None ELSE issued'[s]) = IF Writing(s) THEN None ELSE issued[s]
  BY <1>1, <1>3
<1>5. UNCHANGED Owners
  BY <1>4 DEF Owners
<1>6. UNCHANGED Entries
  BY <1>1 DEF Entries, EntryOfRow
<1> QED
  BY <1>5, <1>6 DEF TableStep

LEMMA InsertSeen ==
  ASSUME TypeInv, Issuance, FreshIDs, TableInv, NEW h \in Handlers, req[h].pc = "insert",
         ~Clash(req[h].username, req[h].tenant_id), InsertRow(h), UNCHANGED issued,
         req'[h].pc \in {"idle", "rollback"}, \A g \in Handlers : g # h => req'[g] = req[g]
  PROVE  TableStep
<1>1. PICK u, t, k : u = req[h].username /\ t = req[h].tenant_id /\ k = req[h].public_key
  OBVIOUS
<1>2. u \in Usernames /\ t \in TenantIDs /\ k \in PublicKeys \cup {None} /\ issued[t] = u
  BY <1>1 DEF TypeInv, TypeOK, RequestsReady, Request, Keys, Issuance, RequestsIssued
<1>3. PICK i \in NextRowIDs :
        tenants' = tenants \cup {[id |-> i, tenant_id |-> t, username |-> u, public_key |-> k]}
  BY <1>1 DEF InsertRow
<1>4. Writing(t) /\ ~Writing(t)' /\ \A s : s # t => (Writing(s)' <=> Writing(s))
  BY <1>1 DEF Writing, FreshIDs, CreatePCs
<1>5. \A e \in Entries : e.username # u
  BY <1>1 DEF Entries, EntryOfRow, Clash
<1>6. Entries' = Entries \cup {[username |-> u, tenant_id |-> t, public_key |-> k]}
  <2>1. PICK n : /\ n = [id |-> i, tenant_id |-> t, username |-> u, public_key |-> k]
                 /\ tenants' = tenants \cup {n}
    BY <1>3
  <2>2. EntryOfRow(n) = [username |-> u, tenant_id |-> t, public_key |-> k]
    BY <2>1 DEF EntryOfRow
  <2>3. Entries' = Entries \cup {EntryOfRow(n)}
    BY <2>1 DEF Entries, EntryOfRow
  <2> QED
    BY <2>2, <2>3
<1>7. Owners[t] = None
  BY <1>2, <1>4 DEF Owners
<1>8. Owners' = [Owners EXCEPT ![t] = u]
  <2>1. \A s \in TenantIDs : (IF Writing(s)' THEN None ELSE issued[s])
          = IF s = t THEN u ELSE IF Writing(s) THEN None ELSE issued[s]
    BY <1>2, <1>4
  <2> QED
    BY <1>2, <2>1 DEF Owners
<1>9. Table!Insert(u, t, k)
  BY <1>5, <1>6, <1>7, <1>8 DEF Table!Insert
<1> QED
  BY <1>2, <1>9 DEF TableStep, Table!Next

\* Rows have different usernames, so their entries are told apart as they are.
LEMMA EntriesApart ==
  ASSUME UniqueRows, NEW r \in tenants, NEW s \in tenants, EntryOfRow(r) = EntryOfRow(s)
  PROVE  r = s
BY DEF UniqueRows, EntryOfRow

\* A statement by row id changes the entry of the one row that has it.
LEMMA RowStatementSeen ==
  ASSUME TypeInv, TableInv, NEW h \in Handlers, UNCHANGED issued,
         req[h].pc \in {"update_row", "delete_row"}, req'[h].pc = "idle",
         \A g \in Handlers : g # h => req'[g] = req[g],
         NEW id, NEW k,
         \/ k \in PublicKeys /\ tenants' = WithKey(id, k)
         \/ tenants' = WithoutRow(id)
  PROVE  TableStep
<1>1. \A t : Writing(t)' <=> Writing(t)
  BY DEF Writing
<1>2. UNCHANGED Owners
  BY <1>1 DEF Owners
<1>3. UniqueRows /\ \A r \in tenants : r \in Row
  BY DEF TableInv, TypeInv, TypeOK
<1>4. CASE \A r \in tenants : r.id # id
  <2>1. tenants' = tenants
    BY <1>4 DEF WithKey, WithoutRow
  <2> QED
    BY <1>1, <2>1, RetiresSeen
<1>5. ASSUME NEW r \in tenants, r.id = id PROVE TableStep
  <2>1. \A s \in tenants : s.id = id <=> s = r
    BY <1>3, <1>5 DEF UniqueRows
  <2>2. \A s \in tenants : EntryOfRow(s) = EntryOfRow(r) <=> s = r
    BY <1>3, EntriesApart
  <2>3. PICK e \in Entries : e = EntryOfRow(r)
    BY DEF Entries
  <2>4. Entries \ {e} = {EntryOfRow(s) : s \in tenants \ {r}}
    BY <2>2, <2>3 DEF Entries
  <2>5. CASE tenants' = WithoutRow(id)
    <3>1. tenants' = tenants \ {r}
      BY <2>1, <2>5 DEF WithoutRow
    <3>2. Table!Delete(e)
      BY <1>2, <2>4, <3>1 DEF Table!Delete, Entries, EntryOfRow
    <3> QED
      BY <2>3, <3>2 DEF TableStep, Table!Next
  <2>6. CASE k \in PublicKeys /\ tenants' = WithKey(id, k)
    <3>1. PICK n : n = [r EXCEPT !.public_key = k]
      OBVIOUS
    <3>2. tenants' = (tenants \ {r}) \cup {n}
      BY <2>1, <2>6, <3>1 DEF WithKey
    <3>3. EntryOfRow(n) = [e EXCEPT !.public_key = k]
      <4>1. n.username = r.username /\ n.tenant_id = r.tenant_id /\ n.public_key = k
        BY <1>3, <3>1 DEF Row
      <4> QED
        BY <2>3, <4>1 DEF EntryOfRow
    <3>4. Entries' = {EntryOfRow(s) : s \in tenants \ {r}} \cup {EntryOfRow(n)}
      BY <3>2 DEF Entries, EntryOfRow
    <3>5. Table!Update(e, k)
      BY <1>2, <2>4, <3>3, <3>4 DEF Table!Update
    <3> QED
      BY <2>3, <2>6, <3>5 DEF TableStep, Table!Next
  <2> QED
    BY <2>5, <2>6
<1> QED
  BY <1>4, <1>5

LEMMA TableStepSeen ==
  TypeInv /\ Issuance /\ FreshIDs /\ TableInv /\ [Next]_vars => TableStep
<1> SUFFICES ASSUME TypeInv, Issuance, FreshIDs, TableInv, [Next]_vars PROVE TableStep
  OBVIOUS
<1>1. req \in [Handlers -> Request] /\ \A h \in Handlers : req[h] \in Request
  BY DEF TypeInv, TypeOK
<1>2. ASSUME NEW h \in Handlers, NEW row \in tenants, NEW k \in Keys,
             StartUpdate(h, row, k) \/ StartDelete(h, row)
      PROVE  TableStep
  <2>1. /\ UNCHANGED <<tenants, issued>> /\ req'[h].pc \in {"get_user", "delete_user"}
        /\ \A g \in Handlers : g # h => req'[g] = req[g]
    BY <1>1, <1>2 DEF StartUpdate, StartDelete, Resolve, NoRequest
  <2> QED
    BY <2>1, RetiresSeen DEF Writing
<1>3. ASSUME NEW h \in Handlers, InsertTenant(h) PROVE TableStep
  <2>1. req[h].pc = "insert" /\ UNCHANGED issued
    BY <1>3 DEF InsertTenant
  <2>2. /\ req'[h].pc \in {"idle", "rollback"}
        /\ \A g \in Handlers : g # h => req'[g] = req[g]
    BY <1>1, <1>3 DEF InsertTenant, Finish, Goto, NoRequest, Request
  <2>3. CASE UNCHANGED tenants
    BY <2>1, <2>2, <2>3, RetiresSeen DEF Writing
  <2>4. CASE InsertRow(h) /\ ~Clash(req[h].username, req[h].tenant_id)
    BY <2>1, <2>2, <2>4, InsertSeen
  <2> QED
    BY <1>3, <2>3, <2>4 DEF InsertTenant
<1>4. ASSUME NEW h \in Handlers, UpdateRow(h) \/ DeleteRow(h) PROVE TableStep
  <2>1. /\ req[h].pc \in {"update_row", "delete_row"} /\ UNCHANGED issued
        /\ req'[h].pc = "idle" /\ \A g \in Handlers : g # h => req'[g] = req[g]
    BY <1>1, <1>4 DEF UpdateRow, DeleteRow, Finish, NoRequest
  <2>2. CASE UNCHANGED tenants
    BY <2>1, <2>2, RetiresSeen DEF Writing
  <2>3. CASE req[h].pc = "update_row" /\ tenants' = WithKey(req[h].id, req[h].public_key)
    BY <2>1, <2>3, RowStatementSeen DEF TableInv
  <2>4. CASE tenants' = WithoutRow(req[h].id)
    BY <2>1, <2>4, RowStatementSeen
  <2> QED
    BY <1>4, <2>2, <2>3, <2>4 DEF UpdateRow, DeleteRow
<1>5. ASSUME NEW h \in Handlers,
             CreateUser(h) \/ RollbackUser(h) \/ GetUser(h) \/ PutUser(h) \/ DeleteUser(h)
      PROVE  TableStep
  <2>1. /\ UNCHANGED <<tenants, issued>>
        /\ \A g \in Handlers : g # h => req'[g] = req[g]
    BY <1>1, <1>5 DEF CreateUser, RollbackUser, GetUser, PutUser, DeleteUser, SFTPGoCall,
                      Finish, Goto
  <2>2. req'[h].pc \in {"create_user", "insert"} =>
          req[h].pc = "create_user" /\ req'[h].tenant_id = req[h].tenant_id
    <3>1. CASE Finish(h)
      BY <1>1, <3>1 DEF Finish, NoRequest
    <3>2. CASE Goto(h, "insert") /\ req[h].pc = "create_user"
      BY <1>1, <3>2 DEF Goto, Request
    <3>3. CASE Goto(h, "update_row") \/ Goto(h, "delete_row")
      BY <1>1, <3>3 DEF Goto, Request
    <3>4. CASE \E x \in users : req' = [req EXCEPT ![h] = WithFieldsOf(@, x)]
      BY <1>1, <3>4 DEF WithFieldsOf, Request
    <3> QED
      BY <1>5, <3>1, <3>2, <3>3, <3>4, CallOutcomes
         DEF CreateUser, PutUser, DeleteUser, RollbackUser, GetUser, Named
  <2> QED
    BY <2>1, <2>2, RetiresSeen DEF Writing
<1>6. CASE Environment
  <2>1. ASSUME NEW h \in Handlers, Disconnect(h), NEW g \in Handlers
        PROVE  req'[g].pc = req[g].pc /\ req'[g].tenant_id = req[g].tenant_id
    BY <1>1, <2>1 DEF Disconnect, Request
  <2>2. UNCHANGED <<tenants, issued>>
    BY <1>6 DEF Environment, Disconnect, Crash, DeliverStray, DisableUser
  <2>3. \A t : Writing(t)' => Writing(t)
    BY <1>6, <2>1 DEF Environment, Crash, DeliverStray, DisableUser, NoRequest, Writing
  <2> QED
    BY <2>2, <2>3, RetiresSeen
<1>7. CASE UNCHANGED vars
  BY <1>7, RetiresSeen DEF vars, Writing
<1> QED
  BY <1>2, <1>3, <1>4, <1>5, <1>6, <1>7, StartCreateUnseen DEF Next, Arrive, Step, Keys

\* Clients that overlap, calls without a caller, failures and restarts included,
\* the table never shows more than TenantTable allows, on which the hooks rely.
THEOREM TableRefinement == Spec => ImplementsTable
<1>1. Init => Table!Init
  BY DEF Init, Table!Init, Entries, Owners, Writing, NoRequest
<1>2. TypeInv /\ Issuance /\ FreshIDs /\ TableInv /\ [Next]_vars => [Table!Next]_(Table!vars)
  BY TableStepSeen DEF TableStep, Table!vars
<1> QED
  BY <1>1, <1>2, TypeInvariant, IssuanceInvariant, FreshIDsInvariant, TableInvariant, PTL
     DEF Spec, ImplementsTable, Table!Spec
=============================================================================
