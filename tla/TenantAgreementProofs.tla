------------------------ MODULE TenantAgreementProofs ------------------------
(***************************************************************************)
(* SFTPGo and SQLite agree on every tenant that no failure disturbed: the  *)
(* inductive invariant behind AgreeUnlessDisturbed, HookTrailsSFTPGo and   *)
(* EstablishedAccountsStay, and the proofs of the three.                   *)
(***************************************************************************)
EXTENDS TenantLifecycleProofs

\* The create served by h has posted its account and not yet finished.
Posted(h) == req[h].pc \in {"insert", "rollback"}

PostedFor(u) == \E h \in Handlers : Posted(h) /\ req[h].username = u

DeletingRow(u) == \E h \in Handlers : req[h].pc = "delete_row" /\ req[h].username = u

UpdatingRow(u) == \E h \in Handlers : req[h].pc = "update_row" /\ req[h].username = u

-----------------------------------------------------------------------------
(* The invariant. *)

UniqueAccounts == \A x, y \in users : x.username = y.username => x = y

UniqueRows == \A r, s \in tenants : r.username = s.username \/ r.id = s.id => r = s

\* Clients take turns on a tenant.
OneModifier ==
  \A g, h \in Handlers :
    /\ req[g].pc \in ModifyPCs /\ req[h].pc \in ModifyPCs
    /\ req[g].username = req[h].username
    => g = h

\* The row that a rotation or delete resolved is there until its last step.
ModifiersHaveRows ==
  \A h \in Handlers : req[h].pc \in ModifyPCs =>
    \E r \in tenants : /\ r.id = req[h].id
                       /\ r.tenant_id = req[h].tenant_id
                       /\ r.username = req[h].username

StrayCallsDisturb == \A w \in stray : w.account.username \in disturbed

OneCreator ==
  \A g, h \in Handlers :
    /\ Posted(g) /\ Posted(h)
    /\ req[g].username = req[h].username /\ req[g].username \notin disturbed
    => g = h

CreatorsHaveAccounts ==
  \A h \in Handlers : Posted(h) /\ req[h].username \notin disturbed =>
    \E x \in users : /\ x.username = req[h].username
                     /\ x.home = req[h].home
                     /\ x.public_key = req[h].public_key

\* A row whose delete is not half done has its account, and no create of the
\* same username has got past SFTPGo.
RowsHaveAccounts ==
  \A r \in tenants : r.username \notin disturbed /\ ~DeletingRow(r.username) =>
    /\ ~PostedFor(r.username)
    /\ \E x \in users : /\ x.username = r.username
                        /\ x.home = r.tenant_id
                        /\ x.public_key = r.public_key \/ UpdatingRow(r.username)

\* An account without a row to stay belongs to a create that will finish.
AccountsHaveOwners ==
  \A x \in users :
    /\ x.username \notin disturbed
    /\ Named(tenants, x.username) = {} \/ DeletingRow(x.username)
    => PostedFor(x.username)

PutsKeepHomes ==
  \A h \in Handlers : req[h].pc = "put_user" /\ req[h].username \notin disturbed =>
    req[h].home = req[h].tenant_id

PutsAreKept ==
  \A h \in Handlers : req[h].pc = "update_row" /\ req[h].username \notin disturbed =>
    \A x \in users : x.username = req[h].username => x.public_key = req[h].public_key

Lockstep ==
  /\ UniqueAccounts /\ UniqueRows
  /\ OneModifier /\ ModifiersHaveRows
  /\ StrayCallsDisturb
  /\ OneCreator /\ CreatorsHaveAccounts
  /\ RowsHaveAccounts /\ AccountsHaveOwners
  /\ PutsKeepHomes /\ PutsAreKept

LEMMA LockstepInit == Init => Lockstep
<1> SUFFICES ASSUME Init PROVE Lockstep
  OBVIOUS
<1>1. users = {} /\ tenants = {} /\ stray = {} /\ \A h \in Handlers : req[h].pc = "idle"
  BY DEF Init, NoRequest
<1> QED
  BY <1>1 DEF Lockstep, UniqueAccounts, UniqueRows, OneModifier, ModifiersHaveRows,
              StrayCallsDisturb, OneCreator, CreatorsHaveAccounts, RowsHaveAccounts,
              AccountsHaveOwners, PutsKeepHomes, PutsAreKept, Posted, ModifyPCs

-----------------------------------------------------------------------------
(* Steps that leave both systems alone.                                     *)

\* A request ends that owes neither system a write, or whose username is given
\* up on; or it moves on without changing what it holds.
LEMMA LocalMove ==
  ASSUME TypeInv, Lockstep, NEW h \in Handlers,
         UNCHANGED <<tenants, users>>,
         disturbed \subseteq disturbed', StrayCallsDisturb',
         \A g \in Handlers : g # h => req'[g] = req[g],
         \/ /\ req'[h] = NoRequest
            /\ \/ req[h].username \in disturbed'
               \/ req[h].pc \in {"create_user", "get_user", "put_user", "delete_user"}
         \/ /\ req'[h].username = req[h].username /\ req'[h].id = req[h].id
            /\ req'[h].tenant_id = req[h].tenant_id /\ req'[h].home = req[h].home
            /\ req'[h].public_key = req[h].public_key
            /\ req'[h].pc = req[h].pc \/ (req[h].pc = "insert" /\ req'[h].pc = "rollback")
  PROVE  Lockstep'
<1> USE DEF Lockstep, Posted, PostedFor, UpdatingRow, DeletingRow
<1>1. UniqueAccounts' /\ UniqueRows'
  BY DEF UniqueAccounts, UniqueRows
<1>2. \A g \in Handlers : req'[g].pc \in ModifyPCs =>
        /\ req[g].pc = req'[g].pc /\ req[g].username = req'[g].username
        /\ req[g].id = req'[g].id /\ req[g].tenant_id = req'[g].tenant_id
  BY DEF NoRequest, ModifyPCs
<1>3. OneModifier' /\ ModifiersHaveRows'
  BY <1>2 DEF OneModifier, ModifiersHaveRows
<1>4. \A g \in Handlers : Posted(g)' =>
        /\ Posted(g) /\ req[g].username = req'[g].username
        /\ req[g].home = req'[g].home /\ req[g].public_key = req'[g].public_key
  BY DEF NoRequest
<1>5. OneCreator' /\ CreatorsHaveAccounts'
  BY <1>4 DEF OneCreator, CreatorsHaveAccounts
<1>6. \A u \in Usernames \ disturbed' :
        /\ PostedFor(u)' <=> PostedFor(u)
        /\ DeletingRow(u)' <=> DeletingRow(u)
        /\ UpdatingRow(u)' <=> UpdatingRow(u)
  BY NoneIsNoValue DEF NoRequest
<1>7. RowsHaveAccounts'
  BY <1>6 DEF RowsHaveAccounts, TypeInv, TypeOK, Row
<1>8. AccountsHaveOwners'
  BY <1>6 DEF AccountsHaveOwners, Named, TypeInv, TypeOK, Account
<1>9. PutsKeepHomes' /\ PutsAreKept'
  BY DEF PutsKeepHomes, PutsAreKept, NoRequest
<1> QED
  BY <1>1, <1>3, <1>5, <1>7, <1>8, <1>9

LEMMA StartCreateLockstep ==
  ASSUME TypeInv, Lockstep, NEW h \in Handlers, NEW u \in Usernames, NEW k \in Keys,
         NEW t \in TenantIDs, StartCreate(h, u, k, t)
  PROVE  Lockstep'
<1> USE DEF Lockstep, Posted, PostedFor, UpdatingRow, DeletingRow
<1>1. UNCHANGED <<tenants, users, stray, disturbed>>
  BY DEF StartCreate
<1>2. /\ req[h].pc = "idle" /\ req'[h].pc = "create_user"
      /\ \A g \in Handlers : g # h => req'[g] = req[g]
  BY DEF StartCreate, TypeInv, TypeOK, NoRequest
<1>3. \A g \in Handlers : req'[g].pc # "create_user" \/ Posted(g)' => req'[g] = req[g]
  BY <1>2
<1>4. UniqueAccounts' /\ UniqueRows' /\ StrayCallsDisturb'
  BY <1>1 DEF UniqueAccounts, UniqueRows, StrayCallsDisturb
<1>5. OneModifier' /\ ModifiersHaveRows'
  BY <1>1, <1>2 DEF OneModifier, ModifiersHaveRows, ModifyPCs
<1>6. OneCreator' /\ CreatorsHaveAccounts'
  BY <1>1, <1>2 DEF OneCreator, CreatorsHaveAccounts
<1>7. \A v \in Usernames :
        /\ PostedFor(v)' <=> PostedFor(v)
        /\ DeletingRow(v)' <=> DeletingRow(v)
        /\ UpdatingRow(v)' <=> UpdatingRow(v)
  BY <1>2
<1>8. RowsHaveAccounts'
  BY <1>1, <1>7 DEF RowsHaveAccounts, TypeInv, TypeOK, Row
<1>9. AccountsHaveOwners'
  BY <1>1, <1>7 DEF AccountsHaveOwners, Named, TypeInv, TypeOK, Account
<1>10. PutsKeepHomes' /\ PutsAreKept'
  BY <1>1, <1>2 DEF PutsKeepHomes, PutsAreKept
<1> QED
  BY <1>4, <1>5, <1>6, <1>8, <1>9, <1>10

\* A rotation or delete joins no other one of the same tenant, and finds its
\* row where it resolved it.
LEMMA ResolveLockstep ==
  ASSUME SerialClients, TypeInv, Lockstep, NEW h \in Handlers, NEW row \in tenants,
         NEW pc \in {"get_user", "delete_user"}, NEW k \in Keys, Resolve(h, row, pc, k)
  PROVE  Lockstep'
<1> USE DEF Lockstep, Posted, PostedFor, UpdatingRow, DeletingRow
<1>1. UNCHANGED <<tenants, users, stray, disturbed>>
  BY DEF Resolve
<1>2. /\ req[h].pc = "idle" /\ req'[h].pc = pc
      /\ req'[h].id = row.id /\ req'[h].tenant_id = row.tenant_id
      /\ req'[h].username = row.username
      /\ \A g \in Handlers : g # h => req'[g] = req[g]
  BY DEF Resolve, TypeInv, TypeOK, NoRequest
<1>3. UniqueAccounts' /\ UniqueRows' /\ StrayCallsDisturb'
  BY <1>1 DEF UniqueAccounts, UniqueRows, StrayCallsDisturb
<1>4. OneModifier'
  <2>1. \A g \in Handlers : req[g].pc \in ModifyPCs => req[g].username # row.username
    BY DEF Resolve, MayModify
  <2> QED
    BY <1>2, <2>1 DEF OneModifier
<1>5. ModifiersHaveRows'
  BY <1>1, <1>2 DEF ModifiersHaveRows
<1>6. OneCreator' /\ CreatorsHaveAccounts'
  BY <1>1, <1>2 DEF OneCreator, CreatorsHaveAccounts
<1>7. \A v \in Usernames :
        /\ PostedFor(v)' <=> PostedFor(v)
        /\ DeletingRow(v)' <=> DeletingRow(v)
        /\ UpdatingRow(v)' <=> UpdatingRow(v)
  BY <1>2
<1>8. RowsHaveAccounts'
  BY <1>1, <1>7 DEF RowsHaveAccounts, TypeInv, TypeOK, Row
<1>9. AccountsHaveOwners'
  BY <1>1, <1>7 DEF AccountsHaveOwners, Named, TypeInv, TypeOK, Account
<1>10. PutsKeepHomes' /\ PutsAreKept'
  BY <1>1, <1>2 DEF PutsKeepHomes, PutsAreKept
<1> QED
  BY <1>3, <1>4, <1>5, <1>6, <1>8, <1>9, <1>10

\* While a tenant's row is there and its delete is not half done, what a
\* rotation reads from SFTPGo is the home of that very tenant.
LEMMA GetUserLockstep ==
  ASSUME TypeInv, Lockstep, NEW h \in Handlers, GetUser(h)
  PROVE  Lockstep'
<1>1. /\ UNCHANGED <<tenants, users, stray, disturbed>>
      /\ req[h].pc = "get_user" /\ req[h] \in Request /\ req \in [Handlers -> Request]
  BY DEF GetUser, TypeInv, TypeOK
<1>2. CASE req' = [req EXCEPT ![h] = NoRequest]
  <2>1. StrayCallsDisturb'
    BY <1>1 DEF Lockstep, StrayCallsDisturb
  <2> QED
    BY <1>1, <1>2, <2>1, LocalMove
<1>3. ASSUME NEW x \in Named(users, req[h].username),
             req' = [req EXCEPT ![h] = WithFieldsOf(req[h], x)]
      PROVE  Lockstep'
  <2> USE DEF Lockstep, Posted, PostedFor, UpdatingRow, DeletingRow
  <2>1. /\ req'[h].pc = "put_user" /\ req'[h].home = x.home
        /\ req'[h].id = req[h].id /\ req'[h].tenant_id = req[h].tenant_id
        /\ req'[h].username = req[h].username
        /\ \A g \in Handlers : g # h => req'[g] = req[g]
    BY <1>1, <1>3 DEF WithFieldsOf, Request
  <2>2. UniqueAccounts' /\ UniqueRows' /\ StrayCallsDisturb'
    BY <1>1 DEF UniqueAccounts, UniqueRows, StrayCallsDisturb
  <2>3. OneModifier' /\ ModifiersHaveRows'
    BY <1>1, <2>1 DEF OneModifier, ModifiersHaveRows, ModifyPCs
  <2>4. OneCreator' /\ CreatorsHaveAccounts'
    BY <1>1, <2>1 DEF OneCreator, CreatorsHaveAccounts
  <2>5. \A v \in Usernames :
          /\ PostedFor(v)' <=> PostedFor(v)
          /\ DeletingRow(v)' <=> DeletingRow(v)
          /\ UpdatingRow(v)' <=> UpdatingRow(v)
    BY <1>1, <2>1
  <2>6. RowsHaveAccounts'
    BY <1>1, <2>5 DEF RowsHaveAccounts, TypeInv, TypeOK, Row
  <2>7. AccountsHaveOwners'
    BY <1>1, <2>5 DEF AccountsHaveOwners, Named, TypeInv, TypeOK, Account
  <2>8. PutsKeepHomes'
    <3>1. PICK r \in tenants : /\ r.id = req[h].id
                               /\ r.tenant_id = req[h].tenant_id
                               /\ r.username = req[h].username
      BY <1>1 DEF ModifiersHaveRows, ModifyPCs
    <3>2. ~DeletingRow(r.username)
      BY <1>1, <3>1 DEF OneModifier, ModifyPCs
    <3>3. r.username \notin disturbed => x.home = r.tenant_id
      BY <1>3, <3>1, <3>2 DEF RowsHaveAccounts, UniqueAccounts, Named
    <3> QED
      BY <1>1, <2>1, <3>1, <3>3 DEF PutsKeepHomes
  <2>9. PutsAreKept'
    BY <1>1, <2>1 DEF PutsAreKept
  <2> QED
    BY <2>2, <2>3, <2>4, <2>6, <2>7, <2>8, <2>9
<1> QED
  BY <1>2, <1>3 DEF GetUser, Finish

-----------------------------------------------------------------------------
(* Calls that SFTPGo serves.                                                *)

\* A call that is refused, fails or is lost is a local move.
LEMMA CallFails ==
  ASSUME TypeInv, Lockstep, NEW h \in Handlers,
         req[h].pc \in {"create_user", "put_user", "delete_user"},
         UNCHANGED <<tenants, users>>, Finish(h),
         \/ UNCHANGED <<stray, disturbed>>
         \/ stray' = stray \cup {Wire(h)} /\ Disturb({req[h].username})
  PROVE  Lockstep'
<1>1. StrayCallsDisturb'
  BY DEF Lockstep, StrayCallsDisturb, Wire, Disturb
<1>2. req'[h] = NoRequest /\ \A g \in Handlers : g # h => req'[g] = req[g]
  BY DEF Finish, TypeInv, TypeOK
<1>3. disturbed \subseteq disturbed'
  BY DEF Disturb
<1> QED
  BY <1>1, <1>2, <1>3, LocalMove

\* A call that is answered 2xx leads on; any other ends its request.
LEMMA CallOutcomes ==
  ASSUME NEW h \in Handlers, NEW next, SFTPGoCall(h, next)
  PROVE  \/ /\ Accepts(Wire(h)) /\ users' = Served(Wire(h)) /\ Goto(h, next)
            /\ UNCHANGED <<stray, disturbed>>
         \/ /\ UNCHANGED <<tenants, users>> /\ Finish(h)
            /\ \/ UNCHANGED <<stray, disturbed>>
               \/ stray' = stray \cup {Wire(h)} /\ Disturb({req[h].username})
<1>1. ~Accepts(Wire(h)) => Served(Wire(h)) = users
  BY DEF Served
<1>2. CASE Accepts(Wire(h))
  BY <1>2 DEF SFTPGoCall
<1>3. CASE ~Accepts(Wire(h))
  BY <1>1, <1>3 DEF SFTPGoCall
<1> QED
  BY <1>2, <1>3

\* SFTPGo accepts a new account only for a username it does not have: no other
\* create has posted it, and a row of that username is about to be deleted.
LEMMA CreateUserLockstep ==
  ASSUME SerialClients, TypeInv, Lockstep, NEW h \in Handlers, CreateUser(h)
  PROVE  Lockstep'
<1>1. /\ req[h].pc = "create_user" /\ req[h].username \in Usernames
      /\ req[h] \in Request /\ req \in [Handlers -> Request]
      /\ UNCHANGED tenants
  BY DEF CreateUser, SFTPGoCall, TypeInv, TypeOK, RequestsReady
<1>2. CASE /\ Accepts(Wire(h)) /\ users' = Served(Wire(h)) /\ Goto(h, "insert")
           /\ UNCHANGED <<stray, disturbed>>
  <2> USE DEF Lockstep, Posted, PostedFor, UpdatingRow, DeletingRow
  <2> DEFINE u == req[h].username
             a == Wire(h).account
  <2>1. /\ Named(users, u) = {}
        /\ users' = users \cup {a}
        /\ a.username = u /\ a.home = req[h].home /\ a.public_key = req[h].public_key
    BY <1>1, <1>2 DEF Served, Accepts, Wire, Method
  <2>2. /\ req'[h].pc = "insert" /\ req'[h].username = u
        /\ req'[h].home = req[h].home /\ req'[h].public_key = req[h].public_key
        /\ \A g \in Handlers : g # h => req'[g] = req[g]
    BY <1>1, <1>2 DEF Goto, Request
  <2> HIDE DEF u, a
  <2>3. \A x \in users : x.username # u
    BY <2>1 DEF Named
  <2>4. UniqueAccounts' /\ UniqueRows' /\ StrayCallsDisturb'
    BY <1>1, <1>2, <2>1, <2>3 DEF UniqueAccounts, UniqueRows, StrayCallsDisturb
  <2>5. OneModifier' /\ ModifiersHaveRows'
    BY <1>1, <2>2 DEF OneModifier, ModifiersHaveRows, ModifyPCs
  <2>6. u \notin disturbed => \A g \in Handlers : Posted(g) => req[g].username # u
    BY <2>3 DEF CreatorsHaveAccounts
  <2>7. OneCreator'
    BY <1>2, <2>2, <2>6 DEF OneCreator
  <2>8. CreatorsHaveAccounts'
    BY <1>2, <2>1, <2>2 DEF CreatorsHaveAccounts
  <2>9. u \notin disturbed => \A r \in tenants : r.username = u => DeletingRow(u)
    BY <2>3 DEF RowsHaveAccounts
  <2>10. \A v : /\ DeletingRow(v)' <=> DeletingRow(v)
                /\ UpdatingRow(v)' <=> UpdatingRow(v)
                /\ PostedFor(v)' <=> (PostedFor(v) \/ v = u)
    BY <1>1, <2>2 DEF u
  <2> HIDE DEF Posted, PostedFor, UpdatingRow, DeletingRow
  <2>11. RowsHaveAccounts'
    BY <1>1, <1>2, <2>1, <2>9, <2>10 DEF RowsHaveAccounts
  <2>12. AccountsHaveOwners'
    BY <1>1, <1>2, <2>1, <2>10 DEF AccountsHaveOwners, Named
  <2>13. PutsKeepHomes'
    BY <1>2, <2>2 DEF PutsKeepHomes
  <2>14. PutsAreKept'
    <3>1. ASSUME NEW g \in Handlers, req[g].pc = "update_row", req[g].username = u, u \notin disturbed
          PROVE  FALSE
      BY <2>9, <3>1 DEF ModifiersHaveRows, OneModifier, ModifyPCs, DeletingRow
    <3> QED
      BY <1>2, <2>1, <2>2, <3>1 DEF PutsAreKept
  <2> QED
    BY <2>4, <2>5, <2>7, <2>8, <2>11, <2>12, <2>13, <2>14
<1> QED
  BY <1>1, <1>2, CallFails, CallOutcomes DEF CreateUser

\* A request that modifies an undisturbed tenant and has not half deleted it:
\* the tenant's row and account are there and no create has got past SFTPGo.
LEMMA ModifierSees ==
  ASSUME Lockstep, NEW h \in Handlers, req[h].pc \in ModifyPCs \ {"delete_row"}
  PROVE  /\ \E r \in tenants : /\ r.id = req[h].id
                               /\ r.tenant_id = req[h].tenant_id
                               /\ r.username = req[h].username
         /\ ~DeletingRow(req[h].username)
         /\ req[h].username \notin disturbed => ~PostedFor(req[h].username)
<1>1. PICK r \in tenants : /\ r.id = req[h].id
                           /\ r.tenant_id = req[h].tenant_id
                           /\ r.username = req[h].username
  BY DEF Lockstep, ModifiersHaveRows
<1>2. ~DeletingRow(req[h].username)
  BY DEF Lockstep, OneModifier, DeletingRow, ModifyPCs
<1> QED
  BY <1>1, <1>2 DEF Lockstep, RowsHaveAccounts

LEMMA PutUserLockstep ==
  ASSUME TypeInv, Lockstep, NEW h \in Handlers, PutUser(h)
  PROVE  Lockstep'
<1>1. /\ req[h].pc = "put_user" /\ req[h].username \in Usernames
      /\ req[h] \in Request /\ req \in [Handlers -> Request]
      /\ UNCHANGED tenants
  BY DEF PutUser, SFTPGoCall, TypeInv, TypeOK, RequestsReady
<1>2. CASE /\ Accepts(Wire(h)) /\ users' = Served(Wire(h)) /\ Goto(h, "update_row")
           /\ UNCHANGED <<stray, disturbed>>
  <2> USE DEF Lockstep, Posted, PostedFor, UpdatingRow, DeletingRow
  <2> DEFINE u == req[h].username
             a == Wire(h).account
  <2>1. /\ \E x \in users : x.username = u
        /\ users' = {IF x.username = u THEN a ELSE x : x \in users}
        /\ a.username = u /\ a.home = req[h].home /\ a.public_key = req[h].public_key
    BY <1>1, <1>2 DEF Served, Accepts, Wire, Method, Named
  <2>2. /\ req'[h].pc = "update_row" /\ req'[h].username = u /\ req'[h].id = req[h].id
        /\ req'[h].tenant_id = req[h].tenant_id /\ req'[h].public_key = req[h].public_key
        /\ \A g \in Handlers : g # h => req'[g] = req[g]
    BY <1>1, <1>2 DEF Goto, Request
  <2>3. PICK row \in tenants : row.tenant_id = req[h].tenant_id /\ row.username = u
    BY <1>1, ModifierSees DEF ModifyPCs
  <2>4. ~DeletingRow(u) /\ (u \notin disturbed => ~PostedFor(u))
    BY <1>1, ModifierSees DEF ModifyPCs
  <2> HIDE DEF u, a
  <2>5. /\ a \in users'
        /\ \A y \in users' : y = a \/ (y \in users /\ y.username # u)
        /\ \A x \in users : x.username # u => x \in users'
    BY <2>1
  <2>6. UniqueAccounts' /\ UniqueRows' /\ StrayCallsDisturb'
    BY <1>1, <1>2, <2>1, <2>5 DEF UniqueAccounts, UniqueRows, StrayCallsDisturb
  <2>7. OneModifier' /\ ModifiersHaveRows'
    BY <1>1, <2>2 DEF OneModifier, ModifiersHaveRows, ModifyPCs, u
  <2>8. OneCreator'
    BY <1>1, <1>2, <2>2 DEF OneCreator
  <2>9. CreatorsHaveAccounts'
    BY <1>1, <1>2, <2>2, <2>4, <2>5 DEF CreatorsHaveAccounts
  <2>10. \A v : /\ DeletingRow(v)' <=> DeletingRow(v)
                /\ UpdatingRow(v)' <=> (UpdatingRow(v) \/ v = u)
                /\ PostedFor(v)' <=> PostedFor(v)
    BY <1>1, <2>2 DEF u
  <2> HIDE DEF Posted, PostedFor, UpdatingRow, DeletingRow
  <2>11. RowsHaveAccounts'
    <3>1. u \notin disturbed => req[h].home = row.tenant_id
      BY <1>1, <2>3 DEF PutsKeepHomes, u
    <3>2. \A r \in tenants : r.username = u => r = row
      BY <2>3 DEF UniqueRows
    <3> QED
      BY <1>1, <1>2, <2>1, <2>4, <2>5, <2>10, <3>1, <3>2 DEF RowsHaveAccounts
  <2>12. AccountsHaveOwners'
    BY <1>1, <1>2, <2>1, <2>3, <2>4, <2>5, <2>10 DEF AccountsHaveOwners, Named
  <2>13. PutsKeepHomes'
    BY <1>2, <2>2 DEF PutsKeepHomes
  <2>14. PutsAreKept'
    <3>1. ASSUME NEW g \in Handlers, req'[g].pc = "update_row", g # h
          PROVE  req[g].username # u
      BY <1>1, <2>2, <3>1 DEF OneModifier, ModifyPCs, u
    <3> QED
      BY <1>2, <2>1, <2>2, <2>5, <3>1 DEF PutsAreKept
  <2> QED
    BY <2>6, <2>7, <2>8, <2>9, <2>11, <2>12, <2>13, <2>14
<1> QED
  BY <1>1, <1>2, CallFails, CallOutcomes DEF PutUser

LEMMA DeleteUserLockstep ==
  ASSUME TypeInv, Lockstep, NEW h \in Handlers, DeleteUser(h)
  PROVE  Lockstep'
<1>1. /\ req[h].pc = "delete_user" /\ req[h].username \in Usernames
      /\ req[h] \in Request /\ req \in [Handlers -> Request]
      /\ UNCHANGED tenants
  BY DEF DeleteUser, SFTPGoCall, TypeInv, TypeOK, RequestsReady
<1>2. CASE /\ Accepts(Wire(h)) /\ users' = Served(Wire(h)) /\ Goto(h, "delete_row")
           /\ UNCHANGED <<stray, disturbed>>
  <2> USE DEF Lockstep, Posted, PostedFor, UpdatingRow, DeletingRow
  <2> DEFINE u == req[h].username
  <2>1. users' = {x \in users : x.username # u}
    BY <1>1, <1>2 DEF Served, Accepts, Wire, Method, Named
  <2>2. /\ req'[h].pc = "delete_row" /\ req'[h].username = u /\ req'[h].id = req[h].id
        /\ req'[h].tenant_id = req[h].tenant_id
        /\ \A g \in Handlers : g # h => req'[g] = req[g]
    BY <1>1, <1>2 DEF Goto, Request
  <2>3. u \notin disturbed => ~PostedFor(u)
    BY <1>1, ModifierSees DEF ModifyPCs
  <2> HIDE DEF u
  <2>4. UniqueAccounts' /\ UniqueRows' /\ StrayCallsDisturb'
    BY <1>1, <1>2, <2>1 DEF UniqueAccounts, UniqueRows, StrayCallsDisturb
  <2>5. OneModifier' /\ ModifiersHaveRows'
    BY <1>1, <2>2 DEF OneModifier, ModifiersHaveRows, ModifyPCs, u
  <2>6. OneCreator'
    BY <1>1, <1>2, <2>2 DEF OneCreator
  <2>7. CreatorsHaveAccounts'
    BY <1>1, <1>2, <2>1, <2>2, <2>3 DEF CreatorsHaveAccounts
  <2>8. \A v : /\ DeletingRow(v)' <=> (DeletingRow(v) \/ v = u)
               /\ UpdatingRow(v)' <=> UpdatingRow(v)
               /\ PostedFor(v)' <=> PostedFor(v)
    BY <1>1, <2>2 DEF u
  <2> HIDE DEF Posted, PostedFor, UpdatingRow, DeletingRow
  <2>9. RowsHaveAccounts'
    BY <1>1, <1>2, <2>1, <2>8 DEF RowsHaveAccounts
  <2>10. AccountsHaveOwners'
    BY <1>1, <1>2, <2>1, <2>8 DEF AccountsHaveOwners, Named
  <2>11. PutsKeepHomes' /\ PutsAreKept'
    BY <1>2, <2>1, <2>2 DEF PutsKeepHomes, PutsAreKept
  <2> QED
    BY <2>4, <2>5, <2>6, <2>7, <2>9, <2>10, <2>11
<1> QED
  BY <1>1, <1>2, CallFails, CallOutcomes DEF DeleteUser

-----------------------------------------------------------------------------
(* The end of a create.                                                     *)

\* A new row takes an id above all others and a username that no row has.
LEMMA InsertedRow ==
  ASSUME TypeInv, UniqueRows, NEW h \in Handlers,
         ~Clash(req[h].username, req[h].tenant_id), InsertRow(h)
  PROVE  \E row : /\ tenants' = tenants \cup {row}
                  /\ row.username = req[h].username
                  /\ row.tenant_id = req[h].tenant_id
                  /\ row.public_key = req[h].public_key
                  /\ UniqueRows'
<1>1. PICK i \in NextRowIDs :
        tenants' = tenants \cup {[id |-> i, tenant_id |-> req[h].tenant_id,
                                  username |-> req[h].username,
                                  public_key |-> req[h].public_key]}
  BY DEF InsertRow
<1> DEFINE row == [id |-> i, tenant_id |-> req[h].tenant_id, username |-> req[h].username,
                   public_key |-> req[h].public_key]
<1>2. \A r \in tenants : r.id # i /\ r.username # row.username
  <2>1. \A r \in tenants : r.id < i /\ r.id \in Nat
    BY DEF NextRowIDs, TypeInv, TypeOK, Row
  <2> QED
    BY <2>1, RowIDType DEF Clash, TypeInv, TypeOK
<1>3. UniqueRows'
  BY <1>1, <1>2 DEF UniqueRows
<1> QED
  BY <1>1, <1>3

\* The row joins the account that its create has posted; when the client goes
\* away during the statement, the username is given up on.
LEMMA InsertedLockstep ==
  ASSUME TypeInv, Lockstep, NEW h \in Handlers, req[h].pc = "insert",
         ~Clash(req[h].username, req[h].tenant_id), InsertRow(h),
         UNCHANGED <<users, stray>>,
         \A g \in Handlers : g # h => req'[g] = req[g],
         \/ req'[h] = NoRequest /\ UNCHANGED disturbed
         \/ /\ Disturb({req[h].username})
            /\ req'[h].username = req[h].username /\ req'[h].pc = "rollback"
  PROVE  Lockstep'
<1> USE DEF Lockstep
<1>0. PICK u : u = req[h].username
  OBVIOUS
<1>1. PICK row : /\ tenants' = tenants \cup {row}
                 /\ row.username = u
                 /\ row.tenant_id = req[h].tenant_id
                 /\ row.public_key = req[h].public_key
                 /\ UniqueRows'
  BY <1>0, InsertedRow
<1>2. \A r \in tenants : r.username # u
  BY <1>0 DEF Clash
<1>3. \A g \in Handlers : req[g].pc \in ModifyPCs => req[g].username # u
  BY <1>2 DEF ModifiersHaveRows
<1>4. u \in Usernames /\ req[h].home = req[h].tenant_id
  BY <1>0 DEF TypeInv, RequestsReady, CreatePCs
<1>5. u \notin disturbed' =>
        /\ req'[h] = NoRequest /\ UNCHANGED disturbed
        /\ \A g \in Handlers : Posted(g)' => req[g].username # u
  BY <1>0 DEF Disturb, OneCreator, Posted, NoRequest
<1>6. /\ disturbed \subseteq disturbed' /\ disturbed' \subseteq disturbed \cup {u}
      /\ req'[h].pc \notin ModifyPCs
  BY <1>0 DEF Disturb, NoRequest, ModifyPCs
<1>7. UniqueAccounts' /\ StrayCallsDisturb'
  BY <1>0, <1>6 DEF UniqueAccounts, StrayCallsDisturb
<1>8. OneModifier' /\ ModifiersHaveRows'
  BY <1>1, <1>6 DEF OneModifier, ModifiersHaveRows
<1>9. OneCreator'
  BY <1>0, <1>5, <1>6 DEF OneCreator, Posted, NoRequest
<1>10. CreatorsHaveAccounts'
  BY <1>0, <1>5, <1>6 DEF CreatorsHaveAccounts, Posted, NoRequest
<1>11. \A v \in Usernames \ disturbed' :
         /\ DeletingRow(v)' <=> DeletingRow(v)
         /\ UpdatingRow(v)' <=> UpdatingRow(v)
         /\ v # u => (PostedFor(v)' <=> PostedFor(v))
  <2>1. \A v \in Usernames \ disturbed' :
          /\ DeletingRow(v)' <=> DeletingRow(v)
          /\ UpdatingRow(v)' <=> UpdatingRow(v)
    BY <1>6 DEF DeletingRow, UpdatingRow, ModifyPCs
  <2>2. \A v \in Usernames \ disturbed' : v # u => (PostedFor(v)' <=> PostedFor(v))
    BY <1>0, NoneIsNoValue DEF PostedFor, Posted, NoRequest
  <2> QED
    BY <2>1, <2>2
<1>12. u \notin disturbed' => ~PostedFor(u)' /\ ~DeletingRow(u)
  BY <1>3, <1>4, <1>5, NoneIsNoValue DEF PostedFor, DeletingRow, ModifyPCs, Posted, NoRequest
<1>13. RowsHaveAccounts'
  <2>1. ASSUME NEW r \in tenants, r.username \notin disturbed', ~DeletingRow(r.username)'
        PROVE  /\ ~PostedFor(r.username)'
               /\ \E x \in users' : /\ x.username = r.username
                                    /\ x.home = r.tenant_id
                                    /\ x.public_key = r.public_key \/ UpdatingRow(r.username)'
    <3>1. r.username \in Usernames \ disturbed' /\ r.username # u
      BY <1>2, <2>1 DEF TypeInv, TypeOK, Row
    <3>2. r.username \notin disturbed /\ ~DeletingRow(r.username)
      BY <1>6, <1>11, <2>1, <3>1
    <3> QED
      BY <1>11, <3>1, <3>2 DEF RowsHaveAccounts
  <2>2. u \notin disturbed' =>
          /\ ~PostedFor(u)'
          /\ \E x \in users' : x.username = u /\ x.home = row.tenant_id /\ x.public_key = row.public_key
    BY <1>0, <1>1, <1>4, <1>5, <1>12 DEF CreatorsHaveAccounts, Posted
  <2>3. ASSUME NEW r \in tenants', r.username \notin disturbed', ~DeletingRow(r.username)'
        PROVE  /\ ~PostedFor(r.username)'
               /\ \E x \in users' : /\ x.username = r.username
                                    /\ x.home = r.tenant_id
                                    /\ x.public_key = r.public_key \/ UpdatingRow(r.username)'
    <3>1. CASE r \in tenants
      BY <2>1, <2>3, <3>1
    <3>2. CASE r = row
      BY <1>1, <2>2, <2>3, <3>2 DEF PostedFor
    <3> QED
      BY <1>1, <3>1, <3>2
  <2> QED
    BY <2>3 DEF RowsHaveAccounts
<1>14. AccountsHaveOwners'
  <2>1. ASSUME NEW x \in users, x.username \notin disturbed',
               Named(tenants, x.username)' = {} \/ DeletingRow(x.username)'
        PROVE  PostedFor(x.username)'
    <3>1. x.username \in Usernames \ disturbed'
      BY <2>1 DEF TypeInv, TypeOK, Account
    <3>2. x.username # u
      BY <1>1, <1>11, <1>12, <2>1, <3>1 DEF Named
    <3>3. Named(tenants, x.username) = {} \/ DeletingRow(x.username)
      BY <1>1, <1>11, <1>12, <2>1, <3>1 DEF Named
    <3> QED
      BY <1>6, <1>11, <2>1, <3>1, <3>2, <3>3 DEF AccountsHaveOwners
  <2> QED
    BY <2>1 DEF AccountsHaveOwners
<1>15. PutsKeepHomes' /\ PutsAreKept'
  BY <1>6 DEF PutsKeepHomes, PutsAreKept, ModifyPCs
<1> QED
  BY <1>1, <1>7, <1>8, <1>9, <1>10, <1>13, <1>14, <1>15

LEMMA InsertTenantLockstep ==
  ASSUME TypeInv, Lockstep, NEW h \in Handlers, InsertTenant(h)
  PROVE  Lockstep'
<1>1. /\ req[h].pc = "insert" /\ req[h] \in Request /\ req \in [Handlers -> Request]
      /\ UNCHANGED <<users, stray>>
  BY DEF InsertTenant, TypeInv, TypeOK
<1>2. CASE /\ ~Clash(req[h].username, req[h].tenant_id) /\ InsertRow(h)
           /\ Finish(h) /\ UNCHANGED disturbed
  BY <1>1, <1>2, InsertedLockstep DEF Finish
<1>3. CASE /\ ~Clash(req[h].username, req[h].tenant_id) /\ InsertRow(h)
           /\ req' = [req EXCEPT ![h].pc = "rollback", ![h].cancelled = TRUE]
           /\ Disturb({req[h].username})
  <2>1. /\ req'[h].username = req[h].username /\ req'[h].pc = "rollback"
        /\ \A g \in Handlers : g # h => req'[g] = req[g]
    BY <1>1, <1>3 DEF Request
  <2> QED
    BY <1>1, <1>3, <2>1, InsertedLockstep
<1>4. CASE Goto(h, "rollback") /\ UNCHANGED <<tenants, disturbed>>
  <2>1. /\ req'[h] = [req[h] EXCEPT !.pc = "rollback"]
        /\ \A g \in Handlers : g # h => req'[g] = req[g]
    BY <1>1, <1>4 DEF Goto
  <2>2. /\ req'[h].username = req[h].username /\ req'[h].id = req[h].id
        /\ req'[h].tenant_id = req[h].tenant_id /\ req'[h].home = req[h].home
        /\ req'[h].public_key = req[h].public_key /\ req'[h].pc = "rollback"
    BY <1>1, <2>1 DEF Request
  <2>3. StrayCallsDisturb'
    BY <1>1, <1>4 DEF Lockstep, StrayCallsDisturb
  <2> QED
    BY <1>1, <1>4, <2>1, <2>2, <2>3, LocalMove
<1> QED
  BY <1>2, <1>3, <1>4 DEF InsertTenant

\* The rollback of an undisturbed create takes the account it posted and no
\* other: a row of the same username is about to be deleted.
LEMMA RollbackUserLockstep ==
  ASSUME TypeInv, Lockstep, NEW h \in Handlers, RollbackUser(h)
  PROVE  Lockstep'
<1>1. /\ req[h].pc = "rollback" /\ req[h].username \in Usernames
      /\ req[h] \in Request /\ req \in [Handlers -> Request]
      /\ UNCHANGED tenants /\ Finish(h)
  BY DEF RollbackUser, TypeInv, TypeOK, RequestsReady
<1>2. req'[h] = NoRequest /\ \A g \in Handlers : g # h => req'[g] = req[g]
  BY <1>1 DEF Finish
<1>3. CASE users' = Served(Wire(h)) /\ UNCHANGED <<stray, disturbed>>
  <2> USE DEF Lockstep
  <2> DEFINE u == req[h].username
  <2>1. users' = {x \in users : x.username # u}
    BY <1>1, <1>3 DEF Served, Accepts, Wire, Method, Named
  <2>2. u \notin disturbed => \A g \in Handlers : Posted(g)' => req[g].username # u
    BY <1>1, <1>2 DEF OneCreator, Posted, NoRequest
  <2>3. UniqueAccounts' /\ UniqueRows' /\ StrayCallsDisturb'
    BY <1>1, <1>3, <2>1 DEF UniqueAccounts, UniqueRows, StrayCallsDisturb
  <2>4. OneModifier' /\ ModifiersHaveRows'
    BY <1>1, <1>2 DEF OneModifier, ModifiersHaveRows, ModifyPCs, NoRequest
  <2>5. OneCreator'
    BY <1>2, <1>3 DEF OneCreator, Posted, NoRequest
  <2>6. CreatorsHaveAccounts'
    BY <1>2, <1>3, <2>1, <2>2 DEF CreatorsHaveAccounts, Posted, NoRequest
  <2>7. \A v \in Usernames :
          /\ DeletingRow(v)' <=> DeletingRow(v)
          /\ UpdatingRow(v)' <=> UpdatingRow(v)
          /\ v # u => (PostedFor(v)' <=> PostedFor(v))
    BY <1>1, <1>2, NoneIsNoValue DEF DeletingRow, UpdatingRow, PostedFor, Posted, NoRequest
  <2>8. PostedFor(u)
    BY <1>1 DEF PostedFor, Posted
  <2>9. RowsHaveAccounts'
    <3>1. ASSUME NEW r \in tenants, r.username \notin disturbed, ~DeletingRow(r.username)
          PROVE  r.username # u /\ r.username \in Usernames
      BY <2>8, <3>1 DEF RowsHaveAccounts, TypeInv, TypeOK, Row
    <3> HIDE DEF u
    <3> QED
      BY <1>1, <1>3, <2>1, <2>7, <3>1 DEF RowsHaveAccounts, TypeInv, TypeOK, Row
  <2>10. AccountsHaveOwners'
    BY <1>1, <1>3, <2>1, <2>7 DEF AccountsHaveOwners, Named, TypeInv, TypeOK, Account
  <2>11. PutsKeepHomes' /\ PutsAreKept'
    BY <1>2, <1>3, <2>1 DEF PutsKeepHomes, PutsAreKept, NoRequest
  <2> QED
    BY <2>3, <2>4, <2>5, <2>6, <2>9, <2>10, <2>11
<1>4. CASE /\ UNCHANGED users /\ Disturb({req[h].username})
           /\ stray' = stray \/ stray' = stray \cup {Wire(h)}
  <2>1. StrayCallsDisturb' /\ disturbed \subseteq disturbed' /\ req[h].username \in disturbed'
    BY <1>4 DEF Lockstep, StrayCallsDisturb, Wire, Disturb
  <2> QED
    BY <1>1, <1>2, <1>4, <2>1, LocalMove
<1> QED
  BY <1>3, <1>4 DEF RollbackUser

-----------------------------------------------------------------------------
(* The end of a rotation or a delete.                                       *)

LEMMA UpdateRowLockstep ==
  ASSUME TypeInv, Lockstep, NEW h \in Handlers, UpdateRow(h)
  PROVE  Lockstep'
<1>1. /\ req[h].pc = "update_row" /\ req[h].username \in Usernames
      /\ req[h] \in Request /\ req \in [Handlers -> Request]
      /\ UNCHANGED <<users, stray>> /\ Finish(h)
  BY DEF UpdateRow, TypeInv, TypeOK, RequestsReady
<1>2. req'[h] = NoRequest /\ \A g \in Handlers : g # h => req'[g] = req[g]
  BY <1>1 DEF Finish
<1>3. CASE tenants' = WithKey(req[h].id, req[h].public_key) /\ UNCHANGED disturbed
  <2> USE DEF Lockstep
  <2>1. PICK u, k : u = req[h].username /\ k = req[h].public_key
    OBVIOUS
  <2>2. PICK row \in tenants : row.id = req[h].id /\ row.username = u
    BY <1>1, <2>1 DEF ModifiersHaveRows, ModifyPCs
  <2>3. \A r \in tenants : r \in Row /\ (r.username = u <=> r.id = req[h].id)
    BY <2>2 DEF UniqueRows, TypeInv, TypeOK
  <2>4. /\ tenants' = {IF r.id = req[h].id THEN [r EXCEPT !.public_key = k] ELSE r : r \in tenants}
        /\ \A r \in tenants : /\ [r EXCEPT !.public_key = k].id = r.id
                              /\ [r EXCEPT !.public_key = k].username = r.username
                              /\ [r EXCEPT !.public_key = k].tenant_id = r.tenant_id
                              /\ [r EXCEPT !.public_key = k].public_key = k
    BY <1>3, <2>1, <2>3 DEF WithKey, Row
  <2>5. \A s \in tenants' : \E r \in tenants :
          /\ s.id = r.id /\ s.username = r.username /\ s.tenant_id = r.tenant_id
          /\ r.username = u => s.public_key = k
          /\ r.username # u => s = r
    <3>1. ASSUME NEW s \in tenants'
          PROVE  \E r \in tenants : s = IF r.id = req[h].id THEN [r EXCEPT !.public_key = k] ELSE r
      BY <2>4
    <3>2. ASSUME NEW s \in tenants', NEW r \in tenants,
                 s = IF r.id = req[h].id THEN [r EXCEPT !.public_key = k] ELSE r
          PROVE  /\ s.id = r.id /\ s.username = r.username /\ s.tenant_id = r.tenant_id
                 /\ r.username = u => s.public_key = k
                 /\ r.username # u => s = r
      BY <2>3, <2>4, <3>2
    <3> QED
      BY <3>1, <3>2
  <2>6. \A r \in tenants : \E s \in tenants' :
          s.id = r.id /\ s.username = r.username /\ s.tenant_id = r.tenant_id
    BY <2>4
  <2>7. UniqueRows'
    <3>1. ASSUME NEW r \in tenants, NEW q \in tenants,
                 r.username = q.username \/ r.id = q.id
          PROVE  r = q
      BY <3>1 DEF UniqueRows
    <3>2. ASSUME NEW s \in tenants', NEW t \in tenants',
                 s.username = t.username \/ s.id = t.id
          PROVE  s = t
      <4>1. PICK r \in tenants : s = IF r.id = req[h].id THEN [r EXCEPT !.public_key = k] ELSE r
        BY <2>4
      <4>2. PICK q \in tenants : t = IF q.id = req[h].id THEN [q EXCEPT !.public_key = k] ELSE q
        BY <2>4
      <4>3. r.username = q.username \/ r.id = q.id
        BY <2>4, <3>2, <4>1, <4>2
      <4> QED
        BY <3>1, <4>1, <4>2, <4>3
    <3> QED
      BY <3>2 DEF UniqueRows
  <2>8. UniqueAccounts' /\ StrayCallsDisturb'
    BY <1>1, <1>3 DEF UniqueAccounts, StrayCallsDisturb
  <2>9. OneModifier' /\ ModifiersHaveRows'
    BY <1>2, <2>6 DEF OneModifier, ModifiersHaveRows, ModifyPCs, NoRequest
  <2>10. OneCreator' /\ CreatorsHaveAccounts'
    BY <1>1, <1>2, <1>3 DEF OneCreator, CreatorsHaveAccounts, Posted, NoRequest
  <2>11. \A v \in Usernames :
           /\ DeletingRow(v)' <=> DeletingRow(v)
           /\ v # u => (UpdatingRow(v)' <=> UpdatingRow(v))
           /\ PostedFor(v)' <=> PostedFor(v)
    BY <1>1, <1>2, <2>1, NoneIsNoValue DEF DeletingRow, UpdatingRow, PostedFor, Posted, NoRequest
  <2>12. RowsHaveAccounts'
    <3>1. ASSUME NEW s \in tenants', s.username \notin disturbed', ~DeletingRow(s.username)'
          PROVE  /\ ~PostedFor(s.username)'
                 /\ \E x \in users' : /\ x.username = s.username
                                      /\ x.home = s.tenant_id
                                      /\ x.public_key = s.public_key \/ UpdatingRow(s.username)'
      <4>1. PICK r \in tenants :
              /\ s.id = r.id /\ s.username = r.username /\ s.tenant_id = r.tenant_id
              /\ r.username = u => s.public_key = k
              /\ r.username # u => s = r
        BY <2>5
      <4>2. r.username \in Usernames /\ ~DeletingRow(r.username) /\ r.username \notin disturbed
        BY <1>3, <2>3, <2>11, <3>1, <4>1 DEF Row
      <4>3. ~PostedFor(s.username)'
        BY <2>11, <4>1, <4>2 DEF RowsHaveAccounts
      <4>4. PICK x \in users : /\ x.username = r.username
                               /\ x.home = r.tenant_id
                               /\ x.public_key = r.public_key \/ UpdatingRow(r.username)
        BY <4>2 DEF RowsHaveAccounts
      <4>5. r.username = u => x.public_key = k
        BY <1>1, <2>1, <4>2, <4>4 DEF PutsAreKept
      <4> QED
        BY <1>1, <2>11, <4>1, <4>2, <4>3, <4>4, <4>5
    <3> QED
      BY <3>1 DEF RowsHaveAccounts
  <2>13. AccountsHaveOwners'
    <3>1. \A v : Named(tenants, v)' = {} => Named(tenants, v) = {}
      BY <2>6 DEF Named
    <3> QED
      BY <1>1, <1>3, <2>11, <3>1 DEF AccountsHaveOwners, TypeInv, TypeOK, Account
  <2>14. PutsKeepHomes' /\ PutsAreKept'
    BY <1>1, <1>2, <1>3 DEF PutsKeepHomes, PutsAreKept, NoRequest
  <2> QED
    BY <2>7, <2>8, <2>9, <2>10, <2>12, <2>13, <2>14
<1>4. CASE Disturb({req[h].username}) /\ UNCHANGED tenants
  <2>1. StrayCallsDisturb' /\ disturbed \subseteq disturbed' /\ req[h].username \in disturbed'
    BY <1>1, <1>4 DEF Lockstep, StrayCallsDisturb, Disturb
  <2> QED
    BY <1>1, <1>2, <1>4, <2>1, LocalMove
<1> QED
  BY <1>3, <1>4 DEF UpdateRow

\* The row goes that the delete resolved; a create that has posted the same
\* username again keeps its account.
LEMMA DeleteRowLockstep ==
  ASSUME TypeInv, Lockstep, NEW h \in Handlers, DeleteRow(h)
  PROVE  Lockstep'
<1>1. /\ req[h].pc = "delete_row" /\ req[h].username \in Usernames
      /\ req[h] \in Request /\ req \in [Handlers -> Request]
      /\ UNCHANGED <<users, stray>> /\ Finish(h)
  BY DEF DeleteRow, TypeInv, TypeOK, RequestsReady
<1>2. req'[h] = NoRequest /\ \A g \in Handlers : g # h => req'[g] = req[g]
  BY <1>1 DEF Finish
<1>3. CASE tenants' = WithoutRow(req[h].id) /\ UNCHANGED disturbed
  <2> USE DEF Lockstep
  <2>1. PICK u : u = req[h].username
    OBVIOUS
  <2>2. \A r : r \in tenants' <=> r \in tenants /\ r.username # u
    <3>1. PICK row \in tenants : row.id = req[h].id /\ row.username = u
      BY <1>1, <2>1 DEF ModifiersHaveRows, ModifyPCs
    <3> QED
      BY <1>3, <3>1 DEF WithoutRow, UniqueRows
  <2>3. UniqueAccounts' /\ UniqueRows' /\ StrayCallsDisturb'
    BY <1>1, <1>3, <2>2 DEF UniqueAccounts, UniqueRows, StrayCallsDisturb
  <2>4. OneModifier'
    BY <1>2 DEF OneModifier, ModifyPCs, NoRequest
  <2>5. ModifiersHaveRows'
    <3>1. ASSUME NEW g \in Handlers, req'[g].pc \in ModifyPCs
          PROVE  g # h /\ req[g].username # u
      BY <1>1, <1>2, <2>1, <3>1 DEF OneModifier, ModifyPCs, NoRequest
    <3> QED
      BY <1>2, <2>2, <3>1 DEF ModifiersHaveRows
  <2>6. OneCreator' /\ CreatorsHaveAccounts'
    BY <1>1, <1>2, <1>3 DEF OneCreator, CreatorsHaveAccounts, Posted, NoRequest
  <2>7. \A v \in Usernames :
          /\ v # u => (DeletingRow(v)' <=> DeletingRow(v))
          /\ UpdatingRow(v)' <=> UpdatingRow(v)
          /\ PostedFor(v)' <=> PostedFor(v)
    BY <1>1, <1>2, <2>1, NoneIsNoValue DEF DeletingRow, UpdatingRow, PostedFor, Posted, NoRequest
  <2>8. DeletingRow(u)
    BY <1>1, <2>1 DEF DeletingRow
  <2>9. RowsHaveAccounts'
    BY <1>1, <1>3, <2>2, <2>7 DEF RowsHaveAccounts, TypeInv, TypeOK, Row
  <2>10. AccountsHaveOwners'
    <3>1. ASSUME NEW x \in users, x.username \notin disturbed,
                 Named(tenants, x.username)' = {} \/ DeletingRow(x.username)'
          PROVE  PostedFor(x.username)'
      <4>1. x.username \in Usernames
        BY DEF TypeInv, TypeOK, Account
      <4>2. Named(tenants, x.username) = {} \/ DeletingRow(x.username)
        BY <2>2, <2>7, <2>8, <3>1, <4>1 DEF Named
      <4> QED
        BY <2>7, <3>1, <4>1, <4>2 DEF AccountsHaveOwners
    <3> QED
      BY <1>1, <1>3, <3>1 DEF AccountsHaveOwners
  <2>11. PutsKeepHomes' /\ PutsAreKept'
    BY <1>1, <1>2, <1>3 DEF PutsKeepHomes, PutsAreKept, NoRequest
  <2> QED
    BY <2>3, <2>4, <2>5, <2>6, <2>9, <2>10, <2>11
<1>4. CASE Disturb({req[h].username}) /\ UNCHANGED tenants
  <2>1. StrayCallsDisturb' /\ disturbed \subseteq disturbed' /\ req[h].username \in disturbed'
    BY <1>1, <1>4 DEF Lockstep, StrayCallsDisturb, Disturb
  <2> QED
    BY <1>1, <1>2, <1>4, <2>1, LocalMove
<1> QED
  BY <1>3, <1>4 DEF DeleteRow

-----------------------------------------------------------------------------
(* The environment.                                                         *)

LEMMA DisconnectLockstep ==
  ASSUME TypeInv, Lockstep, NEW h \in Handlers, Disconnect(h)
  PROVE  Lockstep'
<1>1. /\ req[h] \in Request /\ req \in [Handlers -> Request]
      /\ UNCHANGED <<tenants, users, stray, disturbed>>
      /\ req' = [req EXCEPT ![h].cancelled = TRUE]
  BY DEF Disconnect, TypeInv, TypeOK
<1>2. /\ req'[h] = [req[h] EXCEPT !.cancelled = TRUE]
      /\ \A g \in Handlers : g # h => req'[g] = req[g]
  BY <1>1
<1>3. /\ req'[h].username = req[h].username /\ req'[h].id = req[h].id
      /\ req'[h].tenant_id = req[h].tenant_id /\ req'[h].home = req[h].home
      /\ req'[h].public_key = req[h].public_key /\ req'[h].pc = req[h].pc
  BY <1>1, <1>2 DEF Request
<1>4. StrayCallsDisturb'
  BY <1>1 DEF Lockstep, StrayCallsDisturb
<1> QED
  BY <1>1, <1>2, <1>3, <1>4, LocalMove

\* A crash gives up on every request that was between two writes or had one on
\* the wire; of the others nothing is owed.
LEMMA CrashLockstep ==
  ASSUME TypeInv, Lockstep, Crash
  PROVE  Lockstep'
<1> USE DEF Lockstep
<1>1. UNCHANGED <<tenants, users>> /\ \A h \in Handlers : req'[h].pc = "idle"
  BY DEF Crash, NoRequest
<1>2. PICK S \in SUBSET OnTheWire :
        /\ stray' = stray \cup {Wire(h) : h \in S}
        /\ disturbed' = disturbed \cup {req[h].username : h \in S \cup HalfDone}
  BY DEF Crash, Disturb
<1>3. \A h \in Handlers :
        req[h].pc \in {"insert", "rollback", "update_row", "delete_row"} => req[h].username \in disturbed'
  BY <1>2 DEF HalfDone
<1>4. \A v : v \notin disturbed' => ~PostedFor(v) /\ ~DeletingRow(v) /\ ~UpdatingRow(v)
  BY <1>3 DEF PostedFor, Posted, DeletingRow, UpdatingRow
<1>5. \A v : ~PostedFor(v)' /\ ~DeletingRow(v)' /\ ~UpdatingRow(v)'
  BY <1>1 DEF PostedFor, Posted, DeletingRow, UpdatingRow
<1>6. StrayCallsDisturb'
  BY <1>2 DEF StrayCallsDisturb, Wire
<1>7. UniqueAccounts' /\ UniqueRows'
  BY <1>1 DEF UniqueAccounts, UniqueRows
<1>8. OneModifier' /\ ModifiersHaveRows' /\ PutsKeepHomes' /\ PutsAreKept'
  BY <1>1 DEF OneModifier, ModifiersHaveRows, PutsKeepHomes, PutsAreKept, ModifyPCs
<1>9. OneCreator' /\ CreatorsHaveAccounts'
  BY <1>1 DEF OneCreator, CreatorsHaveAccounts, Posted
<1>10. RowsHaveAccounts'
  BY <1>1, <1>2, <1>4, <1>5 DEF RowsHaveAccounts
<1>11. AccountsHaveOwners'
  BY <1>1, <1>2, <1>4, <1>5 DEF AccountsHaveOwners, Named
<1> QED
  BY <1>6, <1>7, <1>8, <1>9, <1>10, <1>11

\* A call without a caller touches only a username that is given up on.
LEMMA DeliverStrayLockstep ==
  ASSUME TypeInv, Lockstep, NEW w \in stray, DeliverStray(w)
  PROVE  Lockstep'
<1> USE DEF Lockstep
<1>1. /\ UNCHANGED <<tenants, req, disturbed>>
      /\ stray' \subseteq stray
      /\ w.account.username \in disturbed /\ w \in Calls
  BY DEF DeliverStray, StrayCallsDisturb, TypeInv, TypeOK
<1>2. /\ \A x \in users' : x.username \notin disturbed => x \in users
      /\ \A x \in users : x.username \notin disturbed => x \in users'
      /\ UniqueAccounts'
  <2>1. users' = Served(w) /\ w.method \in {"POST", "PUT", "DELETE"}
    BY <1>1 DEF DeliverStray, Calls
  <2>2. CASE ~Accepts(w)
    BY <2>1, <2>2 DEF Served, UniqueAccounts
  <2>3. CASE Accepts(w) /\ w.method = "POST"
    BY <1>1, <2>1, <2>3 DEF Served, Accepts, Named, UniqueAccounts
  <2>4. CASE Accepts(w) /\ w.method = "PUT"
    BY <1>1, <2>1, <2>4 DEF Served, UniqueAccounts
  <2>5. CASE Accepts(w) /\ w.method = "DELETE"
    BY <1>1, <2>1, <2>5 DEF Served, Named, UniqueAccounts
  <2> QED
    BY <2>1, <2>2, <2>3, <2>4, <2>5
<1>3. UniqueRows' /\ OneModifier' /\ ModifiersHaveRows' /\ PutsKeepHomes'
  BY <1>1 DEF UniqueRows, OneModifier, ModifiersHaveRows, PutsKeepHomes
<1>4. StrayCallsDisturb'
  BY <1>1 DEF StrayCallsDisturb
<1>5. OneCreator' /\ CreatorsHaveAccounts'
  BY <1>1, <1>2 DEF OneCreator, CreatorsHaveAccounts, Posted
<1>6. \A v : /\ PostedFor(v)' <=> PostedFor(v)
             /\ DeletingRow(v)' <=> DeletingRow(v)
             /\ UpdatingRow(v)' <=> UpdatingRow(v)
  BY <1>1 DEF PostedFor, Posted, DeletingRow, UpdatingRow
<1>7. RowsHaveAccounts'
  BY <1>1, <1>2, <1>6 DEF RowsHaveAccounts
<1>8. AccountsHaveOwners'
  BY <1>1, <1>2, <1>6 DEF AccountsHaveOwners, Named
<1>9. PutsAreKept'
  BY <1>1, <1>2 DEF PutsAreKept
<1> QED
  BY <1>2, <1>3, <1>4, <1>5, <1>7, <1>8, <1>9

LEMMA DisableUserLockstep ==
  ASSUME TypeInv, Lockstep, NEW x \in users, DisableUser(x)
  PROVE  Lockstep'
<1> USE DEF Lockstep
<1>1. /\ UNCHANGED <<tenants, req, stray, disturbed>>
      /\ users' = (users \ {x}) \cup {[x EXCEPT !.status = 0]}
      /\ x \in Account
  BY DEF DisableUser, TypeInv, TypeOK
<1>2. PICK y : /\ users' = (users \ {x}) \cup {y}
               /\ y.username = x.username /\ y.home = x.home /\ y.public_key = x.public_key
  <2>1. /\ [x EXCEPT !.status = 0].username = x.username
        /\ [x EXCEPT !.status = 0].home = x.home
        /\ [x EXCEPT !.status = 0].public_key = x.public_key
    BY <1>1 DEF Account
  <2> QED
    BY <1>1, <2>1
<1>3. UniqueRows' /\ OneModifier' /\ ModifiersHaveRows' /\ PutsKeepHomes' /\ StrayCallsDisturb'
  BY <1>1 DEF UniqueRows, OneModifier, ModifiersHaveRows, PutsKeepHomes, StrayCallsDisturb
<1>4. UniqueAccounts'
  BY <1>2 DEF UniqueAccounts
<1>5. OneCreator' /\ CreatorsHaveAccounts'
  BY <1>1, <1>2 DEF OneCreator, CreatorsHaveAccounts, Posted
<1>6. \A v : /\ PostedFor(v)' <=> PostedFor(v)
             /\ DeletingRow(v)' <=> DeletingRow(v)
             /\ UpdatingRow(v)' <=> UpdatingRow(v)
  BY <1>1 DEF PostedFor, Posted, DeletingRow, UpdatingRow
<1>7. RowsHaveAccounts'
  BY <1>1, <1>2, <1>6 DEF RowsHaveAccounts
<1>8. AccountsHaveOwners'
  BY <1>1, <1>2, <1>6 DEF AccountsHaveOwners, Named
<1>9. PutsAreKept'
  BY <1>1, <1>2 DEF PutsAreKept
<1> QED
  BY <1>3, <1>4, <1>5, <1>7, <1>8, <1>9

-----------------------------------------------------------------------------
(* The theorems.                                                            *)

LEMMA LockstepNext ==
  ASSUME SerialClients
  PROVE  TypeInv /\ Lockstep /\ [Next]_vars => Lockstep'
<1> SUFFICES ASSUME TypeInv, Lockstep, [Next]_vars PROVE Lockstep'
  OBVIOUS
<1>1. CASE UNCHANGED vars
  BY <1>1 DEF vars, Lockstep, UniqueAccounts, UniqueRows, OneModifier, ModifiersHaveRows,
              StrayCallsDisturb, OneCreator, CreatorsHaveAccounts, RowsHaveAccounts,
              AccountsHaveOwners, PutsKeepHomes, PutsAreKept, Posted, PostedFor,
              DeletingRow, UpdatingRow, Named
<1>2. ASSUME NEW h \in Handlers, Arrive(h) PROVE Lockstep'
  BY <1>2, StartCreateLockstep, ResolveLockstep DEF Arrive, StartUpdate, StartDelete, Keys
<1>3. ASSUME NEW h \in Handlers, Step(h) PROVE Lockstep'
  BY <1>3, CreateUserLockstep, InsertTenantLockstep, RollbackUserLockstep, GetUserLockstep,
     PutUserLockstep, UpdateRowLockstep, DeleteUserLockstep, DeleteRowLockstep DEF Step
<1>4. CASE Environment
  BY <1>4, DisconnectLockstep, CrashLockstep, DeliverStrayLockstep, DisableUserLockstep
     DEF Environment
<1> QED
  BY <1>1, <1>2, <1>3, <1>4 DEF Next

LEMMA LockstepInvariant ==
  ASSUME SerialClients
  PROVE  Spec => []Lockstep
BY TypeInvariant, LockstepInit, LockstepNext, PTL DEF Spec

\* Unless a failure fell between its two writes, no sequence of creates,
\* rotations and deletes leaves SFTPGo and SQLite with different tenants.
THEOREM Agreement == Spec => []AgreeUnlessDisturbed
<1>1. CASE SerialClients
  <2>1. TypeInv /\ Lockstep => AgreeUnlessDisturbed
    <3> SUFFICES ASSUME TypeInv, Lockstep, NEW u \in Usernames \ disturbed, Quiet(u)
                 PROVE  AccountsOf(u) = RowsOf(u)
      BY DEF AgreeUnlessDisturbed
    <3>1. ~PostedFor(u) /\ ~DeletingRow(u) /\ ~UpdatingRow(u)
      BY DEF Quiet, PostedFor, DeletingRow, UpdatingRow
    <3>2. ASSUME NEW r \in Named(tenants, u)
          PROVE  \E x \in Named(users, u) : x.home = r.tenant_id /\ x.public_key = r.public_key
      BY <3>1 DEF Lockstep, RowsHaveAccounts, Named
    <3>3. ASSUME NEW x \in Named(users, u)
          PROVE  \E r \in Named(tenants, u) : x.home = r.tenant_id /\ x.public_key = r.public_key
      <4>1. Named(tenants, u) # {}
        BY <3>1 DEF Lockstep, AccountsHaveOwners, Named
      <4>2. PICK r \in Named(tenants, u) : TRUE
        BY <4>1
      <4>3. PICK y \in Named(users, u) : y.home = r.tenant_id /\ y.public_key = r.public_key
        BY <3>2
      <4>4. x = y
        BY DEF Lockstep, UniqueAccounts, Named
      <4> QED
        BY <4>3, <4>4
    <3> QED
      BY <3>2, <3>3 DEF AccountsOf, RowsOf
  <2> QED
    BY <1>1, <2>1, TypeInvariant, LockstepInvariant, PTL
<1>2. CASE ~SerialClients
  <2>1. AgreeUnlessDisturbed
    BY <1>2 DEF AgreeUnlessDisturbed
  <2> QED
    BY <2>1, PTL
<1> QED
  BY <1>1, <1>2

\* The login hook and SFTPGo go by different keys only inside a rotation or a
\* delete of that tenant, between its call to SFTPGo and its statement.
THEOREM HookTrails == Spec => []HookTrailsSFTPGo
<1>1. CASE SerialClients
  <2>1. TypeInv /\ Lockstep => HookTrailsSFTPGo
    <3> SUFFICES ASSUME TypeInv, Lockstep, NEW u \in Usernames \ disturbed,
                        NEW r \in Named(tenants, u),
                        \A x \in Named(users, u) : x.public_key # r.public_key
                 PROVE  \E h \in Handlers :
                          /\ req[h].username = u
                          /\ \/ req[h].pc = "delete_row"
                             \/ /\ req[h].pc = "update_row"
                                /\ {x.public_key : x \in Named(users, u)} = {req[h].public_key}
      BY DEF HookTrailsSFTPGo, HookKeys
    <3>1. CASE DeletingRow(u)
      BY <3>1 DEF DeletingRow
    <3>2. CASE ~DeletingRow(u)
      <4>1. PICK y \in users : /\ y.username = u
                               /\ y.public_key = r.public_key \/ UpdatingRow(u)
        BY <3>2 DEF Lockstep, RowsHaveAccounts, Named
      <4>2. PICK h \in Handlers : req[h].pc = "update_row" /\ req[h].username = u
        BY <4>1 DEF Named, UpdatingRow
      <4>3. \A x \in Named(users, u) : x.public_key = req[h].public_key
        BY <4>2 DEF Lockstep, PutsAreKept, Named
      <4>4. y \in Named(users, u)
        BY <4>1 DEF Named
      <4> QED
        BY <4>2, <4>3, <4>4
    <3> QED
      BY <3>1, <3>2
  <2> QED
    BY <1>1, <2>1, TypeInvariant, LockstepInvariant, PTL
<1>2. CASE ~SerialClients
  <2>1. HookTrailsSFTPGo
    BY <1>2 DEF HookTrailsSFTPGo
  <2> QED
    BY <2>1, PTL
<1> QED
  BY <1>1, <1>2

-----------------------------------------------------------------------------
(* Accounts go only under the request that means them.                      *)

\* A create under way holds a tenant id that no other one holds and that, until
\* its INSERT, no row has.
FreshIDs ==
  /\ \A g, h \in Handlers :
       /\ req[g].pc \in CreatePCs /\ req[h].pc \in CreatePCs
       /\ req[g].tenant_id = req[h].tenant_id
       => g = h
  /\ \A h \in Handlers : req[h].pc \in CreatePCs /\ req[h].username \notin disturbed =>
       \A r \in tenants : r.tenant_id # req[h].tenant_id

\* Creates neither start nor write a row, and what they hold stays.
LEMMA FreshIDsStay ==
  ASSUME FreshIDs, disturbed \subseteq disturbed',
         \A s \in tenants' : \E r \in tenants : s.tenant_id = r.tenant_id,
         \A h \in Handlers : req'[h].pc \in CreatePCs =>
           /\ req[h].pc \in CreatePCs
           /\ req'[h].tenant_id = req[h].tenant_id /\ req'[h].username = req[h].username
  PROVE  FreshIDs'
BY DEF FreshIDs

LEMMA FreshIDsNext == TypeInv /\ Issuance /\ FreshIDs /\ [Next]_vars => FreshIDs'
<1> SUFFICES ASSUME TypeInv, Issuance, FreshIDs, [Next]_vars PROVE FreshIDs'
  OBVIOUS
<1>1. /\ req \in [Handlers -> Request] /\ \A h \in Handlers : req[h] \in Request
      /\ \A r \in tenants : r \in Row
  BY DEF TypeInv, TypeOK
<1>2. ASSUME NEW h \in Handlers, NEW u \in Usernames, NEW k \in Keys, NEW t \in TenantIDs,
             StartCreate(h, u, k, t)
      PROVE  FreshIDs'
  <2>1. UNCHANGED <<tenants, disturbed>> /\ issued[t] = None
    BY <1>2 DEF StartCreate, FreshTenantIDs
  <2>2. req'[h].tenant_id = t /\ \A g \in Handlers : g # h => req'[g] = req[g]
    BY <1>1, <1>2 DEF StartCreate, NoRequest
  <2>3. /\ \A g \in Handlers : req[g].pc \in CreatePCs => req[g].tenant_id # t
        /\ \A r \in tenants : r.tenant_id # t
    BY <1>1, <2>1, NoneIsNoValue
       DEF Issuance, RequestsIssued, RowsIssued, TypeInv, RequestsReady, CreatePCs, Row
  <2> QED
    BY <2>1, <2>2, <2>3 DEF FreshIDs
<1>3. ASSUME NEW h \in Handlers, InsertTenant(h) PROVE FreshIDs'
  <2>1. req[h].pc = "insert"
    BY <1>3 DEF InsertTenant
  <2>2. CASE InsertRow(h) /\ Finish(h) /\ UNCHANGED disturbed
    <3>1. \A s \in tenants' : s \in tenants \/ s.tenant_id = req[h].tenant_id
      BY <2>2 DEF InsertRow
    <3>2. req'[h].pc = "idle" /\ \A g \in Handlers : g # h => req'[g] = req[g]
      BY <1>1, <2>2 DEF Finish, NoRequest
    <3> QED
      BY <2>1, <2>2, <3>1, <3>2 DEF FreshIDs, CreatePCs
  <2>3. CASE /\ InsertRow(h) /\ Disturb({req[h].username})
             /\ req' = [req EXCEPT ![h].pc = "rollback", ![h].cancelled = TRUE]
    <3>1. \A s \in tenants' : s \in tenants \/ s.tenant_id = req[h].tenant_id
      BY <2>3 DEF InsertRow
    <3>2. /\ req'[h].pc = "rollback" /\ req'[h].tenant_id = req[h].tenant_id
          /\ req'[h].username = req[h].username
          /\ \A g \in Handlers : g # h => req'[g] = req[g]
      BY <1>1, <2>3 DEF Request
    <3>3. disturbed \subseteq disturbed' /\ req[h].username \in disturbed'
      BY <2>3 DEF Disturb
    <3> QED
      BY <2>1, <3>1, <3>2, <3>3 DEF FreshIDs, CreatePCs
  <2>4. CASE Goto(h, "rollback") /\ UNCHANGED <<tenants, disturbed>>
    <3>1. /\ req'[h].tenant_id = req[h].tenant_id /\ req'[h].username = req[h].username
          /\ \A g \in Handlers : g # h => req'[g] = req[g]
      BY <1>1, <2>4 DEF Goto, Request
    <3> QED
      BY <2>1, <2>4, <3>1, FreshIDsStay DEF CreatePCs
  <2> QED
    BY <1>3, <2>2, <2>3, <2>4 DEF InsertTenant
<1>4. CASE UNCHANGED vars
  BY <1>4, FreshIDsStay DEF vars
<1>5. ASSUME NEW h \in Handlers, NEW row \in tenants, NEW k \in Keys,
             StartUpdate(h, row, k) \/ StartDelete(h, row)
      PROVE  FreshIDs'
  BY <1>1, <1>5, FreshIDsStay
     DEF StartUpdate, StartDelete, Resolve, NoRequest, CreatePCs
<1>6. ASSUME NEW h \in Handlers, Step(h), ~InsertTenant(h) PROVE FreshIDs'
  <2>1. \A s \in tenants' : \E r \in tenants : s.tenant_id = r.tenant_id
    BY <1>1, <1>6 DEF Step, CreateUser, PutUser, DeleteUser, SFTPGoCall, RollbackUser, GetUser,
                      UpdateRow, DeleteRow, WithKey, WithoutRow, Row
  <2>2. disturbed \subseteq disturbed'
    BY <1>6 DEF Step, CreateUser, PutUser, DeleteUser, SFTPGoCall, RollbackUser, GetUser,
                UpdateRow, DeleteRow, Disturb
  <2>3. /\ \A g \in Handlers : g # h => req'[g] = req[g]
        /\ req'[h].pc \in CreatePCs =>
             /\ req[h].pc \in CreatePCs
             /\ req'[h].tenant_id = req[h].tenant_id /\ req'[h].username = req[h].username
    <3>1. CASE Finish(h)
      BY <1>1, <3>1 DEF Finish, NoRequest, CreatePCs
    <3>2. CASE Goto(h, "insert") /\ req[h].pc = "create_user"
      BY <1>1, <3>2 DEF Goto, CreatePCs, Request
    <3>3. CASE Goto(h, "update_row") \/ Goto(h, "delete_row")
      BY <1>1, <3>3 DEF Goto, CreatePCs, Request
    <3>4. CASE \E x \in users : req' = [req EXCEPT ![h] = WithFieldsOf(@, x)]
      BY <1>1, <3>4 DEF WithFieldsOf, CreatePCs, Request
    <3> QED
      BY <1>6, <3>1, <3>2, <3>3, <3>4, CallOutcomes
         DEF Step, CreateUser, PutUser, DeleteUser, RollbackUser, GetUser, Named,
             UpdateRow, DeleteRow
  <2> QED
    BY <2>1, <2>2, <2>3, FreshIDsStay
<1>7. CASE Environment
  <2>1. UNCHANGED tenants /\ disturbed \subseteq disturbed'
    BY <1>7 DEF Environment, Disconnect, Crash, DeliverStray, DisableUser, Disturb
  <2>2. \A g \in Handlers : req'[g].pc \in CreatePCs =>
          /\ req[g].pc \in CreatePCs
          /\ req'[g].tenant_id = req[g].tenant_id /\ req'[g].username = req[g].username
    <3>1. ASSUME NEW h \in Handlers, Disconnect(h), NEW g \in Handlers
          PROVE  /\ req'[g].pc = req[g].pc
                 /\ req'[g].tenant_id = req[g].tenant_id /\ req'[g].username = req[g].username
      BY <1>1, <3>1 DEF Disconnect, Request
    <3> QED
      BY <1>7, <3>1 DEF Environment, Crash, DeliverStray, DisableUser, NoRequest, CreatePCs
  <2> QED
    BY <2>1, <2>2, FreshIDsStay
<1> QED
  BY <1>2, <1>3, <1>4, <1>5, <1>6, <1>7 DEF Next, Arrive, Keys

LEMMA FreshIDsInvariant == Spec => []FreshIDs
<1>1. Init => FreshIDs
  BY DEF Init, FreshIDs, NoRequest, CreatePCs
<1> QED
  BY <1>1, FreshIDsNext, TypeInvariant, IssuanceInvariant, PTL DEF Spec

\* The rollback of a create, a rotation or a refused call never costs an
\* established tenant its account; only its own delete does.
THEOREM EstablishedAccounts == ASSUME SerialClients PROVE Spec => EstablishedAccountsStay
<1>1. ASSUME TypeInv, Lockstep, FreshIDs, [Next]_vars, NEW x \in users,
             x.username \notin disturbed,
             \E r \in Named(tenants, x.username) : r.tenant_id = x.home,
             Named(users', x.username) = {}
      PROVE  \E h \in Handlers : req[h].pc = "delete_user" /\ req[h].tenant_id = x.home
  <2>1. PICK r \in tenants : r.username = x.username /\ r.tenant_id = x.home
    BY <1>1 DEF Named
  <2>2. \A y \in users' : y.username # x.username
    BY <1>1 DEF Named
  <2>3. ASSUME NEW w \in Calls, users' = Served(w)
        PROVE  w.method = "DELETE" /\ w.account.username = x.username
    BY <2>2, <2>3 DEF Served, Calls, Named
  <2>4. ASSUME NEW h \in Handlers, req[h].pc \in WritePCs, users' = Served(Wire(h))
        PROVE  /\ req[h].pc \in {"delete_user", "rollback"}
               /\ req[h].username = x.username
    <3>1. Wire(h) \in Calls
      BY <1>1, <2>4, WireType
    <3>2. Wire(h).method = "DELETE" /\ Wire(h).account.username = x.username
      BY <2>3, <2>4, <3>1
    <3> QED
      BY <2>4, <3>2 DEF Wire, Method, WritePCs
  <2>5. ASSUME NEW h \in Handlers, DeleteUser(h)
        PROVE  req[h].pc = "delete_user" /\ req[h].tenant_id = x.home
    <3>1. req[h].pc = "delete_user" /\ (users' = users \/ users' = Served(Wire(h)))
      BY <2>5 DEF DeleteUser, SFTPGoCall
    <3>2. req[h].username = x.username
      BY <2>2, <2>4, <3>1 DEF WritePCs
    <3>3. PICK row \in tenants : row.tenant_id = req[h].tenant_id /\ row.username = x.username
      BY <1>1, <3>1, <3>2 DEF Lockstep, ModifiersHaveRows, ModifyPCs
    <3>4. row = r
      BY <1>1, <2>1, <3>3 DEF Lockstep, UniqueRows
    <3> QED
      BY <2>1, <3>1, <3>3, <3>4
  <2>6. ASSUME NEW h \in Handlers, RollbackUser(h) PROVE FALSE
    <3>1. req[h].pc = "rollback" /\ (users' = users \/ users' = Served(Wire(h)))
      BY <2>6 DEF RollbackUser
    <3>2. req[h].username = x.username
      BY <2>2, <2>4, <3>1 DEF WritePCs
    <3>3. PICK y \in users : y.username = x.username /\ y.home = req[h].home
      BY <1>1, <3>1, <3>2 DEF Lockstep, CreatorsHaveAccounts, Posted
    <3>4. x.home = req[h].tenant_id
      BY <1>1, <3>1, <3>3 DEF Lockstep, UniqueAccounts, TypeInv, RequestsReady, CreatePCs
    <3> QED
      BY <1>1, <2>1, <3>1, <3>2, <3>4 DEF FreshIDs, CreatePCs
  <2>7. ASSUME NEW h \in Handlers, CreateUser(h) \/ PutUser(h) PROVE FALSE
    <3>1. /\ req[h].pc \in {"create_user", "put_user"}
          /\ users' = users \/ users' = Served(Wire(h))
      BY <2>7 DEF CreateUser, PutUser, SFTPGoCall
    <3> QED
      BY <2>2, <2>4, <3>1 DEF WritePCs
  <2>8. ASSUME NEW w \in stray, DeliverStray(w) PROVE FALSE
    <3>1. w \in Calls /\ w.account.username \in disturbed /\ users' = Served(w)
      BY <1>1, <2>8 DEF DeliverStray, Lockstep, StrayCallsDisturb, TypeInv, TypeOK
    <3> QED
      BY <1>1, <2>3, <3>1
  <2>9. ASSUME NEW y \in users, DisableUser(y) PROVE FALSE
    <3>1. y \in Account /\ users' = (users \ {y}) \cup {[y EXCEPT !.status = 0]}
      BY <1>1, <2>9 DEF DisableUser, TypeInv, TypeOK
    <3>2. [y EXCEPT !.status = 0].username = y.username
      BY <3>1 DEF Account
    <3> QED
      BY <2>2, <3>1, <3>2
  <2>10. users' # users
    BY <2>2
  <2> QED
    BY <1>1, <2>5, <2>6, <2>7, <2>8, <2>9, <2>10
       DEF Next, Arrive, StartCreate, StartUpdate, StartDelete, Resolve, Step, InsertTenant,
           GetUser, UpdateRow, DeleteRow, Environment, Disconnect, Crash, vars
<1>2. TypeInv /\ Lockstep /\ FreshIDs /\ [Next]_vars =>
        [SerialClients =>
           \A x \in users :
             (/\ x.username \notin disturbed
              /\ \E r \in Named(tenants, x.username) : r.tenant_id = x.home
              /\ Named(users', x.username) = {})
             => \E h \in Handlers : req[h].pc = "delete_user" /\ req[h].tenant_id = x.home]_vars
  BY <1>1
<1> QED
  BY <1>2, TypeInvariant, LockstepInvariant, FreshIDsInvariant, PTL
     DEF Spec, EstablishedAccountsStay

-----------------------------------------------------------------------------
(* Two statements that the repository makes and the code breaks under races *)
(* and failures hold without them.                                          *)

Failures == {"faults", "disconnects", "crashes"}

\* No call fails, no client goes away and the process does not die.
NoFailures == \A p \in Failures : Budget[p] = 0

Untroubled ==
  /\ \A p \in Failures : budget[p] = 0
  /\ stray = {} /\ disturbed = {}
  /\ \A h \in Handlers : ~req[h].cancelled

\* Without a failure, what an untroubled request meets is an answer.
LEMMA OnlyAnswers ==
  ASSUME Untroubled, NEW h \in Handlers
  PROVE  ~Failed(h) /\ ~Lost(h) /\ ~Spend("disconnects") /\ ~Spend("crashes")
<1>1. \A p \in Failures : ~Spend(p)
  BY DEF Untroubled, Spend
<1> QED
  BY <1>1 DEF Untroubled, Failures, Failed, Lost

LEMMA UntroubledCall ==
  ASSUME Untroubled, NEW h \in Handlers, NEW next, SFTPGoCall(h, next)
  PROVE  /\ UNCHANGED <<budget, stray, disturbed>>
         /\ users' = Served(Wire(h))
         /\ Finish(h) \/ (Goto(h, next) /\ Accepts(Wire(h)))
<1>1. ~Failed(h) /\ ~Lost(h)
  BY OnlyAnswers
<1>2. /\ UNCHANGED <<stray, disturbed>> /\ Answered(h) /\ users' = Served(Wire(h))
      /\ IF Accepts(Wire(h)) THEN Goto(h, next) ELSE Finish(h)
  BY <1>1 DEF SFTPGoCall
<1>3. CASE Accepts(Wire(h))
  BY <1>2, <1>3 DEF Answered
<1>4. CASE ~Accepts(Wire(h))
  BY <1>2, <1>4 DEF Answered
<1> QED
  BY <1>3, <1>4

LEMMA UntroubledArrive ==
  ASSUME TypeInv, Untroubled, NEW h \in Handlers, Arrive(h)
  PROVE  Untroubled'
<1>1. req \in [Handlers -> Request]
  BY DEF TypeInv, TypeOK
<1>2. ~Spend("faults")
  BY DEF Untroubled, Spend, Failures
<1>3. ASSUME NEW u \in Usernames, NEW k \in Keys, NEW t \in TenantIDs, StartCreate(h, u, k, t)
      PROVE  Untroubled'
  <2>1. UNCHANGED <<budget, stray, disturbed>>
    BY <1>2, <1>3 DEF StartCreate
  <2>2. req'[h].cancelled = FALSE /\ \A g \in Handlers : g # h => req'[g] = req[g]
    BY <1>1, <1>3 DEF StartCreate, NoRequest
  <2> QED
    BY <2>1, <2>2 DEF Untroubled
<1>4. ASSUME NEW row \in tenants, NEW pc, NEW k, Resolve(h, row, pc, k)
      PROVE  Untroubled'
  <2>1. req'[h].cancelled = FALSE /\ \A g \in Handlers : g # h => req'[g] = req[g]
    BY <1>1, <1>4 DEF Resolve, NoRequest
  <2> QED
    BY <1>4, <2>1 DEF Resolve, Untroubled
<1> QED
  BY <1>3, <1>4 DEF Arrive, StartUpdate, StartDelete

LEMMA UntroubledStep ==
  ASSUME TypeInv, Untroubled, NEW h \in Handlers, Step(h)
  PROVE  Untroubled'
<1>1. req \in [Handlers -> Request]
  BY DEF TypeInv, TypeOK
<1>2. ~Failed(h) /\ ~Lost(h) /\ ~Spend("disconnects")
  BY OnlyAnswers
<1>3. ASSUME UNCHANGED <<budget, stray, disturbed>>,
             \/ Finish(h)
             \/ \E pc \in {"insert", "rollback", "update_row", "delete_row"} : Goto(h, pc)
             \/ \E x \in users : req' = [req EXCEPT ![h] = WithFieldsOf(@, x)]
      PROVE  Untroubled'
  <2>1. \A g \in Handlers : g # h => req'[g] = req[g]
    BY <1>1, <1>3 DEF Finish, Goto
  <2>2. Finish(h) => ~req'[h].cancelled
    BY <1>1 DEF Finish, NoRequest
  <2>3. \A pc : Goto(h, pc) => req'[h].cancelled = req[h].cancelled
    BY <1>1 DEF Goto, Request
  <2>4. \A x : req' = [req EXCEPT ![h] = WithFieldsOf(@, x)]
                => req'[h].cancelled = req[h].cancelled
    BY <1>1 DEF WithFieldsOf, Request
  <2> QED
    BY <1>3, <2>1, <2>2, <2>3, <2>4 DEF Untroubled
<1>4. CASE CreateUser(h) \/ PutUser(h) \/ DeleteUser(h)
  BY <1>3, <1>4, UntroubledCall DEF CreateUser, PutUser, DeleteUser
<1>5. CASE InsertTenant(h)
  BY <1>2, <1>3, <1>5 DEF InsertTenant, Answered
<1>6. CASE RollbackUser(h) \/ UpdateRow(h) \/ DeleteRow(h)
  BY <1>2, <1>3, <1>6 DEF RollbackUser, UpdateRow, DeleteRow, Answered
<1>7. CASE GetUser(h)
  BY <1>2, <1>3, <1>7 DEF GetUser, Answered, Named
<1> QED
  BY <1>4, <1>5, <1>6, <1>7 DEF Step

LEMMA UntroubledNext == TypeInv /\ Untroubled /\ [Next]_vars => Untroubled'
<1> SUFFICES ASSUME TypeInv, Untroubled, [Next]_vars PROVE Untroubled'
  OBVIOUS
<1>1. CASE UNCHANGED vars
  BY <1>1 DEF vars, Untroubled
<1>2. CASE \E h \in Handlers : Disconnect(h)
  BY <1>2, OnlyAnswers DEF Disconnect
<1>3. CASE Crash
  BY <1>3 DEF Crash, Spend, Untroubled, Failures
<1>4. CASE \E w \in stray : DeliverStray(w)
  BY <1>4 DEF Untroubled
<1>5. CASE \E x \in users : DisableUser(x)
  <2>1. Spend("disables") /\ UNCHANGED <<req, stray, disturbed>>
    BY <1>5 DEF DisableUser
  <2>2. \A p \in Failures : budget'[p] = budget[p]
    BY <2>1 DEF Spend, Failures, TypeInv, TypeOK, Perturbations
  <2> QED
    BY <2>1, <2>2 DEF Untroubled
<1> QED
  BY <1>1, <1>2, <1>3, <1>4, <1>5, UntroubledArrive, UntroubledStep DEF Next, Environment

LEMMA UntroubledInvariant ==
  ASSUME NoFailures
  PROVE  Spec => []Untroubled
<1>1. Init => Untroubled
  BY DEF Init, NoFailures, Untroubled, NoRequest
<1> QED
  BY <1>1, UntroubledNext, TypeInvariant, PTL DEF Spec

\* swagger.yaml, of a rotation: it "replaces the SSH public key for a tenant in
\* both the local DB and SFTPGo".  True of every rotation that overlaps no other
\* rotation or delete of the tenant and meets no failure between its two writes.
THEOREM SerialKeysAgree == ASSUME SerialClients PROVE Spec => []KeysAgreeWhenQuiet
<1>1. Lockstep /\ AgreeUnlessDisturbed => KeysAgreeWhenQuiet
  <2> SUFFICES ASSUME Lockstep, AgreeUnlessDisturbed, NEW u \in Usernames \ disturbed, Quiet(u),
                      NEW x \in Named(users, u), NEW r \in Named(tenants, u)
               PROVE  x.public_key = r.public_key
    BY DEF KeysAgreeWhenQuiet
  <2>1. [home |-> x.home, public_key |-> x.public_key] \in RowsOf(u)
    BY DEF AgreeUnlessDisturbed, AccountsOf
  <2>2. PICK s \in Named(tenants, u) : x.public_key = s.public_key
    BY <2>1 DEF RowsOf
  <2> QED
    BY <2>2 DEF Lockstep, UniqueRows, Named
<1> QED
  BY <1>1, Agreement, LockstepInvariant, PTL

\* No account is left without a row once no request on its username is served.
NoOrphanAccount == \A u \in Usernames : Quiet(u) /\ Named(tenants, u) = {} => Named(users, u) = {}

\* CONTRIBUTING.md: "Avoid silent cross-system inconsistency".  Without failures
\* and with clients that take turns, no create, refused or undone, and no
\* delete leaves an account behind that has no row.
THEOREM NoOrphansWithoutFailures ==
  ASSUME SerialClients, NoFailures
  PROVE  Spec => []NoOrphanAccount
<1>1. Untroubled /\ AgreeUnlessDisturbed => NoOrphanAccount
  <2> SUFFICES ASSUME Untroubled, AgreeUnlessDisturbed, NEW u \in Usernames, Quiet(u),
                      Named(tenants, u) = {}
               PROVE  Named(users, u) = {}
    BY DEF NoOrphanAccount
  <2>1. AccountsOf(u) = {}
    BY DEF Untroubled, AgreeUnlessDisturbed, RowsOf
  <2> QED
    BY <2>1 DEF AccountsOf
<1> QED
  BY <1>1, Agreement, UntroubledInvariant, PTL
=============================================================================
