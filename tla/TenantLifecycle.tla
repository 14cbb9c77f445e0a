--------------------------- MODULE TenantLifecycle ---------------------------
(***************************************************************************)
(* The tenant service of SFTPGo Manager: every create, key rotation and    *)
(* delete writes the same tenant to two systems that share no transaction, *)
(* the SFTPGo user store (over its admin API) and the SQLite table         *)
(* "tenants".  A handler is the goroutine of one HTTP request.  One action *)
(* is one database statement (the pool has a single connection, so each    *)
(* statement is atomic) or one SFTPGo call, together with the local code   *)
(* up to the next one.                                                     *)
(***************************************************************************)
EXTENDS Naturals, FiniteSets

CONSTANTS
  Handlers,       \* goroutines that serve requests
  Usernames,      \* non-blank tenant usernames
  PublicKeys,     \* non-blank SSH public keys
  TenantIDs,      \* outcomes of newTenantID; home_dir and key_prefix name them
  None,           \* no value; as a public key, the empty string
  SerialClients,  \* TRUE: clients never overlap a rotation or delete of a
                  \* tenant with another rotation or delete of that tenant
  Budget          \* how often each kind of perturbation may still happen

Perturbations == {"faults", "disconnects", "crashes", "disables"}

ASSUME NoneAssumption == None \notin Usernames \cup PublicKeys \cup TenantIDs
ASSUME SerialAssumption == SerialClients \in BOOLEAN
ASSUME BudgetAssumption == Budget \in [Perturbations -> Nat]

VARIABLES
  tenants,    \* the rows of the SQLite table
  users,      \* the accounts in SFTPGo
  req,        \* req[h]: the local variables of handler h
  stray,      \* admin-API calls whose caller is gone but which may still arrive;
              \* of identical calls at most one is outstanding
  issued,     \* issued[t]: the username tenant id t was generated for
  budget,     \* the perturbations left
  disturbed   \* history: usernames hit by a failure between the two writes

vars == <<tenants, users, req, stray, issued, budget, disturbed>>

Keys == PublicKeys \cup {None}

Row == [id : Nat, tenant_id : TenantIDs, username : Usernames, public_key : Keys]

Account == [username : Usernames, home : TenantIDs, status : {0, 1}, public_key : Keys]

\* The program counter of a request names the call it makes next.
CreatePCs == {"create_user", "insert", "rollback"}
ModifyPCs == {"get_user", "put_user", "update_row", "delete_user", "delete_row"}

Request == [pc : {"idle"} \cup CreatePCs \cup ModifyPCs,
            id : Nat, tenant_id : TenantIDs \cup {None},
            username : Usernames \cup {None}, public_key : Keys,
            home : TenantIDs \cup {None}, status : {0, 1}, cancelled : BOOLEAN]

NoRequest == [pc |-> "idle", id |-> 0, tenant_id |-> None, username |-> None,
              public_key |-> None, home |-> None, status |-> 0, cancelled |-> FALSE]

Named(S, u) == {x \in S : x.username = u}

-----------------------------------------------------------------------------
(* The SFTPGo admin API: how a write call on the wire changes the accounts. *)

Method(pc) == CASE pc = "create_user" -> "POST"
                [] pc = "put_user"    -> "PUT"
                [] OTHER              -> "DELETE"

WritePCs == {"create_user", "put_user", "delete_user", "rollback"}

\* The call handler h sends; only the username matters to a DELETE.
Wire(h) ==
  [method  |-> Method(req[h].pc),
   account |-> [username |-> req[h].username, home |-> req[h].home,
                status |-> req[h].status, public_key |-> req[h].public_key]]

Calls == [method : {"POST", "PUT", "DELETE"},
          account : [username : Usernames, home : TenantIDs \cup {None},
                     status : {0, 1}, public_key : Keys]]

\* POST wants a free username; PUT and DELETE answer 200 only for a known one.
Accepts(w) == (w.method = "POST") <=> (Named(users, w.account.username) = {})

Served(w) ==
  IF ~Accepts(w) THEN users
  ELSE CASE w.method = "POST"   -> users \cup {w.account}
         [] w.method = "PUT"    -> {IF x.username = w.account.username THEN w.account ELSE x : x \in users}
         [] w.method = "DELETE" -> users \ Named(users, w.account.username)

-----------------------------------------------------------------------------
(* SQLite. *)

\* Mutation: row ids are counted, so that an id may come back beside its row.
CountedRowIDs == {Cardinality(tenants) + 1}

\* id INTEGER PRIMARY KEY without AUTOINCREMENT: one more than the largest id
\* in the table, so the id of a deleted last row is handed out again.
NextRowIDs == {i \in {1} \cup {r.id + 1 : r \in tenants} : \A r \in tenants : r.id < i}

\* Mutation: a generator that repeats itself.
AnyTenantIDs == TenantIDs

\* crypto/rand: a generated id has never been generated before.
FreshTenantIDs == {t \in TenantIDs : issued[t] = None}

\* The UNIQUE constraints on username and tenant_id.
Clash(u, t) == \E r \in tenants : r.username = u \/ r.tenant_id = t

-----------------------------------------------------------------------------
(* What can become of a call.  After the client disconnects, the request's *)
(* context is cancelled and every further call fails before it is sent.    *)

Spend(p) == budget[p] > 0 /\ budget' = [budget EXCEPT ![p] = @ - 1]

Answered(h) == ~req[h].cancelled /\ UNCHANGED budget

Failed(h) == IF req[h].cancelled THEN UNCHANGED budget ELSE Spend("faults")

\* The call is out when its connection breaks or its context is cancelled.
Lost(h) == ~req[h].cancelled /\ (Spend("faults") \/ Spend("disconnects"))

Goto(h, pc) == req' = [req EXCEPT ![h].pc = pc]

Finish(h) == req' = [req EXCEPT ![h] = NoRequest]

Disturb(us) == disturbed' = disturbed \cup us

\* A write call that leads on to the local step "next" when it is accepted.
\* When the answer is lost the call is left on the wire.
SFTPGoCall(h, next) ==
  /\ \/ /\ Answered(h)
        /\ users' = Served(Wire(h))
        /\ IF Accepts(Wire(h)) THEN Goto(h, next) ELSE Finish(h)
        /\ UNCHANGED <<stray, disturbed>>
     \/ /\ Failed(h)
        /\ Finish(h)
        /\ UNCHANGED <<users, stray, disturbed>>
     \/ /\ Lost(h)
        /\ Finish(h)
        /\ stray' = stray \cup {Wire(h)}
        /\ Disturb({req[h].username})
        /\ UNCHANGED users
  /\ UNCHANGED <<tenants, issued>>

-----------------------------------------------------------------------------
(* POST /api/tenants.  A username that is found is answered 400 and nothing *)
(* changes; a lookup that fails for any reason counts as "not found".       *)

StartCreate(h, u, k, t) ==
  /\ req[h].pc = "idle"
  /\ t \in FreshTenantIDs
  /\ IF Named(tenants, u) = {} THEN UNCHANGED budget ELSE Spend("faults")
  /\ issued' = [issued EXCEPT ![t] = u]
  /\ req' = [req EXCEPT ![h] = [NoRequest EXCEPT !.pc = "create_user",
               !.tenant_id = t, !.username = u, !.public_key = k,
               !.home = t, !.status = 1]]
  /\ UNCHANGED <<tenants, users, stray, disturbed>>

\* Mutation: a username that SFTPGo already has counts as created.
CreateOrReuseUser(h) ==
  /\ req[h].pc = "create_user"
  /\ IF Accepts(Wire(h))
     THEN SFTPGoCall(h, "insert")
     ELSE /\ Answered(h)
          /\ Goto(h, "insert")
          /\ UNCHANGED <<tenants, users, stray, issued, disturbed>>

CreateUser(h) ==
  /\ req[h].pc = "create_user"
  /\ SFTPGoCall(h, "insert")

InsertRow(h) ==
  \E i \in NextRowIDs :
    tenants' = tenants \cup {[id |-> i, tenant_id |-> req[h].tenant_id,
                              username |-> req[h].username,
                              public_key |-> req[h].public_key]}

\* The last disjunct: the context is cancelled while the statement runs, which
\* the driver reports as an error although the row is written.
InsertTenant(h) ==
  LET r == req[h] IN
  /\ r.pc = "insert"
  /\ \/ /\ Answered(h) /\ ~Clash(r.username, r.tenant_id)
        /\ InsertRow(h)
        /\ Finish(h)
        /\ UNCHANGED disturbed
     \/ /\ Answered(h) /\ Clash(r.username, r.tenant_id)
        /\ Goto(h, "rollback")
        /\ UNCHANGED <<tenants, disturbed>>
     \/ /\ Failed(h)
        /\ Goto(h, "rollback")
        /\ UNCHANGED <<tenants, disturbed>>
     \/ /\ ~r.cancelled /\ Spend("disconnects") /\ ~Clash(r.username, r.tenant_id)
        /\ InsertRow(h)
        /\ req' = [req EXCEPT ![h].pc = "rollback", ![h].cancelled = TRUE]
        /\ Disturb({r.username})
  /\ UNCHANGED <<users, stray, issued>>

\* Mutation: the error of the insert is returned without undoing the POST.
RollbackForgotten(h) ==
  /\ req[h].pc = "rollback"
  /\ Finish(h)
  /\ UNCHANGED <<tenants, users, stray, issued, budget, disturbed>>

\* The rollback runs once, under the request's own context, and the request
\* ends in an error whatever becomes of it.
RollbackUser(h) ==
  /\ req[h].pc = "rollback"
  /\ Finish(h)
  /\ \/ Answered(h) /\ users' = Served(Wire(h)) /\ UNCHANGED <<stray, disturbed>>
     \/ Failed(h) /\ Disturb({req[h].username}) /\ UNCHANGED <<users, stray>>
     \/ /\ Lost(h)
        /\ stray' = stray \cup {Wire(h)}
        /\ Disturb({req[h].username})
        /\ UNCHANGED users
  /\ UNCHANGED <<tenants, issued>>

-----------------------------------------------------------------------------
(* PUT /api/tenants/{id}/keys and DELETE /api/tenants/{id}.  Both resolve  *)
(* the id first; an id that is not found is answered 404.                  *)

MayModify(u) ==
  SerialClients => ~\E g \in Handlers : req[g].pc \in ModifyPCs /\ req[g].username = u

Resolve(h, row, pc, k) ==
  /\ req[h].pc = "idle"
  /\ MayModify(row.username)
  /\ req' = [req EXCEPT ![h] = [NoRequest EXCEPT !.pc = pc, !.id = row.id,
               !.tenant_id = row.tenant_id, !.username = row.username,
               !.public_key = k]]
  /\ UNCHANGED <<tenants, users, stray, issued, budget, disturbed>>

StartUpdate(h, row, k) == Resolve(h, row, "get_user", k)

\* Mutation: a payload of the username and the keys alone.
WithNothingOf(r, x) == [r EXCEPT !.pc = "put_user"]

\* UpdateUserPublicKeys reads the account first and copies its other fields
\* into the payload of the PUT.
WithFieldsOf(r, x) == [r EXCEPT !.pc = "put_user", !.home = x.home, !.status = x.status]

GetUser(h) ==
  /\ req[h].pc = "get_user"
  /\ \/ /\ Answered(h)
        /\ \E x \in Named(users, req[h].username) :
             req' = [req EXCEPT ![h] = WithFieldsOf(@, x)]
     \/ /\ Answered(h) /\ Named(users, req[h].username) = {}
        /\ Finish(h)
     \/ Failed(h) /\ Finish(h)
  /\ UNCHANGED <<tenants, users, stray, issued, disturbed>>

PutUser(h) ==
  /\ req[h].pc = "put_user"
  /\ SFTPGoCall(h, "update_row")

\* Mutation: the UPDATE has lost its WHERE clause.
WithKeyEverywhere(id, k) == {[r EXCEPT !.public_key = k] : r \in tenants}

\* UPDATE ... WHERE id = ?: whatever row has that id now.
WithKey(id, k) == {IF r.id = id THEN [r EXCEPT !.public_key = k] ELSE r : r \in tenants}

\* A statement that runs to its end although its context is cancelled leaves
\* what an answered one leaves: the request ends either way.
UpdateRow(h) ==
  /\ req[h].pc = "update_row"
  /\ Finish(h)
  /\ \/ /\ Answered(h)
        /\ tenants' = WithKey(req[h].id, req[h].public_key)
        /\ UNCHANGED disturbed
     \/ Failed(h) /\ Disturb({req[h].username}) /\ UNCHANGED tenants
  /\ UNCHANGED <<users, stray, issued>>

StartDelete(h, row) == Resolve(h, row, "delete_user", None)

DeleteUser(h) ==
  /\ req[h].pc = "delete_user"
  /\ SFTPGoCall(h, "delete_row")

\* Mutation: the DELETE keeps the one row it should remove.
OnlyRow(id) == {r \in tenants : r.id = id}

WithoutRow(id) == {r \in tenants : r.id # id}

DeleteRow(h) ==
  /\ req[h].pc = "delete_row"
  /\ Finish(h)
  /\ \/ /\ Answered(h)
        /\ tenants' = WithoutRow(req[h].id)
        /\ UNCHANGED disturbed
     \/ Failed(h) /\ Disturb({req[h].username}) /\ UNCHANGED tenants
  /\ UNCHANGED <<users, stray, issued>>

-----------------------------------------------------------------------------
(* The environment. *)

\* The client goes away; net/http cancels the context of its request.
Disconnect(h) ==
  /\ req[h].pc # "idle" /\ ~req[h].cancelled
  /\ Spend("disconnects")
  /\ req' = [req EXCEPT ![h].cancelled = TRUE]
  /\ UNCHANGED <<tenants, users, stray, issued, disturbed>>

\* Between the two writes of its request a handler holds the only knowledge
\* that one of them is still owed.
HalfDone == {h \in Handlers : req[h].pc \in {"insert", "rollback", "update_row", "delete_row"}}

OnTheWire == {h \in Handlers : req[h].pc \in WritePCs /\ ~req[h].cancelled}

\* The process dies, or stops on SIGTERM: main returns as soon as the listener
\* closes and does not wait for the requests being served.  A call a handler
\* was making may still arrive.
Crash ==
  /\ Spend("crashes")
  /\ \E S \in SUBSET OnTheWire :
       /\ stray' = stray \cup {Wire(h) : h \in S}
       /\ Disturb({req[h].username : h \in S \cup HalfDone})
  /\ req' = [h \in Handlers |-> NoRequest]
  /\ UNCHANGED <<tenants, users, issued>>

DeliverStray(w) ==
  /\ users' = Served(w)
  /\ stray' = stray \ {w}
  /\ UNCHANGED <<tenants, req, issued, budget, disturbed>>

\* An operator disables the account in SFTPGo's own WebAdmin.
DisableUser(x) ==
  /\ x.status = 1
  /\ Spend("disables")
  /\ users' = (users \ {x}) \cup {[x EXCEPT !.status = 0]}
  /\ UNCHANGED <<tenants, req, stray, issued, disturbed>>

-----------------------------------------------------------------------------

Init ==
  /\ tenants = {}
  /\ users = {}
  /\ req = [h \in Handlers |-> NoRequest]
  /\ stray = {}
  /\ issued = [t \in TenantIDs |-> None]
  /\ budget = Budget
  /\ disturbed = {}

Arrive(h) ==
  \/ \E u \in Usernames, k \in Keys, t \in TenantIDs : StartCreate(h, u, k, t)
  \/ \E row \in tenants, k \in PublicKeys : StartUpdate(h, row, k)
  \/ \E row \in tenants : StartDelete(h, row)

Step(h) ==
  \/ CreateUser(h) \/ InsertTenant(h) \/ RollbackUser(h)
  \/ GetUser(h) \/ PutUser(h) \/ UpdateRow(h)
  \/ DeleteUser(h) \/ DeleteRow(h)

Environment ==
  \/ \E h \in Handlers : Disconnect(h)
  \/ Crash
  \/ \E w \in stray : DeliverStray(w)
  \/ \E x \in users : DisableUser(x)

Next ==
  \/ \E h \in Handlers : Arrive(h) \/ Step(h)
  \/ Environment

Spec == Init /\ [][Next]_vars

\* A served request runs to its end, and the client of a tenant that is to go
\* keeps asking for its removal until the id is no longer found.
FairSpec ==
  /\ Spec
  /\ \A h \in Handlers : WF_vars(Step(h))
  /\ \A u \in Usernames :
       SF_vars(\E h \in Handlers : \E row \in Named(tenants, u) : StartDelete(h, row))

-----------------------------------------------------------------------------
(* Properties. *)

\* Every variable stays within the domain its declaration describes.
TypeOK ==
  /\ tenants \subseteq Row
  /\ users \subseteq Account
  /\ req \in [Handlers -> Request]
  /\ stray \subseteq Calls
  /\ issued \in [TenantIDs -> Usernames \cup {None}]
  /\ budget \in [Perturbations -> Nat]
  /\ disturbed \subseteq Usernames

\* Where the two systems say that the files and records of username u are.
Prefixes(u) == {x.home : x \in Named(users, u)} \cup {r.tenant_id : r \in Named(tenants, u)}

\* README: "Each tenant gets an isolated S3 prefix".  Whatever requests, calls
\* without a caller, failures and restarts do, two usernames never have the
\* same home directory or key prefix, in SFTPGo, in SQLite or across the two.
PrefixIsolation ==
  \A u, v \in Usernames : u # v => Prefixes(u) \cap Prefixes(v) = {}

Quiet(u) == \A h \in Handlers : req[h].username # u

RowsOf(u) == {[home |-> r.tenant_id, public_key |-> r.public_key] : r \in Named(tenants, u)}

AccountsOf(u) == {[home |-> x.home, public_key |-> x.public_key] : x \in Named(users, u)}

\* When clients take turns on a tenant and no failure fell between the two
\* writes of a request, SFTPGo and SQLite agree on the tenant, its prefix and
\* its key as soon as no request on its username is being served, whatever
\* creates were refused, undone or overlapped a delete on the way.
AgreeUnlessDisturbed ==
  SerialClients =>
    \A u \in Usernames \ disturbed : Quiet(u) => AccountsOf(u) = RowsOf(u)

\* What the login hook compares a key with; SFTPGo asks it on every login.
HookKeys(u) == {r.public_key : r \in Named(tenants, u)}

\* The login hook decides by the row and not by the account.  When clients take
\* turns, it goes by another key than SFTPGo only while a request on that very
\* tenant owes SQLite its last write: a delete whose account is gone, or a
\* rotation whose key SFTPGo holds already.
HookTrailsSFTPGo ==
  SerialClients =>
    \A u \in Usernames \ disturbed :
      HookKeys(u) \subseteq {x.public_key : x \in Named(users, u)} \/
      \E h \in Handlers :
        /\ req[h].username = u
        /\ \/ req[h].pc = "delete_row"
           \/ /\ req[h].pc = "update_row"
              /\ {x.public_key : x \in Named(users, u)} = {req[h].public_key}

\* Whose rows a statement may hit, when clients do as they please and ids come
\* back: as long as the tenant is there that the request resolved, its UPDATE or
\* DELETE changes the row of no other, however late it comes.  Once that tenant is
\* gone, it changes whatever row has the id by then.
AddressedFirst ==
  [][\A h \in Handlers :
       (UpdateRow(h) \/ DeleteRow(h)) /\ (\E r \in tenants : r.tenant_id = req[h].tenant_id)
       => \A r \in tenants \ tenants' : r.tenant_id = req[h].tenant_id]_vars

\* Undoing a create never takes the account of an established tenant: an
\* undisturbed account with a row of the same tenant id goes only through a
\* delete of that tenant.
EstablishedAccountsStay ==
  [][SerialClients =>
       \A x \in users :
         (/\ x.username \notin disturbed
          /\ \E r \in Named(tenants, x.username) : r.tenant_id = x.home
          /\ Named(users', x.username) = {})
         => \E h \in Handlers : req[h].pc = "delete_user" /\ req[h].tenant_id = x.home]_vars

\* A tenant whose removal is asked for again and again goes, unless a failure
\* fell between the two writes of a request on its username.
RemovalsComplete ==
  \A u \in Usernames : Named(tenants, u) # {} ~> (Named(tenants, u) = {} \/ u \in disturbed)

\* The tenants as the abstract directory shows them: a tenant is there while
\* SFTPGo and SQLite both hold it, with the key SFTPGo accepts, unless a
\* failure disturbed it.
Established(x) ==
  /\ x.username \notin disturbed
  /\ \E r \in Named(tenants, x.username) : r.tenant_id = x.home

EntryOf(x) == [username |-> x.username, tenant_id |-> x.home, public_key |-> x.public_key]

Provisioned == {EntryOf(x) : x \in {y \in users : Established(y)}}

\* A tenant id is used up when the row of the tenant is written or its create ends.
UnusedIDs ==
  {t \in TenantIDs :
     issued[t] = None \/ \E h \in Handlers : req[h].pc \in CreatePCs /\ req[h].tenant_id = t}

Directory == INSTANCE TenantDirectory WITH
  directory <- Provisioned, unused <- UnusedIDs, lost <- disturbed

\* Served to clients that take turns on a tenant, the two systems behave as the
\* one directory: a create is seen at its INSERT, a rotation at its PUT and a
\* removal at its DELETE in SFTPGo, each as a single step.
ImplementsDirectory == Directory!Spec

\* The table as TenantTable shows it: without row ids, and with the owner of a
\* tenant id known once no create is to write its row any more.
EntryOfRow(r) ==
  [username |-> r.username, tenant_id |-> r.tenant_id, public_key |-> r.public_key]

Entries == {EntryOfRow(r) : r \in tenants}

Writing(t) == \E h \in Handlers : req[h].pc \in {"create_user", "insert"} /\ req[h].tenant_id = t

Owners == [t \in TenantIDs |-> IF Writing(t) THEN None ELSE issued[t]]

Table == INSTANCE TenantTable WITH table <- Entries, owner <- Owners

\* Whatever clients, failures and restarts do, nobody who reads the table sees
\* more than one row change at once, two tenants of a username, or a tenant id
\* come back after its row has gone, although row ids do come back and every
\* UPDATE and DELETE goes by one.  Which row it is, TenantTable leaves open.
ImplementsTable == Table!Spec

-----------------------------------------------------------------------------
(* What the repository says and the code does not keep. *)

\* swagger.yaml: an update "replaces the SSH public key for a tenant in both
\* the local DB and SFTPGo".  Violated by two rotations that overlap.
KeysAgreeWhenQuiet ==
  \A u \in Usernames \ disturbed : \A x \in Named(users, u), r \in Named(tenants, u) :
    Quiet(u) => x.public_key = r.public_key

\* CONTRIBUTING.md: "Avoid silent cross-system inconsistency".  Once a create is
\* undone, its account is gone or has its row after all.  Violated by a client
\* that goes away between the POST and the INSERT of its create: the rollback
\* runs under the same context.
RollbacksUndo ==
  [][\A h \in Handlers : RollbackUser(h) =>
       \A x \in users' : x.home = req[h].home => \E r \in tenants' : r.tenant_id = x.home]_vars

\* client.go: "UpdateUserPublicKeys updates the user's public keys."  Violated
\* by a delete and a create of the username between its GET and its PUT.
PutChangesKeysOnly ==
  [][\A h \in Handlers : PutUser(h) =>
       \A x \in users, y \in users' :
         x.username = y.username => x.home = y.home /\ x.status = y.status]_vars

\* README: DELETE "Remove tenant".  Violated by one failure between the two
\* writes: the account is gone, so every further attempt stops at its 404.
EveryRemovalCompletes == \A u \in Usernames : Named(tenants, u) # {} ~> Named(tenants, u) = {}
=============================================================================
