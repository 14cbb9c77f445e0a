------------------------ MODULE TenantLifecycleProofs ------------------------
(***************************************************************************)
(* Theorems about TenantLifecycle, for every set of handlers, usernames,   *)
(* keys and tenant ids and for every budget of perturbations.              *)
(***************************************************************************)
EXTENDS TenantLifecycle, TLAPS

-----------------------------------------------------------------------------
(* Type correctness.  TypeOK is not inductive: that a call is well typed    *)
(* rests on what a request holds when it reaches each of its calls.         *)

RequestsReady ==
  \A h \in Handlers :
    /\ req[h].pc # "idle" => req[h].username \in Usernames /\ req[h].tenant_id \in TenantIDs
    /\ req[h].pc \in CreatePCs => req[h].home = req[h].tenant_id
    /\ req[h].pc = "put_user" => req[h].home \in TenantIDs
    /\ req[h].pc \in {"get_user", "put_user"} => req[h].public_key \in PublicKeys

PayloadsWhole == \A w \in stray : w.method # "DELETE" => w.account.home \in TenantIDs

TypeInv == TypeOK /\ RequestsReady /\ PayloadsWhole

LEMMA NoneIsNoValue == None \notin Usernames /\ None \notin TenantIDs
BY NoneAssumption

LEMMA NoRequestType == NoRequest \in Request
BY DEF NoRequest, Request, Keys

\* The call of a request that has reached one of its writes.
LEMMA WireType ==
  ASSUME TypeInv, NEW h \in Handlers, req[h].pc \in WritePCs
  PROVE  /\ Wire(h) \in Calls
         /\ Wire(h).method # "DELETE" => Wire(h).account.home \in TenantIDs
<1>1. req[h] \in Request
  BY DEF TypeInv, TypeOK
<1>2. /\ req[h].username \in Usernames
      /\ req[h].pc \in CreatePCs => req[h].home = req[h].tenant_id
      /\ req[h].tenant_id \in TenantIDs
      /\ req[h].pc = "put_user" => req[h].home \in TenantIDs
  BY DEF TypeInv, RequestsReady, WritePCs
<1>3. /\ Method(req[h].pc) \in {"POST", "PUT", "DELETE"}
      /\ Method(req[h].pc) # "DELETE" => req[h].pc \in {"create_user", "put_user"}
  BY DEF Method
<1> QED
  BY <1>1, <1>2, <1>3 DEF Wire, Calls, Request, CreatePCs

\* A call that is well typed leaves the accounts well typed.
LEMMA ServedType ==
  ASSUME users \subseteq Account, NEW w \in Calls,
         w.method # "DELETE" => w.account.home \in TenantIDs
  PROVE  Served(w) \subseteq Account
<1>1. w.method \in {"POST", "PUT", "DELETE"}
  BY DEF Calls
<1>2. w.method # "DELETE" => w.account \in Account
  BY DEF Calls, Account
<1> QED
  BY <1>1, <1>2 DEF Served, Named

\* What becomes of a request when the call it makes ends it or leads it on.
LEMMA SFTPGoCallType ==
  ASSUME TypeInv, NEW h \in Handlers, req[h].pc \in WritePCs,
         NEW next \in {"insert", "update_row", "delete_row"},
         next = "insert" => req[h].pc \in CreatePCs,
         SFTPGoCall(h, next)
  PROVE  TypeInv'
<1>1. /\ Wire(h) \in Calls
      /\ Wire(h).method # "DELETE" => Wire(h).account.home \in TenantIDs
  BY WireType
<1>2. users' \subseteq Account
  BY <1>1, ServedType DEF SFTPGoCall, TypeInv, TypeOK
<1>3. req' = [req EXCEPT ![h].pc = next] \/ req' = [req EXCEPT ![h] = NoRequest]
  BY DEF SFTPGoCall, Goto, Finish
<1>4. req' \in [Handlers -> Request]
  BY <1>3, NoRequestType DEF TypeInv, TypeOK, Request, CreatePCs, ModifyPCs
<1>5. RequestsReady'
  <2>1. CASE req' = [req EXCEPT ![h].pc = next]
    BY <2>1 DEF TypeInv, TypeOK, RequestsReady, Request, CreatePCs, WritePCs
  <2>2. CASE req' = [req EXCEPT ![h] = NoRequest]
    BY <2>2 DEF TypeInv, TypeOK, RequestsReady, NoRequest, CreatePCs
  <2> QED
    BY <1>3, <2>1, <2>2
<1>6. stray' \subseteq Calls /\ PayloadsWhole'
  BY <1>1 DEF SFTPGoCall, TypeInv, TypeOK, PayloadsWhole
<1>7. disturbed' \subseteq Usernames
  BY DEF SFTPGoCall, Disturb, TypeInv, TypeOK, RequestsReady, WritePCs
<1>8. budget' \in [Perturbations -> Nat]
  BY DEF SFTPGoCall, Answered, Failed, Lost, Spend, Perturbations, TypeInv, TypeOK
<1>9. UNCHANGED <<tenants, issued>>
  BY DEF SFTPGoCall
<1> QED
  BY <1>2, <1>4, <1>5, <1>6, <1>7, <1>8, <1>9 DEF TypeInv, TypeOK

LEMMA TypeInit == Init => TypeInv
<1> SUFFICES ASSUME Init PROVE TypeInv
  OBVIOUS
<1>1. TypeOK
  BY NoRequestType, BudgetAssumption DEF Init, TypeOK
<1>2. RequestsReady
  BY DEF Init, RequestsReady, NoRequest, CreatePCs
<1>3. PayloadsWhole
  BY DEF Init, PayloadsWhole
<1> QED
  BY <1>1, <1>2, <1>3 DEF TypeInv

\* The actions that touch neither the accounts nor the wire: what is left to
\* show of them is that the new requests, rows and counters are well typed.
LEMMA LocalType ==
  ASSUME TypeInv, UNCHANGED stray,
         tenants' \subseteq Row, users' \subseteq Account,
         req' \in [Handlers -> Request], RequestsReady',
         issued' \in [TenantIDs -> Usernames \cup {None}],
         budget' \in [Perturbations -> Nat], disturbed' \subseteq Usernames
  PROVE  TypeInv'
BY DEF TypeInv, TypeOK, PayloadsWhole

\* Moving the program counter or ending a request keeps the requests ready.
LEMMA RequestMoves ==
  ASSUME TypeInv, NEW h \in Handlers, req[h].pc # "idle",
         NEW pc \in {"rollback", "insert", "update_row", "delete_row"},
         req[h].pc \in CreatePCs <=> pc \in CreatePCs,
         \/ req' = [req EXCEPT ![h] = NoRequest]
         \/ req' = [req EXCEPT ![h].pc = pc]
         \/ req' = [req EXCEPT ![h].cancelled = TRUE]
         \/ req' = [req EXCEPT ![h].pc = pc, ![h].cancelled = TRUE]
  PROVE  req' \in [Handlers -> Request] /\ RequestsReady'
<1>1. req' \in [Handlers -> Request]
  <2>1. req \in [Handlers -> Request] /\ req[h] \in Request
    BY DEF TypeInv, TypeOK
  <2>2. pc \in {"idle"} \cup CreatePCs \cup ModifyPCs
    BY DEF CreatePCs, ModifyPCs
  <2>3. /\ [req[h] EXCEPT !.pc = pc] \in Request
        /\ [req[h] EXCEPT !.cancelled = TRUE] \in Request
        /\ [[req[h] EXCEPT !.pc = pc] EXCEPT !.cancelled = TRUE] \in Request
    BY <2>1, <2>2 DEF Request
  <2> QED
    BY <2>1, <2>3, NoRequestType
<1>2. RequestsReady'
  BY DEF TypeInv, TypeOK, RequestsReady, Request, NoRequest, CreatePCs
<1> QED
  BY <1>1, <1>2

LEMMA BudgetType ==
  ASSUME TypeInv, NEW p \in Perturbations, Spend(p)
  PROVE  budget' \in [Perturbations -> Nat]
BY DEF Spend, TypeInv, TypeOK

LEMMA RowIDType ==
  ASSUME tenants \subseteq Row, NEW i \in NextRowIDs
  PROVE  i \in Nat
BY DEF NextRowIDs, Row

LEMMA ArriveType ==
  ASSUME TypeInv, NEW h \in Handlers, Arrive(h)
  PROVE  TypeInv'
<1>1. ASSUME NEW u \in Usernames, NEW k \in Keys, NEW t \in TenantIDs, StartCreate(h, u, k, t)
      PROVE  TypeInv'
  <2>1. req' \in [Handlers -> Request] /\ RequestsReady'
    BY <1>1 DEF StartCreate, TypeInv, TypeOK, RequestsReady, Request, NoRequest, CreatePCs
  <2>2. budget' \in [Perturbations -> Nat]
    BY <1>1, BudgetType DEF StartCreate, Perturbations, TypeInv, TypeOK
  <2>3. issued' \in [TenantIDs -> Usernames \cup {None}]
    BY <1>1 DEF StartCreate, TypeInv, TypeOK
  <2> QED
    BY <1>1, <2>1, <2>2, <2>3, LocalType DEF StartCreate, TypeInv, TypeOK
<1>2. ASSUME NEW row \in tenants, NEW pc \in {"get_user", "delete_user"}, NEW k \in Keys,
             Resolve(h, row, pc, k), pc = "get_user" => k \in PublicKeys
      PROVE  TypeInv'
  <2>1. row \in Row
    BY DEF TypeInv, TypeOK
  <2>2. req' \in [Handlers -> Request] /\ RequestsReady'
    BY <1>2, <2>1 DEF Resolve, TypeInv, TypeOK, RequestsReady, Request, NoRequest, Row,
                      CreatePCs, ModifyPCs
  <2> QED
    BY <1>2, <2>2, LocalType DEF Resolve, TypeInv, TypeOK
<1> QED
  BY <1>1, <1>2 DEF Arrive, StartUpdate, StartDelete, Keys

LEMMA StepType ==
  ASSUME TypeInv, NEW h \in Handlers, Step(h)
  PROVE  TypeInv'
<1> USE DEF CreatePCs, WritePCs
<1>1. CASE CreateUser(h)
  BY <1>1, SFTPGoCallType DEF CreateUser
<1>2. CASE InsertTenant(h)
  <2>1. tenants' \subseteq Row
    <3>1. CASE InsertRow(h)
      BY <1>2, <3>1, RowIDType
         DEF InsertTenant, InsertRow, TypeInv, TypeOK, RequestsReady, Row, Request
    <3> QED
      BY <1>2, <3>1 DEF InsertTenant, TypeInv, TypeOK
  <2>2. req' \in [Handlers -> Request] /\ RequestsReady'
    BY <1>2, RequestMoves DEF InsertTenant, Goto, Finish
  <2>3. budget' \in [Perturbations -> Nat]
    BY <1>2, BudgetType DEF InsertTenant, Answered, Failed, Perturbations, TypeInv, TypeOK
  <2>4. disturbed' \subseteq Usernames
    BY <1>2 DEF InsertTenant, Disturb, TypeInv, TypeOK, RequestsReady
  <2> QED
    BY <1>2, <2>1, <2>2, <2>3, <2>4, LocalType DEF InsertTenant, TypeInv, TypeOK
<1>3. CASE RollbackUser(h)
  <2>1. /\ Wire(h) \in Calls
        /\ Wire(h).method # "DELETE" => Wire(h).account.home \in TenantIDs
    BY <1>3, WireType DEF RollbackUser
  <2>2. users' \subseteq Account
    BY <1>3, <2>1, ServedType DEF RollbackUser, TypeInv, TypeOK
  <2>3. req' \in [Handlers -> Request] /\ RequestsReady'
    BY <1>3, RequestMoves DEF RollbackUser, Finish
  <2>4. stray' \subseteq Calls /\ PayloadsWhole'
    BY <1>3, <2>1 DEF RollbackUser, TypeInv, TypeOK, PayloadsWhole
  <2>5. budget' \in [Perturbations -> Nat]
    BY <1>3, BudgetType DEF RollbackUser, Answered, Failed, Lost, Perturbations, TypeInv, TypeOK
  <2>6. disturbed' \subseteq Usernames
    BY <1>3 DEF RollbackUser, Disturb, TypeInv, TypeOK, RequestsReady
  <2> QED
    BY <1>3, <2>2, <2>3, <2>4, <2>5, <2>6 DEF RollbackUser, TypeInv, TypeOK
<1>4. CASE GetUser(h)
  <2>1. req' \in [Handlers -> Request] /\ RequestsReady'
    <3>1. CASE req' = [req EXCEPT ![h] = NoRequest]
      BY <1>4, <3>1, RequestMoves DEF GetUser
    <3>2. ASSUME NEW x \in users, req' = [req EXCEPT ![h] = WithFieldsOf(req[h], x)]
          PROVE  req' \in [Handlers -> Request] /\ RequestsReady'
      <4>1. x \in Account
        BY DEF TypeInv, TypeOK
      <4>2. WithFieldsOf(req[h], x) \in Request
        <5>1. req[h] \in Request
          BY DEF TypeInv, TypeOK
        <5> QED
          BY <4>1, <5>1 DEF WithFieldsOf, Request, Account, ModifyPCs
      <4>3. /\ WithFieldsOf(req[h], x).pc = "put_user"
            /\ WithFieldsOf(req[h], x).home \in TenantIDs
            /\ WithFieldsOf(req[h], x).username = req[h].username
            /\ WithFieldsOf(req[h], x).tenant_id = req[h].tenant_id
            /\ WithFieldsOf(req[h], x).public_key = req[h].public_key
        BY <4>1 DEF WithFieldsOf, TypeInv, TypeOK, Request, Account
      <4> QED
        BY <1>4, <3>2, <4>2, <4>3 DEF GetUser, TypeInv, TypeOK, RequestsReady
    <3> QED
      BY <1>4, <3>1, <3>2 DEF GetUser, Finish, Named
  <2>2. budget' \in [Perturbations -> Nat]
    BY <1>4, BudgetType DEF GetUser, Answered, Failed, Perturbations, TypeInv, TypeOK
  <2> QED
    BY <1>4, <2>1, <2>2, LocalType DEF GetUser, TypeInv, TypeOK
<1>5. CASE PutUser(h)
  BY <1>5, SFTPGoCallType DEF PutUser
<1>6. CASE UpdateRow(h) \/ DeleteRow(h)
  <2>1. tenants' \subseteq Row
    BY <1>6 DEF UpdateRow, DeleteRow, WithKey, WithoutRow, TypeInv, TypeOK, Row, Request
  <2>2. req' \in [Handlers -> Request] /\ RequestsReady'
    BY <1>6, RequestMoves DEF UpdateRow, DeleteRow, Finish
  <2>3. budget' \in [Perturbations -> Nat]
    BY <1>6, BudgetType DEF UpdateRow, DeleteRow, Answered, Failed, Perturbations, TypeInv, TypeOK
  <2>4. disturbed' \subseteq Usernames
    BY <1>6 DEF UpdateRow, DeleteRow, Disturb, TypeInv, TypeOK, RequestsReady
  <2> QED
    BY <1>6, <2>1, <2>2, <2>3, <2>4, LocalType DEF UpdateRow, DeleteRow, TypeInv, TypeOK
<1>7. CASE DeleteUser(h)
  BY <1>7, SFTPGoCallType DEF DeleteUser
<1> QED
  BY <1>1, <1>2, <1>3, <1>4, <1>5, <1>6, <1>7 DEF Step

LEMMA EnvironmentType ==
  ASSUME TypeInv, Environment
  PROVE  TypeInv'
<1>1. ASSUME NEW h \in Handlers, Disconnect(h) PROVE TypeInv'
  <2>1. req' \in [Handlers -> Request] /\ RequestsReady'
    <3>1. req \in [Handlers -> Request] /\ req[h] \in Request
      BY DEF TypeInv, TypeOK
    <3>2. [req[h] EXCEPT !.cancelled = TRUE] \in Request
      BY <3>1 DEF Request
    <3>3. req' \in [Handlers -> Request]
      BY <1>1, <3>1, <3>2 DEF Disconnect
    <3>4. RequestsReady'
      BY <1>1, <3>1 DEF Disconnect, TypeInv, RequestsReady, Request
    <3> QED
      BY <3>3, <3>4
  <2>2. budget' \in [Perturbations -> Nat]
    BY <1>1, BudgetType DEF Disconnect, Perturbations
  <2> QED
    BY <1>1, <2>1, <2>2, LocalType DEF Disconnect, TypeInv, TypeOK
<1>2. CASE Crash
  <2>1. PICK S \in SUBSET OnTheWire :
          /\ stray' = stray \cup {Wire(h) : h \in S}
          /\ Disturb({req[h].username : h \in S \cup HalfDone})
    BY <1>2 DEF Crash
  <2>2. stray' \subseteq Calls /\ PayloadsWhole'
    <3>1. \A h \in S : /\ Wire(h) \in Calls
                       /\ Wire(h).method # "DELETE" => Wire(h).account.home \in TenantIDs
      BY WireType DEF OnTheWire
    <3>2. ASSUME NEW w \in stray'
          PROVE  w \in Calls /\ (w.method # "DELETE" => w.account.home \in TenantIDs)
      <4>1. CASE w \in stray
        BY <4>1 DEF TypeInv, TypeOK, PayloadsWhole
      <4>2. CASE \E h \in S : w = Wire(h)
        <5>1. PICK h \in S : w = Wire(h)
          BY <4>2
        <5> QED
          BY <3>1, <5>1
      <4> QED
        BY <2>1, <4>1, <4>2
    <3> QED
      BY <3>2 DEF PayloadsWhole
  <2>3. disturbed' \subseteq Usernames
    BY <2>1 DEF Disturb, OnTheWire, HalfDone, WritePCs, TypeInv, TypeOK, RequestsReady
  <2>4. req' \in [Handlers -> Request] /\ RequestsReady'
    BY <1>2, NoRequestType DEF Crash, RequestsReady, NoRequest, CreatePCs
  <2>5. budget' \in [Perturbations -> Nat]
    BY <1>2, BudgetType DEF Crash, Perturbations
  <2> QED
    BY <1>2, <2>2, <2>3, <2>4, <2>5 DEF Crash, TypeInv, TypeOK
<1>3. ASSUME NEW w \in stray, DeliverStray(w) PROVE TypeInv'
  <2>1. users' \subseteq Account
    BY <1>3, ServedType DEF DeliverStray, TypeInv, TypeOK, PayloadsWhole
  <2> QED
    BY <1>3, <2>1 DEF DeliverStray, TypeInv, TypeOK, PayloadsWhole, RequestsReady
<1>4. ASSUME NEW x \in users, DisableUser(x) PROVE TypeInv'
  <2>1. [x EXCEPT !.status = 0] \in Account
    BY DEF TypeInv, TypeOK, Account
  <2>2. users' \subseteq Account
    BY <1>4, <2>1 DEF DisableUser, TypeInv, TypeOK
  <2>3. budget' \in [Perturbations -> Nat]
    BY <1>4, BudgetType DEF DisableUser, Perturbations
  <2> QED
    BY <1>4, <2>2, <2>3, LocalType DEF DisableUser, TypeInv, TypeOK, RequestsReady
<1> QED
  BY <1>1, <1>2, <1>3, <1>4 DEF Environment

LEMMA TypeNext == TypeInv /\ [Next]_vars => TypeInv'
<1>1. CASE UNCHANGED vars
  BY <1>1 DEF vars, TypeInv, TypeOK, RequestsReady, PayloadsWhole
<1> QED
  BY <1>1, ArriveType, StepType, EnvironmentType DEF Next

LEMMA TypeInvariant == Spec => []TypeInv
BY TypeInit, TypeNext, PTL DEF Spec

\* Every variable stays within its domain, whatever the clients, the failures
\* and the restarts.
THEOREM TypeCorrect == Spec => []TypeOK
BY TypeInvariant, PTL DEF TypeInv

-----------------------------------------------------------------------------
(* Isolation.  A tenant id belongs to the username it was generated for;   *)
(* every account, row, request and call still under way respects that.     *)

AccountsIssued == \A x \in users : issued[x.home] = x.username

RowsIssued == \A r \in tenants : issued[r.tenant_id] = r.username

RequestsIssued ==
  \A h \in Handlers :
    /\ req[h].pc # "idle" => issued[req[h].tenant_id] = req[h].username
    /\ req[h].pc = "put_user" => issued[req[h].home] = req[h].username

CallsIssued == \A w \in stray : w.method # "DELETE" => issued[w.account.home] = w.account.username

Issuance == AccountsIssued /\ RowsIssued /\ RequestsIssued /\ CallsIssued

LEMMA IssuanceInit == Init => Issuance
BY DEF Init, Issuance, AccountsIssued, RowsIssued, RequestsIssued, CallsIssued, NoRequest

LEMMA WireIssued ==
  ASSUME TypeInv, Issuance, NEW h \in Handlers, req[h].pc \in WritePCs,
         Wire(h).method # "DELETE"
  PROVE  issued[Wire(h).account.home] = Wire(h).account.username
<1>1. req[h].pc \in {"create_user", "put_user"}
  BY DEF Wire, Method
<1>2. issued[req[h].home] = req[h].username
  BY <1>1 DEF TypeInv, RequestsReady, CreatePCs, Issuance, RequestsIssued
<1> QED
  BY <1>2 DEF Wire

LEMMA ServedIssued ==
  ASSUME AccountsIssued, NEW w \in Calls,
         w.method # "DELETE" => issued[w.account.home] = w.account.username
  PROVE  \A x \in Served(w) : issued[x.home] = x.username
<1>1. w.method \in {"POST", "PUT", "DELETE"}
  BY DEF Calls
<1> QED
  BY <1>1 DEF Served, Named, AccountsIssued

\* What the requests hold of a tenant changes only when it is resolved or read.
LEMMA RequestsStayIssued ==
  ASSUME TypeInv, Issuance, UNCHANGED issued, NEW h \in Handlers, req[h].pc # "idle",
         NEW pc \in {"rollback", "insert", "update_row", "delete_row"},
         \/ req' = [req EXCEPT ![h] = NoRequest]
         \/ req' = [req EXCEPT ![h].pc = pc]
         \/ req' = [req EXCEPT ![h].cancelled = TRUE]
         \/ req' = [req EXCEPT ![h].pc = pc, ![h].cancelled = TRUE]
  PROVE  RequestsIssued'
BY DEF TypeInv, TypeOK, Issuance, RequestsIssued, Request, NoRequest

LEMMA SFTPGoCallIssuance ==
  ASSUME TypeInv, Issuance, NEW h \in Handlers, req[h].pc \in WritePCs,
         NEW next \in {"insert", "update_row", "delete_row"},
         SFTPGoCall(h, next)
  PROVE  Issuance'
<1>1. UNCHANGED <<tenants, issued>>
  BY DEF SFTPGoCall
<1>2. Wire(h) \in Calls
  BY WireType
<1>3. Wire(h).method # "DELETE" => issued[Wire(h).account.home] = Wire(h).account.username
  BY WireIssued
<1>4. AccountsIssued'
  <2>1. users' = users \/ users' = Served(Wire(h))
    BY DEF SFTPGoCall
  <2> QED
    BY <1>1, <1>2, <1>3, <2>1, ServedIssued DEF AccountsIssued, Issuance
<1>5. RequestsIssued'
  BY <1>1, RequestsStayIssued DEF SFTPGoCall, Goto, Finish, WritePCs
<1>6. CallsIssued'
  BY <1>1, <1>3 DEF SFTPGoCall, Issuance, CallsIssued
<1> QED
  BY <1>1, <1>4, <1>5, <1>6 DEF Issuance, RowsIssued

\* A fresh id appears nowhere yet, so naming its owner contradicts nothing.
LEMMA StartCreateIssuance ==
  ASSUME TypeInv, Issuance, NEW h \in Handlers, NEW u \in Usernames, NEW k \in Keys,
         NEW t \in TenantIDs, StartCreate(h, u, k, t)
  PROVE  Issuance'
<1>1. /\ issued[t] = None
      /\ issued' = [issued EXCEPT ![t] = u]
      /\ issued \in [TenantIDs -> Usernames \cup {None}]
  BY DEF StartCreate, FreshTenantIDs, TypeInv, TypeOK
<1>2. \A s \in TenantIDs, v \in Usernames : issued[s] = v => issued'[s] = v
  BY <1>1, NoneIsNoValue
<1>3. AccountsIssued'
  BY <1>2 DEF StartCreate, Issuance, AccountsIssued, TypeInv, TypeOK, Account
<1>4. RowsIssued'
  BY <1>2 DEF StartCreate, Issuance, RowsIssued, TypeInv, TypeOK, Row
<1>5. CallsIssued'
  BY <1>2 DEF StartCreate, Issuance, CallsIssued, TypeInv, TypeOK, PayloadsWhole, Calls
<1>6. RequestsIssued'
  <2>1. req' = [req EXCEPT ![h] = [NoRequest EXCEPT !.pc = "create_user",
                  !.tenant_id = t, !.username = u, !.public_key = k,
                  !.home = t, !.status = 1]]
    BY DEF StartCreate
  <2>2. ASSUME NEW g \in Handlers, g # h
        PROVE  /\ req'[g].pc # "idle" => issued'[req'[g].tenant_id] = req'[g].username
               /\ req'[g].pc = "put_user" => issued'[req'[g].home] = req'[g].username
    BY <1>2, <2>1, <2>2 DEF Issuance, RequestsIssued, TypeInv, TypeOK, RequestsReady
  <2>3. /\ issued'[req'[h].tenant_id] = req'[h].username
        /\ issued'[req'[h].home] = req'[h].username
    BY <1>1, <2>1 DEF TypeInv, TypeOK, NoRequest
  <2> QED
    BY <2>2, <2>3 DEF RequestsIssued
<1> QED
  BY <1>3, <1>4, <1>5, <1>6 DEF Issuance

LEMMA ArriveIssuance ==
  ASSUME TypeInv, Issuance, NEW h \in Handlers, Arrive(h)
  PROVE  Issuance'
<1>1. ASSUME NEW row \in tenants, NEW pc \in {"get_user", "delete_user"}, NEW k \in Keys,
             Resolve(h, row, pc, k)
      PROVE  Issuance'
  BY <1>1 DEF Resolve, Issuance, AccountsIssued, RowsIssued, RequestsIssued, CallsIssued,
              TypeInv, TypeOK, NoRequest
<1> QED
  BY <1>1, StartCreateIssuance DEF Arrive, StartUpdate, StartDelete, Keys

LEMMA StepIssuance ==
  ASSUME TypeInv, Issuance, NEW h \in Handlers, Step(h)
  PROVE  Issuance'
<1> USE DEF WritePCs
<1>1. CASE CreateUser(h) \/ PutUser(h) \/ DeleteUser(h)
  BY <1>1, SFTPGoCallIssuance DEF CreateUser, PutUser, DeleteUser
<1>2. CASE InsertTenant(h)
  <2>1. UNCHANGED <<users, stray, issued>>
    BY <1>2 DEF InsertTenant
  <2>2. RowsIssued'
    <3>1. CASE InsertRow(h)
      BY <1>2, <2>1, <3>1 DEF InsertRow, InsertTenant, Issuance, RowsIssued, RequestsIssued
    <3> QED
      BY <1>2, <2>1, <3>1 DEF InsertTenant, Issuance, RowsIssued
  <2>3. RequestsIssued'
    BY <1>2, <2>1, RequestsStayIssued DEF InsertTenant, Goto, Finish
  <2> QED
    BY <2>1, <2>2, <2>3 DEF Issuance, AccountsIssued, CallsIssued
<1>3. CASE RollbackUser(h)
  <2>1. UNCHANGED <<tenants, issued>>
    BY <1>3 DEF RollbackUser
  <2>2. Wire(h) \in Calls /\ Wire(h).method = "DELETE"
    BY <1>3, WireType DEF RollbackUser, Wire, Method
  <2>3. AccountsIssued'
    <3>1. users' = users \/ users' = Served(Wire(h))
      BY <1>3 DEF RollbackUser
    <3> QED
      BY <2>1, <2>2, <3>1, ServedIssued DEF Issuance, AccountsIssued
  <2>4. CallsIssued'
    BY <1>3, <2>1, <2>2 DEF RollbackUser, Issuance, CallsIssued
  <2>5. RequestsIssued'
    BY <1>3, <2>1, RequestsStayIssued DEF RollbackUser, Finish
  <2> QED
    BY <2>1, <2>3, <2>4, <2>5 DEF Issuance, RowsIssued
<1>4. CASE GetUser(h)
  <2>1. UNCHANGED <<tenants, users, stray, issued>>
    BY <1>4 DEF GetUser
  <2>2. RequestsIssued'
    <3>1. CASE req' = [req EXCEPT ![h] = NoRequest]
      BY <1>4, <2>1, <3>1, RequestsStayIssued DEF GetUser
    <3>2. ASSUME NEW x \in Named(users, req[h].username),
                 req' = [req EXCEPT ![h] = WithFieldsOf(req[h], x)]
          PROVE  RequestsIssued'
      <4>1. issued[x.home] = req[h].username
        BY DEF Named, Issuance, AccountsIssued
      <4>2. req[h] \in Request /\ issued[req[h].tenant_id] = req[h].username
        BY <1>4 DEF GetUser, TypeInv, TypeOK, Issuance, RequestsIssued
      <4>3. LET q == WithFieldsOf(req[h], x) IN
              /\ q.home = x.home
              /\ q.username = req[h].username
              /\ q.tenant_id = req[h].tenant_id
        BY <4>2 DEF WithFieldsOf, Request
      <4> QED
        BY <2>1, <3>2, <4>1, <4>2, <4>3 DEF TypeInv, TypeOK, Issuance, RequestsIssued
    <3> QED
      BY <1>4, <3>1, <3>2 DEF GetUser, Finish
  <2> QED
    BY <2>1, <2>2 DEF Issuance, AccountsIssued, RowsIssued, CallsIssued
<1>5. CASE UpdateRow(h) \/ DeleteRow(h)
  <2>1. UNCHANGED <<users, stray, issued>>
    BY <1>5 DEF UpdateRow, DeleteRow
  <2>2. RowsIssued'
    BY <1>5, <2>1 DEF UpdateRow, DeleteRow, WithKey, WithoutRow, Issuance, RowsIssued,
                      TypeInv, TypeOK, Row
  <2>3. RequestsIssued'
    BY <1>5, <2>1, RequestsStayIssued DEF UpdateRow, DeleteRow, Finish
  <2> QED
    BY <2>1, <2>2, <2>3 DEF Issuance, AccountsIssued, CallsIssued
<1> QED
  BY <1>1, <1>2, <1>3, <1>4, <1>5 DEF Step

LEMMA EnvironmentIssuance ==
  ASSUME TypeInv, Issuance, Environment
  PROVE  Issuance'
<1>1. ASSUME NEW h \in Handlers, Disconnect(h) PROVE Issuance'
  BY <1>1, RequestsStayIssued
     DEF Disconnect, Issuance, AccountsIssued, RowsIssued, CallsIssued
<1>2. CASE Crash
  <2>1. PICK S \in SUBSET OnTheWire : stray' = stray \cup {Wire(h) : h \in S}
    BY <1>2 DEF Crash
  <2>2. UNCHANGED <<tenants, users, issued>> /\ req' = [h \in Handlers |-> NoRequest]
    BY <1>2 DEF Crash
  <2>3. CallsIssued'
    <3>1. ASSUME NEW w \in stray', w.method # "DELETE"
          PROVE  issued[w.account.home] = w.account.username
      <4>1. CASE w \in stray
        BY <3>1, <4>1 DEF Issuance, CallsIssued
      <4>2. CASE \E h \in S : w = Wire(h)
        BY <3>1, <4>2, WireIssued DEF OnTheWire
      <4> QED
        BY <2>1, <4>1, <4>2
    <3> QED
      BY <2>2, <3>1 DEF CallsIssued
  <2>4. RequestsIssued'
    BY <2>2 DEF RequestsIssued, NoRequest
  <2> QED
    BY <2>2, <2>3, <2>4 DEF Issuance, AccountsIssued, RowsIssued
<1>3. ASSUME NEW w \in stray, DeliverStray(w) PROVE Issuance'
  <2>1. AccountsIssued'
    BY <1>3, ServedIssued
       DEF DeliverStray, Issuance, AccountsIssued, CallsIssued, TypeInv, TypeOK
  <2> QED
    BY <1>3, <2>1 DEF DeliverStray, Issuance, RowsIssued, RequestsIssued, CallsIssued
<1>4. ASSUME NEW x \in users, DisableUser(x) PROVE Issuance'
  <2>1. AccountsIssued'
    BY <1>4 DEF DisableUser, Issuance, AccountsIssued, TypeInv, TypeOK, Account
  <2> QED
    BY <1>4, <2>1 DEF DisableUser, Issuance, RowsIssued, RequestsIssued, CallsIssued
<1> QED
  BY <1>1, <1>2, <1>3, <1>4 DEF Environment

LEMMA IssuanceNext == TypeInv /\ Issuance /\ [Next]_vars => Issuance'
<1>1. CASE UNCHANGED vars
  BY <1>1 DEF vars, Issuance, AccountsIssued, RowsIssued, RequestsIssued, CallsIssued
<1> QED
  BY <1>1, ArriveIssuance, StepIssuance, EnvironmentIssuance DEF Next

LEMMA IssuanceInvariant == Spec => []Issuance
BY TypeInvariant, IssuanceInit, IssuanceNext, PTL DEF Spec

\* No interleaving, lost call, crash or impatient client ever makes two
\* usernames share a home directory or a key prefix.
THEOREM Isolation == Spec => []PrefixIsolation
<1>1. Issuance => PrefixIsolation
  BY DEF Issuance, AccountsIssued, RowsIssued, PrefixIsolation, Prefixes, Named
<1> QED
  BY <1>1, IssuanceInvariant, PTL
=============================================================================
