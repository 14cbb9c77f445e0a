---------------------------- MODULE StartupProofs ----------------------------
(***************************************************************************)
(* However many processes migrate however many databases at the same time, *)
(* one that serves has the whole schema, and none fails on account of the  *)
(* others.                                                                 *)
(***************************************************************************)
EXTENDS Startup, TLAPS

\* The tables and columns that process p has dealt with are there.
Migrated(p) ==
  LET s == schema[Database(p)] IN
  /\ proc[p].pc = "create" =>
       \A i \in DOMAIN Tables : i < proc[p].next => Base(Tables[i]) \in s
  /\ proc[p].pc \in {"inspect", "alter", "listen", "serving"} =>
       \A i \in DOMAIN Tables : Base(Tables[i]) \in s
  /\ proc[p].pc \in {"inspect", "alter"} =>
       \A i \in DOMAIN Later : i < proc[p].next => Added(i) \in s
  /\ proc[p].pc \in {"listen", "serving"} => \A i \in DOMAIN Later : Added(i) \in s

\* Only a process with a valid configuration gets past its start, and only one
\* that serves has the object store.
Configured(p) ==
  /\ proc[p].pc # "down" => Valid(Load(p))
  /\ proc[p].uploads => proc[p].pc = "serving" /\ OpensStore(Load(p))

StartInv == TypeOK /\ \A p \in Processes : Migrated(p) /\ Configured(p)

-----------------------------------------------------------------------------
(* Tables and columns. *)

LEMMA Steps ==
  /\ DOMAIN Tables = 1..3 /\ DOMAIN Later = 1..2
  /\ Len(Tables) = 3 /\ Len(Later) = 2
BY DEF Tables, Later

LEMMA Parts ==
  /\ \A t : Declared(t) \subseteq Current
  /\ \A i \in DOMAIN Tables : Base(Tables[i]) \in Declared(Tables[i])
  /\ \A i \in DOMAIN Later : Added(i) \in Current /\ Added(i)[1] = Later[i].table
BY DEF Declared, Current, Base, Added

\* Only API keys have a column that cannot be added.
LEMMA NotAddable ==
  \A i \in DOMAIN Later : ~Later[i].addable => Added(i) = <<"api_keys", "key_hash">>
<1> SUFFICES ASSUME NEW i \in DOMAIN Later, ~Later[i].addable
             PROVE  Added(i) = <<"api_keys", "key_hash">>
  OBVIOUS
<1>1. i = 1 \/ i = 2
  BY Steps
<1>2. i # 2
  BY DEF Later
<1> QED
  BY <1>1, <1>2 DEF Later, Added

\* What a version has stays a version with a table or a column more.
LEMMA TableAdded ==
  ASSUME NEW s \in Version, NEW i \in DOMAIN Tables
  PROVE  s \cup Declared(Tables[i]) \in Version
<1>1. s \cup Declared(Tables[i]) \subseteq Current
  BY Parts DEF Version
<1>2. ASSUME NEW j \in DOMAIN Later, Added(j) \in s \cup Declared(Tables[i])
      PROVE  Base(Later[j].table) \in s \cup Declared(Tables[i])
  <2>1. CASE Added(j) \in s
    BY <2>1 DEF Version
  <2>2. CASE Added(j) \in Declared(Tables[i])
    <3>1. Later[j].table = Tables[i]
      BY <2>2, Parts DEF Declared
    <3> QED
      BY <3>1, Parts
  <2> QED
    BY <1>2, <2>1, <2>2
<1> QED
  BY <1>1, <1>2 DEF Version

LEMMA ColumnAdded ==
  ASSUME NEW s \in Version, NEW i \in DOMAIN Later,
         \A j \in DOMAIN Tables : Base(Tables[j]) \in s
  PROVE  s \cup {Added(i)} \in Version
<1>1. \A j \in DOMAIN Later : \E n \in DOMAIN Tables : Later[j].table = Tables[n]
  BY Steps DEF Later, Tables
<1>2. \A j \in DOMAIN Later : Base(Later[j].table) \in s
  BY <1>1
<1> QED
  BY <1>2, Parts DEF Version

-----------------------------------------------------------------------------
(* The invariant. *)

LEMMA StartInvInit == Init => StartInv
<1> SUFFICES ASSUME Init PROVE StartInv
  OBVIOUS
<1>1. \A p \in Processes : proc[p] = Down
  BY DEF Init
<1>2. Down \in Process
  BY DEF Down, Process
<1>3. TypeOK
  BY <1>1, <1>2, BudgetAssumption DEF Init, TypeOK, Down
<1> QED
  BY <1>1, <1>3 DEF StartInv, Migrated, Configured, Down

\* What a step of p has to show.  Databases only grow, so that the other
\* processes keep what they have.
LEMMA StepOf ==
  ASSUME StartInv, NEW p \in Processes,
         schema' \in [Databases -> Version],
         \A d \in Databases : schema[d] \subseteq schema'[d],
         NEW x \in Process, proc' = [proc EXCEPT ![p] = x],
         x.pc = "create" => x.next \in DOMAIN Tables,
         x.pc \in {"inspect", "alter"} => x.next \in DOMAIN Later,
         budget' \in [Perturbations -> Nat],
         Migrated(p)', Configured(p)'
  PROVE  StartInv'
<1>1. proc' \in [Processes -> Process] /\ proc'[p] = x
  BY DEF StartInv, TypeOK
<1>2. \A q \in Processes : q # p => proc'[q] = proc[q]
  BY DEF StartInv, TypeOK
<1>3. TypeOK'
  BY <1>1, <1>2 DEF StartInv, TypeOK
<1>4. ASSUME NEW q \in Processes, q # p PROVE Migrated(q)' /\ Configured(q)'
  <2>1. schema[Database(q)] \subseteq schema'[Database(q)]
    BY DatabasesAssumption
  <2>2. Migrated(q) /\ Configured(q)
    BY DEF StartInv
  <2>3. Migrated(q)'
    BY <1>2, <1>4, <2>1, <2>2 DEF Migrated, Database, Load
  <2> QED
    BY <1>2, <1>4, <2>2, <2>3 DEF Configured, Load
<1> QED
  BY <1>3, <1>4 DEF StartInv

LEMMA Spent ==
  ASSUME StartInv, NEW x \in Perturbations, Spend(x)
  PROVE  budget' \in [Perturbations -> Nat] /\ budget' # budget
BY DEF StartInv, TypeOK, Spend

LEMMA StartKeeps ==
  ASSUME StartInv, NEW p \in Processes, Start(p)
  PROVE  StartInv'
<1> DEFINE x == [proc[p] EXCEPT !.pc = "create", !.next = 1]
<1>1. proc[p] \in Process /\ proc[p].uploads = FALSE
  BY DEF StartInv, TypeOK, Configured, Process, Start
<1>2. x \in Process /\ x.pc = "create" /\ x.next = 1 /\ x.uploads = FALSE
  BY <1>1 DEF Process
<1>3. proc' = [proc EXCEPT ![p] = x] /\ proc'[p] = x
  BY DEF Start, Goto, StartInv, TypeOK
<1> HIDE DEF x
<1>4. Migrated(p)'
  BY <1>2, <1>3, Steps DEF Migrated
<1>5. Configured(p)'
  BY <1>2, <1>3 DEF Configured, Start, Load
<1>6. /\ schema' \in [Databases -> Version] /\ budget' \in [Perturbations -> Nat]
      /\ \A d \in Databases : schema[d] \subseteq schema'[d]
  BY DEF Start, StartInv, TypeOK
<1>7. 1 \in DOMAIN Tables
  BY Steps
<1> QED
  BY <1>2, <1>3, <1>4, <1>5, <1>6, <1>7, StepOf

LEMMA ExitKeeps ==
  ASSUME StartInv, NEW p \in Processes, Exit(p), UNCHANGED schema,
         budget' \in [Perturbations -> Nat]
  PROVE  StartInv'
<1>1. Down \in Process /\ proc'[p] = Down
  BY DEF Down, Process, Exit, StartInv, TypeOK
<1>2. Migrated(p)' /\ Configured(p)'
  BY <1>1 DEF Migrated, Configured, Down
<1> QED
  BY <1>1, <1>2, StepOf DEF Down, Exit, StartInv, TypeOK

\* A step that leads to the statement pc for the table or column n.
LEMMA GotoKeeps ==
  ASSUME StartInv, NEW p \in Processes, NEW n \in Nat,
         NEW pc \in {"create", "inspect", "alter", "listen"}, Goto(p, pc, n),
         proc[p].pc \notin {"down", "serving"},
         schema' \in [Databases -> Version],
         \A d \in Databases : schema[d] \subseteq schema'[d],
         UNCHANGED budget,
         pc = "create" =>
           /\ n \in DOMAIN Tables
           /\ \A i \in DOMAIN Tables : i < n => Base(Tables[i]) \in schema'[Database(p)],
         pc # "create" => \A i \in DOMAIN Tables : Base(Tables[i]) \in schema'[Database(p)],
         pc \in {"inspect", "alter"} =>
           /\ n \in DOMAIN Later
           /\ \A i \in DOMAIN Later : i < n => Added(i) \in schema'[Database(p)],
         pc = "listen" => \A i \in DOMAIN Later : Added(i) \in schema'[Database(p)]
  PROVE  StartInv'
<1>1. PICK x : x = [proc[p] EXCEPT !.pc = pc, !.next = n]
  OBVIOUS
<1>2. proc[p] \in Process /\ Configured(p)
  BY DEF StartInv, TypeOK
<1>3. x \in Process /\ x.pc = pc /\ x.next = n /\ x.uploads = FALSE
  BY <1>1, <1>2 DEF Process, Configured
<1>4. proc' = [proc EXCEPT ![p] = x] /\ proc'[p] = x
  BY <1>1 DEF Goto, StartInv, TypeOK
<1>5. Migrated(p)'
  BY <1>3, <1>4 DEF Migrated, Database, Load
<1>6. Configured(p)'
  BY <1>2, <1>3, <1>4 DEF Configured, Load
<1> QED
  BY <1>3, <1>4, <1>5, <1>6, StepOf DEF StartInv, TypeOK

LEMMA CreateTableKeeps ==
  ASSUME StartInv, NEW p \in Processes, CreateTable(p)
  PROVE  StartInv'
<1>1. PICK i : i = proc[p].next
  OBVIOUS
<1>2. PICK s : s = schema[Database(p)]
  OBVIOUS
<1>3. /\ i \in DOMAIN Tables /\ i \in Nat /\ s \in Version
      /\ Database(p) \in Databases
      /\ \A j \in DOMAIN Tables : j < i => Base(Tables[j]) \in s
  BY <1>1, <1>2, DatabasesAssumption, Steps
     DEF CreateTable, StartInv, TypeOK, Migrated
<1>4. PICK t : t = IF Base(Tables[i]) \in s THEN s ELSE s \cup Declared(Tables[i])
  OBVIOUS
<1>5. t \in Version /\ s \subseteq t /\ Base(Tables[i]) \in t
  BY <1>3, <1>4, TableAdded, Parts
<1>6. schema' = [schema EXCEPT ![Database(p)] = t]
  BY <1>1, <1>2, <1>4 DEF CreateTable, StartInv, TypeOK
<1>7. /\ schema' \in [Databases -> Version] /\ schema'[Database(p)] = t
      /\ \A d \in Databases : schema[d] \subseteq schema'[d]
  BY <1>2, <1>3, <1>5, <1>6 DEF StartInv, TypeOK
<1>8. proc[p].pc \notin {"down", "serving"} /\ UNCHANGED budget
  BY DEF CreateTable
<1>9. CASE i < Len(Tables)
  <2>1. Goto(p, "create", i + 1)
    BY <1>1, <1>9 DEF CreateTable
  <2>2. \A j \in DOMAIN Tables : j < i + 1 => Base(Tables[j]) \in t
    BY <1>3, <1>5, Steps
  <2>3. i + 1 \in Nat /\ i + 1 \in DOMAIN Tables
    BY <1>3, <1>9, Steps
  <2> QED
    BY <1>7, <1>8, <2>1, <2>2, <2>3, GotoKeeps
<1>10. CASE ~(i < Len(Tables))
  <2>1. Goto(p, "inspect", 1)
    BY <1>1, <1>10 DEF CreateTable
  <2>2. \A j \in DOMAIN Tables : Base(Tables[j]) \in t
    BY <1>3, <1>5, <1>10, Steps
  <2> QED
    <3>1. 1 \in DOMAIN Later /\ \A j \in DOMAIN Later : ~(j < 1)
      BY Steps
    <3> QED
      BY <1>7, <1>8, <2>1, <2>2, <3>1, GotoKeeps
<1> QED
  BY <1>9, <1>10

\* The column that p was looking for is there.
LEMMA ProceedKeeps ==
  ASSUME StartInv, NEW p \in Processes, NEW i \in DOMAIN Later, i = proc[p].next,
         proc[p].pc \in {"inspect", "alter"}, Proceed(p, i),
         schema' \in [Databases -> Version],
         \A d \in Databases : schema[d] \subseteq schema'[d],
         UNCHANGED budget, Added(i) \in schema'[Database(p)]
  PROVE  StartInv'
<1>1. PICK t : t = schema'[Database(p)]
  OBVIOUS
<1>2. schema[Database(p)] \subseteq t
  BY <1>1, DatabasesAssumption
<1>3. /\ \A j \in DOMAIN Tables : Base(Tables[j]) \in t
      /\ \A j \in DOMAIN Later : j < i + 1 => Added(j) \in t
  BY <1>1, <1>2, Steps DEF StartInv, Migrated
<1>4. CASE i < Len(Later)
  BY <1>1, <1>3, <1>4, Steps, GotoKeeps DEF Proceed
<1>5. CASE ~(i < Len(Later))
  <2>1. \A j \in DOMAIN Later : Added(j) \in t
    BY <1>3, <1>5, Steps
  <2> QED
    BY <1>1, <1>3, <1>5, <2>1, GotoKeeps DEF Proceed
<1> QED
  BY <1>4, <1>5

\* Where a process looks for a column.
LEMMA AtColumn ==
  ASSUME StartInv, NEW p \in Processes, proc[p].pc \in {"inspect", "alter"}
  PROVE  /\ proc[p].next \in DOMAIN Later /\ proc[p].next \in Nat
         /\ Database(p) \in Databases /\ schema[Database(p)] \in Version
         /\ \A i \in DOMAIN Tables : Base(Tables[i]) \in schema[Database(p)]
BY DatabasesAssumption, Steps DEF StartInv, TypeOK, Migrated

LEMMA InspectKeeps ==
  ASSUME StartInv, NEW p \in Processes, Inspect(p)
  PROVE  StartInv'
<1>1. PICK i : i = proc[p].next
  OBVIOUS
<1>2. proc[p].pc \in {"inspect", "alter"} /\ i \in DOMAIN Later /\ i \in Nat
  BY <1>1, AtColumn DEF Inspect
<1>3. schema' \in [Databases -> Version] /\ \A d \in Databases : schema[d] \subseteq schema'[d]
  BY DEF Inspect, StartInv, TypeOK
<1>4. CASE Added(i) \in schema[Database(p)]
  BY <1>1, <1>2, <1>3, <1>4, ProceedKeeps DEF Inspect
<1>5. CASE Added(i) \notin schema[Database(p)]
  <2>1. Goto(p, "alter", i) /\ UNCHANGED <<schema, budget>>
    BY <1>1, <1>5 DEF Inspect
  <2>2. /\ \A j \in DOMAIN Tables : Base(Tables[j]) \in schema[Database(p)]
        /\ \A j \in DOMAIN Later : j < i => Added(j) \in schema[Database(p)]
    BY <1>1, <1>2, AtColumn DEF StartInv, Migrated
  <2> QED
    BY <1>2, <1>3, <2>1, <2>2, GotoKeeps
<1> QED
  BY <1>4, <1>5

LEMMA AddColumnKeeps ==
  ASSUME StartInv, NEW p \in Processes, AddColumn(p)
  PROVE  StartInv'
<1>1. PICK i : i = proc[p].next
  OBVIOUS
<1>2. /\ proc[p].pc \in {"inspect", "alter"} /\ i \in DOMAIN Later /\ i \in Nat
      /\ Database(p) \in Databases /\ schema[Database(p)] \in Version
      /\ \A j \in DOMAIN Tables : Base(Tables[j]) \in schema[Database(p)]
  BY <1>1, AtColumn DEF AddColumn
<1>3. CASE /\ schema' = [schema EXCEPT ![Database(p)] = @ \cup {Added(i)}]
           /\ Proceed(p, i)
  <2>1. schema[Database(p)] \cup {Added(i)} \in Version
    BY <1>2, ColumnAdded
  <2>2. /\ schema' \in [Databases -> Version]
        /\ \A d \in Databases : schema[d] \subseteq schema'[d]
        /\ Added(i) \in schema'[Database(p)]
    BY <1>2, <1>3, <2>1 DEF StartInv, TypeOK
  <2> QED
    BY <1>1, <1>2, <1>3, <2>2, ProceedKeeps DEF AddColumn
<1>4. CASE Added(i) \in schema[Database(p)] /\ Proceed(p, i) /\ UNCHANGED schema
  BY <1>1, <1>2, <1>4, ProceedKeeps DEF AddColumn, StartInv, TypeOK
<1>5. CASE Exit(p) /\ UNCHANGED schema
  BY <1>5, ExitKeeps DEF AddColumn, StartInv, TypeOK
<1> QED
  BY <1>1, <1>3, <1>4, <1>5 DEF AddColumn

LEMMA ListenKeeps ==
  ASSUME StartInv, NEW p \in Processes, Listen(p)
  PROVE  StartInv'
<1>1. CASE Exit(p)
  BY <1>1, ExitKeeps DEF Listen, StartInv, TypeOK
<1>2. CASE proc' = [proc EXCEPT ![p].pc = "serving", ![p].uploads = OpensStore(Load(p))]
  <2>1. PICK x : x = [proc[p] EXCEPT !.pc = "serving", !.uploads = OpensStore(Load(p))]
    OBVIOUS
  <2>2. proc[p] \in Process /\ OpensStore(Load(p)) \in BOOLEAN
    BY DEF StartInv, TypeOK, OpensStore
  <2>3. x \in Process /\ x.pc = "serving" /\ (x.uploads => OpensStore(Load(p)))
    BY <2>1, <2>2 DEF Process
  <2>4. proc' = [proc EXCEPT ![p] = x] /\ proc'[p] = x
    BY <1>2, <2>1 DEF StartInv, TypeOK
  <2>5. Migrated(p)'
    BY <2>3, <2>4 DEF Migrated, Listen, StartInv, Database, Load
  <2>6. Configured(p)'
    BY <2>3, <2>4 DEF Configured, Listen, StartInv, Load, OpensStore
  <2> QED
    BY <2>3, <2>4, <2>5, <2>6, StepOf DEF Listen, StartInv, TypeOK
<1> QED
  BY <1>1, <1>2 DEF Listen

LEMMA StartInvNext == StartInv /\ [Next]_vars => StartInv'
<1> SUFFICES ASSUME StartInv, [Next]_vars PROVE StartInv'
  OBVIOUS
<1>1. ASSUME NEW p \in Processes, Fail(p) \/ Stop(p) PROVE StartInv'
  BY <1>1, Spent, ExitKeeps DEF Fail, Stop, Perturbations
<1>2. CASE UNCHANGED vars
  BY <1>2 DEF vars, StartInv, TypeOK, Migrated, Configured, Database, Load, OpensStore
<1> QED
  BY <1>1, <1>2, StartKeeps, CreateTableKeeps, InspectKeeps, AddColumnKeeps, ListenKeeps
     DEF Next, Step

LEMMA StartInvariant == Spec => []StartInv
BY StartInvInit, StartInvNext, PTL DEF Spec

-----------------------------------------------------------------------------
(* The properties. *)

\* Every reachable state of any number of starting processes is well typed.
THEOREM TypeCorrect == Spec => []TypeOK
<1>1. StartInv => TypeOK
  BY DEF StartInv
<1> QED
  BY <1>1, StartInvariant, PTL

\* A process serves with the schema its statements need and the credentials its
\* calls need, whoever else migrated, stopped or failed on the same file.
THEOREM Complete == Spec => []ServesCompletely
<1>1. StartInv => ServesCompletely
  <2> SUFFICES ASSUME StartInv, NEW p \in Processes, proc[p].pc = "serving"
               PROVE  /\ schema[Database(p)] = Current
                      /\ Load(p)["SFTPGO_ADMIN_USER"] # None
                      /\ Load(p)["SFTPGO_ADMIN_PASS"] # None
                      /\ proc[p].uploads =>
                           Load(p)["S3_ACCESS_KEY"] # None /\ Load(p)["S3_SECRET_KEY"] # None
    BY DEF ServesCompletely
  <2>1. Current \subseteq schema[Database(p)]
    BY DEF StartInv, Migrated, Current
  <2>2. schema[Database(p)] \subseteq Current
    BY DatabasesAssumption DEF StartInv, TypeOK, Version
  <2> QED
    BY <2>1, <2>2 DEF StartInv, Configured, Valid, OpensStore
<1> QED
  BY <1>1, StartInvariant, PTL

\* Processes that start at the same time never make each other fail.
THEOREM NoStartFailsAnother == Spec => StartsFailForAReason
<1>1. ASSUME StartInv, [Next]_vars, NEW p \in Processes,
             proc[p].pc # "down", proc'[p].pc = "down"
      PROVE  budget' # budget \/ Occupied(p) \/ KeysWithoutHash(Database(p))
  <2>1. \A q \in Processes : \A pc, n : Goto(q, pc, n) /\ pc # "down" => q # p
    BY <1>1 DEF Goto, StartInv, TypeOK, Process
  <2>2. \A q \in Processes : Exit(q) => q = p
    BY <1>1 DEF Exit, StartInv, TypeOK
  <2>3. ASSUME NEW q \in Processes, Fail(q) \/ Stop(q) PROVE budget' # budget
    BY <1>1, <2>3, Spent DEF Fail, Stop, Perturbations
  <2>4. ASSUME NEW q \in Processes, Listen(q) PROVE Occupied(p)
    <3>1. q = p
      BY <1>1, <2>4 DEF Listen, Exit, StartInv, TypeOK
    <3>2. ~(proc' = [proc EXCEPT ![p].pc = "serving", ![p].uploads = OpensStore(Load(p))])
      BY <1>1 DEF StartInv, TypeOK, Process
    <3> QED
      BY <2>4, <3>1, <3>2 DEF Listen
  <2>5. ASSUME NEW q \in Processes, AddColumn(q) PROVE KeysWithoutHash(Database(p))
    <3>1. q = p
      BY <1>1, <2>2, <2>5 DEF AddColumn, Proceed, Goto, StartInv, TypeOK
    <3>2. PICK i : i = proc[p].next
      OBVIOUS
    <3>3. ~Proceed(p, i)
      BY <1>1, <2>1 DEF Proceed
    <3>4. Added(i) \notin schema[Database(p)] /\ ~Later[i].addable
      BY <2>5, <3>1, <3>2, <3>3 DEF AddColumn
    <3>5. i \in DOMAIN Later /\ \A j \in DOMAIN Tables : Base(Tables[j]) \in schema[Database(p)]
      BY <1>1, <2>5, <3>1, <3>2, AtColumn DEF AddColumn
    <3>6. Tables[1] = "api_keys" /\ 1 \in DOMAIN Tables
      BY DEF Tables
    <3> QED
      BY <3>4, <3>5, <3>6, NotAddable DEF KeysWithoutHash
  <2>6. ASSUME NEW q \in Processes, Start(q) \/ CreateTable(q) \/ Inspect(q) PROVE FALSE
    <3>1. \E pc \in {"create", "inspect", "alter", "listen"} : \E n : Goto(q, pc, n)
      BY <2>6 DEF Start, CreateTable, Inspect, Proceed
    <3>2. q # p
      BY <2>1, <3>1
    <3> QED
      BY <1>1, <3>1, <3>2 DEF Goto, StartInv, TypeOK
  <2>7. proc' # proc
    BY <1>1
  <2> QED
    BY <1>1, <2>3, <2>4, <2>5, <2>6, <2>7 DEF Next, Step, vars
<1>2. StartInv /\ [Next]_vars =>
        [\A p \in Processes :
           proc[p].pc # "down" /\ proc'[p].pc = "down"
             => budget' # budget \/ Occupied(p) \/ KeysWithoutHash(Database(p))]_vars
  BY <1>1
<1> QED
  BY <1>2, StartInvariant, PTL DEF Spec, StartsFailForAReason
=============================================================================
