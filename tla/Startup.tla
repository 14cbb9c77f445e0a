------------------------------- MODULE Startup -------------------------------
(***************************************************************************)
(* The start of the service: configuration, migration of the database,     *)
(* object store, listener.  Processes may start at the same time on one    *)
(* database file, which may come from an earlier version of the program;   *)
(* they may stop between any two statements and are started again.  Each   *)
(* statement is a transaction of its own, and a missing column is looked   *)
(* for in one statement and added in another.                              *)
(***************************************************************************)
EXTENDS Naturals, Sequences

CONSTANTS
  Processes,
  Environment,  \* Environment[p][v]: value of the variable v for process p
  Fallback,     \* Fallback[v]: what stands for a variable that is unset or empty
  Databases,    \* the values of DB_PATH
  Unusable,     \* the values of S3_ENDPOINT that the MinIO client does not accept
  None,         \* unset or empty
  Budget        \* how often a statement fails or a process is stopped

Names == {"LISTEN_ADDR", "DB_PATH", "SFTPGO_ADMIN_USER", "SFTPGO_ADMIN_PASS",
          "S3_ENDPOINT", "S3_ACCESS_KEY", "S3_SECRET_KEY"}

EnvOr(p, v) == IF Environment[p][v] = None THEN Fallback[v] ELSE Environment[p][v]

\* What a start reads from its environment.
Load(p) == [v \in Names |-> EnvOr(p, v)]

Database(p) == Load(p)["DB_PATH"]

Perturbations == {"failures", "stops"}

ASSUME DatabasesAssumption == \A p \in Processes : Database(p) \in Databases
ASSUME BudgetAssumption == Budget \in [Perturbations -> Nat]

VARIABLES
  schema,  \* schema[d]: the tables of database d with their columns
  proc,    \* proc[p]: where process p is
  budget   \* the perturbations left

vars == <<schema, proc, budget>>

\* A table that is there has the column that stands for those which every
\* version of it has had.
Tables == <<"api_keys", "tenants", "records">>

Always == [api_keys |-> "key", tenants |-> "username", records |-> "record_key"]

\* The columns that were added later, and whether SQLite can add them: it
\* refuses ADD COLUMN with UNIQUE, even to an empty table.
Later == <<[table |-> "api_keys", column |-> "key_hash", addable |-> FALSE],
           [table |-> "tenants", column |-> "password_hash", addable |-> TRUE]>>

Base(t) == <<t, Always[t]>>

Added(i) == <<Later[i].table, Later[i].column>>

Current == {Base(Tables[i]) : i \in DOMAIN Tables} \cup {Added(i) : i \in DOMAIN Later}

\* What CREATE TABLE gives a new table t.
Declared(t) == {c \in Current : c[1] = t}

\* A database starts without a table, or as some version has left it.
Version == {s \in SUBSET Current :
              \A i \in DOMAIN Later : Added(i) \in s => Base(Later[i].table) \in s}

\* The program counter names the statement that comes next.
Process == [pc : {"down", "create", "inspect", "alter", "listen", "serving"},
            next : Nat, uploads : BOOLEAN]

Down == [pc |-> "down", next |-> 0, uploads |-> FALSE]

Goto(p, pc, n) == proc' = [proc EXCEPT ![p].pc = pc, ![p].next = n]

Spend(x) == budget[x] > 0 /\ budget' = [budget EXCEPT ![x] = @ - 1]

\* log.Fatal.
Exit(p) == proc' = [proc EXCEPT ![p] = Down]

-----------------------------------------------------------------------------

Valid(c) ==
  /\ c["SFTPGO_ADMIN_USER"] # None /\ c["SFTPGO_ADMIN_PASS"] # None
  /\ c["S3_ENDPOINT"] # None => c["S3_ACCESS_KEY"] # None /\ c["S3_SECRET_KEY"] # None

\* A start whose configuration is not valid ends before it opens the database.
Start(p) ==
  /\ proc[p].pc = "down"
  /\ Valid(Load(p))
  /\ Goto(p, "create", 1)
  /\ UNCHANGED <<schema, budget>>

\* A statement that fails, or waits for the file's lock for longer than the
\* busy timeout, ends the start.
Fail(p) ==
  /\ proc[p].pc \in {"create", "inspect", "alter"}
  /\ Spend("failures")
  /\ Exit(p)
  /\ UNCHANGED schema

\* Mutation: CREATE TABLE without IF NOT EXISTS.
CreateTableAnew(p) ==
  LET i == proc[p].next  s == schema[Database(p)] IN
  /\ proc[p].pc = "create"
  /\ IF Base(Tables[i]) \in s
     THEN Exit(p) /\ UNCHANGED schema
     ELSE /\ schema' = [schema EXCEPT ![Database(p)] = @ \cup Declared(Tables[i])]
          /\ IF i < Len(Tables) THEN Goto(p, "create", i + 1) ELSE Goto(p, "inspect", 1)
  /\ UNCHANGED budget

\* CREATE TABLE IF NOT EXISTS.
CreateTable(p) ==
  LET i == proc[p].next  s == schema[Database(p)] IN
  /\ proc[p].pc = "create"
  /\ schema' = IF Base(Tables[i]) \in s THEN schema
               ELSE [schema EXCEPT ![Database(p)] = @ \cup Declared(Tables[i])]
  /\ IF i < Len(Tables) THEN Goto(p, "create", i + 1) ELSE Goto(p, "inspect", 1)
  /\ UNCHANGED budget

\* Mutation: one column too many.
ProceedPast(p, i) ==
  IF i <= Len(Later) THEN Goto(p, "inspect", i + 1) ELSE Goto(p, "listen", 0)

\* Column i of Later is there.
Proceed(p, i) ==
  IF i < Len(Later) THEN Goto(p, "inspect", i + 1) ELSE Goto(p, "listen", 0)

\* ensureColumn: PRAGMA table_info.
Inspect(p) ==
  LET i == proc[p].next IN
  /\ proc[p].pc = "inspect"
  /\ IF Added(i) \in schema[Database(p)] THEN Proceed(p, i) ELSE Goto(p, "alter", i)
  /\ UNCHANGED <<schema, budget>>

\* Mutation: the error "duplicate column name" is an error.
AddColumnOnce(p) ==
  LET i == proc[p].next IN
  /\ proc[p].pc = "alter"
  /\ \/ /\ Added(i) \notin schema[Database(p)] /\ Later[i].addable
        /\ schema' = [schema EXCEPT ![Database(p)] = @ \cup {Added(i)}]
        /\ Proceed(p, i)
     \/ /\ Added(i) \in schema[Database(p)] \/ ~Later[i].addable
        /\ Exit(p)
        /\ UNCHANGED schema
  /\ UNCHANGED budget

\* Mutation: every error of ALTER TABLE counts as a duplicate column.
AddColumnOrNot(p) ==
  LET i == proc[p].next IN
  /\ proc[p].pc = "alter"
  /\ schema' = IF Later[i].addable
               THEN [schema EXCEPT ![Database(p)] = @ \cup {Added(i)}] ELSE schema
  /\ Proceed(p, i)
  /\ UNCHANGED budget

\* ensureColumn: ALTER TABLE.  Another process may have added the column since.
AddColumn(p) ==
  LET i == proc[p].next IN
  /\ proc[p].pc = "alter"
  /\ \/ /\ Added(i) \notin schema[Database(p)] /\ Later[i].addable
        /\ schema' = [schema EXCEPT ![Database(p)] = @ \cup {Added(i)}]
        /\ Proceed(p, i)
     \/ /\ Added(i) \in schema[Database(p)]
        /\ Proceed(p, i)
        /\ UNCHANGED schema
     \/ /\ Added(i) \notin schema[Database(p)] /\ ~Later[i].addable
        /\ Exit(p)
        /\ UNCHANGED schema
  /\ UNCHANGED budget

Occupied(p) ==
  \E q \in Processes : proc[q].pc = "serving" /\ Load(q)["LISTEN_ADDR"] = Load(p)["LISTEN_ADDR"]

\* An endpoint the MinIO client does not accept only turns off the processing
\* of uploads: the upload hook then answers 200 and does nothing.
OpensStore(c) == c["S3_ENDPOINT"] \notin {None} \cup Unusable

Listen(p) ==
  /\ proc[p].pc = "listen"
  /\ \/ /\ ~Occupied(p)
        /\ proc' = [proc EXCEPT ![p].pc = "serving", ![p].uploads = OpensStore(Load(p))]
     \/ Occupied(p) /\ Exit(p)
  /\ UNCHANGED <<schema, budget>>

\* A signal, or the machine.
Stop(p) ==
  /\ proc[p].pc # "down"
  /\ Spend("stops")
  /\ Exit(p)
  /\ UNCHANGED schema

-----------------------------------------------------------------------------

Init ==
  /\ schema \in [Databases -> Version]
  /\ proc = [p \in Processes |-> Down]
  /\ budget = Budget

Step(p) == CreateTable(p) \/ Inspect(p) \/ AddColumn(p) \/ Listen(p)

Next == \E p \in Processes : Start(p) \/ Step(p) \/ Fail(p) \/ Stop(p)

Spec == Init /\ [][Next]_vars

\* Whoever runs the service starts it again, and a process that may run does.
FairSpec == Spec /\ \A p \in Processes : WF_vars(Start(p)) /\ WF_vars(Step(p))

-----------------------------------------------------------------------------
(* Properties. *)

\* Every variable stays within the domain its declaration describes, and no
\* step looks for a table or a column beyond the last.
TypeOK ==
  /\ schema \in [Databases -> Version]
  /\ proc \in [Processes -> Process]
  /\ \A p \in Processes :
       /\ proc[p].pc = "create" => proc[p].next \in DOMAIN Tables
       /\ proc[p].pc \in {"inspect", "alter"} => proc[p].next \in DOMAIN Later
  /\ budget \in [Perturbations -> Nat]

\* The statements of the other operations name columns that are there: whatever
\* processes migrated the database at the same time, stopped half way or met an
\* earlier version, one that serves has the whole schema.  It has the admin
\* credentials too, and those of the object store if it processes uploads.
ServesCompletely ==
  \A p \in Processes : proc[p].pc = "serving" =>
    /\ schema[Database(p)] = Current
    /\ Load(p)["SFTPGO_ADMIN_USER"] # None /\ Load(p)["SFTPGO_ADMIN_PASS"] # None
    /\ proc[p].uploads => Load(p)["S3_ACCESS_KEY"] # None /\ Load(p)["S3_SECRET_KEY"] # None

\* The API keys were stored before they were hashed.  No start adds the column.
KeysWithoutHash(d) == Base("api_keys") \in schema[d] /\ <<"api_keys", "key_hash">> \notin schema[d]

\* Starts do not make one another fail: one that exits was stopped, had a
\* statement fail, found its port taken, or has a database it cannot migrate.
StartsFailForAReason ==
  [][\A p \in Processes :
       proc[p].pc # "down" /\ proc'[p].pc = "down"
         => budget' # budget \/ Occupied(p) \/ KeysWithoutHash(Database(p))]_vars

\* From any version of its database that can be migrated, and from any state
\* that stopped or failed starts have left it in, a process with a valid
\* configuration ends up serving, or another one does at its address.
ComesUp ==
  \A p \in Processes :
    Valid(Load(p)) => <>[](Occupied(p) \/ KeysWithoutHash(Database(p)))
=============================================================================
