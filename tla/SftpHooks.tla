------------------------------ MODULE SftpHooks ------------------------------
(***************************************************************************)
(* The two hooks through which SFTPGo calls the manager: one admits a      *)
(* login and tells SFTPGo where the files of the session are kept, the     *)
(* other is called after an upload and reads the CSV file into the table   *)
(* "records".  In between a session writes files into the object store.    *)
(* An upload is ingested row by row, each row a statement of its own, and  *)
(* it is resolved by username although files and records are kept by       *)
(* tenant id.  The object store is configured; of a tenant's files the     *)
(* model follows the one CSV path.                                         *)
(***************************************************************************)
EXTENDS Naturals, Sequences

CONSTANTS
  Handlers,    \* goroutines that serve the hooks
  Usernames, TenantIDs,
  PublicKeys,  \* lines of an authorized_keys file
  KeyOf,       \* KeyOf[k]: the second field of line k; None if it has none
  Passwords,   \* non-empty passwords; the table holds their bcrypt hashes
  PasswordOf,  \* PasswordOf[t]: what the row of tenant id t is written with; None
               \* in a row from before password hashes existed
  RecordKeys, Values,  \* of a row of a CSV file; a value is all of its other columns
  Files,       \* the contents an upload may have
  Bad,         \* a line that cannot be read: too few or many fields, no number
  None,        \* no value; as a public key or a password, the empty string
  Budget       \* how often files are stored, announced again, and how often
               \* something fails: a fault, a crash or a lost announcement

Perturbations == {"failures", "resends", "uploads"}

Columns == {"key", "title", "value", "description", "category"}

Line == [key : RecordKeys, value : Values]

Content == [columns : SUBSET Columns, lines : Seq(Line \cup {Bad})]

\* What a login is admitted on: a key without its type and comment, or a password.
Credentials == ({KeyOf[k] : k \in PublicKeys} \cup Passwords) \ {None}

ASSUME NoneAssumption == None \notin Usernames \cup TenantIDs \cup PublicKeys \cup Values \cup Files
ASSUME KeyOfAssumption == PublicKeys \subseteq DOMAIN KeyOf
ASSUME PasswordOfAssumption == PasswordOf \in [TenantIDs -> Passwords \cup {None}]
ASSUME BadAssumption == Bad \notin Line
ASSUME FilesAssumption == Files \subseteq Content
ASSUME BudgetAssumption == Budget \in [Perturbations -> Nat]

VARIABLES
  tenants,   \* the rows of the SQLite table
  records,   \* records[t][k]: the row of tenant id t and record key k
  objects,   \* objects[t]: the file under the key prefix of t
  sessions,  \* the SFTP sessions that SFTPGo has open
  events,    \* usernames of which an upload is still to be announced; of
             \* identical announcements at most one is outstanding
  req,       \* req[h]: the local variables of handler h
  budget,    \* the perturbations left
  owner,     \* history: the username tenant id t was used up for
  held,      \* history: the credentials that the row of t has had
  written,   \* history: every file that was stored, where, and on what credential
  spoiled    \* history: tenants of which an upload failed, got lost or overlapped
             \* with one of another file, and since then none was opened alone

vars == <<tenants, records, objects, sessions, events, req, budget, owner, held, written, spoiled>>

\* What each half of the module leaves alone.
admin == <<tenants, owner, held>>
files == <<objects, sessions, written>>

Table == INSTANCE TenantTable WITH table <- tenants

Session == [username : Usernames, home : TenantIDs, by : Credentials]

\* The program counter names what the handler waits for.
Request == [pc : {"idle", "open", "row"}, home : TenantIDs \cup {None},
            file : Files \cup {None}, next : Nat]

NoRequest == [pc |-> "idle", home |-> None, file |-> None, next |-> 0]

Spend(p) == budget[p] > 0 /\ budget' = [budget EXCEPT ![p] = @ - 1]

Finish(h) == req' = [req EXCEPT ![h] = NoRequest]

Named(u) == {r \in tenants : r.username = u}

Uploading(t) == {h \in Handlers : req[h].pc # "idle" /\ req[h].home = t}

\* Those that have a version of the tenant's file open.
Reading(t) == {h \in Uploading(t) : req[h].pc = "row"}

-----------------------------------------------------------------------------
(* The table "tenants" changes under the hooks, in any way that TenantTable *)
(* allows.  The records of a removed tenant and its files stay behind.      *)

Blob(k) == IF k = None THEN None ELSE KeyOf[k]

CredentialsOf(r) == {Blob(r.public_key), PasswordOf[r.tenant_id]} \ {None}

Administer ==
  /\ Table!Next
  /\ held' = [t \in TenantIDs |->
                held[t] \cup UNION {CredentialsOf(r) : r \in {s \in tenants' : s.tenant_id = t}}]
  /\ UNCHANGED <<files, records, events, req, budget, spoiled>>

-----------------------------------------------------------------------------
(* POST /api/auth/hook. *)

\* Mutation: an empty credential is compared like any other.
MatchedWithEmpty(r, k, p) == ({Blob(k)} \cap {Blob(r.public_key)}) \cup ({p} \cap {PasswordOf[r.tenant_id]})

\* Key type and comment do not count; a row without a key or without a
\* password matches no login on one.
Matched(r, k, p) == (({Blob(k)} \cap {Blob(r.public_key)}) \cup ({p} \cap {PasswordOf[r.tenant_id]})) \ {None}

\* A login that matches nothing is answered 403.  Otherwise SFTPGo opens a
\* session whose files go below the key prefix in the answer, whatever becomes
\* of the tenant.  An answer that is slow delays only what the session does.
Authenticate(u, k, p) ==
  /\ \E r \in Named(u) : \E c \in Matched(r, k, p) :
       sessions' = sessions \cup {[username |-> u, home |-> r.tenant_id, by |-> c]}
  /\ UNCHANGED <<admin, records, objects, events, req, budget, written, spoiled>>

\* SFTPGo stores the file and then announces it by the username of the session.
\* A session may stay open as long as it likes; closing one only takes steps away.
Store(s, f) ==
  /\ Spend("uploads")
  /\ objects' = [objects EXCEPT ![s.home] = f]
  /\ written' = written \cup {[home |-> s.home, by |-> s.by, file |-> f]}
  /\ events' = events \cup {s.username}
  /\ UNCHANGED <<admin, records, sessions, req, spoiled>>

-----------------------------------------------------------------------------
(* POST /api/events/upload. *)

\* Events of other actions and of files that are no .csv are answered 200 and
\* change nothing.  An unknown username is answered 400.
Receive(h, u) ==
  /\ req[h].pc = "idle" /\ u \in events
  /\ events' = events \ {u}
  /\ \/ /\ Named(u) = {}
        /\ UNCHANGED <<req, budget, spoiled>>
     \/ /\ \E r \in Named(u) :
             req' = [req EXCEPT ![h] = [NoRequest EXCEPT !.pc = "open", !.home = r.tenant_id]]
        /\ UNCHANGED <<budget, spoiled>>
     \/ /\ Spend("failures")
        /\ spoiled' = spoiled \cup {r.tenant_id : r \in Named(u)}
        /\ UNCHANGED req
  /\ UNCHANGED <<admin, files, records>>

\* The object store, SQLite or the connection to one of them fails: 400.
Fail(h) ==
  /\ Spend("failures")
  /\ Finish(h)
  /\ spoiled' = spoiled \cup {req[h].home}
  /\ UNCHANGED records

HasRequired(f) == {"key", "title", "value"} \subseteq f.columns

\* GetObject only prepares the request: the file is opened when its header is
\* read, and the rows come from that version.  A missing file, an empty one
\* and one without a required column are answered 400.  Nothing keeps two
\* uploads of a tenant apart; whatever went wrong before, reading the file
\* from its first row makes up for it unless another file is being read.
Open(h) ==
  LET t == req[h].home  f == objects[t] IN
  /\ req[h].pc = "open"
  /\ \/ /\ f # None /\ HasRequired(f)
        /\ req' = [req EXCEPT ![h].pc = "row", ![h].file = f, ![h].next = 1]
        /\ spoiled' = IF \A g \in Reading(t) : req[g].file = f THEN spoiled \ {t}
                      ELSE spoiled \cup {t}
        /\ UNCHANGED <<records, budget>>
     \/ /\ f # None => ~HasRequired(f)
        /\ Finish(h)
        /\ UNCHANGED <<records, budget, spoiled>>
     \/ Fail(h)
  /\ UNCHANGED <<admin, files, events>>

\* Mutation: ON CONFLICT DO NOTHING.
Inserted(rs, t, l) == IF rs[t][l.key] = None THEN [rs EXCEPT ![t][l.key] = l.value] ELSE rs

\* Mutation: UNIQUE(record_key), ON CONFLICT(record_key) DO UPDATE.
UpsertedByKeyAlone(rs, t, l) ==
  [s \in TenantIDs |->
     IF rs[s][l.key] # None \/ (s = t /\ \A q \in TenantIDs : rs[q][l.key] = None)
     THEN [rs[s] EXCEPT ![l.key] = l.value] ELSE rs[s]]

\* INSERT ... ON CONFLICT(tenant_id, record_key) DO UPDATE.
Upserted(rs, t, l) == [rs EXCEPT ![t][l.key] = l.value]

\* A line that cannot be read ends the request with 400; the rows before it stay.
ReadRow(h) ==
  LET ls == req[h].file.lines  i == req[h].next IN
  /\ req[h].pc = "row"
  /\ \/ /\ i \in DOMAIN ls /\ ls[i] # Bad
        /\ records' = Upserted(records, req[h].home, ls[i])
        /\ req' = [req EXCEPT ![h].next = i + 1]
        /\ UNCHANGED <<budget, spoiled>>
     \/ /\ i \in DOMAIN ls => ls[i] = Bad
        /\ Finish(h)
        /\ UNCHANGED <<records, budget, spoiled>>
     \/ Fail(h)
  /\ UNCHANGED <<admin, files, events>>

-----------------------------------------------------------------------------
(* The environment.  The upload runs under a context of its own, so that a  *)
(* hook call that SFTPGo gives up does not stop it.                         *)

\* The process dies or stops; main does not wait for the requests it serves.
Crash ==
  /\ Spend("failures")
  /\ req' = [h \in Handlers |-> NoRequest]
  /\ spoiled' = spoiled \cup {req[h].home : h \in {g \in Handlers : req[g].pc # "idle"}}
  /\ UNCHANGED <<admin, files, records, events>>

\* SFTPGo announces an upload again: the answer was lost, or was an error.
Resend(u) ==
  /\ Spend("resends")
  /\ \E w \in written : owner[w.home] = u
  /\ events' = events \cup {u}
  /\ UNCHANGED <<admin, files, records, req, spoiled>>

Lose(u) ==
  /\ u \in events
  /\ Spend("failures")
  /\ events' = events \ {u}
  /\ spoiled' = spoiled \cup {r.tenant_id : r \in Named(u)}
  /\ UNCHANGED <<admin, files, records, req>>

-----------------------------------------------------------------------------

Init ==
  /\ Table!Init
  /\ sessions = {} /\ events = {} /\ written = {} /\ spoiled = {}
  /\ records = [t \in TenantIDs |-> [k \in RecordKeys |-> None]]
  /\ objects = [t \in TenantIDs |-> None]
  /\ req = [h \in Handlers |-> NoRequest]
  /\ budget = Budget
  /\ held = [t \in TenantIDs |-> {}]

Login ==
  \E u \in Usernames, k \in PublicKeys \cup {None}, p \in Passwords \cup {None} :
    Authenticate(u, k, p)

Ingest(h) == Open(h) \/ ReadRow(h)

Environment ==
  \/ \E s \in sessions, f \in Files : Store(s, f)
  \/ \E u \in Usernames : Resend(u) \/ Lose(u)
  \/ Crash

Next ==
  \/ Administer \/ Login
  \/ \E h \in Handlers : Ingest(h) \/ \E u \in Usernames : Receive(h, u)
  \/ Environment

Spec == Init /\ [][Next]_vars

\* An upload that is being served runs to its end, and an announcement that is
\* not lost arrives.
FairSpec ==
  /\ Spec
  /\ \A h \in Handlers : WF_vars(Ingest(h))
  /\ \A u \in Usernames : SF_vars(\E h \in Handlers : Receive(h, u))

-----------------------------------------------------------------------------
(* Properties. *)

\* Every variable stays within the domain its declaration describes.
TypeOK ==
  /\ tenants \subseteq Table!Row
  /\ records \in [TenantIDs -> [RecordKeys -> Values \cup {None}]]
  /\ objects \in [TenantIDs -> Files \cup {None}]
  /\ sessions \subseteq Session
  /\ events \subseteq Usernames
  /\ req \in [Handlers -> Request]
  /\ budget \in [Perturbations -> Nat]
  /\ owner \in [TenantIDs -> Usernames \cup {None}]
  /\ held \in [TenantIDs -> SUBSET Credentials]
  /\ written \subseteq [home : TenantIDs, by : Credentials, file : Files]
  /\ spoiled \subseteq TenantIDs

\* The lines of a file that its ingestion gets to: those before the first one
\* that cannot be read.
Reached(f, i) ==
  HasRequired(f) /\ i \in DOMAIN f.lines /\ \A j \in 1..i : f.lines[j] # Bad

\* GET /api/tenants/{id}/records: what a client is shown of tenant id t.
Listed(t) ==
  {[key |-> k, value |-> records[t][k]] : k \in {j \in RecordKeys : records[t][j] # None}}

\* README: "Each tenant gets an isolated S3 prefix".  A record of a tenant comes
\* from a file that was uploaded by a session admitted on a credential of that
\* very tenant, and from a line before any bad one, although events name only
\* a username, which may have another tenant by the time they are served.
RecordsAreTheTenantsOwn ==
  \A t \in TenantIDs : \A l \in Listed(t) :
    \E w \in written :
      /\ w.home = t /\ w.by \in held[t]
      /\ \E i \in DOMAIN w.file.lines : Reached(w.file, i) /\ w.file.lines[i] = l

\* The last line for its key that ingesting f gets to.
Final(f, i) ==
  Reached(f, i) /\ \A j \in (i + 1)..Len(f.lines) : Reached(f, j) => f.lines[j].key # f.lines[i].key

Stored(t, f) == \A i \in DOMAIN f.lines : Final(f, i) => f.lines[i] \in Listed(t)

\* README: "uploaded CSV files are automatically parsed into a records table".
\* As soon as no upload of a tenant is announced or being read, its records
\* agree with its present file, whatever files were replaced while they were
\* read, however often the same file was read at the same time, and whatever
\* tenants the username had before.  An upload that fails, gets lost or
\* overlaps with that of another file suspends this, and the next one that is
\* opened restores it.  Of a file with a bad line the records agree with the
\* lines before it.
LatestFileIngested ==
  \A r \in tenants :
    (/\ r.tenant_id \notin spoiled
     /\ r.username \notin events
     /\ Uploading(r.tenant_id) = {}
     /\ objects[r.tenant_id] # None)
    => Stored(r.tenant_id, objects[r.tenant_id])

\* A file that is neither replaced nor spoiled reaches the records of its
\* tenant; so does one that was, once it is opened again.
FilesGetIngested ==
  \A t \in TenantIDs, f \in Files :
    (objects[t] = f) ~>
      \/ objects[t] # f \/ t \in spoiled \/ \A r \in tenants : r.tenant_id # t
      \/ Stored(t, f)
=============================================================================
