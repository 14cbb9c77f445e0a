# Verification of SFTPGo Manager

TLA+ models of SFTPGo Manager, TLC configurations that check them on small
instances, and TLAPS proofs of their central properties for every instance. The
models are written from the Go source; line numbers below refer to `src/`.

## 1. The system

SFTPGo Manager is a Go HTTP service in front of two stores that share no
transaction: the user store of an SFTPGo server, reached over its admin API, and
a local SQLite database with the tables `tenants`, `api_keys` and `records`.

| Component | State | Operations | Talks to |
|---|---|---|---|
| HTTP router (`internal/httpapi/router.go`) | none; a goroutine per request, whose context is cancelled when the client goes away | one handler per endpoint, bearer-key check | the services |
| Bootstrap and authentication (`services.go:36-97`) | table `api_keys` | `BootstrapAPIKey` (count, then insert), `ValidateAPIKey` | repository |
| Tenant service (`services.go:99-247`) | table `tenants`, accounts in SFTPGo | `CreateTenant` (look up, POST, INSERT, on error roll back), `UpdateTenantPublicKey` (look up, GET, PUT, UPDATE), `DeleteTenant` (look up, DELETE, DELETE), and four reads | repository, admin client |
| External-auth hook (`services.go:249-304`) | none | `Authenticate`: one row, key or password | repository; called by SFTPGo |
| Upload processing (`services.go:306-380`) | table `records` | `ProcessUploadEvent`: read an object, upsert row by row | repository, object store; called by SFTPGo |
| Admin client (`internal/sftpgo/client.go`) | cached token, its expiry, a mutex | POST, GET, PUT, DELETE of a user | SFTPGo |
| Repository (`internal/sqlite/repository.go`) | the database, one connection | one statement per method; `migrate` at start | SQLite |
| Object store (`internal/storage/minio.go`) | none | `GetObject` | MinIO/S3 |
| Start and stop (`main.go`), configuration (`config.go`) | none afterwards | wiring; a signal closes the listener | |

What is hard about it:

- *Dual writes.* Every change of a tenant is one SFTPGo call and one SQLite
  statement. A crash, a fault, or a client that goes away can fall in between,
  and nothing durable records what is still owed.
- *Concurrency.* Handlers of the same username interleave at every call. Nothing
  locks a tenant; the only guards are SFTPGo's refusal of a second account of a
  username and the UNIQUE constraints of `tenants`.
- *Lost answers.* A call whose answer is lost may still arrive, much later.
- *Reuse.* Usernames are free again after a delete, and so are row ids
  (`repository.go:215` has no AUTOINCREMENT).
- *Check then act.* Bootstrap counts keys and then inserts one; the migration
  looks for a column and then adds it.
- *Names and ids.* SFTPGo's hooks speak of usernames; files and records are kept
  by tenant id, and a username may have another tenant by the time a hook is served.
- *Work in pieces.* An upload is stored row by row, a migration statement by
  statement, and nothing undoes the pieces when the rest fails.
- *Time.* The cached token is given up 30 s before it expires, its mutex is held
  across an HTTP call without timeout, and a restart of SFTPGo makes it useless.

Correctness per component: **tenants**: isolated prefixes, the two stores agree
whenever no request is at work, a request touches no other tenant than it addressed
(as long as that one is there),
undoing a create never hurts an established tenant, removals complete.
**Bootstrap**: keys that were handed out work, the window closes, somebody gets
a key. **Hooks and uploads**: the login hook goes by SFTPGo's key except while a
request owes it the last write; records of a tenant come from its own files, and
those of its latest file get there. **Token cache**: one fetch per lifetime, no
token about to expire, recovery from a restart in bounded time, nobody blocked for
ever. **Start**: a process that serves has the whole schema, starts do not make
each other fail, the service comes up.

## 2. The modules

| Module | What it is |
|---|---|
| `TenantLifecycle` | the tenant service, the admin client, the table `tenants` and the SFTPGo user store |
| `TenantDirectory` | the abstract specification: one directory in which each operation is one step |
| `TenantTable` | the abstract specification of the table `tenants`: what whoever reads it may rely on |
| `MCTenantLifecycle` | perturbation budgets and the symmetry set for TLC |
| `TenantLifecycleProofs` | type correctness, prefix isolation |
| `TenantAgreementProofs` | the lockstep invariant; agreement of the stores, the login hook, established accounts; when the claims of the violation runs do hold |
| `TenantRefinementProofs` | the service implements the directory, and the table; which rows its statements hit |
| `TenantDirectoryProofs` | what the directory itself guarantees |
| `Bootstrap`, `MCBootstrap`, `BootstrapProofs` | the bootstrap endpoint and the API keys |
| `SftpHooks`, `MCSftpHooks`, `SftpHooksProofs` | the login hook, the upload hook, the table `records` and the object store |
| `TokenCache`, `MCTokenCache`, `TokenCacheProofs` | `getToken`, its mutex, SFTPGo's tokens and the clock |
| `Startup`, `MCStartup`, `StartupProofs` | configuration, migration, object store and listener of several processes |

`TenantTable` is where two parts of the system meet: `TenantLifecycle` implements it
(`ImplementsTable`), and `SftpHooks` has it as its environment (`Administer` is any
step of it). So the hooks are checked against every change of the table that the
tenant service can make, without its calls and its failures, and nothing else is
assumed of it.

### TenantLifecycle

State: `tenants` (rows with id, tenant id, username, key), `users` (accounts with
username, home, status, key), `req[h]` (the local variables of handler `h`, with
a program counter that names its next call), `stray` (admin-API calls without a
caller that may still arrive), `issued` (which username a tenant id was generated
for; also how freshness of `newTenantID` is expressed), `budget` (perturbations
left) and `disturbed`, a history variable: usernames of which a failure hit a
request between its two writes, or lost the answer of one. Nothing in the code puts
such a username right again, so the properties give it up: they show that the damage
stays with it, and that even there prefixes do not mix.

One action is one SFTPGo call or one SQL statement with the local code up to the
next. Statements are atomic because the pool has one connection
(`repository.go:27`).

| Code | Actions |
|---|---|
| `CreateTenant` (`services.go:112-170`) | `StartCreate` (lookup, ids, password), `CreateUser` (POST), `InsertTenant` (INSERT), `RollbackUser` (DELETE) |
| `UpdateTenantPublicKey` (`223-238`, `client.go:78-95`) | `StartUpdate`, `GetUser`, `PutUser`, `UpdateRow` |
| `DeleteTenant` (`187-199`) | `StartDelete`, `DeleteUser`, `DeleteRow` |
| a client that goes away | `Disconnect`: every later call of the request fails; also the `Lost` outcome of a call and the last disjunct of `InsertTenant` |
| process death, or SIGTERM (`main.go:66-80`) | `Crash`: all requests vanish; any subset of the calls on the wire may still arrive |
| SFTPGo | `Served`/`Accepts` (effect of a call), `DeliverStray`, `DisableUser` |

A call has three outcomes: *answered* (SFTPGo carries it out or refuses it),
*failed* (never sent: no token, connection refused, context cancelled) and *lost*
(sent, never answered: it stays in `stray`, and `DeliverStray` carries it out at
any later time or never). A call whose effect took place but whose answer was
lost is the *lost* case with immediate delivery. A lookup that fails in
`CreateTenant` counts as "not found" (`services.go:116`), and so it does in
`StartCreate`, at the price of one fault.

Abstracted data: `home` stands for `home_dir` together with the S3 key prefix,
both made from the tenant id alone (`services.go:137, 392`); an account's keys
are one key or none; names and keys are opaque values, so the escaping of
usernames in URLs is outside the model, and so are passwords. The reads
(`GetTenant`, `ListTenants`, `ValidateTenant`, `ListTenantRecords`) change nothing
and have no action. The login hook reads one row; `HookKeys` is what it would
compare a key with in a given state, and `HookTrailsSFTPGo` relates it to the key
SFTPGo itself holds.

SFTPGo is modelled from how `client.go` uses it: POST of a known username is
refused, PUT and DELETE of an unknown one are refused, PUT replaces every field.

`SerialClients = TRUE` restricts the *clients*, not the code: a rotation or
delete of a tenant begins only when no other rotation or delete of that username
is being served. Creates may overlap anything, including a delete of the same
username. The properties that need it say so in their formula; that they need it
is shown by the runs `racing_rotations` and `stale_put`.

### TenantDirectory

Variables `directory` (entries username / tenant id / key), `unused` (tenant ids
that no tenant has had) and `lost` (usernames about which nothing is promised any
more); actions `Provision`, `Rotate`, `Remove`, `Discard` (a create that fails)
and `GiveUp` (a failure). The mapping: an entry is an undisturbed account whose
row has the same tenant id. So a create takes effect at its INSERT, a rotation at
its PUT, a removal at its DELETE in SFTPGo, and everything else is invisible.

### TenantTable

Variables `table` (rows of username, tenant id and key, without row ids) and `owner`
(the username each tenant id was used up for); actions `Insert`, `Update`, `Delete` of
one row and `Retire` (creates that end without a row use up their ids). The mapping
leaves an id unused while a create that may still write its row is under way; it
needs neither clients that take turns nor the absence of failures. In
`TenantLifecycle` an UPDATE or DELETE goes by a row id read by an earlier statement,
and row ids come back; `ImplementsTable` says that the table still changes by one
row at a time and that a tenant id never comes back.

### Bootstrap

State: `api_keys`, `req[h]`, `delivered` (keys a client received), `budget`.
Actions: `Post` (token check), `CountKeys` (`HasAPIKeys`, then `newAPIKey`),
`InsertKey`, `Reply`, `Disconnect`, `Crash`. A key and its SHA-256 hash are one
value. A generated key that was neither stored nor delivered counts as never
generated, which keeps the set of keys small.

### SftpHooks

State: `tenants` (the rows, as `TenantTable` has them; the password a row was written
with is a function of its tenant id, the constant `PasswordOf`, since no statement
changes it afterwards), `records`, `objects` (the
CSV file of each tenant id), `sessions` that SFTPGo has open, `events` (usernames
whose upload is still to be announced), `req[h]` of the upload handlers, `budget`;
history: `owner` (the username of each tenant id), `held` (every credential its
row has had), `written` (every file stored, with the credential of its session)
and `spoiled` (tenants of which an upload failed, got lost or overlapped with that of
another file, until a later one is opened while no other file is being read).

| Code | Actions |
|---|---|
| `CreateTenant`, `UpdateTenantPublicKey`, `DeleteTenant`: their SQL statements | `Administer`: a step of `TenantTable` (the records stay behind) |
| `Authenticate` (`services.go:261-304`) | `Authenticate`: the second fields of the key lines are compared, or the password; a session with the tenant's key prefix opens |
| an SFTP session (external) | `Store`: the file is replaced, and announced |
| `ProcessUploadEvent` (`services.go:319-380`) | `Receive` (resolve the username), `Open` (object, header, required columns), `ReadRow` (one line, one upsert), any of which may `Fail` |
| `UpsertRecord` (`repository.go:162-178`) | `Upserted`: the key is (tenant id, record key) |
| the network, the process | `Lose`, `Resend`, `Crash` |

Where this is finer or coarser than it looks: `MinIOStore.GetObject` is lazy, so the
version that is read is the one present when the header is read (`Open`), and a
file replaced afterwards does not mix with it. The rows that are stored before a
bad line stay. The check `services.go:361` is subsumed: `encoding/csv` already
refuses a row with another number of fields than the header, and so a bad line is
one value `Bad`, like a value that is no number. Uploads run under
`context.Background()` (`router.go:290`), hence no cancelled upload: SFTPGo giving
up its call changes nothing. A login reads one row and answers, so it is one step.
Identical outstanding announcements are one. Although `swagger.yaml:99-100` says
"asynchronously", the handler ingests before it answers; no property depends on it.

### TokenCache

State: `now`, `token` and its expiry, `mu` (holder of the mutex), `req[c]` of each
caller, SFTPGo's `epoch` (how often it restarted) and `answers` (whether its token
endpoint does), `restarted` (when). Actions: `Call`, `Lock` (take the mutex; return
the cached token or begin a fetch), `Issue`, `AnswerWithoutToken`, `ReadReply`, `FetchFails`, `Send`,
`Disconnect`; `Restart`, `Hang`, `Recover`, `Tick`. `Slack` is the 30 s of
`client.go:135`. A token that was just fetched is used without a look at its
expiry, and a 401 does not empty the cache, both as in the code. An answer 200 whose
JSON has no `access_token` is no error in `client.go:127-136`: the empty token is cached
and sent with the call that fetched it, but not handed out from the cache
(`TypeOK`), so that the next call fetches again. One without `expires_at` is to the
cache a token that lives no longer than the slack. That a restart
makes tokens useless is SFTPGo's default (a signing key made at its start).
SFTPGo and the manager are taken to share a clock.

### Startup

State: `schema[d]` (the tables and columns of each database file), `proc[p]`,
`budget`. Actions: `Start` (`Load`, `Validate`), `CreateTable`, `Inspect` and
`AddColumn` (the two halves of `ensureColumn`), `Listen` (object store and
listener), `Fail`, `Stop`. Every database starts as any schema that some version
of the program, or a start that stopped half way, can have left. Columns every
version has had are one column. `ALTER TABLE ... ADD COLUMN key_hash TEXT UNIQUE`
(`repository.go:241`) is refused by SQLite, whatever the table holds; so on a
database whose `api_keys` has no `key_hash` each start exits. `KeysWithoutHash`
names this case, `ServesCompletely` shows that nothing serves there with half a
schema, and `ComesUp` and `StartsFailForAReason` have to except it: a known limit
of the program, since `repository.go:21` says that `New` migrates the database.

## 3. Properties and runs

| Run | Instance | Checks | States |
|---|---|---|---|
| `tenant_serial` | 2 handlers, 2 usernames, 1 key, 3 tenant ids; one fault, one disconnect, one crash; serial clients | `TypeOK`, `PrefixIsolation`, `AgreeUnlessDisturbed`, `HookTrailsSFTPGo`, `EstablishedAccountsStay`, `ImplementsDirectory` | 1 025 254 |
| `tenant_hostile` | the same sizes, free clients, one fault (so one stray call), one account disabled by hand | `PrefixIsolation`, `AddressedFirst`, `ImplementsTable` | 437 171 |
| `tenant_removals` | 2 handlers, 1 username, 2 tenant ids, one failure of each kind, fairness | `RemovalsComplete` | 40 853 |
| `bootstrap` | 3 handlers, 4 keys, one failure of each kind, fairness | `TypeOK`, `DeliveredKeysWork`, `NoMoreKeysThanRacers`, `WindowCloses`, `SomeoneGetsAKey` | 51 328 |
| `sftp_hooks` | 2 handlers, 1 username with up to 2 tenants in turn, 2 record keys, 3 files (good; repeated key and bad line; column missing); two stores, one repeated announcement, one failure; fairness | `TypeOK`, `RecordsAreTheTenantsOwn`, `LatestFileIngested`, `FilesGetIngested` | 113 942 |
| `token_cache` | 2 callers, lifetimes 1 and 3, slack 1, clock up to 4; one call that fails or is cancelled, two outages; fairness | `TypeOK`, `TimelyCallsAccepted`, `HeldForOneFetch`, `StaleCacheIsBounded`, `OneFetchPerLifetime`, `EveryCallEnds` | 271 330 |
| `startup` | 4 processes, 2 databases of 324 initial schemas together, one failed statement, one stop; fairness | `TypeOK`, `ServesCompletely`, `StartsFailForAReason`, `ComesUp` | 85 468 |

- `PrefixIsolation`: two usernames never have a home directory or key prefix in
  common, in SFTPGo, in SQLite or across the two, whatever overlaps or fails.
- `AgreeUnlessDisturbed`: when no request on a username is being served and no
  failure disturbed it, its account and row exist together with the same prefix
  and key.
- `HookTrailsSFTPGo`: on an undisturbed username the login hook goes by another key
  than SFTPGo only while a request on that tenant owes SQLite its last write.
- `AddressedFirst` (free clients): row ids are reused, and a request goes by the id
  it resolved at its start. As long as the tenant it resolved is there, its UPDATE or
  DELETE hits no other's row. Once that tenant is gone the statement hits whoever has
  the id by then, in the code and in the model: alice is deleted between the PUT and
  the UPDATE of her rotation, bob is created and gets her row id, and the UPDATE puts
  her new key into bob's row (`services.go:234`), by which the login hook goes. The
  property is as strong as the code allows.
- `EstablishedAccountsStay`: an established account goes only by its own delete,
  never by the rollback of an overlapping create of the same username.
- `ImplementsDirectory`: `TenantDirectory` as a refinement.
- `ImplementsTable`: `TenantTable` as a refinement, whatever clients and failures do;
  it says how the table changes and not whose row a request changes.
- `RemovalsComplete`: a removal asked for until it succeeds does complete, unless a
  failure fell between the writes of a request on that username (`stuck_removal`).
- `DeliveredKeysWork`, `NoMoreKeysThanRacers`, `WindowCloses`, `SomeoneGetsAKey`:
  delivered keys keep authenticating; no more keys are ever stored than calls can
  be served at once; a bootstrap asked for until it succeeds closes the window; and
  somebody receives a key, where nothing fails. A lost reply (`router.go:105`) leaves
  a closed window and nobody with a key; nothing in the code recovers from that.
- `RecordsAreTheTenantsOwn`: every record a tenant lists is a readable line of a
  file stored by a session that was admitted on a credential of that very tenant,
  although announcements name usernames and sessions outlive their tenants.
- `LatestFileIngested`: the records of a tenant hold the last line of each key of its
  present file as soon as nothing of it is announced or being read, unless an upload
  failed, got lost or was read while another file was, and none was opened alone
  since. (Of two files that are read at the same time the older may win, row by row;
  that is why `spoiled` has them. Readings of the *same* file may overlap, and a
  repeated announcement makes up for what went wrong before.)
- `FilesGetIngested`: a file that is not replaced, nor spoiled, gets there.
- `TimelyCallsAccepted`: a call sent within the slack of taking its token is not
  refused because the token expired meanwhile.
- `StaleCacheIsBounded`: after a restart of SFTPGo the cache serves a token it does
  not know for at most the longest lifetime less the slack.
- `OneFetchPerLifetime`: callers that ask together share one fetch.
- `HeldForOneFetch`: the mutex is taken exactly while its holder's fetch is under way,
  also when the holder's client has gone; so nobody waits for anything but SFTPGo.
- `EveryCallEnds`: nobody waits for the mutex for ever, given that the token
  endpoint answers again at last; a lifetime within the slack (1 here) does not make
  calls fetch for ever.
- `ServesCompletely`, `StartsFailForAReason`, `ComesUp`: section 2, Startup.

Runs that end in a violation, each a claim of the repository that the code does
not keep:

| Run | Claim | What happens |
|---|---|---|
| `racing_rotations` | `KeysAgreeWhenQuiet`; swagger.yaml:285 | PUT k1, PUT k2, UPDATE k2, UPDATE k1: SFTPGo keeps k2, SQLite k1, no failure needed |
| `abandoned_create` | `RollbacksUndo`; CONTRIBUTING.md:71 | POST; the client leaves; the INSERT fails with its context, and so does the rollback (`services.go:158`): the account stays without a row |
| `stale_put` | `PutChangesKeysOnly`; client.go:77 | the account is deleted and created anew between GET and PUT; the PUT writes the old home and prefix back |
| `stuck_removal` | `EveryRemovalCompletes`; swagger.yaml:225 | one failure between the two deletes; each retry stops at SFTPGo's 404 (`services.go:192`) |
| `bootstrap_race` | `AtMostOneKey`; services.go:47, README.md:95 | two calls count zero before either inserts |

**Bounds.** Two handlers are the least that interleave, and every property is
about what one request finds after another has moved; a third adds time, not
shapes (a create, a rotation and a delete of one username can already follow each
other while the other handler stands still). Two usernames are needed for
isolation and for row-id reuse by another tenant; three tenant ids allow a
username to be created, deleted and created again beside another tenant. One key
suffices in `tenant_serial` because a create may also have none, so that a
rotation changes it. One perturbation of each kind places a failure at every
point of every request, and two of different kinds at every pair of points;
`TenantLifecycleProofs` and its successors lift all these bounds for the safety
properties. In `Bootstrap` four keys against three handlers are what lets
`NoMoreKeysThanRacers` fail. One username with two tenant ids is what
`SftpHooks` needs for the username to change its tenant under a session, an
announcement or an upload; two stores replace a file while it is announced or read;
the second file repeats a key before its bad line. That tenants of
different usernames and credentials do not mix is left to the proof of `OwnRecords`. In `TokenCache` the lifetimes lie
on both sides of the slack, two outages allow a restart during a silence, and four
ticks outlast a token. In `Startup` two processes race on one database with different
ports, and the others share a port, have an unusable endpoint or an invalid
configuration. `stray` is a set, so of identical stray calls at most
one is outstanding: a bound of the model.

**Deadlock.** The tenant runs switch TLC's deadlock check off because the model
really stops when the tenant ids are used up and no tenant is left; so does that of
the hooks. `startup` has it off because a service that is up and is not stopped any
more takes no step. Both bootstrap runs and `token_cache` keep it on.

**Symmetry** is used in tenant runs without liveness; handlers, usernames, keys
and tenant ids are never named by the module.

**Fairness.** `FairSpec` of both modules assumes weak fairness of the steps of a
handler: a goroutine that is being served is scheduled, and a call ends in an
answer or an error. (`http.DefaultClient` has no timeout, so an SFTPGo that accepts
a connection and says nothing for ever would break this; `TokenCache` has it.)
Strong fairness of `StartDelete` and of `Post` is the client that asks again. Nothing is assumed about stray calls, failures or other clients.
`SftpHooks` assumes weak fairness of the steps of an upload that is being served,
and strong fairness of `Receive`: an announcement that is not lost is served when a
goroutine is free again and again. `TokenCache` assumes weak fairness of a caller's
own steps, strong fairness of `Lock` (`sync.Mutex` hands itself to a waiter of more
than a millisecond), and that a silent token endpoint recovers; without the last a
call need never end, as `http.DefaultClient` has no timeout. `Startup` assumes that
a process whose configuration is valid is started again, and that one that runs makes
progress.

## 4. Proofs

All theorems hold for every value of the constants, from the assumptions named in
the modules: `None` is not a value, `SerialClients` is a Boolean, `Budget` maps
perturbations to naturals, in `Bootstrap` that the set of handlers is finite, in
`SftpHooks` that files are made of the columns and lines the module names and that a row's
password is one of `Passwords` or none, in
`TokenCache` that times are naturals, in `Startup` that every process has a database.
Theorems marked *serial* also assume `SerialClients`; those marked *calm* that the
budgets of faults, disconnects and crashes are 0.

| Theorem | States |
|---|---|
| `TenantLifecycleProofs!TypeCorrect` | `Spec => []TypeOK` |
| `TenantLifecycleProofs!Isolation` | `Spec => []PrefixIsolation` |
| `TenantAgreementProofs!Agreement` | `Spec => []AgreeUnlessDisturbed` |
| `TenantAgreementProofs!EstablishedAccounts` (*serial*) | `Spec => EstablishedAccountsStay` |
| `TenantAgreementProofs!HookTrails` | `Spec => []HookTrailsSFTPGo` |
| `TenantRefinementProofs!Refinement` (*serial*) | `Spec => ImplementsDirectory` |
| `TenantRefinementProofs!TableRefinement` | `Spec => ImplementsTable` |
| `TenantRefinementProofs!AddressedComesFirst` | `Spec => AddressedFirst` |
| `TenantAgreementProofs!SerialKeysAgree` (*serial*) | `Spec => []KeysAgreeWhenQuiet` |
| `TenantAgreementProofs!NoOrphansWithoutFailures` (*serial*, *calm*) | `Spec => []NoOrphanAccount` |
| `TenantDirectoryProofs!OneTenant` | `Spec => []OneTenantEach` of the directory |
| `BootstrapProofs!TypeCorrect`, `KeysWork`, `WindowBounded` | `TypeOK`, `DeliveredKeysWork`, `NoMoreKeysThanRacers` |
| `SftpHooksProofs!TypeCorrect`, `OwnRecords`, `LatestIngested` | `TypeOK`, `RecordsAreTheTenantsOwn`, `LatestFileIngested` |
| `TokenCacheProofs!TypeCorrect`, `Timely`, `OneFetchHolds`, `StaleBounded`, `OneFetch` | `TypeOK`, `TimelyCallsAccepted`, `HeldForOneFetch`, `StaleCacheIsBounded`, `OneFetchPerLifetime` |
| `StartupProofs!TypeCorrect`, `Complete`, `NoStartFailsAnother` | `TypeOK`, `ServesCompletely`, `StartsFailForAReason` |

The argument:

1. *Types.* `TypeOK` is not inductive, because whether a call is well formed
   depends on what a request gathered before; `RequestsReady` and `PayloadsWhole`
   say what each program counter guarantees.
2. *Isolation.* `issued` gives every tenant id one username. `Issuance` says that
   accounts, rows, requests and stray payloads all name an id issued for their own
   username; no step breaks this, not even a stale PUT. Two usernames then cannot
   share an id.
3. *Lockstep* (serial clients). Neither `AgreeUnlessDisturbed` nor the action
   properties are inductive: they speak of quiet usernames, while the trouble is
   in the states between. `Lockstep` says, for undisturbed usernames, who is
   responsible for every temporary disagreement: an account without a row to stay
   belongs to the one create that posted it (`AccountsHaveOwners`,
   `CreatorsHaveAccounts`, `OneCreator`); a row has its account unless its delete
   is half done, and its key unless its rotation is (`RowsHaveAccounts`,
   `PutsAreKept`); a rotation or delete still finds the row that it resolved
   (`ModifiersHaveRows`, `OneModifier`, `UniqueRows`). Its
   eleven parts were checked by TLC on the `tenant_serial` instance first.
4. *Fresh ids.* A create under way holds an id that no other create holds and, up
   to its INSERT, no row has (`FreshIDs`); with Lockstep this gives
   `EstablishedAccounts`.
5. *Refinement.* From the conjunction of these invariants each action is shown to
   be a step of `TenantDirectory` or to leave the mapped variables alone; one lemma
   per action (`...Seen`).
6. *The table* (no assumption on clients or failures). Row ids and usernames are
   unique at any moment (`UniqueRows`), so a statement by row id, stale or not, touches
   at most one row; no create is to write an id that a row has; and no UPDATE writes a
   blank key (`TableInv`). With `Issuance` and `FreshIDs`, an INSERT writes an id of
   which the table knows no owner yet. `TableStepSeen` has one lemma per kind of
   statement.
7. *Which row a statement hits* (no assumption on clients or failures).
   `ResolvedRows`: a tenant keeps its row id while it is there, and a tenant id that a
   request resolved is never written again. With the unique row ids of `TableInv` the
   statement of that request finds its own tenant's row or none of its own
   (`AddressedComesFirst`).
8. *Two claims of the violation runs* hold where the trouble that breaks them is
   absent. `SerialKeysAgree` follows from `Agreement` and `UniqueRows`. Without faults,
   disconnects and crashes every call is answered (`Untroubled`), so no username is
   ever disturbed and `Agreement` leaves no orphan (`NoOrphansWithoutFailures`, which
   also needs clients that take turns: a second delete of a tenant may come late
   enough to delete the row of another tenant by a row id that came back).
9. *Bootstrap.* The number of stored keys plus that of handlers about to store one
   never exceeds the number of handlers (`Racers`): a handler gets there only
   while the table is empty.
10. *Uploads.* `HooksInv` adds to the types what a handler's variables hold
   (`Uploads`), that a tenant id has one username for ever and whatever was admitted
   or written under it was so on its own credentials (`Ownership`), that records and
   files being read come from files written under the same id (`Origin`), and per
   unspoiled tenant (`Ingestion`) that all its readers read one file, that each last
   line of a key in it is stored or still awaited by one of them (`Settled`), and that
   this file is the present one unless another announcement or upload is outstanding
   (`Excused`). `UpsertLists` is the step: a stored line replaces the one of its key
   and no other. With several readers a line may be stored over by an earlier one of
   the same key, but then that reader has yet to come to the later one: this is why
   `Awaited` and not "stored up to line n" is what stays true. A reader that opens the
   file alone awaits every line, so `Ingestion` holds of it whatever went wrong before.
   What the proof needs of the tenant service is one lemma about any step of
   `TenantTable` (`TableStep`). All this for files of any length; nothing is recursive,
   since "the last line of a key" is stated with quantifiers.
11. *Token cache.* `HeldForOneFetch` is inductive together with the types; with it
   `FetchesStale` (no fresh token while somebody fetches) give `OneFetch`;
   `TakenFresh` gives `Timely`, and that the cache hands out no empty token; `TokensBounded` (a token SFTPGo has forgotten
   expires within a lifetime of the restart) gives `StaleBounded`.
12. *Start.* `Migrated` says which tables and columns a process has dealt with are
   there; schemas only grow, so no other process takes them back. `Configured` says
   that a process past its start had a valid configuration.

Model-checked only: the liveness properties (`RemovalsComplete`, `WindowCloses`,
`SomeoneGetsAKey`, `FilesGetIngested`, `EveryCallEnds`, `ComesUp`), since liveness
under fairness is out of the prover's reach, and the five violations.

## 5. Not modelled

- *Routing* by path suffix, the bearer check in front of the tenant handlers, JSON
  and status codes: functions of one request that keep no state.
- *Reads*: `ListTenants`, `GetTenant` and `ValidateTenant` change nothing;
  `ListRecords` is the operator `Listed`.
- *Other uploads*: of a tenant's files one CSV path is followed; other paths share
  nothing with it but the table, whose key does not name the path. So two files of
  a tenant with the same record key overwrite each other as two versions of one do.
- *Passwords and bcrypt* beyond equality; the escaping of usernames in URLs.
- *What SFTPGo does with the account a login returns* (it may store it): the runs
  take the admin API as the only writer of accounts.
- *`docs/docs.go`* (generated) and the MinIO client (external).
