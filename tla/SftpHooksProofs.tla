--------------------------- MODULE SftpHooksProofs ---------------------------
(***************************************************************************)
(* The records of a tenant come from its own files, and agree with the     *)
(* present one once its uploads are through: for any number of tenants,    *)
(* sessions, handlers and files of any length.                             *)
(***************************************************************************)
EXTENDS SftpHooks, TLAPS

\* What the local variables of a handler hold.
Uploads ==
  \A h \in Handlers :
    /\ req[h].pc # "idle" =>
         req[h].home \in TenantIDs /\ owner[req[h].home] \in Usernames
    /\ req[h].pc = "row" =>
         /\ req[h].file \in Files /\ HasRequired(req[h].file)
         /\ req[h].next \in 1..(Len(req[h].file.lines) + 1)
         /\ \A j \in 1..(req[h].next - 1) : req[h].file.lines[j] # Bad

\* A tenant id belongs to one username for ever, and whatever was admitted or
\* written under it was so on a credential of that tenant.
Ownership ==
  /\ \A r, s \in tenants : r.username = s.username => r = s
  /\ \A r \in tenants :
       owner[r.tenant_id] = r.username /\ CredentialsOf(r) \subseteq held[r.tenant_id]
  /\ \A s \in sessions : owner[s.home] = s.username /\ s.by \in held[s.home]
  /\ \A w \in written : owner[w.home] \in Usernames /\ w.by \in held[w.home]
  /\ \A t \in TenantIDs : objects[t] # None =>
       \E w \in written : w.home = t /\ w.file = objects[t]

\* Line l is among those that ingesting f stores.
LineOf(l, f) == \E i \in DOMAIN f.lines : Reached(f, i) /\ f.lines[i] = l

Origin ==
  /\ \A t \in TenantIDs : \A l \in Listed(t) :
       \E w \in written : w.home = t /\ LineOf(l, w.file)
  /\ \A h \in Handlers : req[h].pc = "row" =>
       \E w \in written : w.home = req[h].home /\ w.file = req[h].file

\* Nothing is claimed of the records of t: an announcement is yet to be served
\* or an upload to be opened, or the tenant is gone.
Excused(t) ==
  \/ owner[t] \in events
  \/ \E h \in Uploading(t) : req[h].pc = "open"
  \/ \A r \in tenants : r.tenant_id # t

Unreadable(t) == objects[t] # None => ~HasRequired(objects[t])

\* An upload of t that is still to read line i.
Awaited(t, i) == \E h \in Reading(t) : req[h].next <= i

\* The records of t hold what they are to hold once all readers of f are through.
Settled(t, f) ==
  \A i \in DOMAIN f.lines : Final(f, i) => f.lines[i] \in Listed(t) \/ Awaited(t, i)

Ingestion(t) ==
  t \notin spoiled =>
    /\ \A g, h \in Reading(t) : req[g].file = req[h].file
    /\ \A h \in Reading(t) :
         Settled(t, req[h].file) /\ (Excused(t) \/ Unreadable(t) \/ req[h].file = objects[t])
    /\ Reading(t) = {} => Excused(t) \/ Unreadable(t) \/ Settled(t, objects[t])

HooksInv ==
  TypeOK /\ Uploads /\ Ownership /\ Origin /\ \A t \in TenantIDs : Ingestion(t)

-----------------------------------------------------------------------------
(* Files, lines and records. *)

LEMMA FileShape ==
  ASSUME NEW f \in Files
  PROVE  /\ f.lines \in Seq(Line \cup {Bad}) /\ Len(f.lines) \in Nat
         /\ DOMAIN f.lines = 1..Len(f.lines)
         /\ \A i \in DOMAIN f.lines : f.lines[i] \in Line \cup {Bad}
BY FilesAssumption DEF Content

\* The line that a row is stored from is listed, others with its key no longer.
LEMMA UpsertLists ==
  ASSUME TypeOK, NEW t \in TenantIDs, NEW l \in Line, records' = Upserted(records, t, l)
  PROVE  /\ records' \in [TenantIDs -> [RecordKeys -> Values \cup {None}]]
         /\ l \in Listed(t)'
         /\ \A m \in Listed(t) : m.key # l.key => m \in Listed(t)'
         /\ \A m \in Listed(t)' : m = l \/ m \in Listed(t)
         /\ \A q \in TenantIDs : q # t => records'[q] = records[q]
<1>1. PICK rs \in [TenantIDs -> [RecordKeys -> Values \cup {None}]] : rs = records
  BY DEF TypeOK
<1>2. PICK qs : qs = Upserted(rs, t, l)
  OBVIOUS
<1>3. l.key \in RecordKeys /\ l.value \in Values /\ l.value # None
      /\ l = [key |-> l.key, value |-> l.value]
  BY NoneAssumption DEF Line
<1>4. /\ qs \in [TenantIDs -> [RecordKeys -> Values \cup {None}]] /\ records' = qs
      /\ qs[t][l.key] = l.value
      /\ \A k \in RecordKeys : k # l.key => qs[t][k] = rs[t][k]
      /\ \A q \in TenantIDs : q # t => qs[q] = rs[q]
  BY <1>1, <1>2, <1>3 DEF Upserted
<1>5. l \in Listed(t)'
  BY <1>3, <1>4 DEF Listed
<1>6. ASSUME NEW m \in Listed(t), m.key # l.key PROVE m \in Listed(t)'
  BY <1>1, <1>4, <1>6 DEF Listed
<1>7. ASSUME NEW m \in Listed(t)' PROVE m = l \/ m \in Listed(t)
  <2>1. PICK k \in RecordKeys : m = [key |-> k, value |-> qs[t][k]] /\ qs[t][k] # None
    BY <1>4, <1>7 DEF Listed
  <2>2. CASE k = l.key
    BY <1>3, <1>4, <2>1, <2>2
  <2>3. CASE k # l.key
    BY <1>1, <1>4, <2>1, <2>3 DEF Listed
  <2> QED
    BY <2>2, <2>3
<1> QED
  BY <1>1, <1>4, <1>5, <1>6, <1>7

-----------------------------------------------------------------------------
(* Steps that leave parts of the invariant alone.                           *)

LEMMA Spent == ASSUME TypeOK, NEW x \in Perturbations, Spend(x)
               PROVE  budget' \in [Perturbations -> Nat]
BY DEF TypeOK, Spend

LEMMA OwnershipKept ==
  ASSUME Ownership, UNCHANGED <<admin, files>>
  PROVE  Ownership'
<1>1. UNCHANGED <<tenants, owner, held, objects, sessions, written>>
  BY DEF admin, files
<1> QED
  BY <1>1 DEF Ownership

\* Uploads that go on go on as they were; the files written only become more.
LEMMA OriginKept ==
  ASSUME Origin, Ownership, UNCHANGED records, written \subseteq written',
         \A h \in Handlers : req'[h].pc = "row" =>
           \/ req'[h] = req[h]
           \/ /\ req'[h].home \in TenantIDs /\ objects[req'[h].home] # None
              /\ req'[h].file = objects[req'[h].home]
  PROVE  Origin'
<1>1. \A t \in TenantIDs : Listed(t)' = Listed(t)
  BY DEF Listed
<1>2. \A l, f : LineOf(l, f)' <=> LineOf(l, f)
  BY DEF LineOf, Reached
<1>3. \A h \in Handlers : req'[h].pc = "row" =>
        \E w \in written : w.home = req'[h].home /\ w.file = req'[h].file
  BY DEF Origin, Ownership
<1> QED
  BY <1>1, <1>2, <1>3 DEF Origin

\* What has been stored stays, and what is awaited still is.
LEMMA SettledKept ==
  ASSUME NEW t, NEW f, Listed(t)' = Listed(t), Settled(t, f),
         \A i \in DOMAIN f.lines : Final(f, i) /\ Awaited(t, i) => Awaited(t, i)'
  PROVE  Settled(t, f)'
<1>1. \A i : Final(f, i)' <=> Final(f, i)
  BY DEF Final, Reached, HasRequired
<1> QED
  BY <1>1 DEF Settled

\* The uploads of t go on as they were, or go away and spoil t; everything
\* that excused t still does.
LEMMA IngestionKept ==
  ASSUME TypeOK, NEW t \in TenantIDs, Ingestion(t),
         records'[t] = records[t],
         objects'[t] = objects[t],
         t \notin spoiled' => t \notin spoiled,
         t \notin spoiled' => Uploading(t)' = Uploading(t),
         \A h \in Uploading(t) : t \notin spoiled' => req'[h] = req[h],
         t \notin spoiled' => (Excused(t) => Excused(t)')
  PROVE  Ingestion(t)'
<1> SUFFICES ASSUME t \notin spoiled' PROVE Ingestion(t)'
  BY DEF Ingestion
<1>1. Listed(t)' = Listed(t)
  BY DEF Listed
<1>2. Reading(t)' = Reading(t) /\ \A h \in Reading(t) : req'[h] = req[h]
  BY DEF Reading
<1>3. \A f : Settled(t, f) => Settled(t, f)'
  BY <1>1, <1>2, SettledKept DEF Awaited
<1>4. Unreadable(t)' <=> Unreadable(t)
  BY DEF Unreadable, HasRequired
<1> QED
  BY <1>2, <1>3, <1>4 DEF Ingestion

\* A tenant id whose upload does not change.
LEMMA UploadingKept ==
  ASSUME NEW t, \A h \in Handlers : req'[h] = req[h]
  PROVE  /\ Uploading(t)' = Uploading(t)
         /\ \A h \in Uploading(t) : req'[h] = req[h]
BY DEF Uploading

-----------------------------------------------------------------------------
(* The table "tenants" changes.                                             *)

LEMMA InvInit == Init => HooksInv
<1> SUFFICES ASSUME Init PROVE HooksInv
  OBVIOUS
<1>1. NoRequest \in Request /\ NoRequest.pc = "idle"
  BY DEF NoRequest, Request
<1>2. TypeOK
  BY <1>1, BudgetAssumption DEF Init, Table!Init, TypeOK
<1>3. Uploads /\ Ownership
  BY <1>1 DEF Init, Table!Init, Uploads, Ownership
<1>4. Origin
  BY <1>1 DEF Init, Table!Init, Origin, Listed
<1>5. \A t \in TenantIDs : Ingestion(t)
  BY <1>1 DEF Init, Table!Init, Ingestion, Uploading, Reading, Unreadable
<1> QED
  BY <1>2, <1>3, <1>4, <1>5 DEF HooksInv

LEMMA CredentialsOfRows ==
  ASSUME NEW r \in Table!Row
  PROVE  CredentialsOf(r) \subseteq Credentials
BY PasswordOfAssumption DEF CredentialsOf, Credentials, Blob, Table!Row

\* What the hooks rely on of any change to the table: names and ids stay as
\* unique as they were, an id keeps its owner, and its row does not come back.
LEMMA TableStep ==
  ASSUME TypeOK, Ownership, Table!Next
  PROVE  /\ tenants' \subseteq Table!Row /\ owner' \in [TenantIDs -> Usernames \cup {None}]
         /\ \A t \in TenantIDs : owner[t] # None => owner'[t] = owner[t]
         /\ \A r, s \in tenants' : r.username = s.username => r = s
         /\ \A r \in tenants' : owner'[r.tenant_id] = r.username
         /\ \A r \in tenants' : owner[r.tenant_id] = None \/
              \E s \in tenants : s.tenant_id = r.tenant_id
<1>1. \A r \in tenants : /\ r \in Table!Row /\ r.tenant_id \in TenantIDs
                         /\ r.username \in Usernames /\ owner[r.tenant_id] = r.username
  BY DEF TypeOK, Table!Row, Ownership
<1>2. None \notin Usernames /\ owner \in [TenantIDs -> Usernames \cup {None}]
  BY NoneAssumption DEF TypeOK
<1>3. ASSUME NEW u \in Usernames, NEW t \in TenantIDs, NEW k \in PublicKeys \cup {None},
             Table!Insert(u, t, k)
      PROVE  /\ tenants' \subseteq Table!Row /\ owner' \in [TenantIDs -> Usernames \cup {None}]
             /\ \A q \in TenantIDs : owner[q] # None => owner'[q] = owner[q]
             /\ \A r, s \in tenants' : r.username = s.username => r = s
             /\ \A r \in tenants' : owner'[r.tenant_id] = r.username
             /\ \A r \in tenants' : owner[r.tenant_id] = None \/
                  \E s \in tenants : s.tenant_id = r.tenant_id
  <2>1. PICK n : n = [username |-> u, tenant_id |-> t, public_key |-> k]
    OBVIOUS
  <2>2. n \in Table!Row /\ n.username = u /\ n.tenant_id = t
    BY <2>1 DEF Table!Row
  <2>3. /\ owner[t] = None /\ \A r \in tenants : r.username # u
        /\ tenants' = tenants \cup {n} /\ owner' = [owner EXCEPT ![t] = u]
    BY <1>3, <2>1 DEF Table!Insert
  <2>4. owner'[t] = u /\ \A q \in TenantIDs : q # t => owner'[q] = owner[q]
    BY <1>2, <2>3
  <2>5. \A r, s \in tenants' : r.username = s.username => r = s
    BY <2>2, <2>3 DEF Ownership
  <2>6. \A r \in tenants : r.tenant_id # t
    BY <1>1, <1>2, <2>3
  <2> QED
    BY <1>1, <1>2, <2>2, <2>3, <2>4, <2>5, <2>6
<1>4. ASSUME NEW r \in tenants, Table!Delete(r)
      PROVE  tenants' \subseteq tenants /\ UNCHANGED owner
  BY <1>4 DEF Table!Delete
<1>5. ASSUME NEW r \in tenants, NEW k \in PublicKeys, Table!Update(r, k)
      PROVE  /\ UNCHANGED owner /\ tenants' \subseteq Table!Row
             /\ \A q, s \in tenants' : q.username = s.username => q = s
             /\ \A q \in tenants' : \E s \in tenants :
                  s.tenant_id = q.tenant_id /\ s.username = q.username
  <2>1. PICK n : n = [r EXCEPT !.public_key = k]
    OBVIOUS
  <2>2. n \in Table!Row /\ n.username = r.username /\ n.tenant_id = r.tenant_id
    BY <1>1, <2>1 DEF Table!Row
  <2>3. tenants' = (tenants \ {r}) \cup {n} /\ UNCHANGED owner
    BY <1>5, <2>1 DEF Table!Update
  <2>4. \A q, s \in tenants' : q.username = s.username => q = s
    BY <2>2, <2>3 DEF Ownership
  <2> QED
    BY <1>1, <2>2, <2>3, <2>4
<1>6. ASSUME Table!Retire
      PROVE  /\ UNCHANGED tenants /\ owner' \in [TenantIDs -> Usernames \cup {None}]
             /\ \A t \in TenantIDs : owner[t] # None => owner'[t] = owner[t]
  BY <1>6 DEF Table!Retire
<1>7. CASE \E r \in tenants : Table!Delete(r)
  BY <1>1, <1>2, <1>4, <1>7 DEF Ownership
<1>8. CASE \E r \in tenants, k \in PublicKeys : Table!Update(r, k)
  BY <1>1, <1>2, <1>5, <1>8
<1>9. CASE Table!Retire
  BY <1>1, <1>2, <1>6, <1>9 DEF Ownership
<1> QED
  BY <1>3, <1>7, <1>8, <1>9 DEF Table!Next

LEMMA AdministerKeeps ==
  ASSUME HooksInv, Administer
  PROVE  HooksInv'
<1> USE DEF HooksInv
<1>1. /\ Table!Next
      /\ held' = [t \in TenantIDs |->
                   held[t] \cup UNION {CredentialsOf(r) : r \in {s \in tenants' : s.tenant_id = t}}]
      /\ UNCHANGED <<objects, sessions, written, records, events, req, budget, spoiled>>
  BY DEF Administer, files
<1>2. /\ tenants' \subseteq Table!Row /\ owner' \in [TenantIDs -> Usernames \cup {None}]
      /\ \A t \in TenantIDs : owner[t] # None => owner'[t] = owner[t]
      /\ \A r, s \in tenants' : r.username = s.username => r = s
      /\ \A r \in tenants' : owner'[r.tenant_id] = r.username
      /\ \A r \in tenants' : owner[r.tenant_id] = None \/
           \E s \in tenants : s.tenant_id = r.tenant_id
  BY <1>1, TableStep
<1>3. \A r \in tenants' : r.tenant_id \in TenantIDs /\ CredentialsOf(r) \subseteq Credentials
  BY <1>2, CredentialsOfRows DEF Table!Row
<1>4. /\ held' \in [TenantIDs -> SUBSET Credentials]
      /\ \A t \in TenantIDs : held[t] \subseteq held'[t]
      /\ \A r \in tenants' : CredentialsOf(r) \subseteq held'[r.tenant_id]
  BY <1>1, <1>3 DEF TypeOK
<1>5. None \notin Usernames
  BY NoneAssumption
<1>6. TypeOK'
  BY <1>1, <1>2, <1>4 DEF TypeOK
<1>7. Uploads'
  BY <1>1, <1>2, <1>5 DEF Uploads
<1>8. Ownership'
  <2>1. \A s \in sessions :
          /\ s.home \in TenantIDs /\ s.username \in Usernames
          /\ owner'[s.home] = s.username /\ s.by \in held'[s.home]
    BY <1>2, <1>4, <1>5 DEF Ownership, TypeOK, Session
  <2>2. \A w \in written :
          w.home \in TenantIDs /\ owner'[w.home] \in Usernames /\ w.by \in held'[w.home]
    BY <1>2, <1>4, <1>5 DEF Ownership, TypeOK
  <2>3. \A r : CredentialsOf(r)' = CredentialsOf(r)
    BY DEF CredentialsOf, Blob
  <2> QED
    BY <1>1, <1>2, <1>4, <2>1, <2>2, <2>3 DEF Ownership
<1>9. Origin'
  BY <1>1, OriginKept
<1>10. ASSUME NEW t \in TenantIDs PROVE Ingestion(t)'
  <2>1. CASE owner[t] = None
    <3>1. objects[t] = None
      BY <1>5, <2>1 DEF Ownership
    <3>2. Reading(t)' = {}
      BY <1>1, <1>5, <2>1 DEF Reading, Uploading, Uploads
    <3> QED
      BY <1>1, <3>1, <3>2 DEF Ingestion, Unreadable
  <2>2. CASE owner[t] # None
    <3>1. Excused(t) => Excused(t)'
      BY <1>1, <1>2, <2>2 DEF Excused, Uploading
    <3> QED
      BY <1>1, <3>1, UploadingKept, IngestionKept
  <2> QED
    BY <2>1, <2>2
<1> QED
  BY <1>6, <1>7, <1>8, <1>9, <1>10

-----------------------------------------------------------------------------
(* Sessions.                                                                *)

LEMMA AuthenticateKeeps ==
  ASSUME HooksInv, NEW u \in Usernames, NEW k \in PublicKeys \cup {None},
         NEW p \in Passwords \cup {None}, Authenticate(u, k, p)
  PROVE  HooksInv'
<1> USE DEF HooksInv
<1>1. PICK r \in Named(u) : \E c \in Matched(r, k, p) :
        sessions' = sessions \cup {[username |-> u, home |-> r.tenant_id, by |-> c]}
  BY DEF Authenticate
<1>2. PICK c \in Matched(r, k, p) :
        sessions' = sessions \cup {[username |-> u, home |-> r.tenant_id, by |-> c]}
  BY <1>1
<1>3. UNCHANGED <<tenants, owner, held, objects, written, records, events, req, budget, spoiled>>
  BY DEF Authenticate, admin
<1>4. r \in tenants /\ r.username = u /\ r \in Table!Row
  BY DEF Named, TypeOK
<1>5. c \in CredentialsOf(r)
  BY DEF Matched, CredentialsOf
<1>6. c \in Credentials
  BY <1>4, <1>5, CredentialsOfRows
<1>7. PICK s : s = [username |-> u, home |-> r.tenant_id, by |-> c]
  OBVIOUS
<1>8. s \in Session /\ s.home = r.tenant_id /\ s.by = c /\ s.username = u
  BY <1>4, <1>6, <1>7 DEF Session, Table!Row
<1>9. sessions' = sessions \cup {s}
  BY <1>2, <1>7
<1>10. TypeOK' /\ Uploads'
  BY <1>3, <1>8, <1>9 DEF TypeOK, Uploads
<1>11. Ownership'
  <2>1. owner[s.home] = s.username /\ s.by \in held[s.home]
    BY <1>4, <1>5, <1>8 DEF Ownership
  <2>2. \A q : CredentialsOf(q)' = CredentialsOf(q)
    BY DEF CredentialsOf, Blob
  <2> QED
    BY <1>3, <1>9, <2>1, <2>2 DEF Ownership
<1>12. Origin'
  BY <1>3, OriginKept
<1>13. ASSUME NEW t \in TenantIDs PROVE Ingestion(t)'
  <2>1. Excused(t) => Excused(t)'
    BY <1>3 DEF Excused, Uploading
  <2> QED
    BY <1>3, <2>1, UploadingKept, IngestionKept
<1> QED
  BY <1>10, <1>11, <1>12, <1>13

LEMMA StoreKeeps ==
  ASSUME HooksInv, NEW s \in sessions, NEW f \in Files, Store(s, f)
  PROVE  HooksInv'
<1> USE DEF HooksInv
<1>1. PICK v : v = [home |-> s.home, by |-> s.by, file |-> f]
  OBVIOUS
<1>2. /\ objects' = [objects EXCEPT ![s.home] = f]
      /\ written' = written \cup {v}
      /\ events' = events \cup {s.username}
      /\ UNCHANGED <<tenants, owner, held, sessions, records, req, spoiled>>
      /\ budget' \in [Perturbations -> Nat]
  BY <1>1, Spent DEF Store, admin, Perturbations
<1>3. /\ s.home \in TenantIDs /\ s.username \in Usernames /\ s.by \in Credentials
      /\ owner[s.home] = s.username /\ s.by \in held[s.home] /\ f # None
  BY NoneAssumption DEF TypeOK, Session, Ownership
<1>4. /\ v \in [home : TenantIDs, by : Credentials, file : Files]
      /\ v.home = s.home /\ v.by = s.by /\ v.file = f
  BY <1>1, <1>3
<1>5. objects'[s.home] = f /\ \A t \in TenantIDs : t # s.home => objects'[t] = objects[t]
  BY <1>2, <1>3 DEF TypeOK
<1>6. TypeOK' /\ Uploads'
  BY <1>2, <1>3, <1>4 DEF TypeOK, Uploads
<1>7. Ownership'
  <2>1. \A t \in TenantIDs : objects'[t] # None =>
          \E w \in written' : w.home = t /\ w.file = objects'[t]
    BY <1>2, <1>4, <1>5 DEF Ownership
  <2>2. \A w \in written' : owner[w.home] \in Usernames /\ w.by \in held[w.home]
    BY <1>2, <1>3, <1>4 DEF Ownership
  <2>3. \A q : CredentialsOf(q)' = CredentialsOf(q)
    BY DEF CredentialsOf, Blob
  <2> QED
    BY <1>2, <2>1, <2>2, <2>3 DEF Ownership
<1>8. Origin'
  BY <1>2, OriginKept
<1>9. ASSUME NEW t \in TenantIDs PROVE Ingestion(t)'
  <2>1. CASE t = s.home
    <3>1. Excused(t)'
      BY <1>2, <1>3, <2>1 DEF Excused, Uploading
    <3>2. Listed(t)' = Listed(t) /\ Reading(t)' = Reading(t)
      BY <1>2 DEF Listed, Reading, Uploading
    <3>3. \A q : Settled(t, q) => Settled(t, q)'
      BY <1>2, <3>2, SettledKept DEF Awaited
    <3> QED
      BY <1>2, <3>1, <3>2, <3>3 DEF Ingestion
  <2>2. CASE t # s.home
    <3>1. Excused(t) => Excused(t)'
      BY <1>2 DEF Excused, Uploading
    <3> QED
      BY <1>2, <1>5, <2>2, <3>1, UploadingKept, IngestionKept
  <2> QED
    BY <2>1, <2>2
<1> QED
  BY <1>6, <1>7, <1>8, <1>9

-----------------------------------------------------------------------------
(* Announcements.                                                           *)

LEMMA ResendKeeps ==
  ASSUME HooksInv, NEW u \in Usernames, Resend(u)
  PROVE  HooksInv'
<1> USE DEF HooksInv
<1>1. /\ events' = events \cup {u} /\ budget' \in [Perturbations -> Nat]
      /\ UNCHANGED <<admin, files, records, req, spoiled>>
  BY Spent DEF Resend, Perturbations
<1>2. UNCHANGED <<tenants, owner, held, objects, sessions, written>>
  BY <1>1 DEF admin, files
<1>3. TypeOK' /\ Uploads'
  BY <1>1, <1>2 DEF TypeOK, Uploads
<1>4. Ownership' /\ Origin'
  BY <1>1, <1>2, OwnershipKept, OriginKept
<1>5. ASSUME NEW t \in TenantIDs PROVE Ingestion(t)'
  <2>1. Excused(t) => Excused(t)'
    BY <1>1, <1>2 DEF Excused, Uploading
  <2> QED
    BY <1>1, <1>2, <2>1, UploadingKept, IngestionKept
<1> QED
  BY <1>3, <1>4, <1>5

\* When the announcements of u go, so does the excuse of its tenant.
LEMMA ExcusedOthers ==
  ASSUME HooksInv, NEW u \in Usernames, NEW t \in TenantIDs,
         events' = events \ {u}, UNCHANGED <<tenants, owner>>,
         \A r \in Named(u) : r.tenant_id # t,
         \A h \in Handlers : req[h].pc = "open" => req'[h] = req[h]
  PROVE  Excused(t) => Excused(t)'
BY DEF Excused, Uploading, Named, HooksInv, Ownership

LEMMA LoseKeeps ==
  ASSUME HooksInv, NEW u \in Usernames, Lose(u)
  PROVE  HooksInv'
<1> USE DEF HooksInv
<1>1. /\ events' = events \ {u} /\ budget' \in [Perturbations -> Nat]
      /\ spoiled' = spoiled \cup {r.tenant_id : r \in Named(u)}
      /\ UNCHANGED <<admin, files, records, req>>
  BY Spent DEF Lose, Perturbations
<1>2. UNCHANGED <<tenants, owner, held, objects, sessions, written>>
  BY <1>1 DEF admin, files
<1>3. {r.tenant_id : r \in Named(u)} \subseteq TenantIDs
  BY DEF Named, TypeOK, Table!Row
<1>4. TypeOK' /\ Uploads'
  BY <1>1, <1>2, <1>3 DEF TypeOK, Uploads
<1>5. Ownership' /\ Origin'
  BY <1>1, <1>2, OwnershipKept, OriginKept
<1>6. ASSUME NEW t \in TenantIDs PROVE Ingestion(t)'
  <2>1. t \notin spoiled' => (Excused(t) => Excused(t)')
    BY <1>1, <1>2, ExcusedOthers
  <2> QED
    BY <1>1, <1>2, <2>1, UploadingKept, IngestionKept
<1> QED
  BY <1>4, <1>5, <1>6

LEMMA CrashKeeps ==
  ASSUME HooksInv, Crash
  PROVE  HooksInv'
<1> USE DEF HooksInv
<1>1. /\ req' = [h \in Handlers |-> NoRequest] /\ budget' \in [Perturbations -> Nat]
      /\ spoiled' = spoiled \cup {req[h].home : h \in {g \in Handlers : req[g].pc # "idle"}}
      /\ UNCHANGED <<admin, files, records, events>>
  BY Spent DEF Crash, Perturbations
<1>2. UNCHANGED <<tenants, owner, held, objects, sessions, written>>
  BY <1>1 DEF admin, files
<1>3. NoRequest \in Request /\ NoRequest.pc = "idle"
  BY DEF NoRequest, Request
<1>4. spoiled' \subseteq TenantIDs
  BY <1>1 DEF TypeOK, Uploads
<1>5. TypeOK' /\ Uploads'
  BY <1>1, <1>2, <1>3, <1>4 DEF TypeOK, Uploads
<1>6. Ownership' /\ Origin'
  BY <1>1, <1>2, <1>3, OwnershipKept, OriginKept
<1>7. ASSUME NEW t \in TenantIDs PROVE Ingestion(t)'
  <2>1. t \notin spoiled' => Uploading(t) = {} /\ Uploading(t)' = {}
    BY <1>1, <1>3 DEF Uploading
  <2>2. t \notin spoiled' => (Excused(t) => Excused(t)')
    BY <1>1, <1>2, <2>1 DEF Excused
  <2> QED
    BY <1>1, <1>2, <2>1, <2>2, IngestionKept
<1> QED
  BY <1>5, <1>6, <1>7

-----------------------------------------------------------------------------
(* The upload hook.                                                         *)

\* An upload ends.
LEMMA FinishKeeps ==
  ASSUME HooksInv, NEW h \in Handlers, req[h].pc # "idle", Finish(h),
         UNCHANGED <<admin, files, records, events>>, budget' \in [Perturbations -> Nat],
         NEW t \in TenantIDs, t = req[h].home,
         spoiled' \in {spoiled, spoiled \cup {t}}, Ingestion(t)'
  PROVE  HooksInv'
<1> USE DEF HooksInv
<1>1. NoRequest \in Request /\ NoRequest.pc = "idle"
  BY DEF NoRequest, Request
<1>2. req'[h] = NoRequest /\ \A g \in Handlers : g # h => req'[g] = req[g]
  BY DEF Finish, TypeOK
<1>3. UNCHANGED <<tenants, owner, held, objects, sessions, written>>
  BY DEF admin, files
<1>4. TypeOK'
  BY <1>1, <1>3 DEF TypeOK, Finish
<1>5. Uploads'
  BY <1>1, <1>2, <1>3 DEF Uploads
<1>6. Ownership' /\ Origin'
  BY <1>1, <1>2, <1>3, OwnershipKept, OriginKept
<1>7. ASSUME NEW q \in TenantIDs, q # t PROVE Ingestion(q)'
  <2>1. Uploading(q)' = Uploading(q) /\ \A g \in Uploading(q) : req'[g] = req[g]
    BY <1>1, <1>2, <1>7 DEF Uploading
  <2>2. Excused(q) => Excused(q)'
    BY <1>3, <2>1 DEF Excused
  <2> QED
    BY <1>3, <1>7, <2>1, <2>2, IngestionKept
<1> QED
  BY <1>4, <1>5, <1>6, <1>7

LEMMA FailKeeps ==
  ASSUME HooksInv, NEW h \in Handlers, req[h].pc # "idle", Fail(h),
         UNCHANGED <<admin, files, events>>
  PROVE  HooksInv'
<1>1. PICK t : t = req[h].home
  OBVIOUS
<1>2. t \in TenantIDs /\ budget' \in [Perturbations -> Nat]
  BY <1>1, Spent DEF Fail, HooksInv, Uploads, Perturbations
<1>3. Ingestion(t)'
  BY <1>1 DEF Fail, Ingestion
<1> QED
  BY <1>1, <1>2, <1>3, FinishKeeps DEF Fail

LEMMA ReceiveKeeps ==
  ASSUME HooksInv, NEW h \in Handlers, NEW u \in Usernames, Receive(h, u)
  PROVE  HooksInv'
<1> USE DEF HooksInv
<1>1. /\ req[h].pc = "idle" /\ events' = events \ {u}
      /\ UNCHANGED <<tenants, owner, held, objects, sessions, written, records>>
      /\ UNCHANGED <<admin, files>>
  BY DEF Receive, admin, files
<1>2. Ownership'
  BY <1>1, OwnershipKept
<1>3. \A r \in Named(u) : r.tenant_id \in TenantIDs /\ owner[r.tenant_id] \in Usernames
  BY DEF Named, TypeOK, Table!Row, Ownership
<1>4. CASE /\ UNCHANGED req /\ budget' \in [Perturbations -> Nat]
           /\ \/ Named(u) = {} /\ UNCHANGED spoiled
              \/ spoiled' = spoiled \cup {r.tenant_id : r \in Named(u)}
  <2>1. spoiled' \subseteq TenantIDs
    BY <1>3, <1>4 DEF TypeOK
  <2>2. TypeOK' /\ Uploads'
    BY <1>1, <1>4, <2>1 DEF TypeOK, Uploads
  <2>3. Origin'
    BY <1>1, <1>4, OriginKept
  <2>4. ASSUME NEW t \in TenantIDs PROVE Ingestion(t)'
    <3>1. t \notin spoiled' => (Excused(t) => Excused(t)')
      BY <1>1, <1>4, ExcusedOthers
    <3> QED
      BY <1>1, <1>4, <3>1, UploadingKept, IngestionKept
  <2> QED
    BY <1>2, <2>2, <2>3, <2>4
<1>5. ASSUME NEW r \in Named(u),
             req' = [req EXCEPT ![h] = [NoRequest EXCEPT !.pc = "open", !.home = r.tenant_id]],
             UNCHANGED <<budget, spoiled>>
      PROVE  HooksInv'
  <2>1. PICK t : t = r.tenant_id
    OBVIOUS
  <2>2. PICK x : x = [NoRequest EXCEPT !.pc = "open", !.home = t]
    OBVIOUS
  <2>3. t \in TenantIDs /\ owner[t] \in Usernames
    BY <1>3, <1>5, <2>1
  <2>4. x \in Request /\ x.pc = "open" /\ x.home = t
    BY <2>2, <2>3 DEF NoRequest, Request
  <2>5. req' = [req EXCEPT ![h] = x]
    BY <1>5, <2>1, <2>2
  <2>6. req'[h] = x /\ \A g \in Handlers : g # h => req'[g] = req[g]
    BY <2>5 DEF TypeOK
  <2>7. TypeOK'
    BY <1>1, <1>5, <2>3, <2>4, <2>5 DEF TypeOK
  <2>8. Uploads'
    BY <1>1, <2>3, <2>4, <2>6 DEF Uploads
  <2>9. Origin'
    BY <1>1, <2>4, <2>6, OriginKept
  <2>10. ASSUME NEW q \in TenantIDs, q # t PROVE Ingestion(q)'
    <3>1. Uploading(q)' = Uploading(q) /\ \A g \in Uploading(q) : req'[g] = req[g]
      BY <1>1, <2>4, <2>6, <2>10 DEF Uploading
    <3>2. \A s \in Named(u) : s = r
      BY <1>5 DEF Named, Ownership
    <3>3. Excused(q) => Excused(q)'
      BY <1>1, <2>1, <2>6, <2>10, <3>2, ExcusedOthers
    <3> QED
      BY <1>1, <1>5, <3>1, <3>3, IngestionKept
  <2>11. Ingestion(t)'
    <3>1. Excused(t)'
      BY <2>4, <2>6 DEF Excused, Uploading
    <3>2. /\ Reading(t)' = Reading(t) /\ \A g \in Reading(t) : req'[g] = req[g]
          /\ Listed(t)' = Listed(t)
      BY <1>1, <2>4, <2>6 DEF Reading, Uploading, Listed
    <3>3. \A f : Settled(t, f) => Settled(t, f)'
      BY <3>2, SettledKept DEF Awaited
    <3>4. ASSUME t \notin spoiled'
          PROVE  /\ \A g, e \in Reading(t) : req[g].file = req[e].file
                 /\ \A g \in Reading(t) : Settled(t, req[g].file)
      BY <1>5, <2>3, <3>4 DEF Ingestion
    <3> QED
      BY <3>1, <3>2, <3>3, <3>4 DEF Ingestion
  <2> QED
    BY <1>2, <2>7, <2>8, <2>9, <2>10, <2>11
<1>6. CASE /\ \E r \in Named(u) :
                req' = [req EXCEPT ![h] = [NoRequest EXCEPT !.pc = "open", !.home = r.tenant_id]]
           /\ UNCHANGED <<budget, spoiled>>
  BY <1>5, <1>6
<1>7. Spend("failures") => budget' \in [Perturbations -> Nat]
  BY Spent DEF Perturbations
<1>8. UNCHANGED budget => budget' \in [Perturbations -> Nat]
  BY DEF TypeOK
<1> QED
  BY <1>4, <1>6, <1>7, <1>8 DEF Receive

LEMMA OpenKeeps ==
  ASSUME HooksInv, NEW h \in Handlers, Open(h)
  PROVE  HooksInv'
<1> USE DEF HooksInv
<1>1. PICK t : t = req[h].home
  OBVIOUS
<1>2. PICK f : f = objects[t]
  OBVIOUS
<1>3. /\ req[h].pc = "open" /\ req[h] \in Request
      /\ t \in TenantIDs /\ owner[t] \in Usernames /\ f \in Files \cup {None}
  BY <1>1, <1>2 DEF Open, TypeOK, Uploads
<1>4. UNCHANGED <<admin, files, events>>
      /\ UNCHANGED <<tenants, owner, held, objects, sessions, written>>
  BY DEF Open, admin, files
<1>5. CASE Fail(h)
  BY <1>3, <1>4, <1>5, FailKeeps
<1>6. CASE (f # None => ~HasRequired(f)) /\ Finish(h) /\ UNCHANGED <<records, budget, spoiled>>
  <2>1. Unreadable(t)'
    BY <1>2, <1>4, <1>6 DEF Unreadable, HasRequired
  <2>2. NoRequest.pc = "idle" /\ req' = [req EXCEPT ![h] = NoRequest]
    BY <1>6 DEF NoRequest, Finish
  <2>3. /\ Reading(t)' = Reading(t) /\ \A g \in Reading(t) : req'[g] = req[g]
        /\ Listed(t)' = Listed(t)
    BY <1>3, <1>6, <2>2 DEF Reading, Uploading, Listed, TypeOK
  <2>4. \A e : Settled(t, e) => Settled(t, e)'
    BY <2>3, SettledKept DEF Awaited
  <2>5. Ingestion(t)'
    BY <1>3, <1>6, <2>1, <2>3, <2>4 DEF Ingestion
  <2>6. budget' \in [Perturbations -> Nat]
    BY <1>6 DEF TypeOK
  <2> QED
    BY <1>1, <1>3, <1>4, <1>6, <2>5, <2>6, FinishKeeps
<1>7. CASE /\ f # None /\ HasRequired(f)
           /\ req' = [req EXCEPT ![h].pc = "row", ![h].file = f, ![h].next = 1]
           /\ spoiled' = IF \A g \in Reading(t) : req[g].file = f THEN spoiled \ {t}
                         ELSE spoiled \cup {t}
           /\ UNCHANGED <<records, budget>>
  <2>1. PICK x : x = [req[h] EXCEPT !.pc = "row", !.file = f, !.next = 1]
    OBVIOUS
  <2>2. f \in Files /\ f # None
    BY <1>3, <1>7
  <2>3. /\ x \in Request /\ x.pc = "row" /\ x.home = t /\ x.file = f /\ x.next = 1
        /\ req[h].home = t
    BY <1>1, <1>3, <2>1, <2>2 DEF Request
  <2>4. req' = [req EXCEPT ![h] = x]
    BY <1>7, <2>1 DEF TypeOK
  <2>5. req'[h] = x /\ \A g \in Handlers : g # h => req'[g] = req[g]
    BY <2>4 DEF TypeOK
  <2>6. TypeOK'
    <3>1. req' \in [Handlers -> Request]
      BY <2>3, <2>4 DEF TypeOK
    <3> QED
      BY <1>3, <1>4, <1>7, <3>1 DEF TypeOK
  <2>7. 1 \in 1..(Len(f.lines) + 1) /\ 1..(1 - 1) = {}
    BY <2>2, FileShape
  <2>8. Uploads'
    BY <1>3, <1>4, <1>7, <2>2, <2>3, <2>5, <2>7 DEF Uploads, HasRequired
  <2>9. Ownership' /\ Origin'
    BY <1>2, <1>3, <1>4, <1>7, <2>2, <2>3, <2>5, OwnershipKept, OriginKept
  <2>10. ASSUME NEW q \in TenantIDs, q # t PROVE Ingestion(q)'
    <3>1. Uploading(q)' = Uploading(q) /\ \A g \in Uploading(q) : req'[g] = req[g]
      BY <1>3, <2>3, <2>5, <2>10 DEF Uploading
    <3>2. Excused(q) => Excused(q)'
      BY <1>4, <3>1 DEF Excused
    <3>3. q \in spoiled' <=> q \in spoiled
      BY <1>7, <2>10
    <3> QED
      BY <1>4, <1>7, <3>1, <3>2, <3>3, IngestionKept
  <2>11. ASSUME t \notin spoiled' PROVE Ingestion(t)'
    <3>1. \A g \in Reading(t) : req[g].file = f
      BY <1>7, <2>11
    <3>2. h \in Reading(t)' /\ \A g \in Reading(t)' : req'[g].file = f
      BY <2>3, <2>5, <3>1 DEF Reading, Uploading
    <3>3. Settled(t, f)'
      <4>1. \A i \in DOMAIN f.lines : req'[h].next <= i
        BY <2>2, <2>3, <2>5, FileShape
      <4> QED
        BY <3>2, <4>1 DEF Settled, Awaited
    <3> QED
      BY <1>2, <1>4, <3>2, <3>3 DEF Ingestion
  <2>12. Ingestion(t)'
    BY <2>11 DEF Ingestion
  <2> QED
    BY <2>6, <2>8, <2>9, <2>10, <2>12
<1> QED
  BY <1>1, <1>2, <1>5, <1>6, <1>7 DEF Open

LEMMA ReadRowKeeps ==
  ASSUME HooksInv, NEW h \in Handlers, ReadRow(h)
  PROVE  HooksInv'
<1> USE DEF HooksInv
<1>1. PICK t : t = req[h].home
  OBVIOUS
<1>2. PICK f : f = req[h].file
  OBVIOUS
<1>3. PICK n : n = req[h].next
  OBVIOUS
<1>4. /\ req[h].pc = "row" /\ req[h] \in Request
      /\ t \in TenantIDs /\ f \in Files /\ HasRequired(f)
      /\ n \in 1..(Len(f.lines) + 1) /\ \A j \in 1..(n - 1) : f.lines[j] # Bad
  BY <1>1, <1>2, <1>3 DEF ReadRow, TypeOK, Uploads
<1>5. UNCHANGED <<admin, files, events>>
      /\ UNCHANGED <<tenants, owner, held, objects, sessions, written>>
  BY DEF ReadRow, admin, files
<1>6. h \in Reading(t)
  BY <1>1, <1>4 DEF Uploading, Reading
<1>7. \A i : Final(f, i) => i \in Nat /\ i \in 1..Len(f.lines)
  BY <1>4, FileShape DEF Final, Reached
<1>8. CASE Fail(h)
  BY <1>4, <1>5, <1>8, FailKeeps
<1>9. CASE /\ n \in DOMAIN f.lines => f.lines[n] = Bad
           /\ Finish(h) /\ UNCHANGED <<records, budget, spoiled>>
  <2>1. NoRequest.pc = "idle" /\ req'[h] = NoRequest
        /\ \A g \in Handlers : g # h => req'[g] = req[g]
    BY <1>9 DEF NoRequest, Finish, TypeOK
  <2>2. /\ Reading(t)' = Reading(t) \ {h} /\ \A g \in Reading(t)' : req'[g] = req[g]
        /\ Listed(t)' = Listed(t)
    BY <1>9, <2>1 DEF Reading, Uploading, Listed
  <2>3. \A i \in DOMAIN f.lines : Final(f, i) => ~(n <= i)
    <3> SUFFICES ASSUME NEW i \in DOMAIN f.lines, Final(f, i), n <= i PROVE FALSE
      OBVIOUS
    <3>1. n \in 1..i /\ n \in DOMAIN f.lines
      BY <1>4, <1>7, FileShape
    <3> QED
      BY <1>9, <3>1 DEF Final, Reached
  <2>4. Settled(t, f) => Settled(t, f)'
    <3>1. \A i \in DOMAIN f.lines : Final(f, i) /\ Awaited(t, i) => Awaited(t, i)'
      BY <1>3, <2>2, <2>3 DEF Awaited
    <3> QED
      BY <2>2, <3>1, SettledKept
  <2>5. Excused(t) => Excused(t)'
    BY <1>4, <1>5, <2>1 DEF Excused, Uploading
  <2>6. Unreadable(t)' <=> Unreadable(t)
    BY <1>5 DEF Unreadable, HasRequired
  <2>7. Ingestion(t)'
    BY <1>2, <1>4, <1>5, <1>6, <1>9, <2>2, <2>4, <2>5, <2>6 DEF Ingestion
  <2>8. budget' \in [Perturbations -> Nat]
    BY <1>9 DEF TypeOK
  <2> QED
    BY <1>1, <1>4, <1>5, <1>9, <2>7, <2>8, FinishKeeps
<1>10. CASE /\ n \in DOMAIN f.lines /\ f.lines[n] # Bad
            /\ records' = Upserted(records, t, f.lines[n])
            /\ req' = [req EXCEPT ![h].next = n + 1]
            /\ UNCHANGED <<budget, spoiled>>
  <2>1. n \in 1..Len(f.lines) /\ n \in Nat /\ Len(f.lines) \in Nat
    BY <1>4, <1>10, FileShape
  <2>2. f.lines[n] \in Line /\ f.lines[n].key \in RecordKeys /\ f.lines[n].value \in Values
    BY <1>4, <1>10, FileShape DEF Line
  <2>3. PICK x : x = [req[h] EXCEPT !.next = n + 1]
    OBVIOUS
  <2>4. /\ x \in Request /\ x.pc = "row" /\ x.home = t /\ x.file = f /\ x.next = n + 1
        /\ req[h].home = t /\ req[h].file = f
    <3>1. PICK q \in Request : q = req[h]
      BY <1>4
    <3>2. q.pc = "row" /\ q.home = t /\ q.file = f /\ n + 1 \in Nat
      BY <1>1, <1>2, <1>4, <2>1, <3>1
    <3>3. x = [q EXCEPT !.next = n + 1]
      BY <2>3, <3>1
    <3> QED
      BY <1>1, <1>2, <3>2, <3>3 DEF Request
  <2>5. req' = [req EXCEPT ![h] = x] /\ req'[h] = x
        /\ \A g \in Handlers : g # h => req'[g] = req[g]
    BY <1>10, <2>3 DEF TypeOK
  <2>6. /\ records' \in [TenantIDs -> [RecordKeys -> Values \cup {None}]]
        /\ f.lines[n] \in Listed(t)'
        /\ \A m \in Listed(t) : m.key # f.lines[n].key => m \in Listed(t)'
        /\ \A m \in Listed(t)' : m = f.lines[n] \/ m \in Listed(t)
        /\ \A q \in TenantIDs : q # t => records'[q] = records[q]
    BY <1>4, <1>10, <2>2, UpsertLists
  <2>7. \A j \in 1..n : f.lines[j] # Bad
    BY <1>4, <1>10, <2>1
  <2>8. Reached(f, n)
    BY <1>4, <1>10, <2>7 DEF Reached
  <2>9. TypeOK'
    <3>1. req' \in [Handlers -> Request]
      BY <2>4, <2>5 DEF TypeOK
    <3> QED
      BY <1>5, <1>10, <2>6, <3>1 DEF TypeOK
  <2>10. Uploads'
    <3>1. n + 1 \in 1..(Len(f.lines) + 1) /\ (n + 1) - 1 = n
      BY <2>1
    <3>2. \A j \in 1..(x.next - 1) : x.file.lines[j] # Bad
      BY <2>4, <2>7, <3>1
    <3>3. owner[t] \in Usernames
      BY <1>1, <1>4 DEF Uploads
    <3> QED
      BY <1>4, <1>5, <2>4, <2>5, <3>1, <3>2, <3>3 DEF Uploads, HasRequired
  <2>11. Ownership'
    BY <1>5, OwnershipKept
  <2>12. Origin'
    <3>1. PICK w \in written : w.home = t /\ w.file = f
      BY <1>1, <1>2, <1>4 DEF Origin
    <3>2. LineOf(f.lines[n], f)
      BY <1>10, <2>8 DEF LineOf
    <3>3. ASSUME NEW q \in TenantIDs, NEW l \in Listed(q)'
          PROVE  \E v \in written : v.home = q /\ LineOf(l, v.file)
      <4>1. CASE q = t /\ l = f.lines[n]
        BY <3>1, <3>2, <4>1
      <4>2. CASE l \in Listed(q)
        BY <4>2 DEF Origin
      <4>3. q # t => Listed(q)' = Listed(q)
        BY <2>6 DEF Listed
      <4> QED
        BY <2>6, <4>1, <4>2, <4>3
    <3>4. ASSUME NEW g \in Handlers, req'[g].pc = "row"
          PROVE  \E v \in written : v.home = req'[g].home /\ v.file = req'[g].file
      BY <2>4, <2>5, <3>1, <3>4 DEF Origin
    <3>5. \A l, e : LineOf(l, e)' <=> LineOf(l, e)
      BY DEF LineOf, Reached, HasRequired
    <3> QED
      BY <1>5, <3>3, <3>4, <3>5 DEF Origin
  <2>13. \A q \in TenantIDs : Uploading(q)' = Uploading(q) /\ Reading(q)' = Reading(q)
    BY <1>4, <2>4, <2>5 DEF Uploading, Reading
  <2>14. \A q \in TenantIDs : Excused(q) => Excused(q)'
    BY <1>4, <1>5, <2>4, <2>5 DEF Excused, Uploading
  <2>15. ASSUME NEW q \in TenantIDs, q # t PROVE Ingestion(q)'
    <3>1. \A g \in Uploading(q) : req'[g] = req[g]
      BY <2>4, <2>5, <2>15 DEF Uploading
    <3> QED
      BY <1>5, <1>10, <2>6, <2>13, <2>14, <2>15, <3>1, IngestionKept
  <2>16. Settled(t, f) => Settled(t, f)'
    <3> SUFFICES ASSUME Settled(t, f), NEW i \in DOMAIN f.lines, Final(f, i)
                 PROVE  f.lines[i] \in Listed(t)' \/ Awaited(t, i)'
      <4>1. \A i : Final(f, i)' <=> Final(f, i)
        BY DEF Final, Reached, HasRequired
      <4> QED
        BY <4>1 DEF Settled
    <3>1. i \in 1..Len(f.lines) /\ i \in Nat
      BY <1>7
    <3>2. CASE i = n
      BY <2>6, <3>2
    <3>3. CASE n < i
      <4>1. req'[h].next <= i
        BY <2>1, <2>4, <2>5, <3>1, <3>3
      <4> QED
        BY <1>4, <1>6, <2>13, <4>1 DEF Awaited
    <3>4. CASE i < n
      <4>1. f.lines[n].key # f.lines[i].key
        BY <2>1, <2>8, <3>1, <3>4 DEF Final
      <4>2. \A g \in Reading(t) : req[g].next <= i => req'[g] = req[g]
        BY <1>3, <2>1, <2>5, <3>1, <3>4 DEF Reading, Uploading
      <4> QED
        BY <1>4, <2>6, <2>13, <4>1, <4>2 DEF Settled, Awaited
    <3> QED
      BY <2>1, <3>1, <3>2, <3>3, <3>4
  <2>17. ASSUME t \notin spoiled' PROVE Ingestion(t)'
    <3>1. /\ \A g \in Reading(t) : req[g].file = f
          /\ Settled(t, f) /\ (Excused(t) \/ Unreadable(t) \/ f = objects[t])
      BY <1>2, <1>4, <1>6, <1>10, <2>17 DEF Ingestion
    <3>2. \A g \in Reading(t)' : req'[g].file = f
      BY <1>4, <2>4, <2>5, <2>13, <3>1
    <3>3. Unreadable(t)' <=> Unreadable(t)
      BY <1>5 DEF Unreadable, HasRequired
    <3> QED
      BY <1>4, <1>5, <1>6, <2>13, <2>14, <2>16, <3>1, <3>2, <3>3 DEF Ingestion
  <2>18. Ingestion(t)'
    BY <2>17 DEF Ingestion
  <2> QED
    BY <2>9, <2>10, <2>11, <2>12, <2>15, <2>18
<1> QED
  BY <1>1, <1>2, <1>3, <1>8, <1>9, <1>10 DEF ReadRow

-----------------------------------------------------------------------------

LEMMA InvNext == HooksInv /\ [Next]_vars => HooksInv'
<1> SUFFICES ASSUME HooksInv, [Next]_vars PROVE HooksInv'
  OBVIOUS
<1>1. CASE UNCHANGED vars
  <2>1. UNCHANGED <<tenants, records, objects, sessions, events, req, budget, owner, held,
                    written, spoiled>>
    BY <1>1 DEF vars
  <2>2. TypeOK' /\ Uploads'
    BY <2>1 DEF HooksInv, TypeOK, Uploads
  <2>3. Ownership' /\ Origin'
    BY <2>1, OwnershipKept, OriginKept DEF HooksInv, admin, files
  <2>4. ASSUME NEW t \in TenantIDs PROVE Ingestion(t)'
    <3>1. Excused(t) => Excused(t)'
      BY <2>1 DEF Excused, Uploading
    <3> QED
      BY <2>1, <3>1, UploadingKept, IngestionKept DEF HooksInv
  <2> QED
    BY <2>2, <2>3, <2>4 DEF HooksInv
<1>2. CASE Administer
  BY <1>2, AdministerKeeps
<1>3. CASE Login
  BY <1>3, AuthenticateKeeps DEF Login
<1>4. ASSUME NEW h \in Handlers, Ingest(h) PROVE HooksInv'
  BY <1>4, OpenKeeps, ReadRowKeeps DEF Ingest
<1>5. ASSUME NEW h \in Handlers, NEW u \in Usernames, Receive(h, u) PROVE HooksInv'
  BY <1>5, ReceiveKeeps
<1>6. CASE Environment
  BY <1>6, StoreKeeps, ResendKeeps, LoseKeeps, CrashKeeps DEF Environment
<1> QED
  BY <1>1, <1>2, <1>3, <1>4, <1>5, <1>6 DEF Next

LEMMA HooksInvariant == Spec => []HooksInv
BY InvInit, InvNext, PTL DEF Spec

\* Every reachable state of the hooks and the object store is well typed.
THEOREM TypeCorrect == Spec => []TypeOK
<1>1. HooksInv => TypeOK
  BY DEF HooksInv
<1> QED
  BY <1>1, HooksInvariant, PTL

\* However uploads overlap, fail, come again or outlive their tenant, a tenant's
\* records come from files that were written on its own credentials.
THEOREM OwnRecords == Spec => []RecordsAreTheTenantsOwn
<1>1. HooksInv => RecordsAreTheTenantsOwn
  BY DEF HooksInv, Origin, Ownership, LineOf, RecordsAreTheTenantsOwn
<1> QED
  BY <1>1, HooksInvariant, PTL

\* Once the uploads of a tenant are through, its records agree with its present
\* file, however many files there were before and however often one was read,
\* unless an upload failed, got lost or overlapped with that of another file and
\* none has been opened since.
THEOREM LatestIngested == Spec => []LatestFileIngested
<1>1. HooksInv => LatestFileIngested
  <2> SUFFICES ASSUME HooksInv, NEW r \in tenants,
                      r.tenant_id \notin spoiled, r.username \notin events,
                      Uploading(r.tenant_id) = {}, objects[r.tenant_id] # None
               PROVE  Stored(r.tenant_id, objects[r.tenant_id])
    BY DEF LatestFileIngested
  <2>1. PICK t \in TenantIDs : t = r.tenant_id
    BY DEF HooksInv, TypeOK, Table!Row
  <2>2. ~Excused(t)
    BY <2>1 DEF HooksInv, Ownership, Excused
  <2>3. Reading(t) = {}
    BY <2>1 DEF Reading
  <2>4. CASE Unreadable(t)
    BY <2>1, <2>4 DEF Unreadable, Stored, Final, Reached
  <2>5. CASE Settled(t, objects[t])
    BY <2>1, <2>3, <2>5 DEF Stored, Settled, Awaited
  <2> QED
    BY <2>1, <2>2, <2>3, <2>4, <2>5 DEF HooksInv, Ingestion
<1> QED
  BY <1>1, HooksInvariant, PTL
=============================================================================
