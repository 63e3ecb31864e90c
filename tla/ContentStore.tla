---------------------------- MODULE ContentStore ----------------------------
(***************************************************************************)
(* The content catalogue: the tables drs_object, drs_object_checksum,      *)
(* drs_object_access_method, drs_object_controlled_access,                 *)
(* drs_object_read_policy and drs_object_alias, and every transaction that *)
(* changes them.                                                           *)
(*                                                                         *)
(* A client is a server goroutine running one persistence call.  It begins *)
(* a transaction, waits for the content-write lock (the PostgreSQL         *)
(* transaction-scoped advisory lock; the SQLite immediate writer lock),    *)
(* processes the elements of its request one at a time against what READ   *)
(* COMMITTED lets it see (the committed tables under its own uncommitted   *)
(* writes), and commits or rolls back.  Both back ends run the same Go     *)
(* logic, so one module models both; the map names the PostgreSQL lines.   *)
(*                                                                         *)
(* Left out: names, versions, descriptions, timestamps and checksums other *)
(* than SHA-256, which no decision below reads, and the object_usage       *)
(* tables, which module UsageLedger models together with the flush these   *)
(* transactions end with.                                                  *)
(***************************************************************************)
EXTENDS AccessPolicy, Naturals

CONSTANTS
    Clients,     \* concurrent persistence calls
    Ids,         \* record ids (UUIDs), physical or alias
    SHAs,        \* canonical SHA-256 values
    Sizes,       \* object sizes; 0 means unknown
    Methods,     \* access methods (type and URL)
    OrgScopes,   \* for each organization, the set of its resources
    LegacyRows,  \* rows an older server left, without a read-policy row
    LegacySHAs,  \* the SHA-256 values older servers stored more than once
    Inputs,      \* the records requests carry
    MaxBatch,    \* bound: elements in one bulk request
    NoRow, NoId, NoSHA, Nil, Keep   \* absent values

Policies == {"none", "private", "public"}

Row == [sha : SHAs \cup {NoSHA}, size : Sizes, res : SUBSET Resources,
        meths : SUBSET Methods, policy : Policies]

\* What a registration or a replacement carries.  res = Nil and meths = Nil
\* are absent JSON fields.
Record == [id : Ids, sha : SHAs \cup {NoSHA}, size : Sizes,
           res : {Nil} \cup SUBSET Resources, meths : {Nil} \cup SUBSET Methods,
           aliases : SUBSET Ids, public : BOOLEAN]

BulkOps   == {"register", "replace", "bulkDelete", "bulkMethods", "removeGrantBulk"}
SingleOps == {"delete", "createAlias", "deleteAlias", "methods", "removeGrant"}
Ops == BulkOps \cup SingleOps

Max(op) == IF op \in BulkOps THEN MaxBatch ELSE 1

ASSUME StoreAssumption ==
    /\ Sessions # {}
    /\ Sizes \subseteq Nat /\ 0 \in Sizes
    /\ OrgScopes \subseteq SUBSET Resources
    /\ LegacyRows \subseteq {row \in Row : row.policy = "none"}
    /\ LegacySHAs \subseteq SHAs
    /\ Inputs \subseteq Record
    /\ MaxBatch \in Nat \ {0}
    /\ NoRow \notin Row
    /\ Keep \notin Row \cup {NoRow} /\ Keep \notin Ids \cup {NoId}
    /\ NoId \notin Ids \cup Clients /\ NoSHA \notin SHAs
    /\ \A R \in (SUBSET Resources) \cup (SUBSET Methods) : Nil # R

VARIABLES
    db,    \* the committed tables
    txn,   \* txn[c]: the transaction of client c and its uncommitted writes
    lock,  \* the client that holds the content-write lock, or NoId
    last   \* the operation and the session of the last commit

vars == <<db, txn, lock, last>>

-----------------------------------------------------------------------------
(* Reading the tables.  v is a view: [rows, alias]. *)

\* Mutant: the alias table is consulted first, as internal/persistence/README.md
\* describes the lookup.
AliasFirst(v, id) ==
    IF v.alias[id] # NoId THEN v.alias[id] ELSE IF v.rows[id] # NoRow THEN id ELSE NoId

\* The physical row if there is one, otherwise the alias row.
Resolve(v, id) == IF v.rows[id] # NoRow THEN id ELSE v.alias[id]

ShaOf(v, id) == IF v.rows[id] = NoRow THEN NoSHA ELSE v.rows[id].sha

Owners(v, sha) == {i \in Ids : v.rows[i] # NoRow /\ v.rows[i].sha = sha}

ResourcesOf(v, id) == IF v.rows[id] = NoRow THEN {} ELSE v.rows[id].res

\* The stored policy, or the inferred one when there is no policy row.
PublicRead(v, id, inferred) ==
    IF v.rows[id] = NoRow \/ v.rows[id].policy = "none"
      THEN inferred
      ELSE v.rows[id].policy = "public"

\* Upsert of the policy row: once public, always public.
SetPublicRead(policy, public) ==
    IF public \/ policy = "public" THEN "public" ELSE "private"

CheckUUIDClaim(v, id, canonical) == v.alias[id] \in {NoId, canonical}

EnsureNoLegacyDuplicate(v, id) ==
    ShaOf(v, id) # NoSHA => Owners(v, ShaOf(v, id)) = {id}

CanReadContent(s, resources) ==
    \/ s \in Unenforced
    \/ resources # {} /\ HasObjectMethodAccess(s, "read", resources)

\* Mutant: joining a project needs no create privilege there.
CreateUnchecked(s, resources, current) == TRUE

CanCreateResources(s, resources, current) ==
    \A r \in resources \ current : HasMethodAccess(s, "create", {r})

\* Mutant: one granting project is enough.
RequireAnyGrant(v, s, id, method) == HasObjectMethodAccess(s, method, ResourcesOf(v, id))

RequireContentMethod(v, s, id, method) ==
    HasMethodAccess(s, method, ResourcesOf(v, id))

ObjectResources(obj) == IF obj.res = Nil THEN {} ELSE obj.res

\* Alias rows are inserted with ON CONFLICT DO NOTHING.
InsertAliases(alias, ids, canonical) ==
    [a \in Ids |-> IF a \in ids \ {canonical} /\ alias[a] = NoId
                     THEN canonical ELSE alias[a]]

\* Mutant: sizes are not compared.
SizesIgnored(a, b) == FALSE

SizesConflict(a, b) == a # 0 /\ b # 0 /\ a # b

\* Mutant: a merge adds the sizes up.
SummedSize(existing, incoming) == existing + incoming

MergedSize(existing, incoming) == IF existing = 0 THEN incoming ELSE existing

-----------------------------------------------------------------------------
(* Registration: one element of RegisterObjects. *)

\* The row the element belongs to: the owner of its SHA-256, else the row its
\* id resolves to, else a new row under its own id.
CanonicalID(v, obj) ==
    LET owners == IF obj.sha = NoSHA THEN {} ELSE Owners(v, obj.sha)
    IN  IF owners # {} THEN CHOOSE o \in owners : TRUE
        ELSE IF Resolve(v, obj.id) # NoId THEN Resolve(v, obj.id)
        ELSE obj.id

\* Mutant: of several rows with the same SHA-256 the first one is taken.
FirstOwnerTaken(v, obj) ==
    LET found  == Resolve(v, obj.id)
        owners == Owners(v, obj.sha)
    IN  obj.sha # NoSHA =>
          /\ owners # {} /\ found # NoId => found \in owners
          /\ owners = {} /\ found # NoId => ShaOf(v, found) = NoSHA

IdentityOK(v, obj) ==
    LET found  == Resolve(v, obj.id)
        owners == Owners(v, obj.sha)
    IN  obj.sha # NoSHA =>
          /\ \A i, j \in owners : i = j
          /\ owners # {} /\ found # NoId => found \in owners
          /\ owners = {} /\ found # NoId => ShaOf(v, found) = NoSHA

\* Mutant: only a new project is a join, a new location is not.
JoinsByGrant(obj, current) == ObjectResources(obj) \ current # {} \/ current = {}

\* What a registration adds to a private row counts as joining it.
Joins(obj, current) ==
    ObjectResources(obj) \ current # {} \/ current = {} \/ obj.meths # Nil

RegisterOK(v, s, obj) ==
    LET canonical == CanonicalID(v, obj)
        existing  == v.rows[canonical] # NoRow
        current   == ResourcesOf(v, canonical)
        incoming  == ObjectResources(obj)
        public    == PublicRead(v, canonical, current = {})
    IN  /\ IdentityOK(v, obj)
        /\ CheckUUIDClaim(v, obj.id, canonical)
        /\ existing /\ obj.sha # NoSHA =>
             ~SizesConflict(v.rows[canonical].size, obj.size)
        /\ existing /\ ~public /\ Joins(obj, current) => CanReadContent(s, current)
        /\ CanCreateResources(s, incoming, current)
        /\ \A a \in obj.aliases \ {canonical} : CheckUUIDClaim(v, a, canonical)

\* The row after the merge: children are only added.
MergedRow(v, obj) ==
    LET canonical == CanonicalID(v, obj)
        row       == v.rows[canonical]
        incoming  == ObjectResources(obj)
        methods   == IF obj.meths = Nil THEN {} ELSE obj.meths
    IN  IF row = NoRow
          THEN [sha |-> obj.sha, size |-> obj.size, res |-> incoming, meths |-> methods,
                policy |-> SetPublicRead("none", incoming = {})]
          ELSE [sha    |-> IF obj.sha = NoSHA THEN row.sha ELSE obj.sha,
                size   |-> MergedSize(row.size, obj.size),
                res    |-> row.res \cup incoming,
                meths  |-> row.meths \cup methods,
                policy |-> SetPublicRead(row.policy, PublicRead(v, canonical, row.res = {}))]

Registered(v, obj) ==
    LET canonical == CanonicalID(v, obj)
    IN  [rows  |-> [v.rows EXCEPT ![canonical] = MergedRow(v, obj)],
         alias |-> InsertAliases(v.alias, obj.aliases \cup {obj.id}, canonical)]

-----------------------------------------------------------------------------
(* Replacement: one element of ReplaceObjects. *)

ReplaceOK(v, s, obj) ==
    LET canonical == Resolve(v, obj.id)
        current   == ResourcesOf(v, canonical)
        incoming  == ObjectResources(obj)
        stored    == ShaOf(v, canonical)
    IN  /\ canonical # NoId
        /\ EnsureNoLegacyDuplicate(v, canonical)
        /\ HasMethodAccess(s, "update", current)
        /\ obj.sha # NoSHA /\ stored = NoSHA => Owners(v, obj.sha) = {}
        /\ obj.sha # NoSHA /\ stored # NoSHA => stored = obj.sha
        /\ incoming \ current # {} =>
             /\ PublicRead(v, canonical, current = {}) \/ CanReadContent(s, current)
             /\ CanCreateResources(s, incoming, current)
        /\ v.rows[canonical] # NoRow
        /\ stored # NoSHA => ~SizesConflict(v.rows[canonical].size, obj.size)
        /\ \A a \in obj.aliases \ {canonical} : CheckUUIDClaim(v, a, canonical)

\* An absent field keeps the stored value; the policy is computed from the
\* grants as they were before the replacement.
ReplacedRow(v, obj) ==
    LET canonical == Resolve(v, obj.id)
        row       == v.rows[canonical]
        public    == PublicRead(v, canonical, row.res = {}) \/ obj.public
    IN  [sha    |-> IF obj.sha = NoSHA THEN row.sha ELSE obj.sha,
         size   |-> IF obj.size = 0 THEN row.size ELSE obj.size,
         res    |-> IF obj.res = Nil THEN row.res ELSE obj.res,
         meths  |-> IF obj.meths = Nil THEN row.meths ELSE obj.meths,
         policy |-> SetPublicRead(row.policy, public)]

Replaced(v, obj) ==
    LET canonical == Resolve(v, obj.id)
    IN  [rows  |-> [v.rows EXCEPT ![canonical] = ReplacedRow(v, obj)],
         alias |-> InsertAliases(v.alias, obj.aliases \cup {obj.id}, canonical)]

-----------------------------------------------------------------------------
(* The other mutations of a row. *)

\* Mutant: alias rows outlive the row they point at.
WithoutCascade(v, ids) ==
    [v EXCEPT !.rows = [i \in Ids |-> IF i \in ids THEN NoRow ELSE v.rows[i]]]

\* Rows go with their checksums, methods, grants, policy and the alias rows
\* that point at them (ON DELETE CASCADE).
WithoutRows(v, ids) ==
    [rows  |-> [i \in Ids |-> IF i \in ids THEN NoRow ELSE v.rows[i]],
     alias |-> [a \in Ids |-> IF v.alias[a] \in ids THEN NoId ELSE v.alias[a]]]

DeleteOK(v, s, id) ==
    LET canonical == Resolve(v, id)
    IN  /\ canonical # NoId
        /\ EnsureNoLegacyDuplicate(v, canonical)
        /\ RequireContentMethod(v, s, canonical, "delete")

\* One id of a bulk delete: unknown ids are skipped, a physical id may name one
\* of several legacy duplicates.
BulkDeleteOK(v, s, id) ==
    LET canonical == Resolve(v, id)
    IN  canonical # NoId =>
          /\ canonical # id => EnsureNoLegacyDuplicate(v, canonical)
          /\ RequireContentMethod(v, s, canonical, "delete")

CreateAliasOK(v, s, alias, canonical) ==
    /\ alias # canonical
    /\ v.rows[canonical] # NoRow
    /\ EnsureNoLegacyDuplicate(v, canonical)
    /\ RequireContentMethod(v, s, canonical, "update")
    /\ v.rows[alias] = NoRow
    /\ v.alias[alias] \in {NoId, canonical}

UpdateMethodsOK(v, s, id) ==
    /\ Resolve(v, id) # NoId
    /\ RequireContentMethod(v, s, Resolve(v, id), "update")

WithMethods(v, id, methods) ==
    [v EXCEPT !.rows[Resolve(v, id)].meths = methods]

RemoveGrantOK(v, s, id, resource) ==
    LET canonical == Resolve(v, id)
    IN  /\ canonical # NoId
        /\ EnsureNoLegacyDuplicate(v, canonical)
        /\ HasMethodAccess(s, "update", {resource})
        /\ resource \in ResourcesOf(v, canonical)

\* Mutant: the policy is inferred from the grants that are left.
WithoutGrantThenPin(v, id, resource) ==
    LET canonical == Resolve(v, id)
        row       == v.rows[canonical]
    IN  [v EXCEPT !.rows[canonical] =
           [row EXCEPT !.res    = @ \ {resource},
                       !.policy = SetPublicRead(@, PublicRead(v, canonical, row.res = {resource}))]]

\* The policy is pinned before the grant goes.
WithoutGrant(v, id, resource) ==
    LET canonical == Resolve(v, id)
        row       == v.rows[canonical]
    IN  [v EXCEPT !.rows[canonical] =
           [row EXCEPT !.res    = @ \ {resource},
                       !.policy = SetPublicRead(@, PublicRead(v, canonical, row.res = {}))]]

\* Of the targeted grants, those the session may delete.
RemovableGrants(v, s, id, targets) ==
    {r \in ResourcesOf(v, id) \cap targets : HasMethodAccess(s, "delete", {r})}

\* The policy is read after the grants are gone.
WithoutGrants(v, s, id, targets) ==
    LET canonical == Resolve(v, id)
        removed   == RemovableGrants(v, s, canonical, targets)
        row       == v.rows[canonical]
        left      == row.res \ removed
    IN  IF removed = {} THEN v
        ELSE [v EXCEPT !.rows[canonical] =
                [row EXCEPT !.res    = left,
                            !.policy = SetPublicRead(@, PublicRead(v, canonical, left = {}))]]

-----------------------------------------------------------------------------
(* Transactions. *)

NoWrites == [rows |-> [i \in Ids |-> Keep], alias |-> [i \in Ids |-> Keep]]

Idle == [pc |-> "idle", op |-> "delete", session |-> CHOOSE s \in Sessions : TRUE,
         targets |-> {}, writes |-> NoWrites, doomed |-> {}, n |-> 0]

\* READ COMMITTED: the committed tables under the transaction's own writes.
View(c) ==
    [rows  |-> [i \in Ids |-> IF txn[c].writes.rows[i] = Keep
                                THEN db.rows[i] ELSE txn[c].writes.rows[i]],
     alias |-> [i \in Ids |-> IF txn[c].writes.alias[i] = Keep
                                THEN db.alias[i] ELSE txn[c].writes.alias[i]]]

\* The writes that turn the client's view into the view v.
Wrote(c, v) ==
    [rows  |-> [i \in Ids |-> IF v.rows[i] = View(c).rows[i]
                                THEN txn[c].writes.rows[i] ELSE v.rows[i]],
     alias |-> [i \in Ids |-> IF v.alias[i] = View(c).alias[i]
                                THEN txn[c].writes.alias[i] ELSE v.alias[i]]]

Init ==
    /\ db \in [rows : [Ids -> LegacyRows \cup {NoRow}], alias : {[i \in Ids |-> NoId]}]
    /\ \A i, j \in Ids :
         i # j /\ ShaOf(db, i) = ShaOf(db, j) => ShaOf(db, i) \in LegacySHAs \cup {NoSHA}
    /\ txn = [c \in Clients |-> Idle]
    /\ lock = NoId
    /\ last = [op |-> "delete", session |-> Idle.session]

\* BeginTx; the call now waits for the lock.
Begin(c) ==
    /\ txn[c].pc = "idle"
    /\ txn' = [txn EXCEPT ![c].pc = "waiting"]
    /\ UNCHANGED <<db, lock, last>>

\* The resources a scope deletion names: one project's, which the session must
\* be allowed to delete, or a whole organization's.
GrantTargets(s, op) ==
    IF op # "removeGrantBulk" THEN {{}}
    ELSE {{r} : r \in {r \in Resources : HasMethodAccess(s, "delete", {r})}} \cup OrgScopes

\* Mutant: a transaction that does not wait for the lock.
NoLock(c) == TRUE

\* pg_advisory_xact_lock: one transaction holds the content-write lock.
LockFree(c) == lock = NoId

\* lockContentWriteTx returns; the session and the call are those of the request.
Lock(c) ==
    /\ txn[c].pc = "waiting"
    /\ LockFree(c)
    /\ lock' = c
    /\ \E op \in Ops, s \in Sessions : \E targets \in GrantTargets(s, op) :
         txn' = [txn EXCEPT ![c].pc = "active", ![c].op = op,
                            ![c].session = s, ![c].targets = targets]
    /\ UNCHANGED <<db, last>>

\* Client c processes one more element of a call of kind op.
Element(c, op) ==
    /\ txn[c].pc = "active"
    /\ txn[c].op = op
    /\ txn[c].n < Max(op)
    /\ UNCHANGED <<db, lock, last>>

\* The element's effect: v is the view it leaves, doomed the rows to delete.
Writes(c, v, doomed) ==
    txn' = [txn EXCEPT ![c].writes = Wrote(c, v), ![c].n = @ + 1,
                       ![c].doomed = @ \cup doomed]

RegisterObjects(c) ==
    /\ Element(c, "register")
    /\ \E obj \in Inputs :
         /\ RegisterOK(View(c), txn[c].session, obj)
         /\ Writes(c, Registered(View(c), obj), {})

ReplaceObjects(c) ==
    /\ Element(c, "replace")
    /\ \E obj \in Inputs :
         /\ ReplaceOK(View(c), txn[c].session, obj)
         /\ Writes(c, Replaced(View(c), obj), {})

DeleteObject(c) ==
    /\ Element(c, "delete")
    /\ \E id \in Ids :
         /\ DeleteOK(View(c), txn[c].session, id)
         /\ Writes(c, View(c), {Resolve(View(c), id)})

\* The rows go in one statement after every id has been checked.
BulkDeleteObjects(c) ==
    /\ Element(c, "bulkDelete")
    /\ \E id \in Ids :
         /\ BulkDeleteOK(View(c), txn[c].session, id)
         /\ Writes(c, View(c), {Resolve(View(c), id)} \ {NoId})

CreateObjectAlias(c) ==
    /\ Element(c, "createAlias")
    /\ \E alias, canonical \in Ids :
         /\ CreateAliasOK(View(c), txn[c].session, alias, canonical)
         /\ Writes(c, [View(c) EXCEPT !.alias = InsertAliases(@, {alias}, canonical)], {})

DeleteObjectAlias(c) ==
    /\ Element(c, "deleteAlias")
    /\ \E alias \in Ids :
         /\ View(c).alias[alias] # NoId
         /\ Writes(c, [View(c) EXCEPT !.alias[alias] = NoId], {})

UpdateObjectAccessMethods(c) ==
    /\ Element(c, "methods")
    /\ \E id \in Ids, methods \in SUBSET Methods :
         /\ UpdateMethodsOK(View(c), txn[c].session, id)
         /\ Writes(c, WithMethods(View(c), id, methods), {})

BulkUpdateAccessMethods(c) ==
    /\ Element(c, "bulkMethods")
    /\ \E id \in Ids, methods \in SUBSET Methods :
         /\ UpdateMethodsOK(View(c), txn[c].session, id)
         /\ Writes(c, WithMethods(View(c), id, methods), {})

RemoveObjectControlledAccess(c) ==
    /\ Element(c, "removeGrant")
    /\ \E id \in Ids, resource \in Resources :
         /\ RemoveGrantOK(View(c), txn[c].session, id, resource)
         /\ Writes(c, WithoutGrant(View(c), id, resource), {})

\* Unknown ids are skipped; so are grants the session may not delete.
RemoveObjectControlledAccessBulk(c) ==
    /\ Element(c, "removeGrantBulk")
    /\ \E id \in {i \in Ids : Resolve(View(c), i) # NoId} :
         /\ EnsureNoLegacyDuplicate(View(c), Resolve(View(c), id))
         /\ Writes(c, WithoutGrants(View(c), txn[c].session, id, txn[c].targets), {})

\* The writes become the committed tables and the lock goes with the transaction.
Commit(c) ==
    /\ txn[c].pc = "active"
    /\ txn[c].n > 0
    /\ db' = WithoutRows(View(c), txn[c].doomed)
    /\ last' = [op |-> txn[c].op, session |-> txn[c].session]
    /\ lock' = NoId
    /\ txn' = [txn EXCEPT ![c] = Idle]

\* Mutant: an error path returns without ending the transaction.
LeakedTransaction(c) ==
    /\ txn[c].pc # "idle"
    /\ txn' = [txn EXCEPT ![c] = Idle]
    /\ UNCHANGED <<db, lock, last>>

\* defer tx.Rollback(): an element failed a check, the request was cancelled or
\* the server died.
Rollback(c) ==
    /\ txn[c].pc # "idle"
    /\ lock' = IF lock = c THEN NoId ELSE lock
    /\ txn' = [txn EXCEPT ![c] = Idle]
    /\ UNCHANGED <<db, last>>

Call(c) ==
    \/ RegisterObjects(c) \/ ReplaceObjects(c)
    \/ DeleteObject(c) \/ BulkDeleteObjects(c)
    \/ CreateObjectAlias(c) \/ DeleteObjectAlias(c)
    \/ UpdateObjectAccessMethods(c) \/ BulkUpdateAccessMethods(c)
    \/ RemoveObjectControlledAccess(c) \/ RemoveObjectControlledAccessBulk(c)

Next == \E c \in Clients : Begin(c) \/ Lock(c) \/ Call(c) \/ Commit(c) \/ Rollback(c)

Spec == Init /\ [][Next]_vars

-----------------------------------------------------------------------------
(* Properties. *)

Tables == [rows : [Ids -> Row \cup {NoRow}], alias : [Ids -> Ids \cup {NoId}]]

Transactions ==
    [pc : {"idle", "waiting", "active"}, op : Ops, session : Sessions,
     targets : SUBSET Resources, doomed : SUBSET Ids, n : 0 .. MaxBatch,
     writes : [rows  : [Ids -> Row \cup {NoRow, Keep}],
               alias : [Ids -> Ids \cup {NoId, Keep}]]]

\* The tables, the transactions, the lock and the history have their types.
TypeOK ==
    /\ db \in Tables
    /\ txn \in [Clients -> Transactions]
    /\ lock \in Clients \cup {NoId}
    /\ last \in [op : Ops, session : Sessions]

OneOwner(v) ==
    \A i, j \in Ids :
      i # j /\ ShaOf(v, i) = ShaOf(v, j) => ShaOf(v, i) \in LegacySHAs \cup {NoSHA}

\* Concurrent registrations and replacements never leave a SHA-256 with two
\* physical rows, except the duplicates an older server already stored: the SHA
\* lookup and the insert of registerContentTx are one step for other writers.
UniqueContent == OneOwner(db)

TargetsExist(v) == \A a \in Ids : v.alias[a] # NoId => v.rows[v.alias[a]] # NoRow

\* No alias row points at a deleted record, or at another alias: whatever a
\* lookup follows once is a physical row.
AliasTargetsExist == TargetsExist(db)

IdentityKept ==
    \A i \in Ids :
      LET row == Resolve(db, i)
      IN  row # NoId /\ db'.rows[row] # NoRow /\ last'.op # "deleteAlias"
            => Resolve(db', i) = row

\* A committed id keeps naming the same physical row as long as that row is
\* there: registrations, replacements and alias claims of other requests never
\* move it.  Only deleting the alias row itself lets go of it.
IdentityStable == [][IdentityKept]_vars

ContentKept ==
    \A i \in Ids :
      db.rows[i] # NoRow /\ db'.rows[i] # NoRow /\ ShaOf(db, i) # NoSHA =>
        /\ ShaOf(db', i) = ShaOf(db, i)
        /\ db.rows[i].size # 0 => db'.rows[i].size = db.rows[i].size

\* Content identity is immutable: while a row lives, its SHA-256 and, once known
\* together, its size never change, whatever is registered or replaced.
ContentImmutable == [][ContentKept]_vars

GrantsChangeByRight ==
    \A i \in Ids :
      /\ \A r \in ResourcesOf(db', i) \ ResourcesOf(db, i) :
           HasMethodAccess(last'.session, "create", {r})
      /\ \A r \in ResourcesOf(db, i) \ ResourcesOf(db', i) :
           \/ HasMethodAccess(last'.session, "update", {r})
           \/ HasMethodAccess(last'.session, "delete", {r})

\* A grant appears only in a commit of a session that may create in that
\* resource, and disappears only in one that may update or delete there.
GrantsAuthorized == [][GrantsChangeByRight]_vars

SharedGoesByRight ==
    \A i \in Ids :
      db.rows[i] # NoRow =>
        LET may(verb) == HasMethodAccess(last'.session, verb, db.rows[i].res)
        IN  IF db'.rows[i] = NoRow THEN may("delete")
            ELSE ~(db.rows[i].meths \subseteq db'.rows[i].meths) => may("update")

\* Content shared by several projects is safe from any one of them: the row goes
\* only for a session that may delete under every grant, and a location only for
\* one that may update (or delete) under every grant.
SharedContentProtected == [][SharedGoesByRight]_vars

EffectivePublic(v, i) == PublicRead(v, i, ResourcesOf(v, i) = {})

\* Knowing a SHA-256 does not open private content: a session joins a resource, or
\* by registering a location, to a row that stays private only if it could read
\* the row before.
JoinNeedsRead ==
    \A i \in Ids :
      (/\ db.rows[i] # NoRow /\ db'.rows[i] # NoRow
       /\ ~EffectivePublic(db, i) /\ ~EffectivePublic(db', i)
       /\ \/ ~(db'.rows[i].res \subseteq db.rows[i].res)
          \/ last'.op = "register" /\ ~(db'.rows[i].meths \subseteq db.rows[i].meths))
      => CanReadContent(last'.session, db.rows[i].res)

\* Private content becomes public only when a session that may update under every
\* grant replaces the record, or, for a legacy row that has no policy row, when
\* a scope deletion removes its last grant.
PrivateStaysPrivate ==
    \A i \in Ids :
      (/\ db.rows[i] # NoRow /\ db'.rows[i] # NoRow
       /\ ~EffectivePublic(db, i) /\ EffectivePublic(db', i))
      => \/ /\ last'.op = "replace"
            /\ HasMethodAccess(last'.session, "update", db.rows[i].res)
         \/ /\ last'.op = "removeGrantBulk"
            /\ db.rows[i].policy = "none"

\* Private content is kept from those who only know its SHA-256, and stays private.
PrivateContentKept == [][JoinNeedsRead /\ PrivateStaysPrivate]_vars
=============================================================================
