---------------------------- MODULE BucketRegistry ----------------------------
(***************************************************************************)
(* Bucket credentials and bucket scopes: the rows of s3_credential and     *)
(* bucket_scope, the scope cache of the bucket service, the provider       *)
(* clients the storage backends keep, the local key that seals the         *)
(* credentials, and the requests that read and change them, one database   *)
(* statement or cache operation a step.                                    *)
(*                                                                         *)
(* Data.  A credential id is derived from the bucket and the access key it *)
(* was first registered with; region, endpoint and provider stay with the  *)
(* bucket.  A key stands for an access key and its secret.  Lookups ignore *)
(* the case of a bucket's name and the caches of clients do not: a request *)
(* for a signed URL may spell the name otherwise than the row does, and    *)
(* all other spellings are one.  Administrators spell it as it is stored.  *)
(* An entry of the scope cache that outlives its 30 seconds is dropped at  *)
(* any moment.                                                             *)
(***************************************************************************)
EXTENDS Naturals, FiniteSets

CONSTANTS
    Calls,      \* concurrent requests
    Buckets, Projects, Keys,
    Prefixes,   \* path prefixes of scopes
    Workloads,  \* by name: engine, requests, configuration and key file of an instance
    None,       \* no row, no entry, no project, no key
    Error       \* a lookup that fails

Ids == Buckets \X Keys

\* A sealed credential, and a scope.  The kek is the key that sealed it.
Credential == [bucket : Buckets, key : Keys, kek : Calls \cup {"first"}]
Scope == [id : Ids, bucket : Buckets, prefix : Prefixes]

\* A request names a project unless it registers, deletes or uses a bucket, and a
\* bucket unless it is about all of a project; the name of the bucket is exact
\* when it is spelled as in the row.
Requests ==
    {r \in [kind : {"put", "add", "drop", "cleanup", "delete", "lookup", "sign"},
            bucket : Buckets \cup {None}, project : Projects \cup {None}, key : Keys \cup {None},
            exact : BOOLEAN, region : BOOLEAN, prefix : Prefixes,
            who : [enforced : BOOLEAN, may : SUBSET Projects]] :
       /\ r.kind \in {"add", "drop", "cleanup", "lookup"} => r.project # None
       /\ r.kind \notin {"cleanup", "lookup"} => r.bucket # None
       /\ r.kind # "sign" => r.exact}

Workload ==
    [engine : {"sqlite", "postgres"}, requests : SUBSET Requests, kekFile : {None, "empty", "first"},
     config : [bucket : Buckets, key : Keys, projects : SUBSET Projects] \cup {None}]

ASSUME RegistryAssumption ==
    /\ None \notin Credential \cup Scope \cup Projects \cup Buckets \cup Keys \cup Ids \cup Calls
    /\ Error \notin Ids \cup {None}
    /\ {"first", "empty"} \cap (Calls \cup {None}) = {}
    /\ "" \in Prefixes
    /\ \A w \in DOMAIN Workloads : Workloads[w] \in Workload

VARIABLES
    load,       \* the name of the workload
    up,         \* the server process runs
    cred,       \* s3_credential by credential id
    scope,      \* bucket_scope by project
    kekFile,    \* the local key file: None, "empty", or the key in it
    scopeCache, \* the cached answer for a project
    client,     \* the cached client of a bucket, under the name of its row
    respelt,    \* and under another spelling of that name
    call        \* call[p]: the request p serves and where it is

vars == <<load, up, cred, scope, kekFile, scopeCache, client, respelt, call>>

Load == Workloads[load]

-----------------------------------------------------------------------------
(* Lookups. *)

\* DeriveCredentialID: the secret is no part of it.
DeriveCredentialID(bucket, key) == <<bucket, key>>

\* SELECT ... WHERE bucket = b
IdsOfBucket(b) == {i \in Ids : cred[i] # None /\ cred[i].bucket = b}

\* ParseS3CredentialFromStorage: unsealing needs the key that sealed the row.
Unsealed(i) == cred[i].kek = kekFile

\* The store's lookup by credential id: a row that is there and can be unsealed.
Readable(i) == cred[i] # None /\ Unsealed(i)

\* GetS3Credential(bucket): the id that answers, None without one, Error when
\* several credentials hold the bucket or the row cannot be unsealed.
GetS3Credential(b) ==
    CASE IdsOfBucket(b) = {} -> None
      [] Cardinality(IdsOfBucket(b)) > 1 -> Error
      [] OTHER -> LET i == CHOOSE j \in IdsOfBucket(b) : TRUE
                  IN  IF Unsealed(i) THEN i ELSE Error

\* A name no row has exactly is compared with all rows whatever its case, which
\* unseals them all; the first row of the list answers.
FoldedCredentials(b) ==
    IF \A i \in Ids : cred[i] # None => Unsealed(i) THEN IdsOfBucket(b) ELSE {}

\* GetBucketScope and ListBucketScopes.
GetBucketScope(q) == scope[q]

ListBucketScopes == {q \in Projects : scope[q] # None}

\* AuthorizeScopeWrite: without an organization only a session that is not
\* enforced may write.
AuthorizeScopeWrite(who, project) == who.enforced => project # None /\ project \in who.may

\* BucketsAllowedByNames: one scope of the bucket the caller may write is enough.
BucketsAllowedByNames(who, b) ==
    \E q \in ListBucketScopes : scope[q].bucket = b /\ AuthorizeScopeWrite(who, q)

\* Mutant: only the credential id is compared, with the name that was asked for.
ScopeBelongsToName(q, id, b) == scope[q].id = b

\* scopeBelongsTo, by credential id or by bucket.
ScopeBelongsTo(q, id, b) == scope[q].id = id \/ scope[q].bucket = b

-----------------------------------------------------------------------------
(* Calls. *)

Idle == [pc |-> "idle", req |-> None, id |-> None, seen |-> None, kek |-> None,
         raced |-> {}, aliases |-> {}]

InFlight(p, pcs) == up /\ call[p].pc \in pcs

\* Call p moves on.  A call that holds a value read from what p just changed is
\* overtaken: it may act on the old value.  (A record of the proof, not of the code.)
Overtakes(p, to, what, touched(_)) ==
    call' = [r \in Calls |->
               IF r = p THEN to
               ELSE IF call[r].pc # "idle" /\ touched(call[r].req)
                      THEN [call[r] EXCEPT !.raced = @ \cup {what}]
               ELSE call[r]]

ScopeOvertakes(p, to, q, b) ==
    Overtakes(p, to, "scope", LAMBDA r : r.project = q \/ (r.kind \in {"drop", "cleanup"} /\ r.bucket = b))

CredentialOvertakes(p, to, b) == Overtakes(p, to, "cred", LAMBDA r : r.bucket = b)

Current(c, what) == [c EXCEPT !.raced = @ \ {what}]

\* A request arrives.  What the handler checks before its first read is its guard.
Begin(p) ==
    /\ up /\ call[p].pc = "idle"
    /\ \E r \in Load.requests :
         /\ r.kind \in {"put", "add", "drop", "cleanup"} => AuthorizeScopeWrite(r.who, r.project)
         /\ r.kind = "delete" => BucketsAllowedByNames(r.who, r.bucket)
         /\ call' = [call EXCEPT ![p] = [Idle EXCEPT !.req = r, !.pc = IF r.kind = "delete" THEN "aliases" ELSE r.kind]]
    /\ UNCHANGED <<load, up, cred, scope, kekFile, scopeCache, client, respelt>>

\* Mutant: keys that are left out come from the registered id, not from the row.
PutBucketOldKey(p) ==
    /\ InFlight(p, {"put"})
    /\ LET r == call[p].req
           found == GetS3Credential(r.bucket)
           id == IF found = None THEN DeriveCredentialID(r.bucket, r.key) ELSE found
           rejected == found = Error \/ (found = None /\ r.key = None)
       IN  call' = [call EXCEPT ![p] =
             IF rejected THEN Idle
             ELSE [Current(@, "cred") EXCEPT !.id = id, !.seen = IF r.key = None THEN id[2] ELSE r.key,
                                             !.pc = IF r.project # None THEN "scopeRead" ELSE "seal"]]
    /\ UNCHANGED <<load, up, cred, scope, kekFile, scopeCache, client, respelt>>

\* PutBucket up to its first write: an existing credential of the bucket is
\* reused; without keys and region the request only adds a scope; keys that are
\* left out are filled in from the credential just read.
PutBucket(p) ==
    /\ InFlight(p, {"put"})
    /\ LET r == call[p].req
           found == GetS3Credential(r.bucket)
           id == IF found = None THEN DeriveCredentialID(r.bucket, r.key) ELSE found
           rejected == found = Error \/ (found = None /\ r.key = None)
           scopeOnly == r.key = None /\ ~r.region /\ r.project # None
           key == IF r.key # None \/ scopeOnly THEN r.key ELSE cred[found].key
       IN  call' = [call EXCEPT ![p] =
             IF rejected THEN Idle
             ELSE [Current(@, "cred") EXCEPT !.id = id, !.seen = key, !.pc = IF r.project # None THEN "scopeRead" ELSE "seal"]]
    /\ UNCHANGED <<load, up, cred, scope, kekFile, scopeCache, client, respelt>>

\* AddBucketScope: the credential must be there when it is read.
AddBucketScope(p) ==
    /\ InFlight(p, {"add"})
    /\ LET found == GetS3Credential(call[p].req.bucket)
       IN  call' = [call EXCEPT ![p] =
             IF found \in {None, Error} THEN Idle
             ELSE [@ EXCEPT !.id = found, !.pc = "scopeRead"]]
    /\ UNCHANGED <<load, up, cred, scope, kekFile, scopeCache, client, respelt>>

-----------------------------------------------------------------------------
(* Scopes. *)

Wanted(c) == [id |-> c.id, bucket |-> c.req.bucket, prefix |-> c.req.prefix]

\* CreateBucketScope in the store, first half: the scope of the project is read.
\* An identical one is left alone.
ScopeRead(p) ==
    /\ InFlight(p, {"scopeRead"})
    /\ LET row == GetBucketScope(call[p].req.project)
           next == CASE row = None -> "scopeInsert" [] row = Wanted(call[p]) -> "seed" [] OTHER -> "scopeUpdate"
       IN  call' = [call EXCEPT ![p] = [Current(@, "scope") EXCEPT !.pc = next]]
    /\ UNCHANGED <<load, up, cred, scope, kekFile, scopeCache, client, respelt>>

\* Second half, INSERT: the primary key refuses a scope that appeared meanwhile.
ScopeInsert(p) ==
    /\ InFlight(p, {"scopeInsert"})
    /\ LET q == call[p].req.project
       IN  IF scope[q] = None
             THEN /\ scope' = [scope EXCEPT ![q] = Wanted(call[p])]
                  /\ ScopeOvertakes(p, [Current(call[p], "scope") EXCEPT !.pc = "seed"], q, call[p].req.bucket)
             ELSE /\ call' = [call EXCEPT ![p] = Idle]
                  /\ UNCHANGED scope
    /\ UNCHANGED <<load, up, cred, kekFile, scopeCache, client, respelt>>

\* Second half, UPDATE: a row that is gone by now is not noticed.
ScopeUpdate(p) ==
    /\ InFlight(p, {"scopeUpdate"})
    /\ LET q == call[p].req.project
       IN  IF scope[q] # None
             THEN /\ scope' = [scope EXCEPT ![q] = Wanted(call[p])]
                  /\ ScopeOvertakes(p, [Current(call[p], "scope") EXCEPT !.pc = "seed"], q, call[p].req.bucket)
             ELSE /\ call' = [call EXCEPT ![p].pc = "seed"]
                  /\ UNCHANGED scope
    /\ UNCHANGED <<load, up, cred, kekFile, scopeCache, client, respelt>>

\* What is cached of a project: the row, whether the request that cached it was
\* overtaken, and whether the row was deleted since together with its credential.
\* (The last two are a record of the proof, not of the code.)
Entry(row, c) == [row |-> row, raced |-> "scope" \in c.raced, orphaned |-> FALSE]

\* The service seeds its cache with the scope it stored, and PutBucket goes on
\* to the credential unless only a scope was asked for.
SeedScope(p) ==
    /\ InFlight(p, {"seed"})
    /\ LET c == call[p]
       IN  /\ scopeCache' = [scopeCache EXCEPT ![c.req.project] = Entry(Wanted(c), c)]
           /\ call' = [call EXCEPT ![p] = IF c.req.kind = "put" /\ c.seen # None
                                            THEN [c EXCEPT !.pc = "seal"] ELSE Idle]
    /\ UNCHANGED <<load, up, cred, scope, kekFile, client, respelt>>

\* LookupBucketScope: a cached answer is returned as it is; otherwise the row,
\* or that there is none, is read and then cached.
LookupBucketScope(p) ==
    /\ InFlight(p, {"lookup"})
    /\ LET q == call[p].req.project
       IN  call' = [call EXCEPT ![p] = IF scopeCache[q] # None THEN Idle
                                       ELSE [Current(@, "scope") EXCEPT !.pc = "remember", !.seen = GetBucketScope(q)]]
    /\ UNCHANGED <<load, up, cred, scope, kekFile, scopeCache, client, respelt>>

RememberScope(p) ==
    /\ InFlight(p, {"remember"})
    /\ scopeCache' = [scopeCache EXCEPT ![call[p].req.project] = Entry(call[p].seen, call[p])]
    /\ call' = [call EXCEPT ![p] = Idle]
    /\ UNCHANGED <<load, up, cred, scope, kekFile, client, respelt>>

ExpireScope(q) ==
    /\ scopeCache[q] # None
    /\ scopeCache' = [scopeCache EXCEPT ![q] = None]
    /\ UNCHANGED <<load, up, cred, scope, kekFile, client, respelt, call>>

EmptyScopeCache == [q \in Projects |-> None]

\* DeleteProjectData, once the records of the project are deleted: the scopes are
\* listed, and the one of the project is deleted as it was listed, by its id.
DeleteProjectData(p) ==
    /\ InFlight(p, {"cleanup"})
    /\ LET row == scope[call[p].req.project]
       IN  call' = [call EXCEPT ![p] =
             IF row = None THEN Idle
             ELSE [@ EXCEPT !.pc = "drop", !.id = row.id, !.req.bucket = row.bucket, !.req.prefix = row.prefix]]
    /\ UNCHANGED <<load, up, cred, scope, kekFile, scopeCache, client, respelt>>

\* DELETE FROM bucket_scope WHERE organization, project, bucket or credential and
\* prefix are the ones asked for.
ScopeMatches(c) ==
    LET row == scope[c.req.project]
    IN  /\ row # None /\ row.prefix = c.req.prefix
        /\ IF c.req.kind = "cleanup" THEN row.id = c.id ELSE row.bucket = c.req.bucket

\* A scope is deleted: the call must match exactly one; a path in a request is
\* read with the bucket of the credential, which must be there.
DropScope(p) ==
    /\ InFlight(p, {"drop"})
    /\ LET r == call[p].req
           q == r.project
           known == r.kind = "drop" /\ r.prefix # "" => GetS3Credential(r.bucket) \notin {None, Error}
       IN  IF known /\ ScopeMatches(call[p])
             THEN /\ scope' = [scope EXCEPT ![q] = None]
                  /\ ScopeOvertakes(p, [call[p] EXCEPT !.pc = "clear"], q, r.bucket)
             ELSE /\ call' = [call EXCEPT ![p] = Idle]
                  /\ UNCHANGED scope
    /\ UNCHANGED <<load, up, cred, kekFile, scopeCache, client, respelt>>

\* Whose scope it was: the credential behind the name asked for, and its bucket.
\* A name that finds none stands for itself.
Whose(c) ==
    IF c.req.kind = "cleanup"
      THEN [c EXCEPT !.pc = "siblings", !.seen = IF Readable(c.id) THEN c.req.bucket ELSE None]
      ELSE [c EXCEPT !.pc = "siblings", !.seen = c.req.bucket,
                     !.id = IF GetS3Credential(c.req.bucket) = Error THEN None ELSE GetS3Credential(c.req.bucket)]

\* Mutant: the cache is not cleared.
ClearNothing(p) ==
    /\ InFlight(p, {"clear"})
    /\ call' = [call EXCEPT ![p] = Whose(@)]
    /\ UNCHANGED <<load, up, cred, scope, kekFile, scopeCache, client, respelt>>

\* The service then clears its cache and finds out whose scope it was.
ClearScopes(p) ==
    /\ InFlight(p, {"clear"})
    /\ scopeCache' = EmptyScopeCache
    /\ call' = [call EXCEPT ![p] = Whose(@)]
    /\ UNCHANGED <<load, up, cred, scope, kekFile, client, respelt>>

\* ... and removes the credential when no scope is left for it.
LastScope(p) ==
    /\ InFlight(p, {"siblings"})
    /\ LET c == call[p]
       IN  call' = [call EXCEPT ![p] =
             IF \E q \in ListBucketScopes : ScopeBelongsTo(q, c.id, c.seen) THEN Idle
             ELSE [Current(c, "scope") EXCEPT !.pc = "aliases"]]
    /\ UNCHANGED <<load, up, cred, scope, kekFile, scopeCache, client, respelt>>

-----------------------------------------------------------------------------
(* Credentials. *)

\* PrepareS3CredentialForStorage: the keys are sealed under a key k.
SealedWith(c, k) == [c EXCEPT !.pc = "unique", !.kek = k]

\* Mutant: the file is not created exclusively; one that is still empty is
\* written a second time.
SealTruncating(p) ==
    /\ InFlight(p, {"seal"})
    /\ IF kekFile \in {None, "empty"}
         THEN /\ kekFile' = "empty"
              /\ call' = [call EXCEPT ![p].pc = "writeKek"]
         ELSE /\ call' = [call EXCEPT ![p].pc = "unique", ![p].kek = kekFile]
              /\ UNCHANGED kekFile
    /\ UNCHANGED <<load, up, cred, scope, scopeCache, client, respelt>>

\* The local key manager reads its key file, or creates it: exclusively, and
\* empty until the key is written.  A file that is empty is an error.
Seal(p) ==
    /\ InFlight(p, {"seal"})
    /\ CASE kekFile = None -> /\ kekFile' = "empty"
                              /\ call' = [call EXCEPT ![p].pc = "writeKek"]
         [] kekFile = "empty" -> /\ call' = [call EXCEPT ![p] = Idle]
                                 /\ UNCHANGED kekFile
         [] OTHER -> /\ call' = [call EXCEPT ![p] = SealedWith(@, kekFile)]
                     /\ UNCHANGED kekFile
    /\ UNCHANGED <<load, up, cred, scope, scopeCache, client, respelt>>

WriteKek(p) ==
    /\ InFlight(p, {"writeKek"})
    /\ kekFile' = p
    /\ call' = [call EXCEPT ![p] = SealedWith(@, p)]
    /\ UNCHANGED <<load, up, cred, scope, scopeCache, client, respelt>>

\* No other credential holds the bucket.
UniqueBucket(id, b) == IdsOfBucket(b) \subseteq {id}

\* ensureUniquePhysicalBucket, a statement of its own.
EnsureUniquePhysicalBucket(p) ==
    /\ InFlight(p, {"unique"})
    /\ call' = [call EXCEPT ![p] = IF UniqueBucket(@.id, @.req.bucket)
                                     THEN [@ EXCEPT !.pc = IF Load.engine = "sqlite" THEN "upsert" ELSE "trigger"]
                                     ELSE Idle]
    /\ UNCHANGED <<load, up, cred, scope, kekFile, scopeCache, client, respelt>>

\* The PostgreSQL trigger checks what the statement's snapshot shows; another
\* connection's row may be committed before this one is.
TriggerCheck(p) ==
    /\ InFlight(p, {"trigger"})
    /\ call' = [call EXCEPT ![p] = IF UniqueBucket(@.id, @.req.bucket) THEN [@ EXCEPT !.pc = "commit"] ELSE Idle]
    /\ UNCHANGED <<load, up, cred, scope, kekFile, scopeCache, client, respelt>>

\* The SQLite trigger runs inside the only writer.
TriggerAllows(p) == Load.engine = "sqlite" => UniqueBucket(call[p].id, call[p].req.bucket)

\* SaveS3Credential of the service invalidates the id (under which nothing is
\* cached) and the bucket.
SavedAliases(c) == {c.req.bucket}

\* INSERT ... ON CONFLICT (credential_id) DO UPDATE
Upsert(p) ==
    /\ InFlight(p, {"upsert", "commit"})
    /\ LET c == call[p]
       IN  IF TriggerAllows(p)
             THEN /\ cred' = [cred EXCEPT ![c.id] = [bucket |-> c.req.bucket, key |-> c.seen, kek |-> c.kek]]
                  /\ CredentialOvertakes(p, [c EXCEPT !.pc = "forget", !.aliases = SavedAliases(c)], c.req.bucket)
             ELSE /\ call' = [call EXCEPT ![p] = Idle]
                  /\ UNCHANGED cred
    /\ UNCHANGED <<load, up, scope, kekFile, scopeCache, client, respelt>>

\* DeleteS3Credential of the service, asked with a bucket (a delete) or with the
\* resolved id (after the last scope): the names to invalidate are found out
\* before, and a lookup that fails only leaves names out; the store then
\* resolves the id by itself.
DeleteS3Credential(p) ==
    /\ InFlight(p, {"aliases"})
    /\ LET c == call[p]
           byId == c.id # None
           readable == IF byId THEN Readable(c.id) ELSE TRUE
       IN  call' = [call EXCEPT ![p].pc = "resolveId",
                                ![p].aliases = IF readable THEN {c.req.bucket} ELSE {}]
    /\ UNCHANGED <<load, up, cred, scope, kekFile, scopeCache, client, respelt>>

ResolveCredentialID(p) ==
    /\ InFlight(p, {"resolveId"})
    /\ LET c == call[p]
           byId == c.id # None
           id == IF byId THEN (IF cred[c.id] # None THEN c.id ELSE None) ELSE GetS3Credential(c.req.bucket)
       IN  call' = [call EXCEPT ![p] = IF id \in {None, Error} THEN Idle
                                       ELSE [c EXCEPT !.id = id, !.pc = "delScopes"]]
    /\ UNCHANGED <<load, up, cred, scope, kekFile, scopeCache, client, respelt>>

\* Two statements, no transaction: the scopes of the credential ...
DeleteScopesOf(p) ==
    /\ InFlight(p, {"delScopes"})
    /\ LET gone == {q \in Projects : scope[q] # None /\ scope[q].id = call[p].id}
       IN  /\ scope' = [q \in Projects |-> IF q \in gone THEN None ELSE scope[q]]
           /\ scopeCache' = [q \in Projects |-> IF q \in gone /\ scopeCache[q] # None
                                                  THEN [scopeCache[q] EXCEPT !.orphaned = TRUE]
                                                  ELSE scopeCache[q]]
           /\ Overtakes(p, [call[p] EXCEPT !.pc = "delCred"], "scope", LAMBDA r : r.project \in gone)
    /\ UNCHANGED <<load, up, cred, kekFile, client, respelt>>

\* ... and the credential.  One that is gone already is an error, and the scope
\* cache is not cleared.
DeleteCredentialRow(p) ==
    /\ InFlight(p, {"delCred"})
    /\ LET c == call[p]
       IN  IF cred[c.id] # None
             THEN /\ cred' = [cred EXCEPT ![c.id] = None]
                  /\ CredentialOvertakes(p, [c EXCEPT !.pc = "forget"], c.req.bucket)
             ELSE /\ call' = [call EXCEPT ![p] = Idle]
                  /\ UNCHANGED cred
    /\ UNCHANGED <<load, up, scope, kekFile, scopeCache, client, respelt>>

\* Mutant: only the credential id is invalidated, under which no client is kept.
InvalidateId(p) ==
    /\ InFlight(p, {"forget"})
    /\ scopeCache' = IF call[p].req.kind = "put" THEN scopeCache ELSE EmptyScopeCache
    /\ call' = [call EXCEPT ![p] = Idle]
    /\ UNCHANGED <<load, up, cred, scope, kekFile, client, respelt>>

\* invalidateAliases drops the clients of every name; a deletion has cleared the
\* scope cache before.  A bucket whose name was not found out keeps its client,
\* and so does every other spelling.
InvalidateAliases(p) ==
    /\ InFlight(p, {"forget"})
    /\ client' = [b \in Buckets |-> IF b \in call[p].aliases THEN None
                                    ELSE IF b = call[p].req.bucket /\ client[b] # None
                                           THEN [client[b] EXCEPT !.raced = TRUE]
                                    ELSE client[b]]
    /\ scopeCache' = IF call[p].req.kind = "put" THEN scopeCache ELSE EmptyScopeCache
    /\ call' = [call EXCEPT ![p] = Idle]
    /\ UNCHANGED <<load, up, cred, scope, kekFile, respelt>>

\* getClients: a client cached under the name as it is spelled signs; otherwise
\* the credential is read ...
GetClients(p) ==
    /\ InFlight(p, {"sign"})
    /\ LET r == call[p].req
           cached == IF r.exact THEN client[r.bucket] # None ELSE respelt[r.bucket] # None
           found == IF r.exact THEN {GetS3Credential(r.bucket)} \ {None, Error} ELSE FoldedCredentials(r.bucket)
       IN  IF cached \/ found = {}
             THEN call' = [call EXCEPT ![p] = Idle]
             ELSE \E i \in found :
                    call' = [call EXCEPT ![p] = [Current(@, "cred") EXCEPT !.pc = "store", !.seen = cred[i].key]]
    /\ UNCHANGED <<load, up, cred, scope, kekFile, scopeCache, client, respelt>>

\* ... and the client made from it is kept for the next request.
StoreClient(p) ==
    /\ InFlight(p, {"store"})
    /\ LET c == call[p]
       IN  IF c.req.exact
             THEN /\ client' = [client EXCEPT ![c.req.bucket] = [key |-> c.seen, raced |-> "cred" \in c.raced]]
                  /\ UNCHANGED respelt
             ELSE /\ respelt' = [respelt EXCEPT ![c.req.bucket] = c.seen]
                  /\ UNCHANGED client
    /\ call' = [call EXCEPT ![p] = Idle]
    /\ UNCHANGED <<load, up, cred, scope, kekFile, scopeCache>>

-----------------------------------------------------------------------------
(* Failures and restarts. *)

\* A statement fails or the request is cancelled.  After its own commit a call
\* only touches memory, so it cannot stop there; a deletion can stop between
\* its two statements, and then leaves the scope cache as it is.
Fail(p) ==
    /\ InFlight(p, {"put", "add", "scopeRead", "scopeInsert", "scopeUpdate", "drop", "cleanup", "seal", "unique",
                    "trigger", "upsert", "commit", "resolveId", "delScopes", "delCred", "siblings"})
    /\ call' = [call EXCEPT ![p] = Idle]
    /\ UNCHANGED <<load, up, cred, scope, kekFile, scopeCache, client, respelt>>

\* The process stops: what it held in memory is gone.
Stop ==
    /\ up
    /\ up' = FALSE
    /\ scopeCache' = EmptyScopeCache
    /\ client' = [b \in Buckets |-> None]
    /\ respelt' = [b \in Buckets |-> None]
    /\ call' = [p \in Calls |-> Idle]
    /\ UNCHANGED <<load, cred, scope, kekFile>>

\* A configured credential, as the start-up saves it: one the store refuses is
\* only logged.
ConfiguredCredential(i, b, key) ==
    IF UniqueBucket(i, b) THEN [cred EXCEPT ![i] = [bucket |-> b, key |-> key, kek |-> kekFile]] ELSE cred

\* loadConfiguredBucketScopes after the credential: a scope whose credential is
\* not found ends the start.
ConfiguredScopes(i, b, projects, rows) ==
    [q \in Projects |-> IF q \in projects /\ rows[i] # None
                          THEN [id |-> i, bucket |-> b, prefix |-> CHOOSE x \in Prefixes : TRUE]
                          ELSE scope[q]]

\* The start-up: no request is served before it is over.  The key file is
\* created, when it is missing, before the first credential is sealed.
Serve ==
    /\ ~up
    /\ UNCHANGED <<load, scopeCache, client, respelt, call>>
    /\ IF Load.config = None
         THEN /\ up' = TRUE
              /\ UNCHANGED <<cred, scope, kekFile>>
         ELSE LET c == Load.config
                  i == DeriveCredentialID(c.bucket, c.key)
              IN  IF kekFile \in {None, "empty"}
                    THEN /\ kekFile' = IF kekFile = None THEN "first" ELSE kekFile
                         /\ UNCHANGED <<up, cred, scope>>
                    ELSE /\ cred' = ConfiguredCredential(i, c.bucket, c.key)
                         /\ scope' = ConfiguredScopes(i, c.bucket, c.projects, cred')
                         /\ up' = (cred'[i] # None)
                         /\ UNCHANGED kekFile

-----------------------------------------------------------------------------

Init ==
    /\ load \in DOMAIN Workloads
    /\ up = FALSE
    /\ cred = [i \in Ids |-> None]
    /\ scope = [q \in Projects |-> None]
    /\ kekFile = Load.kekFile
    /\ scopeCache = EmptyScopeCache
    /\ client = [b \in Buckets |-> None]
    /\ respelt = [b \in Buckets |-> None]
    /\ call = [p \in Calls |-> Idle]

Next ==
    \/ \E p \in Calls :
         \/ Begin(p) \/ PutBucket(p) \/ AddBucketScope(p)
         \/ ScopeRead(p) \/ ScopeInsert(p) \/ ScopeUpdate(p) \/ SeedScope(p)
         \/ LookupBucketScope(p) \/ RememberScope(p)
         \/ DeleteProjectData(p) \/ DropScope(p) \/ ClearScopes(p) \/ LastScope(p)
         \/ Seal(p) \/ WriteKek(p) \/ EnsureUniquePhysicalBucket(p) \/ TriggerCheck(p) \/ Upsert(p)
         \/ DeleteS3Credential(p) \/ ResolveCredentialID(p) \/ DeleteScopesOf(p) \/ DeleteCredentialRow(p)
         \/ InvalidateAliases(p) \/ GetClients(p) \/ StoreClient(p) \/ Fail(p)
    \/ \E q \in Projects : ExpireScope(q)
    \/ Stop \/ Serve

Spec == Init /\ [][Next]_vars

-----------------------------------------------------------------------------
(* Properties. *)

\* The rows, the caches and the calls have their types, and a call that has not
\* begun holds nothing.
TypeOK ==
    /\ up \in BOOLEAN
    /\ cred \in [Ids -> Credential \cup {None}]
    /\ scope \in [Projects -> Scope \cup {None}]
    /\ kekFile \in Calls \cup {None, "empty", "first"}
    /\ scopeCache \in [Projects -> [row : Scope \cup {None}, raced : BOOLEAN, orphaned : BOOLEAN] \cup {None}]
    /\ client \in [Buckets -> [key : Keys, raced : BOOLEAN] \cup {None}]
    /\ respelt \in [Buckets -> Keys \cup {None}]
    /\ \A p \in Calls : IF call[p].pc = "idle" THEN call[p] = Idle ELSE call[p].req \in Requests

\* "Runtime initialization enforces one credential identity per physical
\* bucket" (internal/persistence/README.md:70).
OneCredentialPerBucket == \A b \in Buckets : Cardinality(IdsOfBucket(b)) <= 1

\* A client outlives the key it was made from only if its credential was
\* replaced between the read and the store of the same request, or if a deletion
\* did not find the bucket's name because another deletion came first: any other
\* client cached under the name its bucket is stored with signs with a key the
\* bucket has, whenever no rotation or deletion is between its commit and its
\* invalidation.  A client cached under another spelling (service.go:92-103,
\* s3/backend.go:73,113) is never invalidated and outlives its key until the
\* process ends, although credentials.go:9-10 invalidates "every identity alias".
SignersCurrent ==
    \A b \in Buckets :
      client[b] # None /\ ~client[b].raced =>
        \/ \E i \in IdsOfBucket(b) : cred[i].key = client[b].key
        \/ \E p \in Calls : call[p].pc = "forget" /\ call[p].req.bucket = b

\* The scope cache answers what the table holds, a miss included, with three
\* exceptions.  A change of that project's scope is between its commit and the
\* cache; the request that filled the entry was overtaken by a change; or a
\* deletion of the credential deleted the row and has not cleared the cache, for
\* it is under way, or was stopped between its two statements, or found the
\* credential gone (credentials.go:40-43).  An entry of the last two kinds
\* answers with what is gone for at most 30 seconds.
ScopeCacheCurrent ==
    \A q \in Projects :
      scopeCache[q] # None /\ ~scopeCache[q].raced /\ ~scopeCache[q].orphaned =>
        \/ scopeCache[q].row = scope[q]
        \/ \E p \in Calls : call[p].pc \in {"seed", "clear"} /\ call[p].req.project = q

\* A request that leaves the keys out never brings back keys that were replaced,
\* unless a rotation ran between its read and its write.
RotationKept ==
    \A p \in Calls, i \in Ids :
      /\ call[p].pc \in {"upsert", "commit"} /\ call'[p].pc = "forget" /\ call[p].id = i
      /\ call[p].req.key = None /\ "cred" \notin call[p].raced
      => cred[i] # None /\ cred'[i].key = cred[i].key

\* Deleting the scope of one project, or all its data, takes away the scope of another project
\* only if that scope changed after the remaining scopes were looked at.
SiblingsKept ==
    \A p \in Calls, q \in Projects :
      /\ call[p].pc = "delScopes" /\ call'[p].pc = "delCred" /\ call[p].req.kind # "delete"
      /\ scope[q] # None /\ scope'[q] = None
      => "scope" \in call[p].raced

\* Every stored credential is sealed with the key in the key file, also when
\* several requests, or a request and a crash, meet before the file has a key.
OneKek == \A i \in Ids : cred[i] # None => cred[i].kek = kekFile

\* Nothing that is kept in memory is older than the last call that changed it,
\* but for the exceptions that the two parts state.
CachesCurrent == SignersCurrent /\ ScopeCacheCurrent

\* What administrators stored stays until another one changes it: credentials
\* that were rotated, and the scopes of other projects.
RegistrationsStick == [][RotationKept /\ SiblingsKept]_vars
=============================================================================
