----------------------------- MODULE ServerStart -----------------------------
(***************************************************************************)
(* The start of the server (cmd/server) from its configuration             *)
(* (internal/config): defaults, file and environment make a configuration; *)
(* one that validates is written to the database, credential by credential *)
(* and scope by scope, before the first request is served.  A start that   *)
(* fails or is killed leaves what it wrote, and the next one may find      *)
(* another file, environment or key.                                       *)
(*                                                                         *)
(* Data.  A configuration file and an environment are the settings they    *)
(* give, by name.  A path is the sequence of its segments; names that      *)
(* differ only in case or blanks are one name.  A sealed credential is its *)
(* fields and the key that sealed them.  What the other components do with *)
(* the rows once the server runs is in BucketRegistry.                     *)
(***************************************************************************)
EXTENDS Naturals, Sequences, FiniteSets

CONSTANTS
    Files,         \* configuration files: settings by name
    Environments,  \* environments: settings by name
    NameClass,     \* bucket names, by what the providers' naming rules tell apart
    None,          \* no row, no key
    MaxStarts,     \* bound: starts of the process
    MaxFaults      \* bound: database failures

Seqs == INSTANCE SequencesExt

VARIABLES
    file, environ,  \* what the operator provides
    database,       \* by database: the rows of s3_credential and bucket_scope
    keyFiles,       \* by path: the key in the local key file
    proc,           \* the server process
    starts, faults

vars == <<file, environ, database, keyFiles, proc, starts, faults>>

-----------------------------------------------------------------------------
(* LoadConfig. *)

\* defaultConfig
Defaults ==
    [readable |-> TRUE, sqlite |-> "", postgres |-> FALSE, mode |-> "", user |-> "", pass |-> "",
     csv |-> "", open |-> FALSE, mock |-> FALSE, plugin |-> "", master |-> "", keyFile |-> "",
     limit |-> 1200,
     buckets |-> <<>>, s3_credentials |-> <<>>, scopes |-> <<>>]

\* loadConfigFile: the file is decoded over the defaults.
Decoded(f) == [x \in DOMAIN Defaults |-> IF x \in DOMAIN f THEN f[x] ELSE Defaults[x]]

\* What a variable of the environment overrides; the mock mode, the key and the
\* key manager are read from the environment itself, where they are used.
Overridable == {"sqlite", "postgres", "mode", "user", "pass", "csv", "open", "keyFile", "limit"}

\* applyEnvironmentOverrides
Overridden(c, e) ==
    [x \in DOMAIN c |-> IF x \in Overridable \cap DOMAIN e THEN e[x] ELSE c[x]]

Setting(e, x, unset) == IF x \in DOMAIN e THEN e[x] ELSE unset

MockFromEnvironment(e) == Setting(e, "mock", FALSE)

\* ParseBucketProvider: the provider's own name and its URL scheme; none is S3.
Providers == [s3 |-> "s3", gcs |-> "gcs", gs |-> "gcs", azure |-> "azure", azblob |-> "azure", file |-> "file"]
KnownProvider(raw) == raw = "" \/ raw \in DOMAIN Providers
ParseBucketProvider(raw) == IF raw = "" THEN "s3" ELSE Providers[raw]

\* ProviderFromScheme, for a storage path.
Schemes == {"s3", "gs", "gcs", "az", "azblob", "file"}

\* The naming rules: validateS3BucketName, validateS3CompatibleBucketName,
\* validateGCSBucketName and validateAzureBucketName.
S3Names         == {"plain", "doubled", "goog"}
CompatibleNames == {"plain", "doubled", "goog", "dotted", "mixed", "short"}
GCSNames        == {"plain", "doubled", "dotted"}
AzureNames      == {"plain", "goog"}

ValidateBucketName(provider, name, endpoint) ==
    /\ name # ""
    /\ CASE provider = "s3"    -> NameClass[name] \in IF endpoint THEN CompatibleNames ELSE S3Names
         [] provider = "gcs"   -> NameClass[name] \in GCSNames
         [] provider = "azure" -> NameClass[name] \in AzureNames
         [] OTHER              -> TRUE

\* A configured bucket: S3 needs its region and both keys.
ValidBucket(b) ==
    /\ KnownProvider(b.provider)
    /\ ValidateBucketName(ParseBucketProvider(b.provider), b.bucket, b.endpoint)
    /\ ParseBucketProvider(b.provider) = "s3" => b.region /\ b.access # "" /\ b.secret # ""

\* DeriveCredentialID: everything but the secret.
CredentialID(b) == <<"id", b.bucket, ParseBucketProvider(b.provider), b.access>>

\* How a scope or an operator may name a credential instead.
BucketName(bucket) == <<"bucket", bucket>>

\* bucketResourceScopes: an entry without projects is a scope of the whole
\* organization, and takes no path of a project.
ResourceScopes(b, r) ==
    LET base == [org |-> r.org, project |-> "", id |-> CredentialID(b), bucket |-> b.bucket,
                 path |-> <<>>, prefix |-> <<>>, orgSub |-> r.orgPath, projectSub |-> <<>>]
    IN  IF r.projects = <<>> THEN <<base>>
        ELSE [i \in DOMAIN r.projects |->
                [base EXCEPT !.project = r.projects[i].project, !.path = r.projects[i].path,
                             !.prefix = r.projects[i].prefix, !.projectSub = r.projects[i].sub]]

\* deriveBucketScopesFromBuckets
DerivedScopes(bs) ==
    Seqs!FlattenSeq([i \in DOMAIN bs |->
        Seqs!FlattenSeq([j \in DOMAIN bs[i].resources |-> ResourceScopes(bs[i], bs[i].resources[j])])])

ValidResource(r) == r.org # "" /\ \A i \in DOMAIN r.projects : r.projects[i].project # ""

\* credentialIDsByPhysicalBucket
CredentialIDs(bs, bucket) == {CredentialID(bs[i]) : i \in {j \in DOMAIN bs : bs[j].bucket = bucket}}

\* resolveScopeCredentialID: the one configured credential of the bucket, or the
\* bucket's name where none is configured.
ResolveScopeCredentialID(bs, s) ==
    IF s.id # <<>> THEN s.id
    ELSE IF CredentialIDs(bs, s.bucket) = {} THEN BucketName(s.bucket)
    ELSE CHOOSE id \in CredentialIDs(bs, s.bucket) : TRUE

\* A path names the bucket and the prefix of its scope; sub paths are joined.
ScopeBucket(s) == IF s.path # <<>> THEN s.path[2] ELSE s.bucket
ScopePrefix(s) ==
    IF s.path # <<>> THEN s.path[3]
    ELSE IF s.orgSub # <<>> \/ s.projectSub # <<>> THEN s.orgSub \o s.projectSub
    ELSE s.prefix

Normalized(bs, s) ==
    LET located == [s EXCEPT !.bucket = ScopeBucket(s), !.prefix = ScopePrefix(s)]
    IN  [located EXCEPT !.id = ResolveScopeCredentialID(bs, located)]

\* validateConfig, the scopes: one way to give the prefix, a bucket that agrees
\* with the path, and no choice between several credentials.
ValidScope(bs, s) ==
    /\ s.org # ""
    /\ s.orgSub # <<>> \/ s.projectSub # <<>> => s.path = <<>> /\ s.prefix = <<>>
    /\ s.path # <<>> =>
         /\ s.path[1] \in Schemes /\ s.path[2] # ""
         /\ s.bucket # "" => s.bucket = s.path[2]
         /\ s.prefix # <<>> => s.prefix = s.path[3]
    /\ s.id = <<>> => Cardinality(CredentialIDs(bs, ScopeBucket(s))) <= 1
    /\ ScopeBucket(s) # "" \/ s.id # <<>>

\* Exactly one database, and one of the two spellings of the bucket list.
ValidDatabase(c) == (c.sqlite # "") # c.postgres
ValidLists(c) == c.buckets = <<>> \/ c.s3_credentials = <<>>
ConfiguredBuckets(c) == IF c.buckets = <<>> THEN c.s3_credentials ELSE c.buckets
ConfiguredScopes(c) == c.scopes \o DerivedScopes(ConfiguredBuckets(c))

\* validateConfig, the authentication.
ValidAuth(c, e) ==
    /\ c.mode \in {"local", "gen3"}
    /\ c.mode = "gen3" => c.postgres \/ MockFromEnvironment(e)
    /\ (c.user = "") = (c.pass = "")
    /\ c.mode = "local" => c.csv # "" \/ (c.user # "" /\ c.pass # "") \/ c.open
    /\ MockFromEnvironment(e) => c.mode = "gen3"

Accepted(c, e) ==
    LET bs == ConfiguredBuckets(c)
    IN  /\ c.readable /\ Setting(e, "parses", TRUE)
        /\ ValidDatabase(c) /\ ValidLists(c)
        /\ \A i \in DOMAIN bs : ValidBucket(bs[i]) /\ \A j \in DOMAIN bs[i].resources : ValidResource(bs[i].resources[j])
        /\ \A i \in DOMAIN ConfiguredScopes(c) : ValidScope(bs, ConfiguredScopes(c)[i])
        /\ ValidAuth(c, e)
        /\ c.limit >= 0

\* exportAuthEnvironment: what the runtime reads from the environment later.
Exported(c, e) ==
    [mock |-> c.mock \/ MockFromEnvironment(e), csv |-> IF c.csv # "" THEN c.csv ELSE Setting(e, "csv", ""),
     plugin |-> IF c.plugin # "" THEN c.plugin ELSE Setting(e, "plugin", ""),
     master |-> Setting(e, "master", ""), keyFile |-> Setting(e, "keyFile", ""),
     sqlite |-> Setting(e, "sqlite", ""), manager |-> Setting(e, "manager", "local")]

-----------------------------------------------------------------------------
(* The key that seals the credentials. *)

\* applyCredentialEncryptionConfig: the configuration fills what the environment
\* leaves unset.
WithEncryption(env, c) ==
    [env EXCEPT !.master = IF @ = "" THEN c.master ELSE @, !.keyFile = IF @ = "" THEN c.keyFile ELSE @,
                !.sqlite = IF @ = "" THEN c.sqlite ELSE @]

\* localCredentialKeyPath: beside the SQLite file unless a path is given.
KeyPath(env) == IF env.keyFile # "" THEN env.keyFile ELSE IF env.sqlite # "" THEN env.sqlite ELSE "/app"

\* credentialMasterKey: a given key, or the one in the key file, which is created
\* when it is missing.
CreatedKey(env) ==
    IF env.master # "" THEN keyFiles
    ELSE [keyFiles EXCEPT ![KeyPath(env)] = IF @.present THEN @ ELSE [present |-> TRUE, made |-> @.made + 1]]
MasterKeyParses(env) == env.master # "malformed"
MasterKey(env, files) ==
    IF env.master # "" THEN <<"given", env.master, 0>> ELSE <<"file", KeyPath(env), files[KeyPath(env)].made>>

\* resolveCredentialKeyManager: the local key or AWS KMS.
Managers == {"local", "aws-kms"}

\* WrapDataKey and UnwrapDataKey of the two managers.
WrappingKey(env, files) == IF env.manager = "aws-kms" THEN <<"kms", "", 0>> ELSE MasterKey(env, files)
Unwraps(env, files, key) == key[1] = "kms" \/ (MasterKeyParses(env) /\ key = MasterKey(env, files))

\* PrepareS3CredentialForStorage, under the configured manager; nothing to seal,
\* no key.
SealingKey(env, files, b) ==
    IF b.access = "" /\ b.secret = "" THEN None ELSE WrappingKey(env, files)

\* ParseS3CredentialFromStorage asks the manager the envelope names, whichever is
\* configured now.
Unseals(env, files, row) == row.sealed = None \/ Unwraps(env, files, row.sealed)

-----------------------------------------------------------------------------
(* The rows. *)

Rows(c) == database[IF c.sqlite # "" THEN c.sqlite ELSE "postgres"]
Wrote(c, rows) == database' = [database EXCEPT ![IF c.sqlite # "" THEN c.sqlite ELSE "postgres"] = rows]

\* getS3CredentialByPhysicalBucket
OfBucket(rows, bucket) == {id \in DOMAIN rows.cred : rows.cred[id].bucket = bucket}

\* GetS3Credential: the id, or else the bucket it is the only credential of.
GetS3Credential(rows, name) ==
    IF name \in DOMAIN rows.cred THEN {name}
    ELSE IF name[1] = "bucket" THEN OfBucket(rows, name[2]) ELSE {}

\* ensureUniquePhysicalBucket
UniqueBucket(rows, id, bucket) == OfBucket(rows, bucket) \subseteq {id}

With(f, k, v) == [x \in DOMAIN f \cup {k} |-> IF x = k THEN v ELSE f[x]]

\* SaveS3Credential
Saved(rows, b, key) ==
    [rows EXCEPT !.cred = With(@, CredentialID(b), [bucket |-> b.bucket, access |-> b.access,
                                                    secret |-> b.secret, sealed |-> key])]

\* CreateBucketScope: the row of the project is made or made over.
CreatedScope(rows, s, id) ==
    [rows EXCEPT !.scope = With(@, <<s.org, s.project>>,
                                [id |-> id, bucket |-> rows.cred[id].bucket, prefix |-> s.prefix])]

-----------------------------------------------------------------------------
(* The process. *)

Stopped == [stage |-> "stopped"]

\* A process before it has read anything of the database.
Loaded(c, e) ==
    [stage |-> "loaded", cfg |-> [c EXCEPT !.buckets = ConfiguredBuckets(c),
                                           !.scopes = [i \in DOMAIN ConfiguredScopes(c) |->
                                                         Normalized(ConfiguredBuckets(c), ConfiguredScopes(c)[i])]],
     env |-> Exported(c, e), next |-> 1, unsaved |-> {}, mechanism |-> "", csv |-> ""]

Goto(stage) == [proc EXCEPT !.stage = stage, !.next = 1]

\* The command starts: LoadConfig.
LoadConfig ==
    LET c == Overridden(Decoded(file), environ)
    IN  /\ proc.stage = "stopped" /\ starts < MaxStarts
        /\ starts' = starts + 1
        /\ proc' = IF Accepted(c, environ) THEN Loaded(c, environ) ELSE Stopped
        /\ UNCHANGED <<file, environ, database, keyFiles, faults>>

\* The database is opened; the second check of gen3 mode sees the exported
\* environment.
OpenDatabase ==
    /\ proc.stage = "loaded"
    /\ proc' = IF proc.cfg.mode = "gen3" /\ ~proc.cfg.postgres /\ ~proc.env.mock THEN Stopped
               ELSE [Goto(IF proc.cfg.buckets = <<>> THEN "scopes" ELSE "sealing") EXCEPT
                       !.env = WithEncryption(@, proc.cfg)]
    /\ UNCHANGED <<file, environ, database, keyFiles, starts, faults>>

\* CredentialEncryptionEnabled, which asks for the local key under any manager.
CheckKey ==
    /\ proc.stage = "sealing"
    /\ IF MasterKeyParses(proc.env)
         THEN /\ proc' = Goto("credentials")
              /\ keyFiles' = CreatedKey(proc.env)
         ELSE /\ proc' = Stopped
              /\ UNCHANGED keyFiles
    /\ UNCHANGED <<file, environ, database, starts, faults>>

\* The next configured credential is saved; one that is not saved is logged.
SaveCredential ==
    LET b == proc.cfg.buckets[proc.next]
        id == CredentialID(b)
        key == SealingKey(proc.env, CreatedKey(proc.env), b)
    IN  /\ proc.stage = "credentials" /\ proc.next <= Len(proc.cfg.buckets)
        /\ \/ /\ UniqueBucket(Rows(proc.cfg), id, b.bucket) /\ proc.env.manager \in Managers
              /\ Wrote(proc.cfg, Saved(Rows(proc.cfg), b, key))
              /\ proc' = [proc EXCEPT !.next = @ + 1]
              /\ UNCHANGED faults
           \/ /\ ~(UniqueBucket(Rows(proc.cfg), id, b.bucket) /\ proc.env.manager \in Managers)
              /\ proc' = [proc EXCEPT !.next = @ + 1, !.unsaved = @ \cup {id}]
              /\ UNCHANGED <<database, faults>>
           \/ /\ faults < MaxFaults
              /\ faults' = faults + 1
              /\ proc' = [proc EXCEPT !.next = @ + 1, !.unsaved = @ \cup {id}]
              /\ UNCHANGED database
        /\ keyFiles' = CreatedKey(proc.env)
        /\ UNCHANGED <<file, environ, starts>>

CredentialsDone ==
    /\ proc.stage = "credentials" /\ proc.next > Len(proc.cfg.buckets)
    /\ proc' = Goto("scopes")
    /\ UNCHANGED <<file, environ, database, keyFiles, starts, faults>>

\* Mutant: the scope is attached to whichever credential its bucket has.
ByBucket(s) == BucketName(s.bucket)

\* The credential a configured scope is looked up by.
ScopeCredential(s) == IF s.id # <<>> THEN s.id ELSE BucketName(s.bucket)

\* loadConfiguredBucketScopes: the first scope that fails ends the start.
LoadScope ==
    LET s == proc.cfg.scopes[proc.next]
        rows == Rows(proc.cfg)
        found == {id \in GetS3Credential(rows, ScopeCredential(s)) :
                    Unseals(proc.env, CreatedKey(proc.env), rows.cred[id])}
    IN  /\ proc.stage = "scopes" /\ proc.next <= Len(proc.cfg.scopes)
        /\ keyFiles' = CreatedKey(proc.env)
        /\ IF found = {}
             THEN /\ proc' = Stopped
                  /\ UNCHANGED database
             ELSE /\ \E id \in found : Wrote(proc.cfg, CreatedScope(rows, s, id))
                  /\ proc' = [proc EXCEPT !.next = @ + 1]
        /\ UNCHANGED <<file, environ, starts, faults>>

\* NewRuntime, the local mechanism: an authorization file that does not load is
\* remembered, a plugin that does not load is passed over.
LocalCSV(p) == IF p.cfg.mode = "local" THEN p.env.csv ELSE ""
Mechanism(p) ==
    CASE p.env.plugin = "loads" -> "plugin"
      [] p.env.plugin # "loads" /\ p.cfg.mode = "gen3" -> IF p.env.mock THEN "mock" ELSE "gen3"
      [] OTHER -> IF LocalCSV(p) = "loads" THEN "users" ELSE IF p.cfg.user # "" THEN "basic" ELSE "open"

\* The runtime and the routes are assembled, and the server listens.
Listen ==
    /\ proc.stage = "scopes" /\ proc.next > Len(proc.cfg.scopes)
    /\ proc' = [Goto("serving") EXCEPT !.mechanism = Mechanism(proc), !.csv = LocalCSV(proc)]
    /\ UNCHANGED <<file, environ, database, keyFiles, starts, faults>>

\* The process is stopped or killed, at any point.
Stop ==
    /\ proc.stage # "stopped"
    /\ proc' = Stopped
    /\ UNCHANGED <<file, environ, database, keyFiles, starts, faults>>

\* Between two starts the operator changes the file or the environment.
Configure ==
    /\ proc.stage = "stopped" /\ starts \in 1..MaxStarts - 1
    /\ \/ file' \in Files /\ UNCHANGED environ
       \/ environ' \in Environments /\ UNCHANGED file
    /\ UNCHANGED <<database, keyFiles, proc, starts, faults>>

\* A key file kept inside a container goes with it.
LoseKeyFile ==
    /\ proc.stage = "stopped" /\ starts < MaxStarts /\ faults < MaxFaults
    /\ \E p \in DOMAIN keyFiles :
         keyFiles[p].present /\ keyFiles' = [keyFiles EXCEPT ![p].present = FALSE]
    /\ faults' = faults + 1
    /\ UNCHANGED <<file, environ, database, proc, starts>>

\* After the last start of the bound nothing more happens.
Idle == proc.stage = "stopped" /\ starts = MaxStarts /\ UNCHANGED vars

Databases == {"x.db", "y.db", "postgres"}
KeyPaths == {"x.db", "y.db", "/app", "key"}

Init ==
    /\ file \in Files /\ environ \in Environments
    /\ database = [d \in Databases |-> [cred |-> <<>>, scope |-> <<>>]]
    /\ keyFiles = [p \in KeyPaths |-> [present |-> FALSE, made |-> 0]]
    /\ proc = Stopped /\ starts = 0 /\ faults = 0

Next ==
    \/ LoadConfig \/ OpenDatabase \/ CheckKey \/ SaveCredential \/ CredentialsDone
    \/ LoadScope \/ Listen \/ Stop \/ Configure \/ LoseKeyFile
    \/ Idle

Spec == Init /\ [][Next]_vars

-----------------------------------------------------------------------------
(* Properties. *)

\* The configured scope that decides about a project: the last one of the list.
Decides(i) ==
    \A j \in DOMAIN proc.cfg.scopes :
      j > i => <<proc.cfg.scopes[j].org, proc.cfg.scopes[j].project>> # <<proc.cfg.scopes[i].org, proc.cfg.scopes[i].project>>

\* The secret configured last for a credential.
ConfiguredSecrets(id) ==
    LET same == {i \in DOMAIN proc.cfg.buckets : CredentialID(proc.cfg.buckets[i]) = id}
    IN  {proc.cfg.buckets[i].secret : i \in {j \in same : \A k \in same : k <= j}}

\* Every configured project is served from its configured bucket and prefix, with
\* a credential the process can unseal: the one configured for that bucket, with
\* the secret configured for it unless saving it failed and was only logged
\* (server.go:264-281, 394-426).
ScopesAsConfigured ==
    \A i \in DOMAIN proc.cfg.scopes :
      Decides(i) =>
        LET s == proc.cfg.scopes[i]
            rows == Rows(proc.cfg)
        IN  /\ <<s.org, s.project>> \in DOMAIN rows.scope
            /\ LET row == rows.scope[<<s.org, s.project>>]
               IN  /\ row.bucket = s.bucket /\ row.prefix = s.prefix
                   /\ row.id \in DOMAIN rows.cred
                   /\ rows.cred[row.id].bucket = s.bucket
                   /\ Unseals(proc.env, keyFiles, rows.cred[row.id])
                   /\ CredentialIDs(proc.cfg.buckets, s.bucket) # {} =>
                        row.id \in CredentialIDs(proc.cfg.buckets, s.bucket)
                   /\ rows.cred[row.id].secret \in ConfiguredSecrets(row.id)
                        \/ ConfiguredSecrets(row.id) = {} \/ row.id \in proc.unsaved

\* Local mode accepts requests without credentials only where the configuration
\* allows it, whatever of the file, the plugin and the environment fails to load
\* (validation.go:158-160, runtime.go:25-77).
OpenOnlyIfAllowed ==
    proc.cfg.mode = "local" /\ proc.mechanism = "open" /\ proc.csv # "broken" => proc.cfg.open

\* A server that serves is the one that was configured, whatever earlier starts
\* left in the database and wherever they failed: its scopes, its credentials
\* and its authentication.
StartedAsConfigured ==
    proc.stage = "serving" =>
      ScopesAsConfigured /\ OpenOnlyIfAllowed

=============================================================================
