---------------------------- MODULE SchemaUpgrade ----------------------------
(***************************************************************************)
(* The schema initialization every start of a server runs on its database, *)
(* new or left by an older server: sqlite.initSchema and its compatibility *)
(* upgrades, and the initializers of postgres.NewPostgresDB.  Each is a    *)
(* list of statements, run one by one, outside a transaction except where  *)
(* the code opens one; a statement that fails ends the start.  A server    *)
(* may crash between two statements, and on PostgreSQL several servers     *)
(* share the database and may start while others serve.                    *)
(*                                                                         *)
(* Data.  Tables that the statements treat alike are one table here:       *)
(* "parts" stands for everything that hangs on a record (locations,        *)
(* grants, checksums, policy, aliases, counters), with ON DELETE CASCADE.  *)
(* Tables that are only ever created (staged metadata, pending usage) are  *)
(* left out, and of the columns only those an upgrade adds or removes are  *)
(* kept.                                                                   *)
(***************************************************************************)
EXTENDS Naturals, Sequences, FiniteSets

CONSTANTS
    Servers,    \* processes on one database
    Records, Buckets,
    Older,      \* by engine: the shapes of the databases a server may find
    MaxFaults   \* bound: crashes, and statements that fail for reasons of their own

VARIABLES
    engine,   \* "sqlite" or "postgres"
    table,    \* the tables
    matching, \* the scopes old locations carry are among the grants
    at,       \* at[s]: the statement s runs next; 0 when it is down
    faults,
    known,    \* history: the records and buckets that were ever stored
    broken,   \* history: the servers whose last start did not get to its end
    met       \* history: the servers that started while another was starting

vars == <<engine, table, matching, at, faults, known, broken, met>>

Names == {"object", "parts", "credential", "credential_legacy", "scope", "attribution"}
Columns == {"base", "file_name", "bucket", "credential_id", "provider", "access_grant_id", "direction"}

\* A table: its columns, its rows, the columns that are blank in rows, and
\* whether it has its primary key and its trigger.
Table == [cols : SUBSET Columns, rows : SUBSET (Records \cup Buckets), blank : SUBSET Columns,
          guards : SUBSET {"pkey", "trigger"}]
NoTable == [cols |-> {}, rows |-> {}, blank |-> {}, guards |-> {}]
Exists(t) == table[t].cols # {}

-----------------------------------------------------------------------------
(* Statements. *)

Statement(op, t, col) == [op |-> op, table |-> t, col |-> col]
Create(t, cols) == Statement("create", t, cols)
AddColumn(t, col) == Statement("add", t, col)          \* the old rows are blank
AddDefault(t, col) == Statement("addDefault", t, col)
Fill(t, col) == Statement("fill", t, col)              \* UPDATE ... WHERE it is blank
NotNull(t, col) == Statement("notNull", t, col)
Index(t, col) == Statement("index", t, col)

ObjectColumns == {"base"}
CredentialColumns == {"base", "bucket", "credential_id", "provider"}
ScopeColumns == {"base", "bucket", "credential_id"}
AttributionColumns == {"base", "access_grant_id", "direction"}

\* ensureCredentialIdentitySchema: the four statements of one Exec, each
\* committed by itself, unless the table has the column; then the scopes.
CredentialIdentity ==
    <<Statement("unless", "credential", "credential_id"),
      Statement("rename", "credential", "base"), Create("credential", CredentialColumns),
      Statement("copy", "credential", "base"), Statement("drop", "credential_legacy", "base"),
      AddColumn("scope", "credential_id"), Fill("scope", "credential_id"),
      Index("scope", "credential_id"), Index("credential", "bucket")>>

\* initSchema
SqliteScript ==
    <<Create("object", ObjectColumns), Create("parts", {"base"}), Index("parts", "base"),
      Create("credential", CredentialColumns), Statement("trigger", "credential", "base"),
      Create("scope", ScopeColumns), Index("scope", "credential_id"), Index("scope", "bucket"),
      Create("attribution", AttributionColumns), Index("attribution", "base"),
      AddDefault("credential", "provider")>>
      \o CredentialIdentity \o
    <<Statement("rebuild", "object", "file_name"),
      AddDefault("attribution", "access_grant_id"), AddDefault("attribution", "direction"),
      Index("attribution", "direction"), Statement("backfill", "attribution", "access_grant_id")>>

\* The initializers of NewPostgresDB, in their order; validateLegacyAccessMethodScopes
\* is the last step of the first.
ObjectSchema ==
    <<Create("object", ObjectColumns), Statement("dropColumn", "object", "file_name"),
      Create("parts", {"base"}), Index("parts", "base"), Statement("validate", "parts", "base")>>

BucketScopeSchema ==
    <<Create("scope", ScopeColumns), AddColumn("scope", "credential_id"), Fill("scope", "credential_id"),
      NotNull("scope", "credential_id"), AddColumn("scope", "bucket"), Fill("scope", "bucket"),
      NotNull("scope", "bucket"), Index("scope", "credential_id"), Index("scope", "bucket")>>

S3CredentialSchema ==
    <<Create("credential", CredentialColumns), AddColumn("credential", "credential_id"),
      AddDefault("credential", "provider"), Fill("credential", "credential_id"),
      NotNull("credential", "credential_id"),
      Statement("dropKey", "credential", "base"), Statement("addKey", "credential", "credential_id"),
      Index("credential", "bucket"),
      Statement("dropTrigger", "credential", "base"), Statement("createTrigger", "credential", "base")>>

TransferAttributionSchema ==
    <<Create("attribution", AttributionColumns), AddDefault("attribution", "access_grant_id"),
      AddDefault("attribution", "direction"), Index("attribution", "direction"),
      Statement("backfill", "attribution", "access_grant_id")>>

PostgresScript == ObjectSchema \o BucketScopeSchema \o S3CredentialSchema \o TransferAttributionSchema

Script == IF engine = "sqlite" THEN SqliteScript ELSE PostgresScript

Up == Len(Script) + 1

\* What makes a statement fail.  SQLite checks the triggers of the database when
\* a table is renamed, not when they are created.
Refused(st) ==
    LET t == table[st.table] IN
    CASE st.op \in {"index", "backfill"} -> st.col \notin t.cols
      [] st.op = "rename" -> "trigger" \in t.guards /\ "credential_id" \notin t.cols
      [] st.op = "notNull" -> st.col \in t.blank
      [] st.op = "addKey" -> "pkey" \in t.guards \/ st.col \in t.blank
      [] st.op = "createTrigger" -> "trigger" \in t.guards
      [] st.op = "validate" -> ~matching
      [] OTHER -> FALSE

\* Mutant: the old rows are not filled in.
FilledLater(t, col) == t

Filled(t, col) == [t EXCEPT !.blank = @ \ {col}]

\* The table a statement leaves behind.
Altered(t, st) ==
    CASE st.op = "create" /\ t.cols = {} ->
           [NoTable EXCEPT !.cols = st.col, !.guards = {"pkey"}]
      [] st.op = "add" /\ st.col \notin t.cols ->
           [t EXCEPT !.cols = @ \cup {st.col}, !.blank = IF t.rows = {} THEN @ ELSE @ \cup {st.col}]
      [] st.op = "addDefault" -> [t EXCEPT !.cols = @ \cup {st.col}]
      [] st.op = "fill" -> Filled(t, st.col)
      [] st.op \in {"dropColumn", "rebuild"} -> [t EXCEPT !.cols = @ \ {st.col}]
      [] st.op = "dropKey" -> [t EXCEPT !.guards = @ \ {"pkey"}]
      [] st.op = "addKey" -> [t EXCEPT !.guards = @ \cup {"pkey"}]
      [] st.op = "dropTrigger" -> [t EXCEPT !.guards = @ \ {"trigger"}]
      [] st.op \in {"trigger", "createTrigger"} -> [t EXCEPT !.guards = @ \cup {"trigger"}]
      [] st.op = "drop" -> NoTable
      [] OTHER -> t

\* ... and what it does to other tables.  ensureObjectTableShape copies the
\* records and drops the old table in a transaction; with foreign keys on, the
\* DROP deletes its rows first, and the deletion cascades.
Executed(st) ==
    LET own == [table EXCEPT ![st.table] = Altered(@, st)] IN
    CASE st.op = "rebuild" /\ st.col \in table["object"].cols -> [own EXCEPT !["parts"].rows = {}]
      [] st.op = "rename" -> [own EXCEPT !["credential_legacy"] = table["credential"], !["credential"] = NoTable]
      [] st.op = "copy" -> [own EXCEPT !["credential"].rows = @ \cup table["credential_legacy"].rows]
      [] OTHER -> own

-----------------------------------------------------------------------------
(* The databases a server may find: none yet, one of the current shape, and    *)
(* the shapes older servers left.                                              *)

Stored(cols, rows) == [NoTable EXCEPT !.cols = cols, !.rows = rows, !.guards = {"pkey"}]

Database(object, credential, scope, attribution) ==
    [object |-> Stored(object, Records), parts |-> Stored({"base"}, Records),
     credential |-> Stored(credential, Buckets), credential_legacy |-> NoTable,
     scope |-> Stored(scope, Buckets), attribution |-> Stored(attribution, {})]

Shapes ==
    [empty |-> [t \in Names |-> NoTable],
     current |-> Database(ObjectColumns, CredentialColumns, ScopeColumns, AttributionColumns),
     oldColumns |-> Database(ObjectColumns, CredentialColumns \ {"provider"}, ScopeColumns, {"base"}),
     oldScope |-> Database(ObjectColumns, CredentialColumns, {"base", "bucket"}, AttributionColumns),
     oldCredential |-> Database(ObjectColumns, {"base", "bucket", "provider"}, ScopeColumns, AttributionColumns),
     retiredColumn |-> Database({"base", "file_name"}, CredentialColumns, ScopeColumns, AttributionColumns),
     oldest |-> Database({"base", "file_name"}, {"base", "bucket"}, {"base", "bucket"}, {"base"})]

\* The SQLite databases of servers that kept the file name with the object.
Retired == [sqlite |-> {"retiredColumn"}]

\* In PostgreSQL every shape may come with locations whose scopes match no grant.
Init ==
    /\ engine \in DOMAIN Older
    /\ \E shape \in Older[engine] : table = Shapes[shape]
    /\ matching \in BOOLEAN /\ (engine = "sqlite" => matching)
    /\ at = [s \in Servers |-> 0]
    /\ faults = 0
    /\ known = table["object"].rows \cup table["credential"].rows
    /\ broken = {} /\ met = {}

Serving(s) == at[s] # 0 /\ at[s] = Up
Starting(s) == at[s] # 0 /\ at[s] < Up

\* A SQLite file has one server.
Start(s) ==
    /\ at[s] = 0
    /\ engine = "sqlite" => \A t \in Servers : at[t] = 0
    /\ at' = [at EXCEPT ![s] = 1]
    /\ LET others == {t \in Servers : Starting(t)}
       IN  met' = IF others = {} THEN met \ {s} ELSE met \cup others \cup {s}
    /\ UNCHANGED <<engine, table, matching, faults, known, broken>>

\* NewSqliteDB and NewPostgresDB return the error and the process ends.
BreakOff(s) ==
    /\ at' = [at EXCEPT ![s] = 0]
    /\ broken' = broken \cup {s}
    /\ UNCHANGED <<engine, table, matching, known, met>>

\* The statement after statement i: the migration is passed over when the
\* credentials have their id already.
Following(i) ==
    IF Script[i].op = "unless" /\ Script[i].col \in table[Script[i].table].cols THEN i + 5 ELSE i + 1

\* Mutant: a statement that fails is logged and the start goes on.
RunRegardless(s) ==
    /\ Starting(s)
    /\ at' = [at EXCEPT ![s] = Following(@)]
    /\ broken' = broken \ {t \in {s} : at'[s] = Up}
    /\ table' = IF Refused(Script[at[s]]) THEN table ELSE Executed(Script[at[s]])
    /\ UNCHANGED <<engine, matching, faults, known, met>>

Run(s) ==
    /\ Starting(s)
    /\ IF Refused(Script[at[s]])
         THEN BreakOff(s) /\ UNCHANGED faults
         ELSE /\ at' = [at EXCEPT ![s] = Following(@)]
              /\ broken' = broken \ {t \in {s} : at'[s] = Up}
              /\ table' = Executed(Script[at[s]])
              /\ UNCHANGED <<engine, matching, faults, known, met>>

\* A crash, or a statement that fails for reasons of its own.
Fail(s) ==
    /\ Starting(s)
    /\ faults < MaxFaults
    /\ faults' = faults + 1
    /\ BreakOff(s)

\* A server that serves ends; its database stays as it is.
Stop(s) ==
    /\ Serving(s)
    /\ at' = [at EXCEPT ![s] = 0]
    /\ UNCHANGED <<engine, table, matching, faults, known, broken, met>>

\* A server that serves stores a record and what hangs on it.
Store(s, r) ==
    /\ Serving(s)
    /\ table' = [table EXCEPT !["object"].rows = @ \cup {r}, !["parts"].rows = @ \cup {r}]
    /\ known' = known \cup {r}
    /\ UNCHANGED <<engine, matching, at, faults, broken, met>>

\* ... and a bucket: ON CONFLICT (credential_id) needs the primary key.
Register(s, b) ==
    /\ Serving(s)
    /\ "pkey" \in table["credential"].guards
    /\ table' = [table EXCEPT !["credential"].rows = @ \cup {b}, !["scope"].rows = @ \cup {b}]
    /\ known' = known \cup {b}
    /\ UNCHANGED <<engine, matching, at, faults, broken, met>>

Next ==
    \E s \in Servers :
      \/ Start(s) \/ Run(s) \/ Fail(s) \/ Stop(s)
      \/ \E r \in Records : Store(s, r)
      \/ \E b \in Buckets : Register(s, b)

Spec == Init /\ [][Next]_vars

-----------------------------------------------------------------------------
(* Properties. *)

\* No start, on whatever older database and however it ends, loses a record,
\* what hangs on it, a credential or a scope: the retired columns are removed
\* and the old credential shape is migrated with the rows in place
\* (schema_legacy.go ensureObjectTableShape, ensureCredentialIdentitySchema).
NothingLost ==
    /\ known \cap Records \subseteq table["object"].rows \cap table["parts"].rows
    /\ known \cap Buckets \subseteq (table["credential"].rows \cup table["credential_legacy"].rows)
                                    \cap table["scope"].rows

\* A server serves only a database that has everything its queries use, whatever
\* the database was before, whichever starts broke off on it and whichever other
\* servers are starting: the columns are there, no row is blank in them, the
\* retired one is gone, nothing is left in a table half migrated, and the key and
\* the trigger of the credentials are missing only while another server replaces
\* them or after one broke off there (postgres.go NewPostgresDB, sqlite.go
\* NewSqliteDB).
ServesUpgraded ==
    (\E s \in Servers : Serving(s)) =>
      /\ table["object"].cols = ObjectColumns
      /\ CredentialColumns \subseteq table["credential"].cols
      /\ ScopeColumns \subseteq table["scope"].cols
      /\ AttributionColumns \subseteq table["attribution"].cols
      /\ \A t \in Names : table[t].blank = {}
      /\ table["credential_legacy"].rows = {}
      /\ \/ table["credential"].guards = {"pkey", "trigger"}
         \/ \E t \in Servers : Starting(t) \/ t \in broken
      /\ NothingLost

\* The shapes of older SQLite databases whose upgrade cannot succeed: the indexes
\* and triggers of the new shape are created before the columns they name.
OldIdentity ==
    engine = "sqlite" /\ ("credential_id" \notin table["credential"].cols
                            \/ "credential_id" \notin table["scope"].cols)

\* A statement of a start is refused only when another server started meanwhile,
\* when the scopes of old locations do not match the grants, or on an older
\* SQLite credential shape: no start that broke off earlier, at any statement,
\* makes the next one fail (schema_init.go, schema.go initSchema).
StartsSucceed ==
    [][\A s \in Servers :
         (Starting(s) /\ at'[s] = 0 /\ faults' = faults) =>
           \/ s \in met
           \/ engine = "postgres" /\ ~matching
           \/ OldIdentity]_vars

=============================================================================
