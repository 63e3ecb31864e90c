# Syfon: verification of the DRS server

TLA+ models, TLC runs and TLAPS proofs for the server and client in this
repository: a GA4GH DRS object catalogue with Git LFS support, in Go, over SQLite or
PostgreSQL and an object store. Paths below are relative to the repository root.

`PROJECT.json` lists the runs, the map from definitions to source lines, the hazards,
the findings and the theorems. `tlc -workers 2 -config X.cfg Module` makes a run,
`tlapm XProofs.tla` checks a proof module.

## The system

| Part | State | Operations | Hard because |
| --- | --- | --- | --- |
| Content catalogue (`internal/persistence/{postgres,sqlite}/content_*.go`, `object_mutations.go`) | rows, SHA-256 checksums, access methods, grants, read policy, aliases | register, replace, delete, bulk delete, aliases, access methods, remove grants | concurrent requests, batches that fail half way, three ways to name a record, rows an older server left |
| Access policy (`internal/access/policy.go`) | none; the session is in the request context | method and object checks | every mutation depends on it; an unscoped record means different things to different checks |
| Catalogue reads (`internal/objects`, `object_queries.go`) | none | by id, alias, checksum, URL, scope; pages | every route filters and merges in its own way |
| Record service, scope repair (`internal/objects/records`, `scoperepair`) | none of its own | update, delete, overwrite, collapse, repair | decisions on reads that are stale when the transaction runs |
| Record metadata (`internal/objects`, `internal/httpapi`) | the record's fields | three wire forms in and out | spellings, defaults, omitted against emptied fields |
| Usage accounting and reports (`usage_accounting.go`, `internal/usage`) | `object_usage_event`, `object_usage` | record, flush, report | the flush is several statements, run by every registration and report |
| LFS staging (`internal/transfers/lfs`) | `lfs_pending_metadata` with expiry | stage, prepare, verify | verification is three transactions; entries expire and are staged again |
| Transfer attribution (`transfer_events.go`) | events, grants, provider events | issue, record, backfill, reconcile | repeated requests, crash between count and event |
| Multipart lifecycle (`multipart_workflow.go`, `storage/*/multipart.go`) | sessions in memory, provider parts | begin, sign, complete | concurrent completions, restarts, four providers |
| Client transfer engine (`client/transfer`) | checkpoint file, partial file | resumable upload and download | crash between an answer and its record |
| Storage routing (`internal/transfers`, `internal/storage`) | scopes and credentials | place an upload, repair a URL, sign | two computations that must agree |
| Buckets and encryption (`internal/buckets`, `credentials.go`, `internal/crypto`) | credentials, scopes, 30 s scope cache, provider clients, key file | save, delete, look up, seal | caches filled by readers that race invalidation; several processes create one key |
| S3 inventory, project storage (`internal/projects/storage`, `storage/s3`) | a limiter | list, validate, probe, delete | retried pages, early ends, partial failure |
| Authentication (`internal/access/authentication`, `client/request`) | JWKS cache with TTL and cooldown, the client's token | verify, look up privileges, refresh | key rotation against a failing issuer, goroutines that share a token |
| Schema and configuration (`schema_*.go`, `internal/config`, `cmd/server`) | the database's shape and rows | upgrade, configure, start | older shapes, crashes between statements, several servers |
| Project copy (`cmd/projectcopy`) | none kept | walk, copy, register | paging while others write, chains of calls |

Requests call the record service, which checks the session and calls the persistence
port; persistence checks again inside its transaction. LFS verification calls the
pending store, the record service and usage accounting in turn. Registrations and
replacements flush usage events inside their own transaction. Issuing a URL resolves
a place (routing), signs with a provider client (buckets), counts (usage) and records
an event (attribution).

## Modules

A module's header says what it abstracts; `PROJECT.json` maps its definitions to
lines.

| Module | Models | One step is |
| --- | --- | --- |
| `AccessPolicy` | the authorization decisions, as operators | - |
| `ContentStore` | the catalogue's transactions: `Begin`, `Lock` (`lockContentWriteTx`), one action per operation, `Commit`, `Rollback` at any point | one element of a request inside its transaction |
| `RecordService` | the record service and scope repair over `ContentStore`'s operators | one table of a read, or one transaction |
| `CatalogueReads` | every route that reads | the listing of ids, then the hydration |
| `RecordMetadata` | the internal, DRS and LFS forms of a record, and what is stored and read back | one request |
| `UsageLedger`, `Database` | recording, flushing and reporting; `Serial` is SQLite's single connection | one statement |
| `UsageReports` | file and transfer reports, provider events and their reconciliation | one query |
| `LfsVerify` | staging and verification; the pop is its two statements | one statement or transaction |
| `TransferAttribution` | issuing URLs, their events, grants and counters, the backfill of a start | one statement |
| `Uploads`, `UploadContract` | client upload engine, checkpoint, server sessions, four providers; and what all of it promises | one request, one attempt at a part, one provider call |
| `Downloads` | the client's single and parallel downloads | one unit of an answer's body, one retry decision |
| `StorageRouting` | where an upload goes and where a download looks | one request |
| `BucketRegistry` | credentials, scopes, caches, the key file | one statement or cache operation |
| `StorageInspection` | inventories, validations, probes, deletions by URL | one provider call |
| `RequestAuth` | client token, middleware, key cache, issuer | one decision or remote call |
| `SchemaUpgrade` | schema initialization on databases of every older shape | one statement |
| `ServerStart` | configuration, validation and what a start writes | one stage, one row |
| `ProjectCopy` | `copy-project` | one server call |

`MCContent`, `MCTransfers`, `MCServer`, `MCBucketRegistry`, `MCRecordService`,
`MCStorageInspection`, `MCUploads` and `MCProjectCopy` give the constants. The first
three hold several components; a variable (`load`, `busy`) says which of them runs in a
behaviour, so that their state spaces add instead of multiplying: those parts share no
state in the code either, or only through tables another module models.

Choices that matter:

* `ContentStore` does not assume that the lock isolates transactions. A client's
  uncommitted writes are a delta over the committed tables (`View`), which is what READ
  COMMITTED shows it. Both back ends run the same Go logic; the map names PostgreSQL
  lines for some definitions and SQLite lines for others. A row carries one SHA-256
  (`ValidateCanonicalSHA256` refuses records with several).
* `RecordService` takes a read table by table where its result reaches a caller or is
  written back, and in one step where the transaction behind it checks again.
* `Uploads` abstracts content to the version of the source file a part was read from.
  The six attempts of a part are "again or never again". Sessions live in memory; a
  torn checkpoint reads as none. A PUT to s3, azure or gcs is one step. In a file bucket
  the client opens the part, or the small file, with `O_TRUNC` and copies into it
  (`client/transfer/http.go:20-38`): opening and the end of the copy are two steps,
  others see a `Torn` part in between, a crash leaves it so, and a writer behind another
  one (`cut`) is a state of its own. A completion there that fails on its way publishes
  any prefix of the parts through the deferred `Close` (`file/multipart.go:40-57`).
* `BucketRegistry` keeps the clients cached under the name a bucket is stored with and
  under another spelling of it apart (`client`, `respelt`): lookups ignore case, the
  cache and its invalidation do not. It lets a scope-cache entry expire at any moment,
  `RequestAuth` has a
  clock because its properties are about durations.
* `SchemaUpgrade` keeps only the columns an upgrade adds or removes.

## Runs

| Run | Module | Shows | Distinct states |
| --- | --- | --- | --- |
| `content` | `MCContent` | `TypeOK`, `UniqueContent`, `AliasTargetsExist`, `IdentityStable`, `ContentImmutable`, `RoutesAgree`, `ReportsTruthful` | 436,519 |
| `records` | `MCRecordService` | `ReadsAuthorized`, `GrantsAuthorized`, `SharedContentProtected`, `PrivateContentKept`, `OmittedFieldsKept`, `CollapseNeedsNoDuplicates`, `EveryServiceCallEnds` | 385,839 |
| `transfers` | `MCTransfers` | `UsageExact`, `ReportsAreCurrent`, `ConsumedOnce`, `StagedNotLost`, `AttributionExact`, `FinishedIsWhole`, `ClaimsKept`, `WireFaithful`, `DownloadFindsUpload` | 1,950,270 |
| `uploads` | `MCUploads` | `CheckpointTruthful`, `Implements`, `EveryRunEnds` | 798,167 |
| `server` | `MCServer` | `CachesCurrent`, `OneKek`, `RegistrationsStick`, `ProtectedAuthorized`, `OneRefreshPerToken`, `RetiredKeysExpire`, `ServesUpgraded`, `StartsSucceed`, `StartedAsConfigured` | 2,503,757 |
| `storage_inspection` | `MCStorageInspection` | `InspectionTruthful`, `InspectionsEnd` | 283,345 |
| `project_copy` | `MCProjectCopy` | `WalkComplete`, `CopyFaithful`, `CopyEnds` | 1,513,090 |
| `usage_postgres` | `UsageLedger` | violation of `UsageExact` | - |
| `lfs_postgres` | `LfsVerify` | violation of `ConsumedOnce` | - |
| `bucket_postgres` | `MCBucketRegistry` | violation of `OneCredentialPerBucket` | - |
| `reports_sqlite` | `MCContent` | violation of `FilesAddUp` | - |
| `schema_upgrade` | `SchemaUpgrade` | violation of `NothingLost` | - |

Each property is stated in words above its definition, and each has a mutant of a
mapped definition that breaks it.

### Bounds, and why they are enough

* `content`: 2 clients, 3 ids, 2 SHA-256 values (one with legacy duplicates), sizes 0,
  1, 2. Two clients make every pairwise interleaving of transactions that one lock
  orders; three ids allow a record, its alias and a third that is either; the sizes are
  unknown and two that conflict. Reads: 3 rows, 2 projects of an organization, 6 kinds
  of session, pages of 1 and 3. Reports: 3 records, 4 catalogues, cutoffs 0 and 2, pages
  of 2, one change between summary and details, 2 ingested provider events.
* `records`: 2 concurrent calls, 2 projects, owner / guest / plain-list / anonymous
  sessions, one content, catalogues with one record, an alias or two legacy rows;
  batches of 2, so that the second element sees the first one's writes.
* `transfers`: 2 records and 2 calls for usage; 2 oids, 2 verifications, 3 stagings (an
  entry, its replacement, a replacement during a verification) for LFS; 2 calls, 3
  requests, 2 faults for attribution; downloads of 3 units in parts of 1, 2 workers, 2
  attempts, 3 runs, 3 troubles; routing with 15 scope tables over 2 buckets, 2 projects
  and one change; metadata with 2 ids and the minted ones, 2 digests, 7 documents, 3
  candidates, 2 LFS candidates, 4 writes.
* `uploads`: 2 processes, 2 completion requests, 2 parts, 2 versions of the file, 2
  uploads, 1 fault, 4 providers.
* `server`: 2 calls over 2 buckets, 2 projects, 2 keys in the workloads signing,
  scoping, administration, configured, firstUse and firstStart; authentication with 2
  requests, time to live 2, cooldown 2, fetch timeout 1, token life 3, clock to 3, 2 key
  ids, 3 tokens; 2 servers and 1 fault on each older schema; 12 configuration files, 9
  environments, 2 starts, 1 fault.
* `storage_inspection`: keys `p/a`, `p/ab`, `p/b`, `pq/c` (a key that is a prefix of
  another, and one outside the project), 2 requests, page size 2 (for 1000), 2 page
  attempts (12), 2 head attempts (3), 3 exact attempts, 3 terminal replays, threshold 2
  (25), fallback limit 3 (5000), 1 permit (8), 2 changes, 1 fault, 2 early ends. The
  constants keep the order of the code's limits.
* `project_copy`: 3 records, 2 contents (one above the multipart limit), pages of 1 and
  2, one server or two, 2 changes
  by another client.

Where a theorem states the property too (see Proofs), it holds without these bounds.

Symmetry is used in `content` (ids, clients) and `server` (calls), which check no
liveness. Deadlock checking is off where the system may stop: all starts or
requests have been used up.

### Fairness

`EveryServiceCallEnds`: the process that serves a call keeps running (weak fairness of
some step of a running call). `EveryRunEnds`: as long as a client process or a
request goroutine can go on, one of them does (one weak fairness over all of them). `InspectionsEnd`: each request's goroutine keeps running, permits are
returned by `defer`. `CopyEnds`: the command keeps running. No fairness is assumed of
requests arriving, of an operation succeeding, or of faults stopping otherwise than by
their bound; cancelled and failed steps are alternatives of the fair actions.

### What the runs found

* `usage_postgres`: an event recorded between the upsert and the delete of a flush is
  deleted uncounted; two flushes that took their sums before either committed count the
  same events twice.
* `lfs_postgres`: two verifications of one oid both return the staged entry, since the
  fetch takes no row lock and the delete does not look at its row count
  (`internal/persistence/README.md:78` says entries are consumed atomically).
* `bucket_postgres`: the trigger that keeps one credential per bucket looks at its own
  snapshot; two concurrent registrations pass.
* `reports_sqlite`: a scoped summary with `inactive_days` binds its arguments to the
  wrong placeholders and counts no files.
* `schema_upgrade`: removing a retired column of `drs_object` on SQLite drops the table
  with foreign keys on, and the cascade deletes everything that hangs on the records.

## Proofs

TLAPS proves the following for every value of the constants.

| Module | Theorems | Assumes |
| --- | --- | --- |
| `ContentStoreProofs` | `Invariance`, `TypeCorrect`, `ContentUnique`, `AliasesLead`, `ContentNeverChanges`, `IdentityNeverMoves`; `RightsInvariance`, `GrantsAlwaysAuthorized`, `SharedAlwaysProtected`, `PrivateAlwaysKept`; for the record service `ServiceInvariance`, `ServiceKeepsCatalogue`, `ServiceKeepsContent`, `ServiceChangesByRight`, `ReadsAlwaysAuthorized`, `OmittedAlwaysKept`, `CollapseChangesNothing` | `PolicyAssumption`, `StoreAssumption` (what kind of things ids, digests, sizes, grants and requests are); `ServiceAssumption`: what service requests look like, that the catalogues found are well formed and that there are finitely many ids |
| `BucketRegistryProofs` | `RegistryInvariance`, `KekIsOne`, `CachesStayCurrent`, `RegistrationsDoStick` | `RegistryAssumption` (what a workload's requests look like, and that the absent values are no names) |
| `UploadsProofs` | `UploadInvariance`, `CheckpointsTruthful`, `UploadsImplement` | `UploadAssumption` |
| `SqliteProofs` | `LedgerInvariance`, `LedgerExact`, `LedgerReports`; `StagingInvariance`, `StagedConsumedOnce`, `StagedEntriesNotLost` | `LedgerAssumption`, `LfsAssumption`; `Serial`: SQLite's single connection |
| `TransferAttributionProofs` | `AttributionInvariance`, `AttributionIsExact` | `AttributionAssumption` |
| `RequestAuthProofs` | `AuthInvariance`, `ProtectedAreAuthorized`, `TokensRefreshedOnce`, `RetiredKeysDoExpire` | `AuthAssumption`: among others, the fetch timeout is below the time to live and the cooldown not above it |
| `DownloadsProofs` | `DownloadInvariance`, `DownloadedIsWhole` | `DownloadAssumption` |
| `StorageInspectionProofs` | `InspectionInvariance`, `InspectionsAreTruthful` | `InspectionAssumption`: what requests look like, and that there are fewer early ends of a listing than the code retries |

None of the properties is inductive. What was added, and why:

* **Content catalogue.** `IInv` is `TypeOK`, `Good` of the committed tables and `TxnInv`:
  only the client with the content lock has uncommitted writes, and what it would commit
  is itself `Good` and follows from the committed tables. Without `TxnInv` nothing is
  known of what a commit writes. The proof has three layers: each element of a request
  keeps `Good` and `Follows` on any view; a step of a transaction lifts this to its
  writes (`ViewAfterWrites`, `ElementStep`); `Lock`, `Commit` and `Rollback` lift it to
  the tables. `IdentityStable` and `ContentImmutable` are read off `Follows` at the only
  step that changes the tables, the commit.
* **Authorization.** Rights are checked when an element of a request is written, the
  properties compare the tables before and after the commit. `RightsInv` carries the
  checks to the commit: every row an open transaction has written so far is `Entitled`
  with respect to the committed row (transitive over the elements of a batch, where a
  later element sees what an earlier one wrote), and a row it has doomed was deletable.
  It needs `IInv` of the catalogue: the lock keeps the committed rows still under the
  transaction.
* **Record service.** `ServiceBase` adds to the catalogue's invariants the shape of every
  call (`Sound`) and that a transaction works on the head of its call's list (`Linked`).
  With it every step of the service is a `StoreStep`, a step of the catalogue for any
  caller's arguments (`ServiceIsStoreStep`), so the lemmas about the catalogue and about
  rights are proved once, for `StoreStep`, and hold under both specifications. For
  `ReadsAuthorized`, `ReadInv` speaks of a read at every table: as long as no statement
  saw a catalogue that opens a row found (`allowed`), the columns read by then already
  deny it (`Denied`), in whichever of the two orders the tables are read. For updates
  and the collapse, `FreshInv` says of a call whose rows nobody changed (`moved`) that
  what it has read is what the tables hold (`SeenFresh`), that its replacement says of
  the row only what the row says or the request names (`Prepared`, `Faithful`), that a
  collapse registers content that has several rows and so writes nothing, and that an
  open replacement has touched one row only, as an update may (`Written`).
* **Buckets.** A call reads in one step and acts in a later one. `Fine` says at each
  place what a call that nobody overtook knows: the scope it will cache or update, that
  no scope is left for the credential it deletes (`ScopeTrue`), the key its bucket has
  (`CredTrue`), the key file (`KekTrue`). `Overtaken` calls keep only their shape, and a
  scope-cache entry whose row went with a credential (`orphaned`) is known as such. That a
  credential id names its bucket (`RowsInv`, `Shape`) is what makes the overtaking by
  bucket complete. `OneWriter` and `KekTrue` together give one key: only one call finds
  no file, and nothing is sealed until it has written.
* **Uploads.** `CheckpointTruthful` is about the file, but a run that has read the
  checkpoint and a completion request that waits claim parts too, so the invariant
  speaks of everything `Claimed`. Processes that share an upload must send one version
  of the source (`OneVersion`); a part disappears only when the upload is landed or
  committed by Azure (`Held`), and is torn only in a file bucket, by a writer at work or
  by the second of two writers (`rewritten`); the token in a call's hands is what keeps
  two completions apart (`CallInv`). `UploadsImplement` has one lemma for each action of
  `UploadContract`: every step of client, server and provider is a step of the contract
  or a stutter, the truncation of a small file in its place and the prefix of a failed
  completion included.
* **Usage.** `Balanced` adds what an open flush has summed and not yet deleted to the
  counters and events; `OneOpen`, `SumIsCurrent` and `FloorIsCovered` say that the sum
  taken is still the sum when it is deleted. These last are what `usage_postgres` breaks.
* **LFS staging.** `Untaken`, `PopAlone` and `NotYetTaken`: between the two statements of
  a pop nobody else has the entry. This is what `lfs_postgres` breaks.
* **Attribution.** An event's row goes in once (`InsertedOnce`), the request that holds
  it has recorded it (`HeldRecorded`), counters never run ahead of issued URLs
  (`CountsCover`), every grant summarises its events (`GrantsRight`).
* **Authentication.** `OnItsWay` gives, at each point of a request's way through the
  middleware, what has been checked so far; `CacheDated` dates the key cache against the
  issuer's history; `TokensInTurn` says tokens are minted one after the other.
* **Downloads.** A unit of a version only ever lies in its own place of the file; what a
  single stream has written reaches from where it began up to the end of the file, what a
  worker has written from the start of its part on; holes come only from parallel runs
  that crashed. `FinishedIsWhole` speaks of the file after the last step; the invariant
  says of every step before it how much is there.
* **Inspection.** A listing knows every key up to its token that was in the bucket since
  the request began. What it lacks beyond has cost an early end, one for each page that
  was replayed (`ReplayOK`) and one for each round of probes (`RoundOK`); as there are
  more replays than early ends, a listing that was given up as complete is complete. The
  verdicts of the probes are states that the object had while the request ran.

Each inductive invariant was first checked with TLC on the instance of its run.

### Only model-checked

* Liveness (`EveryServiceCallEnds`, `EveryRunEnds`, `InspectionsEnd`, `CopyEnds`):
  temporal reasoning under fairness, and `ENABLED`, are beyond the prover.
* What reads return and how data is converted (`RoutesAgree`, `ReportsTruthful`,
  `WireFaithful`, `DownloadFindsUpload`, `WalkComplete`, `CopyFaithful`): these compare recursive computations on lists with a reference, which
  would need induction over data.
* `ClaimsKept`, `ServesUpgraded`, `StartsSucceed`, `StartedAsConfigured`: not proved so far.
* The violations: a counterexample on one instance is what they are about.

## Exceptions and observations

A property says what its exceptions are; these are the ones a reader should know, with
other things the code does that a user may not expect.

* **Catalogue.** The physical row of an id is looked up before an alias of that name,
  the other order of `internal/persistence/README.md:58`; `IdentityStable` fails under
  the documented one. A bulk removal of the last grant of a legacy row without a read
  policy makes it public (`PrivateStaysPrivate` names the case).
* **Record service.** An update computes from a read that a concurrent writer may have
  overtaken (`moved` in `OmittedFieldsKept`). Collapse is refused while duplicates
  exist. A record may be deleted between two statements of a read; its grants and policy
  are then missing and it counts as unscoped (`Opens`).
* **Metadata.** A PUT or POST without a version resets it to "1" (`internal.go:28`,
  against `record_updates.go:36-37`), and the document of GET `/index/{id}` has none, so
  that sending it back does (`WireFaithful` lets the version alone change); a PUT that
  gives SHA-256 values under two spellings of the type is accepted and all but the one
  met first are dropped (`checksums.go:67-75`, `update.go:20-24`); `name_aliases` of a PUT are ignored; a GET document has
  fields that the strict PUT refuses; a malformed SHA-256 is accepted (`malformed` in
  `WireFaithful`); an id minted for an organization-wide grant beside a project of that
  organization loses the former; the MIME type is not stored.
* **Reads.** Routes differ for legacy duplicates that span projects; pages by URL or
  hash may be short or empty although more follow; public scoped rows are not listed by
  URL for restricted sessions.
* **Reports.** In local mode any session ingests provider events for any
  scope, rights from a CSV file or not: `transfer_ingest.go:74` asks for gen3 mode, not
  for enforcement. File reports match an organization exactly, transfer reports include its
  projects; offset paging by last download may skip files; a breakdown stops at 1000.
* **Routing.** Large uploads pass the guid before the key
  (`client/transfer/upload/orchestrator.go:49`, `internal/httpapi/transfers/multipart.go:25-30`);
  a key prefix equal to the bucket's name is stripped from virtual-hosted URLs; an LFS
  candidate is uploaded under its digest and downloaded by its own URL.
* **Inspection.** Mode "exists" neither replays nor retries; the metadata digest is
  never filled.
* **Attribution.** The event id depends on the request id, so a repeated request counts
  again; LFS counts downloads under the oid; a download may be counted although its URL
  was never returned.
* **Downloads.** The raw mode never looks at the HTTP status; a crash of a parallel run
  leaves a preallocated file; resuming may mix two versions of an object.
* **Uploads.** A source that changes under a running upload taints it
  (`uploader.go:180`). In a file bucket a small file is torn while it is written, and
  after a write that was cut off until the next one; an attempt that sends a listed part
  again truncates it, and one that dies there leaves it torn for a completion that does
  not look; a completion that fails publishes a prefix of the object over the whole one
  (all are exceptions of `UploadContract`). On Azure a commit discards other blocks; the LFS proxy never
  aborts an upload.
* **Buckets.** Requests that a change overtakes cache what they read before it (`raced`
  in `CachesCurrent` and `RegistrationsStick`). A deletion that fails between its two
  statements, or finds the credential gone, leaves the deleted scopes in the cache for up
  to 30 seconds (`orphaned`; `credentials.go:40-43`). A client cached under another case
  of the bucket's name (`service.go:92-103`, `s3/backend.go:73,113`) survives a rotation
  until the process ends, although `credentials.go:9-10` speaks of every identity alias.
  An empty key file blocks sealing for good.
* **Start.** A changed `access_key` in the configuration is a new credential: the start
  fails while the old one exists, or serves the old key; validation looks at the mock
  switch in the environment only; changing the key source makes credentials unreadable.
* **Schema.** Some older SQLite shapes make a start fail; on PostgreSQL two replicas
  that start together may collide.
* **Project copy.** Paging skips a record that another client renames (`renamed`); bytes
  are not compared with the SHA-256. A file at or above the multipart limit is stored
  under the prefix and the id, while its record is given the location with the SHA-256,
  where nothing was stored (`orchestrator.go:98-103`, `multipart.go:25-30`,
  `copy_record.go:81-82`): `CopyFaithful` says where the bytes are, not that the location
  leads there. The single-record mode (`-I`) is not modelled.

## Not modelled

Generated API code (`apigen`, about 22,000 of the 62,867 implementation lines), HTTP
routing and decoding, ciphers and signatures, the providers' own I/O, command-line
output and progress, the pinning of discovery URLs (`jwks.go`), the record audit of
project storage (`AuditProjectRecords`), timestamps of records, collation, and
PostgreSQL's concurrency beyond the violation runs. A part with status `partly` in
`PROJECT.json` has a note that says what of it is left out.

## Plan

1. `ClaimsKept` of `MCTransfers`.
2. `ServesUpgraded` and `StartedAsConfigured` for any number of servers.
3. A property for the one hazard without any: a failure of LFS verification between the
   removal of the staged entry and the registration.
