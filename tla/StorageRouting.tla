--------------------------- MODULE StorageRouting ---------------------------
(***************************************************************************)
(* Where the bytes of an object go and where its downloads look for them.  *)
(* The server derives the place of an upload from the bucket scopes of an  *)
(* organization and its projects; the client, or the staged metadata of    *)
(* Git LFS, writes a URL into the record; a download repairs that URL and  *)
(* has the provider of the bucket sign it.  Nothing stores the place that  *)
(* was signed for the upload: both sides compute it, each in its own way.  *)
(*                                                                         *)
(* One content is followed: its SHA-256 is "sha", the id its uploader      *)
(* chose "did".  Keys and prefixes are sequences of path segments.         *)
(***************************************************************************)
EXTENDS Sequences, SequencesExt

CONSTANTS
    Tables,      \* credential and bucket_scope tables a server may have
    Staging,     \* metadata Git LFS clients stage
    MaxChanges   \* bound: changes of scopes, other registrations, restagings

VARIABLES
    creds,    \* s3_credential: the kind of storage behind each bucket, or "none"
    scopes,   \* bucket_scope of the organization and of its projects
    rows,     \* resources and buckets of the other records of the catalogue
    record,   \* the record of the content: projects and access methods
    staged,   \* lfs_pending_metadata of the content
    bytes,    \* the places that hold the content
    flow,     \* the upload in progress
    how,      \* the upload that put the record's location, "none" without one
    answer,   \* the place the download URL just given names
    changes   \* changes so far, and whether one came since the upload began

vars == <<creds, scopes, rows, record, staged, bytes, flow, how, answer, changes>>

Org == "org"
Projects == <<"q1", "q2">>

NoScope  == [bucket |-> "", prefix |-> <<>>]
NoURL    == [scheme |-> "", bucket |-> "", key |-> <<>>]
NoRecord == [res |-> {}, methods |-> <<>>]
NoPlace  == [at |-> "", bucket |-> "", key |-> <<>>]
NotAsked == [NoPlace EXCEPT !.at = "not asked"]
Idle     == [pc |-> "idle", project |-> "", large |-> FALSE, hint |-> "", url |-> NoURL]

\* address.BucketToURL
BucketToURL(bucket, key) == [scheme |-> "s3", bucket |-> bucket, key |-> key]

-----------------------------------------------------------------------------
(* Keys under bucket scopes. *)

\* The key without the prefix; a prefix only counts in whole segments.
trimLeadingStoragePrefix(key, prefix) ==
    IF IsPrefix(prefix, key) THEN SubSeq(key, Len(prefix) + 1, Len(key)) ELSE key

\* Of nested neighbours the longer one stays.
AddPrefix(prefixes, scope) ==
    IF scope.prefix = <<>> THEN prefixes
    ELSE IF prefixes = <<>> THEN <<scope.prefix>>
    ELSE IF IsPrefix(scope.prefix, Last(prefixes)) THEN prefixes
    ELSE IF IsPrefix(Last(prefixes), scope.prefix) THEN Append(Front(prefixes), scope.prefix)
    ELSE Append(prefixes, scope.prefix)

normalizedScopePrefixes(list) == FoldLeft(AddPrefix, <<>>, list)

normalizeScopedStorageKey(key, list) ==
    LET prefixes == normalizedScopePrefixes(list)
    IN  FlattenSeq(prefixes) \o FoldLeft(trimLeadingStoragePrefix, key, prefixes)

\* LookupBucketScope of each name in turn, the ones that are found.
Found(names) ==
    LET have == SelectSeq(names, LAMBDA q : scopes[q] # NoScope)
    IN  [i \in DOMAIN have |-> scopes[have[i]]]

\* The organization's scope, then the projects' in the order of their names.
bucketScopesForObject(rec) ==
    IF rec.res = {} THEN <<>>
    ELSE Found(<<Org>> \o SelectSeq(Projects, LAMBDA q : q \in rec.res))

\* A URL without a scheme passes too.
Supported(url) == url.scheme \in {"", "s3", "gs", "az", "file"}

firstSupportedAccessURL(rec) ==
    LET urls == SelectSeq(rec.methods, LAMBDA m : m.url # NoURL /\ Supported(m.url))
    IN  IF urls = <<>> THEN NoURL ELSE Head(urls).url

canonicalObjectKey(explicit, existing, preferChecksum) ==
    IF explicit # <<>> THEN explicit
    ELSE IF preferChecksum \/ existing = <<>> THEN <<"sha">>
    ELSE existing

\* The last bucket of the scopes and their composed prefixes; without scopes the
\* record's own URL.
ResolveCanonicalStorageTarget(rec, accessURL, key, preferChecksum) ==
    LET list     == bucketScopesForObject(rec)
        existing == IF accessURL # NoURL THEN accessURL ELSE firstSupportedAccessURL(rec)
        s3Key    == IF existing.scheme = "s3" THEN existing.key ELSE <<>>
        kept     == /\ existing.scheme = "s3" /\ existing.bucket = Last(list).bucket
                    /\ normalizedScopePrefixes(list) = <<>> /\ s3Key # <<>>
        wanted   == IF kept THEN s3Key ELSE canonicalObjectKey(key, s3Key, preferChecksum)
    IN  IF list = <<>> THEN existing
        ELSE BucketToURL(Last(list).bucket, normalizeScopedStorageKey(wanted, list))

\* The target of an upload that names its organization and project.
ResolveScopedUploadTarget(project, key) ==
    LET list == Found(<<Org, project>>)
    IN  IF list = <<>> THEN NoURL
        ELSE BucketToURL(Last(list).bucket, normalizeScopedStorageKey(key, list))

-----------------------------------------------------------------------------
(* Downloads repair two kinds of URL: those whose "bucket" is really a prefix *)
(* of a scope, and those that are nothing but a SHA-256 in a bucket.          *)

\* Every mapping, neighbours only once; more than one is a conflict.
LegacyTargets(rec, url) ==
    LET list == SelectSeq(bucketScopesForObject(rec), LAMBDA s : s.prefix = <<url.bucket>>)
        Add(targets, s) ==
            LET target == BucketToURL(s.bucket, s.prefix \o url.key)
            IN  IF targets # <<>> /\ Last(targets) = target THEN targets
                ELSE Append(targets, target)
    IN  FoldLeft(Add, <<>>, list)

Conflict == [scheme |-> "conflict", bucket |-> "", key |-> <<>>]

resolveLegacyS3DownloadURL(rec, url) ==
    LET targets == LegacyTargets(rec, url)
    IN  IF url.scheme # "s3" \/ targets = <<>> \/ creds[url.bucket] # "none" THEN url
        ELSE IF Len(targets) > 1 THEN Conflict
        ELSE targets[1]

isUnscopedCanonicalSHA256(url) == url.scheme = "s3" /\ url.key = <<"sha">>

\* Mutant: only the URLs of the old kind are repaired.
LegacyOnly(rec, url) == resolveLegacyS3DownloadURL(rec, url)

resolveObjectDownloadURL(rec, url) ==
    LET legacy == resolveLegacyS3DownloadURL(rec, url)
    IN  IF legacy # url \/ ~isUnscopedCanonicalSHA256(url) THEN legacy
        ELSE ResolveCanonicalStorageTarget(rec, url, <<>>, FALSE)

-----------------------------------------------------------------------------
(* Signing.  A signed URL is its form, its path and the place it gives access *)
(* to; the client sees the form and the path only.                            *)

Signed(form, path, place) == [form |-> form, path |-> path, place |-> place]
Unsigned == Signed("none", <<>>, NoPlace)
Place(at, url) == [at |-> at, bucket |-> url.bucket, key |-> url.key]

\* A custom endpoint is addressed path-style, AWS by virtual host.
S3SignURL(kind, url) ==
    Signed("http", IF kind = "s3path" THEN <<url.bucket>> \o url.key ELSE url.key,
           Place("s3", url))

\* An endpoint is spoken to in the JSON API, which names bucket and key.
GcsSignURL(kind, url) ==
    Signed(IF kind = "gcsjson" THEN "json" ELSE "http", <<url.bucket>> \o url.key,
           Place("gcs", url))

AzureSignURL(kind, url) ==
    Signed("blob", (IF kind = "azurite" THEN <<"account">> ELSE <<>>) \o <<url.bucket>> \o url.key,
           Place("azure", url))

\* The path under the root of the server, whatever the bucket.
FileSignURL(url) ==
    Signed("path", url.key, [at |-> "disk", bucket |-> "", key |-> url.key])

\* resolveAccess: the provider of the bucket's credential, else of the scheme;
\* a provider other than the disk needs the credential to sign.
SignURL(url) ==
    LET kind == IF url.bucket = "" THEN "none" ELSE creds[url.bucket]
    IN  IF kind \in {"s3host", "s3path"} THEN S3SignURL(kind, url)
        ELSE IF kind \in {"gcs", "gcsjson"} THEN GcsSignURL(kind, url)
        ELSE IF kind \in {"azure", "azurite"} THEN AzureSignURL(kind, url)
        ELSE IF kind = "file" \/ url.scheme = "file" THEN FileSignURL(url)
        ELSE Unsigned

-----------------------------------------------------------------------------
(* The client: which bucket it believes in, and the URL it registers. *)

Buckets == DOMAIN creds
Owners(q) == {b \in Buckets : scopes[q].bucket = b /\ creds[b] # "none"}

\* ListBucketVisibilityRows: the buckets the records of a resource are stored in.
BucketsOfRecords(q) == {b \in Buckets : <<q, b>> \in rows}

\* The resources GET /data/buckets shows with a bucket: its explicit scopes and,
\* unless another bucket owns the resource, those of records stored in it.
ListVisibleBuckets(bucket) ==
    {q \in DOMAIN scopes :
        /\ creds[bucket] # "none"
        /\ \/ bucket \in Owners(q)
           \/ bucket \in BucketsOfRecords(q) /\ Owners(q) = {}}

Listing(q) == {b \in Buckets : q \in ListVisibleBuckets(b)}

\* The one bucket listed for the project, or else for the organization.
resolveUploadBucketForScope(project) ==
    LET exact == Listing(project)
        from  == IF exact # {} THEN exact ELSE Listing(Org)
    IN  IF \E b \in Buckets : from = {b} THEN CHOOSE b \in Buckets : from = {b} ELSE ""

\* The client reads bucket and key back from the URL it was given.
CanonicalObjectURL(signed, hint) ==
    CASE signed.form \in {"json", "blob"} ->
            LET at == IF signed.form = "blob" /\ signed.path[1] = "account" THEN 2 ELSE 1
            IN  BucketToURL(signed.path[at], SubSeq(signed.path, at + 1, Len(signed.path)))
      [] signed.form = "http" ->
            BucketToURL(hint, trimLeadingStoragePrefix(signed.path, <<hint>>))
      [] signed.form = "path" -> BucketToURL(hint, <<"did">>)

-----------------------------------------------------------------------------
Init ==
    /\ \E t \in Tables : creds = t[1] /\ scopes = t[2] /\ rows = t[3]
    /\ record = NoRecord /\ staged = NoRecord /\ bytes = {}
    /\ flow = Idle /\ how = "none" /\ answer = NotAsked
    /\ changes = [count |-> 0, late |-> FALSE]

Fresh == changes' = [changes EXCEPT !.late = FALSE]

Method(url) == [id |-> "id", type |-> url.scheme, url |-> url]

\* cmd/upload: no record has the id yet; the bucket is looked up first.
UploadFile(project, large) ==
    /\ flow = Idle /\ project \notin record.res /\ resolveUploadBucketForScope(project) # ""
    /\ flow' = [Idle EXCEPT !.pc = "target", !.project = project, !.large = large,
                            !.hint = resolveUploadBucketForScope(project)]
    /\ how' = "none" /\ Fresh
    /\ UNCHANGED <<creds, scopes, rows, record, staged, bytes>>

Refused == flow' = Idle /\ UNCHANGED <<creds, scopes, rows, record, staged, bytes, how, changes>>

\* GET /data/upload/{did}?key=sha: the signed URL, and the client's PUT to it.
UploadSmall ==
    /\ flow.pc = "target" /\ ~flow.large
    /\ LET signed == SignURL(ResolveScopedUploadTarget(flow.project, <<"sha">>))
       IN  IF signed = Unsigned THEN Refused
           ELSE /\ bytes' = bytes \cup {signed.place}
                /\ flow' = [flow EXCEPT !.pc = "register", !.url = CanonicalObjectURL(signed, flow.hint)]
                /\ UNCHANGED <<creds, scopes, rows, record, staged, how, changes>>

\* The name a multipart upload asks for: the guid comes before the key.
MultipartName == <<"did">>

\* POST /data/multipart/init with guid and key, the parts and the completion; the
\* URL is put together from the client's bucket and key.
UploadLarge ==
    /\ flow.pc = "target" /\ flow.large
    /\ LET signed == SignURL(ResolveScopedUploadTarget(flow.project, MultipartName))
       IN  IF signed = Unsigned THEN Refused
           ELSE /\ bytes' = bytes \cup {signed.place}
                /\ flow' = [flow EXCEPT !.pc = "register", !.url = BucketToURL(flow.hint, <<"sha">>)]
                /\ UNCHANGED <<creds, scopes, rows, record, staged, how, changes>>

\* RegisterObjects merges with the record of the content; the finalized access
\* methods then replace what it had.
RegisterFile ==
    /\ flow.pc = "register"
    /\ record' = [res |-> record.res \cup {flow.project}, methods |-> <<Method(flow.url)>>]
    /\ how' = IF flow.large THEN "large" ELSE "small"
    /\ flow' = Idle
    /\ UNCHANGED <<creds, scopes, rows, staged, bytes, changes>>

-----------------------------------------------------------------------------
(* Git LFS. *)

\* PrepareUpload asks for an upload only of content that has no record.
LfsStage(candidate) ==
    /\ flow = Idle /\ staged = NoRecord
    /\ staged' = candidate
    /\ IF record = NoRecord THEN how' = "none" /\ Fresh ELSE UNCHANGED <<how, changes>>
    /\ UNCHANGED <<creds, scopes, rows, record, bytes, flow>>

firstConfiguredBucket == CHOOSE b \in Buckets : creds[b] # "none"

targetForObject(rec) == ResolveCanonicalStorageTarget(rec, NoURL, <<>>, TRUE)

\* The object, else the staged metadata, else the first bucket under the oid.
ResolveUploadTarget ==
    IF record # NoRecord THEN targetForObject(record)
    ELSE IF staged # NoRecord THEN targetForObject(staged)
    ELSE BucketToURL(firstConfiguredBucket, <<"sha">>)

\* The server uploads the body it receives, in parts.
LfsUploadProxy ==
    /\ flow = Idle
    /\ \E b \in Buckets : creds[b] # "none"
    /\ LET url == ResolveUploadTarget
           to  == SignURL(url)
       IN  /\ url.scheme = "s3" /\ url.key # <<>> /\ to # Unsigned
           /\ bytes' = bytes \cup {to.place}
    /\ how' = IF record = NoRecord /\ staged # NoRecord THEN "proxied" ELSE how
    /\ UNCHANGED <<creds, scopes, rows, record, staged, flow, changes>>

\* Content that has a record already is verified without the staged metadata.
LfsVerify ==
    /\ flow = Idle /\ record = NoRecord /\ staged # NoRecord
    /\ record' = staged /\ staged' = NoRecord
    /\ how' = IF how = "proxied" THEN "lfs" ELSE "none"
    /\ UNCHANGED <<creds, scopes, rows, bytes, flow, changes>>

-----------------------------------------------------------------------------
(* Downloads, and what happens in the meantime. *)

\* A single URL of the record's type also answers to the type.
accessURLForID(accessID) ==
    LET named == SelectSeq(record.methods, LAMBDA m : m.url # NoURL /\ m.id = accessID)
        typed == SelectSeq(record.methods, LAMBDA m : m.url # NoURL /\ m.type = accessID)
    IN  IF named # <<>> THEN Head(named).url
        ELSE IF Len(typed) = 1 THEN Head(typed).url
        ELSE NoURL

\* Git LFS takes the first URL, supported or not.
PrepareDownload ==
    LET urls == SelectSeq(record.methods, LAMBDA m : m.url # NoURL)
    IN  IF urls = <<>> THEN NoURL ELSE Head(urls).url

\* GET /data/download/{id}, the DRS access URL, and the LFS batch.
Download(route) ==
    /\ record # NoRecord
    /\ LET url == CASE route = "internal" -> firstSupportedAccessURL(record)
                    [] route = "drs" -> accessURLForID("s3")
                    [] route = "lfs" -> PrepareDownload
       IN  /\ url # NoURL
           /\ answer' = SignURL(resolveObjectDownloadURL(record, url)).place
    /\ UNCHANGED <<creds, scopes, rows, record, staged, bytes, flow, how, changes>>

Changed == /\ changes.count < MaxChanges
           /\ changes' = [count |-> changes.count + 1, late |-> TRUE]

\* An administrator gives a project the scope of another table.
CreateBucketScope(q, scope) ==
    /\ Changed
    /\ scopes' = [scopes EXCEPT ![q] = scope]
    /\ UNCHANGED <<creds, rows, record, staged, bytes, flow, how>>

\* Another client registers the content for its project, without a location.
JoinProject(q) ==
    /\ Changed
    /\ record # NoRecord /\ q \notin record.res
    /\ record' = [record EXCEPT !.res = @ \cup {q}]
    /\ UNCHANGED <<creds, scopes, rows, staged, bytes, flow, how>>

Names == {Org, "q1", "q2"}
Change ==
    \/ \E q \in {"q1", "q2"}, large \in BOOLEAN : UploadFile(q, large)
    \/ UploadSmall \/ UploadLarge \/ RegisterFile
    \/ \E c \in Staging : LfsStage(c)
    \/ LfsUploadProxy \/ LfsVerify
    \/ \E q \in Names, t \in Tables : CreateBucketScope(q, t[2][q])
    \/ \E q \in {"q1", "q2"} : JoinProject(q)

Next == \/ \E route \in {"internal", "drs", "lfs"} : Download(route)
        \/ Change /\ answer' = NotAsked

Spec == Init /\ [][Next]_vars

-----------------------------------------------------------------------------
\* What the two sides agree on: one project, a bucket that is not on disk, the
\* bucket the client found in the listing, no key that begins with the name of a
\* bucket addressed by virtual host, no legacy URL under composed prefixes, no
\* staged URL without a scheme: that one is never repaired nor signed.
Agreed(rec) ==
    \E q \in rec.res :
        LET target == ResolveScopedUploadTarget(q, <<"sha">>)
        IN  /\ rec.res = {q}
            /\ how \in {"small", "large"} =>
                 /\ creds[target.bucket] # "file"
                 /\ resolveUploadBucketForScope(q) = target.bucket
                 /\ creds[target.bucket] = "s3host" => Head(target.key) # target.bucket
            /\ how = "lfs" => PrepareDownload.scheme # ""
            /\ (how = "lfs" /\ LegacyTargets(rec, PrepareDownload) # <<>>)
                 => Len(bucketScopesForObject(rec)) = 1

Misses == answer \notin {NotAsked} \cup bytes /\ ~changes.late /\ Agreed(record)

\* A download of content that was uploaded and registered is given a URL of a
\* place that holds it, whichever route asks and whatever provider, prefix and
\* scope the project has, as long as no scope changed since the upload began and
\* no other project shares the content: the places that the upload handlers, the
\* client's CanonicalObjectURL and resolveObjectDownloadURL compute are the same.
DownloadFindsUpload == how \in {"small", "lfs"} => ~Misses
=============================================================================
