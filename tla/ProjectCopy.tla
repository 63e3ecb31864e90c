---------------------------- MODULE ProjectCopy ----------------------------
(***************************************************************************)
(* copy-project (cmd/copyproject, cmd/projectcopy) and the paged listing   *)
(* it walks (internal/objects/records/listing.go).  The command finds or   *)
(* creates the destination scopes, walks the source project page by page,  *)
(* and takes every record it listed through a chain of calls to the        *)
(* destination: download, upload, register, set the locations, register    *)
(* again, read and update the index record, set the locations again.  A    *)
(* record that fails on the way is skipped.  Other clients change both     *)
(* catalogues meanwhile.                                                   *)
(*                                                                         *)
(* db is the destination's catalogue; source and destination may be the    *)
(* same server.  A call to a server is one step here: what happens inside  *)
(* one is the subject of RecordService and ContentStore, whose operators   *)
(* this module uses, and of Uploads for the transfer of the bytes.         *)
(***************************************************************************)
EXTENDS RecordService

CONSTANTS
    Src, Dst,    \* the projects (resources) copied from and to
    There, Bare, \* the location of a copied object, and the one without the scope's prefix
    Large,       \* the contents at or above the multipart limit
    Walks,       \* who may run the command, and the records in a page: 1000 in the code
    Other,       \* the session of another client
    Others,      \* what it registers while the command runs
    Scopes,      \* the destination scopes that may exist beforehand
    MinBatch,    \* ids the server reads at a time at least: 100
    MaxChanges   \* bound: changes by other clients

VARIABLES
    source,  \* the source's catalogue, when it is another server
    same,    \* source and destination are one server
    order,   \* the ids in the order the database sorts them
    scopes,  \* the destination's scopes among "org" and "project"
    stored,  \* stored[key]: the content of the destination's object of that key, a
             \* SHA-256 or an id under the scope's prefix
    copy,    \* the command
    changes  \* how many changes other clients have made

frozen == <<txn, lock, last, call>>

copyVars == <<db, source, same, order, scopes, stored, copy, changes, frozen>>

Source == IF same THEN db ELSE source

Items(seq) == {seq[n] : n \in 1..Len(seq)}

-----------------------------------------------------------------------------
(* The listing of a project. *)

Position(i) == CHOOSE n \in 1..Len(order) : order[n] = i

After(i, start) == start = NoId \/ Position(i) > Position(start)

Sorted(ids) == SelectSeq(order, LAMBDA i : i \in ids)

FirstOf(seq, n) == IF Len(seq) <= n THEN seq ELSE SubSeq(seq, 1, n)

InProject(v) == {i \in Ids : Src \in ResourcesOf(v, i)}

\* Records are read by id, an alias standing for its record; what is gone is left out.
GetBulkObjects(v, ids) == {Resolve(v, i) : i \in ids} \ {NoId}

OneProject(row) == row.sha # NoSHA /\ Cardinality(row.res) = 1

\* The project's records with the same content join the ones that were asked for.
ExpandSiblings(v, ids) ==
    ids \cup {j \in InProject(v) : \E i \in ids :
                /\ OneProject(v.rows[i]) /\ OneProject(v.rows[j])
                /\ v.rows[i].sha = v.rows[j].sha /\ v.rows[i].res = v.rows[j].res}

\* Readable records, those with the same content under the id of the oldest.
PrepareScopedObjects(v, s, ids) ==
    LET readable == {i \in ExpandSiblings(v, ids) : HasObjectMethod(s, "read", v.rows[i])}
        family(i) == {j \in readable : v.rows[j].sha = v.rows[i].sha}
    IN  {IF v.rows[i].sha = NoSHA THEN i ELSE Oldest(family(i)) : i \in readable}

\* Sessions that may read everything page over the rows as they are stored; for
\* the others the prepared records are listed and cut.
CanUseUnrestrictedScopePage(s) == s \in Unenforced

ListObjectIDsPageByScope(v, s, start, n) ==
    LET ids == IF CanUseUnrestrictedScopePage(s) THEN InProject(v)
               ELSE PrepareScopedObjects(v, s, InProject(v))
    IN  FirstOf(Sorted({i \in ids : After(i, start)}), n)

BatchSize == IF copy.limit > MinBatch THEN copy.limit ELSE MinBatch

\* Mutant: one batch of ids is prepared per page, however many records it yields.
OneBatch(page, ids) == TRUE

\* The page is full, or the last batch was short.
PageDone(page, ids) == Len(page) >= copy.limit \/ Len(ids) < BatchSize

-----------------------------------------------------------------------------
(* The command: scopes and listing. *)

NoRec == [id |-> NoId, sha |-> NoSHA]

Starting(s, limit) ==
    [pc |-> "resolve", session |-> s, limit |-> limit, start |-> NoId, raw |-> NoId, ids |-> <<>>,
     page |-> <<>>, records |-> <<>>, n |-> 0, held |-> NoSHA, current |-> {}, final |-> NoId, got |-> NoRow,
     kept |-> {}, renamed |-> FALSE, changed |-> {}, disturbed |-> FALSE]

Goes(pc) == copy' = [copy EXCEPT !.pc = pc]

KeepsServers == UNCHANGED <<db, source, stored>>

\* History: a session that may read everything meets two rows of the project with the
\* same content, or an id of the batch has become an alias since it was listed.
Renamed ==
    \/ CanUseUnrestrictedScopePage(copy.session)
       /\ \E i, j \in InProject(Source) :
            i # j /\ Source.rows[i].sha = Source.rows[j].sha /\ Source.rows[i].sha # NoSHA
    \/ \E i \in Items(copy.ids) : Source.alias[i] # NoId

\* resolveCopyScopes and ensureDestinationScopes: the missing destination scopes are
\* created, the organization's first.
EnsureDestinationScopes ==
    /\ copy.pc = "resolve"
    /\ IF scopes = {"org", "project"}
         THEN /\ UNCHANGED scopes
              /\ copy' = [copy EXCEPT !.pc = "list",
                            !.kept = {[id |-> i, sha |-> Source.rows[i].sha] :
                                        i \in {i \in InProject(Source) :
                                                HasObjectMethod(copy.session, "read", Source.rows[i])}}]
         ELSE /\ scopes' = scopes \cup {IF "org" \in scopes THEN "project" ELSE "org"}
              /\ UNCHANGED copy
    /\ KeepsServers

NextRecord(k) == [k EXCEPT !.pc = IF k.n < Len(k.records) THEN "download" ELSE "done", !.n = @ + 1,
                           !.held = NoSHA, !.current = {}, !.final = NoId, !.got = NoRow, !.disturbed = FALSE,
                           !.kept = IF k.n = 0 THEN @ ELSE {}, !.renamed = @ /\ k.n = 0]

\* listAllProjectRecords: a short page is the last one.
PageReceived(k, page) ==
    LET n == [k EXCEPT !.records = @ \o page, !.page = <<>>]
    IN  IF Len(page) < k.limit THEN NextRecord([n EXCEPT !.limit = 0, !.start = NoId, !.raw = NoId])
        ELSE [n EXCEPT !.pc = "list", !.start = page[Len(page)].id, !.raw = page[Len(page)].id]

\* One batch of ids.
ListBatch ==
    /\ copy.pc = "list"
    /\ \E ids \in {ListObjectIDsPageByScope(Source, copy.session, copy.raw, BatchSize)} :
         LET k == [copy EXCEPT !.renamed = @ \/ Renamed]
         IN  copy' = IF ids = <<>> THEN PageReceived(k, k.page)
                     ELSE [k EXCEPT !.pc = "prepare", !.ids = ids, !.raw = ids[Len(ids)]]
    /\ KeepsServers /\ UNCHANGED scopes

\* The prepared records of a batch that the page does not have yet.
Fresh(v) ==
    LET found == PrepareScopedObjects(v, copy.session, GetBulkObjects(v, Items(copy.ids)))
        fresh == {i \in found : After(i, copy.start) /\ \A r \in Items(copy.page) : r.id # i}
    IN  Seqs!FlattenSeq([n \in 1..Len(order) |->
          IF order[n] \in fresh THEN <<[id |-> order[n], sha |-> v.rows[order[n]].sha]>> ELSE <<>>])

\* Its records, as they are now.
PrepareBatch ==
    /\ copy.pc = "prepare"
    /\ \E page \in {FirstOf(copy.page \o Fresh(Source), copy.limit)} :
         LET k == [copy EXCEPT !.renamed = @ \/ Renamed, !.ids = <<>>]
         IN  copy' = IF PageDone(page, copy.ids) THEN PageReceived(k, page)
                     ELSE [k EXCEPT !.pc = "list", !.page = page]
    /\ KeepsServers /\ UNCHANGED scopes

-----------------------------------------------------------------------------
(* The command: one record. *)

Current == copy.records[copy.n]

\* Mutant: a record that fails is tried again.
RetryForEver ==
    /\ copy.pc \in {"download", "upload", "register", "locate", "again", "get", "put", "settle"}
    /\ copy' = [copy EXCEPT !.pc = "download"]
    /\ KeepsServers /\ UNCHANGED scopes

\* Gives the record up with a warning.
Skip ==
    /\ copy.pc \in {"download", "upload", "register", "locate", "again", "get", "put", "settle"}
    /\ copy' = NextRecord(copy)
    /\ KeepsServers /\ UNCHANGED scopes

\* The content the id names, as GetObject shows it to the session, or NoRow.
Shown(v, s, id) ==
    LET row == RowOf(v, id)
        ids == IF row = NoRow THEN {} ELSE IF row.sha = NoSHA THEN {Resolve(v, id)} ELSE Owners(v, row.sha)
    IN  IF ids # {} /\ HasObjectMethod(s, "read", CollapseCanonicalGroup(v.rows, ids))
          THEN CollapseCanonicalGroup(v.rows, ids) ELSE NoRow

\* Mutant: one temporary file serves all records.
DownloadKeepsFile ==
    /\ copy.pc = "download"
    /\ copy' = [copy EXCEPT !.pc = "upload", !.held = Oldest(SHAs)]
    /\ KeepsServers /\ UNCHANGED scopes

\* The bytes of what the id names now.
Download ==
    /\ copy.pc = "download"
    /\ LET row == Shown(Source, copy.session, Current.id)
       IN  /\ row # NoRow /\ row.meths # {}
           /\ copy' = [copy EXCEPT !.pc = "upload", !.held = row.sha]
    /\ KeepsServers /\ UNCHANGED scopes

\* The server stores a multipart upload under the id it is given.
Multipart(sha) == sha \in Large

\* RegisterFile: a small file is stored under the SHA-256 that was listed, a large one
\* under the id, with a location that lacks the prefix; the locations of the
\* destination's record are read, and a read that fails counts as none.
UploadObject ==
    /\ copy.pc = "upload"
    /\ Current.sha # NoSHA
    /\ stored' = [stored EXCEPT ![IF Multipart(copy.held) THEN Current.id ELSE Current.sha] = copy.held]
    /\ \E row \in {Shown(db, copy.session, Current.id), NoRow} :
         copy' = [copy EXCEPT !.pc = "register",
                              !.current = (IF row = NoRow THEN {} ELSE row.meths)
                                            \cup {IF Multipart(copy.held) THEN Bare ELSE There}]
    /\ UNCHANGED <<db, source, scopes>>

\* The candidate carries the id as an id: alias, which makes it the record's id.
Candidate(meths) ==
    [NoObject EXCEPT !.id = Current.id, !.sha = Current.sha, !.res = {Dst}, !.meths = meths]

Ask(op, id, obj) == [op |-> op, session |-> copy.session, id |-> id, obj |-> obj, targets |-> {}]

Allowed(plan) == plan # Refused

\* RegisterObjects, and the read of the record it answers with.
RegisterCandidate(meths, next) ==
    /\ Allowed(RegisterPlan(db, Ask("register", Current.id, Candidate(meths))))
    /\ RegisterOK(db, copy.session, Candidate(meths))
    /\ db' = Registered(db, Candidate(meths))
    /\ Shown(db', copy.session, Current.id) # NoRow
    /\ copy' = [copy EXCEPT !.pc = next, !.final = IF next = "locate" THEN Resolve(db', Current.id) ELSE NoId]
    /\ UNCHANGED <<source, stored, scopes>>

SetLocations(id, meths, next) ==
    /\ Allowed(UpdateMethodsPlan(db, Ask("methods", id, Candidate(meths))))
    /\ UpdateMethodsOK(db, copy.session, id)
    /\ db' = WithMethods(db, id, meths)
    /\ copy' = next
    /\ UNCHANGED <<source, stored, scopes>>

RegisterFile  == copy.pc = "register" /\ RegisterCandidate(copy.current, "locate")
PersistMethods == copy.pc = "locate" /\ SetLocations(copy.final, copy.current, [copy EXCEPT !.pc = "again"])
RegisterAgain == copy.pc = "again" /\ RegisterCandidate({There}, "get")

\* Upsert reads the index record: one that is not there is created, one that may not
\* be read is an error.
UpsertGet ==
    /\ copy.pc = "get"
    /\ LET row == Shown(db, copy.session, Current.id)
       IN  /\ row # NoRow \/ RowOf(db, Current.id) = NoRow
           /\ copy' = [copy EXCEPT !.pc = "put", !.got = row]
    /\ KeepsServers /\ UNCHANGED scopes

\* Mutant: the grants of the command replace those that were read.
OnlyItsGrants(row) ==
    [NoObject EXCEPT !.id = Current.id, !.sha = Current.sha, !.meths = row.meths \cup {There},
                     !.res = {Dst}]

\* What was read is written back, with the new location and, if there are none, grants.
UpsertedRecord(row) ==
    [NoObject EXCEPT !.id = Current.id, !.sha = Current.sha, !.meths = row.meths \cup {There},
                     !.res = IF row.res = {} THEN {Dst} ELSE row.res]

\* UpdateRecord on the record that was read, or a new record when there was none.
UpsertPut ==
    /\ copy.pc = "put"
    /\ IF copy.got = NoRow
         THEN RegisterCandidate({There}, "settle")
         ELSE /\ \E view \in {Shown(db, copy.session, Current.id)} \ {NoRow} :
                   /\ HasObjectMethod(copy.session, "update", view)
                   /\ view.sha \in {NoSHA, Current.sha}
                   /\ \E merged \in {MergeRecordUpdate(view, UpsertedRecord(copy.got), Current.id)} :
                        /\ ReplaceOK(db, copy.session, merged)
                        /\ db' = Replaced(db, merged)
              /\ Goes("settle")
              /\ UNCHANGED <<source, stored, scopes>>

\* The new location replaces all others, and the record is counted as copied.
ReplaceLocations ==
    /\ copy.pc = "settle"
    /\ SetLocations(Current.id, {There}, NextRecord(copy))

CopyStep ==
    /\ UNCHANGED <<same, order, changes, frozen>>
    /\ \/ EnsureDestinationScopes \/ ListBatch \/ PrepareBatch \/ Skip
       \/ Download \/ UploadObject \/ RegisterFile \/ PersistMethods \/ RegisterAgain
       \/ UpsertGet \/ UpsertPut \/ ReplaceLocations

-----------------------------------------------------------------------------
(* Other clients. *)

\* A record is registered or deleted, or leaves one of the projects.
Changed(v) ==
    {Registered(v, obj) : obj \in {obj \in Others : RegisterOK(v, Other, obj)}}
      \cup {WithoutRows(v, {i}) : i \in {i \in Ids : v.rows[i] # NoRow}}
      \cup {WithoutGrants(v, Other, i, {p}) : i \in {i \in Ids : v.rows[i] # NoRow}, p \in {Src, Dst}}

Families(old, new, kept) ==
    {k \in kept : \A i \in Ids : (k.sha # NoSHA /\ i \in Owners(old, k.sha) \cup Owners(new, k.sha)) \/ i = k.id
                                   => old.rows[i] = new.rows[i]}

\* History: the change concerns the record that is being copied, or its content.
Disturbs(old, new) ==
    /\ copy.n \in 1..Len(copy.records)
    /\ \E i \in Ids :
         /\ old.rows[i] # new.rows[i] \/ old.alias[i] # new.alias[i]
         /\ i = Current.id \/ i \in Owners(old, Current.sha) \cup Owners(new, Current.sha)

\* History: records that were listed before the change.
Outdated(old, new) ==
    {i \in Ids : old.rows[i] # new.rows[i] /\ \E r \in Items(copy.records \o copy.page) : r.id = i}

OtherClient ==
    /\ changes < MaxChanges
    /\ copy.pc \notin {"done", "failed"}
    /\ \/ \E v \in Changed(Source) :
            /\ IF same THEN db' = v /\ UNCHANGED source ELSE source' = v /\ UNCHANGED db
            /\ copy' = [copy EXCEPT !.kept = Families(Source, v, @),
                                    !.disturbed = @ \/ (same /\ Disturbs(db, v)),
                                    !.changed = @ \cup Outdated(Source, v)]
       \/ /\ ~same
          /\ \E v \in Changed(db) :
               db' = v /\ copy' = [copy EXCEPT !.disturbed = @ \/ Disturbs(db, v)]
          /\ UNCHANGED source
    /\ changes' = changes + 1
    /\ UNCHANGED <<same, order, scopes, stored, frozen>>

\* The listing or a scope cannot be had: the command ends.
GiveUp ==
    /\ copy.pc \in {"resolve", "list", "prepare"}
    /\ copy' = [Starting(copy.session, 0) EXCEPT !.pc = "failed"]
    /\ KeepsServers
    /\ UNCHANGED <<same, order, scopes, changes, frozen>>

CopyInit ==
    /\ source \in Catalogues /\ same \in BOOLEAN
    /\ db = IF same THEN source ELSE [rows |-> [i \in Ids |-> NoRow], alias |-> [i \in Ids |-> NoId]]
    /\ order \in {o \in [1..Cardinality(Ids) -> Ids] : Items(o) = Ids}
    /\ scopes \in Scopes
    /\ stored = [key \in SHAs \cup Ids |-> NoSHA]
    /\ \E w \in Walks : copy = Starting(w.session, w.limit)
    /\ changes = 0
    /\ txn = Nil /\ lock = NoId /\ last = Nil /\ call = Nil

CopySpec == CopyInit /\ [][CopyStep \/ OtherClient \/ GiveUp]_copyVars

\* The command runs on; that a call fails is not forced unless nothing else can happen.
FairCopy == CopySpec /\ WF_<<copy, scopes>>(CopyStep)

-----------------------------------------------------------------------------
(* Properties. *)

Walked == copy.pc \notin {"resolve", "list", "prepare", "failed"}

\* listAllProjectRecords walks the whole project: a record that was there and readable
\* when the walk began, and whose content nobody touched, is listed, itself or as
\* the oldest of the records with its content, and no id is listed twice.  This takes
\* batches whose ids are the ids of the records they yield: the next page starts
\* after the id of the last record, so it skips what lies between when an id has
\* become an alias since it was listed, or, for a session that may read everything
\* and so pages over the stored rows, when it is a duplicate of an older record.
WalkComplete ==
    Walked /\ copy.n = 1 =>
      /\ \A m, n \in 1..Len(copy.records) : copy.records[m].id = copy.records[n].id => m = n
      /\ \/ copy.renamed
         \/ \A k \in copy.kept : \E r \in Items(copy.records) :
              r.id = k.id \/ (r.sha = k.sha /\ k.sha # NoSHA)

\* A record that is counted as copied is at the destination: its id names a record of
\* the destination project with the listed SHA-256 and the new location alone, unless
\* another client changed the destination's records of that id or content while it was
\* copied; and its bytes are stored there, unless the source's record was changed since
\* it was listed (the bytes are not compared with the listed SHA-256).  The bytes of a
\* small file are at the new location.  Those of a large one are not: they are stored
\* under the id, and the location names the SHA-256.
CopiedIsThere ==
    [][ReplaceLocations =>
         LET row == RowOf(db', Current.id)
             key == IF Current.sha \in Large THEN Current.id ELSE Current.sha
         IN  /\ \/ copy.disturbed
                \/ row # NoRow /\ Dst \in row.res /\ row.meths = {There} /\ row.sha = Current.sha
             /\ stored[key] = Current.sha \/ Current.id \in copy.changed]_copyVars

\* The command takes nobody's access away: no step of it removes a grant at the
\* destination, unless another client changed the records of that id or content while
\* it was copied (Upsert writes the grants back as it read them).
CopyKeepsGrants ==
    [][changes' = changes =>
         \A i \in Ids : ResourcesOf(db, i) \subseteq ResourcesOf(db', i) \/ copy.disturbed]_copyVars

\* The command ends: a page always moves the walk on, and a record that cannot be
\* copied does not hold the others up.
CopyEnds == <>(copy.pc \in {"done", "failed"})

\* A copy that succeeded has its bytes, and took nobody's grants.
CopyFaithful == CopiedIsThere /\ CopyKeepsGrants
=============================================================================
