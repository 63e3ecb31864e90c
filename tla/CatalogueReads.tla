--------------------------- MODULE CatalogueReads ---------------------------
(***************************************************************************)
(* What the routes that read the catalogue answer.  The same content can   *)
(* be asked for by id, alias or checksum, in bulk, and in pages by scope,  *)
(* URL or checksum; every route filters by the session's privileges and    *)
(* merges the rows of one content (older servers left several), each in    *)
(* its own order and with its own queries.  The list routes first list ids *)
(* and then hydrate them; deletions, registrations and aliases of others   *)
(* come in between.                                                        *)
(*                                                                         *)
(* One organization "o" with the projects "op" and "oq"; "programs" stands *)
(* for the resources whose readers see everything.  RowIds are numbered in    *)
(* their order; the ids after MaxId are only ever aliases.                 *)
(***************************************************************************)
EXTENDS AccessPolicy, Integers, FiniteSetsExt, SequencesExt

CONSTANTS
    MaxId,       \* ids of records are 1..MaxId
    Catalogues,  \* rows and aliases a server may hold
    Requests,    \* requests of clients
    MinBatch,    \* least number of ids of a batch (100)
    MaxChanges   \* bound: changes by others

VARIABLES
    catalogue,   \* drs_object with its child tables, and drs_object_alias
    request,     \* the request being served, its position and its results
    late,        \* when changes came: "no", after ids were "listed", or "hydrated"
    changes      \* changes so far

vars == <<catalogue, request, late, changes>>

RowIds == 1..MaxId
Projects == {"op", "oq"}
Hashes == {"x", "y"}
Absent == [sha |-> "", size |-> 0, name |-> "", names |-> {}, note |-> "", sums |-> {},
          urls |-> {}, res |-> {}, policy |-> "", born |-> 0, stamp |-> 0]
Live == {i \in RowIds : catalogue.rows[i] # Absent}
row(i) == catalogue.rows[i]

-----------------------------------------------------------------------------
(* The queries of the store. *)

\* An organization's scope takes in its projects, a project's only itself.
ScopeResources(scope) == IF scope = "o" THEN {"o"} \cup Projects ELSE {scope}

InScope(i, scope) == scope = "all" \/ row(i).res \cap ScopeResources(scope) # {}

\* Grants that meet the resources; rows without grants only if asked for.
Authorized(i, resources, includeUnscoped) ==
    row(i).res \cap resources # {} \/ (includeUnscoped /\ row(i).res = {})

Window(seq, offset, limit) == SubSeq(seq, offset + 1, Min({offset + limit, Len(seq)}))

Page(ids, start, limit, offset) ==
    Window(SetToSortSeq({i \in ids : i > start}, <), offset, limit)

ListObjectIDsByScope(scope) == {i \in Live : InScope(i, scope)}

StorePageByScope(scope, start, limit, offset) ==
    Page(ListObjectIDsByScope(scope), start, limit, offset)

ListObjectIDsByResources(resources, includeUnscoped) ==
    {i \in Live : Authorized(i, resources, includeUnscoped)}

\* Without a scope the unscoped rows are not among them.
ListObjectIDsByScopeAndResources(scope, resources, restrict) ==
    {i \in ListObjectIDsByScope(scope) : restrict => Authorized(i, resources, FALSE)}

\* One of the checksums, of any type.
ChecksumMatches(i, sums, resources, includeUnscoped, restrict) ==
    /\ row(i).sums \cap sums # {}
    /\ restrict => Authorized(i, resources, includeUnscoped)

ListObjectIDsByChecksumsAndResources(sums, resources, includeUnscoped, restrict) ==
    {i \in Live : ChecksumMatches(i, sums, resources, includeUnscoped, restrict)}

URLMatches(i, url, scope, resources, includeUnscoped, restrict) ==
    /\ url \in row(i).urls
    /\ InScope(i, scope)
    /\ restrict => Authorized(i, resources, includeUnscoped)

StorePageByURL(url, scope, start, limit, offset, resources, includeUnscoped, restrict) ==
    Page({i \in Live : URLMatches(i, url, scope, resources, includeUnscoped, restrict)},
         start, limit, offset)

\* The project's own grant, not its organization's.
ProjectHolds(i, project, sha) == project \in row(i).res /\ row(i).sha = sha /\ sha # ""

ListScopedObjectIDsByChecksums(project, shas) ==
    {i \in Live : \E sha \in shas : ProjectHolds(i, project, sha)}

ResolveObjectAlias(ident) == IF ident \in DOMAIN catalogue.alias THEN catalogue.alias[ident] ELSE 0

-----------------------------------------------------------------------------
(* Hydration. *)

attachBulkAccessMethods(i) == row(i).urls
attachBulkChecksums(i) == row(i).sums
attachControlledAccess(i) == row(i).res
attachNameAliases(i) == row(i).names \ {row(i).name}

\* The policy row, or the absence of grants when there is none.
attachPublicRead(i) ==
    IF row(i).policy = "unknown" THEN row(i).res = {} ELSE row(i).policy = "public"

Hydrated(i) ==
    [id |-> i, sha |-> row(i).sha, size |-> row(i).size, name |-> row(i).name,
     note |-> row(i).note, born |-> row(i).born, stamp |-> row(i).stamp,
     urls |-> attachBulkAccessMethods(i), sums |-> attachBulkChecksums(i),
     res |-> attachControlledAccess(i), names |-> attachNameAliases(i),
     public |-> attachPublicRead(i), known |-> row(i).policy # "unknown"]

FetchByIDs(ids) == {Hydrated(i) : i \in ids \cap Live}
FetchByChecksum(sum) == {Hydrated(i) : i \in {i \in Live : sum \in row(i).sums}}

\* RowIds without a row are looked up as aliases; unknown ones are skipped.
StoreBulkObjects(ids) ==
    FetchByIDs({IF i \in Live THEN i ELSE ResolveObjectAlias(i) : i \in ids})

-----------------------------------------------------------------------------
(* What the session may see. *)

Enforced(s) == s \notin Unenforced

\* The privileges with the method, or the plain list of a session without any.
authorizedResources(s, method) ==
    IF \A r \in Resources : Privileges[s][r] = {} THEN Authz[s]
    ELSE {r \in Resources : method \in Privileges[s][r]}

objectMethodResourceFilter(s, method) ==
    LET filter(resources, unscoped, restrict) ==
            [resources |-> resources, unscoped |-> unscoped, restrict |-> restrict]
    IN  IF method = "" \/ ~Enforced(s) THEN filter({}, TRUE, FALSE)
        ELSE IF s \in Anonymous THEN filter({}, FALSE, TRUE)
        ELSE IF HasMethodAccess(s, method, {"programs"}) THEN filter({}, method = "read", FALSE)
        ELSE filter(authorizedResources(s, method), method = "read", TRUE)

canUseUnrestrictedScopePage(s, method) ==
    objectMethodResourceFilter(s, method) = [resources |-> {}, unscoped |-> TRUE, restrict |-> FALSE]

\* Public content is readable; content known to be private and without grants is not.
hasObjectMethod(s, method, rec) ==
    \/ method = ""
    \/ method = "read" /\ rec.public
    \/ /\ ~(method = "read" /\ rec.known /\ rec.res = {})
       /\ HasObjectMethodAccess(s, method, rec.res)

requireAllObjectMethod(s, method, rec) ==
    IF rec.res = {} THEN HasObjectMethodAccess(s, method, {}) ELSE HasMethodAccess(s, method, rec.res)

requireScopeMethod(s, scope, method) == HasObjectMethodAccess(s, method, {scope})

filterObjectsByMethod(s, recs, method) == {r \in recs : hasObjectMethod(s, method, r)}

-----------------------------------------------------------------------------
(* The rows of one content become one record. *)

canonicalObjectOlder(a, b) == a.born < b.born \/ (a.born = b.born /\ a.id < b.id)
canonicalObjectNewer(a, b) == a.stamp > b.stamp \/ (a.stamp = b.stamp /\ a.id > b.id)

Latest(group) == CHOOSE r \in group : \A o \in group \ {r} : canonicalObjectNewer(r, o)

pickLatestNonZeroSize(group) ==
    LET sized == {r \in group : r.size > 0} IN IF sized = {} THEN 0 ELSE Latest(sized).size

pickLatestStringPtr(group) ==
    LET noted == {r \in group : r.note # ""} IN IF noted = {} THEN "" ELSE Latest(noted).note

mergeChecksums(group) == UNION {r.sums : r \in group}
mergeAccessMethods(group) == UNION {r.urls : r \in group}
mergeNameAliases(primary, group) == UNION {{r.name} \cup r.names : r \in group} \ {"", primary}

\* Mutant: the grants of the oldest row stand for all.
FirstRowsAccess(group) ==
    LET first == CHOOSE r \in group : \A o \in group \ {r} : canonicalObjectOlder(r, o)
    IN  [res |-> first.res, public |-> first.public]

\* Public if one is, or was never said to be private and has no grants.
mergeControlledAccess(group) ==
    [res |-> UNION {r.res : r \in group},
     public |-> \E r \in group : r.public \/ (r.res = {} /\ ~r.known)]

\* The oldest row gives the id, the latest the name.
collapseCanonicalGroup(group) ==
    LET canonical == CHOOSE r \in group : \A o \in group \ {r} : canonicalObjectOlder(r, o)
        latest    == Latest(group)
        access    == mergeControlledAccess(group)
    IN  [canonical EXCEPT
           !.name = latest.name, !.stamp = latest.stamp,
           !.size = pickLatestNonZeroSize(group), !.note = pickLatestStringPtr(group),
           !.sums = mergeChecksums(group), !.urls = mergeAccessMethods(group),
           !.names = mergeNameAliases(latest.name, group),
           !.res = access.res, !.public = access.public,
           !.known = \E r \in group : r.known]

objectsWithSHA256(recs, sha) == {r \in recs : r.sha = sha}

canonicalizeContentObjects(recs) ==
    {collapseCanonicalGroup(objectsWithSHA256(recs, sha)) : sha \in {r.sha : r \in recs} \ {""}}
      \cup objectsWithSHA256(recs, "")

\* The content within the project asked for, else within the record's only one.
canonicalProjectChecksumKey(rec, forced) ==
    LET projects == IF forced # "" THEN {forced} ELSE rec.res \cap Projects
    IN  IF rec.sha = "" \/ Cardinality(projects) # 1 THEN {} ELSE {rec.sha} \X projects

Forced(scope) == IF scope \in Projects THEN scope ELSE ""

canonicalizeProjectScopedObjects(recs, scope) ==
    LET key(r) == canonicalProjectChecksumKey(r, Forced(scope))
    IN  {collapseCanonicalGroup({o \in recs : key(o) = key(r)}) : r \in {r \in recs : key(r) # {}}}
          \cup {r \in recs : key(r) = {}}

\* Rows of the same content in the project that the page does not hold.
expandProjectChecksumSiblingObjects(recs, scope) ==
    LET keyed  == {r \in recs : canonicalProjectChecksumKey(r, "") # {}}
        wanted == {canonicalProjectChecksumKey(r, "") : r \in keyed}
        others == StoreBulkObjects(ListScopedObjectIDsByChecksums(scope, {r.sha : r \in keyed}))
    IN  IF Forced(scope) = "" THEN recs
        ELSE recs \cup {r \in others : canonicalProjectChecksumKey(r, "") \in wanted}

PrepareScopedObjects(s, recs, scope, method) ==
    canonicalizeProjectScopedObjects(
        filterObjectsByMethod(s, expandProjectChecksumSiblingObjects(recs, scope), method), scope)

GetPreparedScopedObjects(s, ids, scope, method) ==
    PrepareScopedObjects(s, StoreBulkObjects(ids), scope, method)

-----------------------------------------------------------------------------
(* The queries of the record service. *)

First(recs) == CHOOSE r \in recs : \A o \in recs : r.id <= o.id

GetObjectsByChecksum(s, sum, method) ==
    LET found    == FetchByChecksum(sum)
        matching == IF sum \in Hashes THEN objectsWithSHA256(found, sum) ELSE found
    IN  filterObjectsByMethod(s, canonicalizeContentObjects(matching), method)

\* The record as merged from all rows of its content.
canonicalContentForObject(rec) ==
    IF rec.sha = "" THEN rec ELSE collapseCanonicalGroup(objectsWithSHA256(FetchByChecksum(rec.sha), rec.sha))

lookupObjectByID(ident) == FetchByIDs({ident} \cap RowIds)
lookupObjectByAlias(ident) == FetchByIDs({ResolveObjectAlias(ident)})

\* Another checksum finds what the session may read, or that it may not.
lookupObjectByChecksum(s, sum, method) ==
    LET readable == GetObjectsByChecksum(s, sum, method)
    IN  IF readable # {} THEN {First(readable)} ELSE GetObjectsByChecksum(s, sum, "")

canonicalContentAndCheckAccess(s, recs, method) ==
    filterObjectsByMethod(s, {canonicalContentForObject(r) : r \in recs}, method)

\* By id, else by alias: at most one record, none when the session may not.
GetCanonicalContent(s, ident, method) ==
    LET byID == lookupObjectByID(ident)
    IN  canonicalContentAndCheckAccess(s, IF byID # {} THEN byID ELSE lookupObjectByAlias(ident), method)

\* An identifier that is a SHA-256, and one that is another checksum.
canonicalContentForChecksum(s, sum, method) ==
    LET bySHA == objectsWithSHA256(FetchByChecksum(sum), sum)
    IN  IF bySHA # {} THEN filterObjectsByMethod(s, canonicalizeContentObjects(bySHA), method)
        ELSE canonicalContentAndCheckAccess(s, lookupObjectByChecksum(s, sum, method), method)

GetBulkObjects(s, ids, method) ==
    filterObjectsByMethod(s, {canonicalContentForObject(r) : r \in StoreBulkObjects(ids)}, method)

\* Unscoped, a restricted reader gets what its resources name and what has none.
listReadableObjectIDs(s) ==
    IF s \in Anonymous THEN {} ELSE ListObjectIDsByResources(authorizedResources(s, "read"), TRUE)

ServiceIDsByScope(s, scope, method) ==
    IF scope = "all" /\ method = "read" /\ Enforced(s) THEN listReadableObjectIDs(s)
    ELSE {r.id : r \in GetPreparedScopedObjects(s, ListObjectIDsByScope(scope), scope, method)}

ListObjectIDsPageByScope(s, scope, method, start, limit, offset) ==
    IF canUseUnrestrictedScopePage(s, method) THEN StorePageByScope(scope, start, limit, offset)
    ELSE Page(ServiceIDsByScope(s, scope, method), start, limit, offset)

ListObjectIDsPageByURL(s, url, scope, method, start, limit, offset) ==
    LET f == objectMethodResourceFilter(s, method)
    IN  IF s \in Anonymous THEN <<>>
        ELSE StorePageByURL(url, scope, start, limit, offset, f.resources, f.unscoped, f.restrict)

\* An organization matches by any project of its own; a record that has the
\* organization itself matches every project of it only if it has no project.
objectMatchesScope(rec, scope) ==
    \/ scope = "all"
    \/ scope = "o" /\ rec.res \cap ScopeResources("o") # {}
    \/ scope \in rec.res
    \/ scope \in Projects /\ "o" \in rec.res /\ rec.res \cap Projects = {}

ListObjectIDsPageByChecksum(s, sum, scope, method, start, limit, offset) ==
    LET scoped == {r \in FetchByChecksum(sum) : objectMatchesScope(r, scope)}
        recs   == IF scope = "all" THEN GetObjectsByChecksum(s, sum, method)
                  ELSE canonicalizeProjectScopedObjects(filterObjectsByMethod(s, scoped, method), scope)
    IN  Page({r.id : r \in {r \in recs : sum \in r.sums /\ objectMatchesScope(r, scope)}},
             start, limit, offset)

ListMissingScopedSHA256(project, shas) ==
    {sha \in shas : ListScopedObjectIDsByChecksums(project, {sha}) = {}}

-----------------------------------------------------------------------------
(* The handlers.  A request is answered when its pc is "answered". *)

Idle == [pc |-> "idle"]

Init ==
    /\ catalogue \in Catalogues
    /\ request = Idle /\ late = "no" /\ changes = 0

Answer(q, s, recs) ==
    request' = [pc |-> "answered", q |-> q, session |-> s, got |-> recs, missing |-> {}]

Lookups == {"get", "getBySum", "documents", "hashes"}

\* The identifier of a record, or a checksum.
GetObject(q, s) ==
    IF q.route = "get" THEN GetCanonicalContent(s, q.arg, q.method)
    ELSE canonicalContentForChecksum(s, q.arg, q.method)

GetObjectsByChecksums(q, s) == UNION {GetObjectsByChecksum(s, sum, q.method) : sum \in q.arg}

\* The routes of /index that read once.
InternalGet(q, s) ==
    q.route \in {"get", "getBySum"} /\ q.method = "read" /\ Answer(q, s, GetObject(q, s))

InternalBulkDocuments(q, s) ==
    q.route = "documents" /\ q.method = "read" /\ Answer(q, s, GetBulkObjects(s, q.arg, "read"))

InternalBulkHashes(q, s) ==
    q.route = "hashes" /\ q.method = "read" /\ Answer(q, s, GetObjectsByChecksums(q, s))

\* The routes of DRS, which do not ask for a method.
DrsGetObject(q, s) ==
    q.route \in {"get", "getBySum"} /\ q.method = "" /\ Answer(q, s, GetObject(q, s))

DrsGetBulkObjects(q, s) ==
    q.route = "documents" /\ q.method = "" /\ Answer(q, s, GetBulkObjects(s, q.arg, ""))

DrsGetObjectsByChecksum(q, s) ==
    q.route = "hashes" /\ q.method = "" /\ Answer(q, s, GetObjectsByChecksums(q, s))

\* POST /index/bulk/sha256/validity: the contents no record the session may read has.
BulkSHA256Validity(q, s) ==
    /\ q.route = "validity"
    /\ request' = [pc |-> "answered", q |-> q, session |-> s, got |-> {},
                   missing |-> {sha \in q.arg : \A r \in GetObjectsByChecksum(s, sha, "read") :
                                                  sha \notin r.sums}]

\* POST /index/bulk/sha256/missing: which contents a project still lacks.
BulkMissingSHA256(q, s) ==
    /\ q.route = "missing" /\ requireScopeMethod(s, q.scope, "read")
    /\ request' = [pc |-> "answered", q |-> q, session |-> s, got |-> {},
                   missing |-> ListMissingScopedSHA256(q.scope, q.arg)]

\* page counts pages of the limit, and only without a start.
parseInternalListPagination(q) ==
    [limit |-> q.limit, start |-> q.start, offset |-> IF q.start = 0 THEN q.page * q.limit ELSE 0]

\* GET /index with hash or url lists the ids of the page first.
ListIDs(q, s) ==
    /\ q.route \in {"byHash", "byURL"}
    /\ LET p   == parseInternalListPagination(q)
           ids == IF q.route = "byHash"
                    THEN ListObjectIDsPageByChecksum(s, q.arg, q.scope, "read", p.start, p.limit, p.offset)
                    ELSE ListObjectIDsPageByURL(s, q.arg, q.scope, "read", p.start, p.limit, p.offset)
       IN  request' = [pc |-> "hydrate", q |-> q, session |-> s, ids |-> ToSet(ids)]

\* and hydrates them in another.
Hydrate ==
    /\ request.pc = "hydrate"
    /\ Answer(request.q, request.session,
              GetPreparedScopedObjects(request.session, request.ids, request.q.scope, "read"))
    /\ UNCHANGED <<catalogue, late, changes>>

\* GET /index without them collects batches until the page is full.
ListPreparedObjectsPageByScope(q, s) ==
    /\ q.route = "byScope"
    /\ request' = [pc |-> "batch", q |-> q, session |-> s, raw |-> q.start, ids |-> <<>>, got |-> <<>>]

Target == request.q.limit + parseInternalListPagination(request.q).offset
BatchSize == IF Target > MinBatch THEN Target ELSE MinBatch

Batch ==
    /\ request.pc = "batch"
    /\ LET ids == ListObjectIDsPageByScope(request.session, request.q.scope, "read", request.raw, BatchSize, 0)
       IN  request' = [request EXCEPT !.pc = IF ids = <<>> THEN "slice" ELSE "prepare", !.ids = ids]
    /\ UNCHANGED <<catalogue, late, changes>>

\* Records up to the start and those seen already are left out.
PrepareBatch ==
    /\ request.pc = "prepare"
    /\ LET recs == GetPreparedScopedObjects(request.session, ToSet(request.ids), request.q.scope, "read")
           new  == {r \in recs : r.id > request.q.start /\ \A g \in ToSet(request.got) : g.id # r.id}
           all  == request.got \o SetToSortSeq(new, LAMBDA a, b : a.id < b.id)
           got  == Window(all, 0, Target)
       IN  request' = [request EXCEPT
                         !.got = got, !.raw = Last(request.ids),
                         !.pc = IF Len(got) >= Target \/ Len(request.ids) < BatchSize
                                THEN "slice" ELSE "batch"]
    /\ UNCHANGED <<catalogue, late, changes>>

Slice ==
    /\ request.pc = "slice"
    /\ LET p == parseInternalListPagination(request.q)
       IN  Answer(request.q, request.session, ToSet(Window(request.got, p.offset, p.limit)))
    /\ UNCHANGED <<catalogue, late, changes>>

Serve(q, s) ==
    /\ request = Idle
    /\ \/ InternalGet(q, s) \/ InternalBulkDocuments(q, s) \/ InternalBulkHashes(q, s)
       \/ DrsGetObject(q, s) \/ DrsGetBulkObjects(q, s) \/ DrsGetObjectsByChecksum(q, s)
       \/ BulkSHA256Validity(q, s) \/ BulkMissingSHA256(q, s)
       \/ ListIDs(q, s) \/ ListPreparedObjectsPageByScope(q, s)
    /\ late' = "no"
    /\ UNCHANGED <<catalogue, changes>>

Done == request.pc = "answered" /\ request' = Idle /\ late' = "no" /\ UNCHANGED <<catalogue, changes>>

-----------------------------------------------------------------------------
(* Changes by others. *)

Change(to) ==
    /\ changes < MaxChanges /\ request.pc \notin {"idle", "answered"}
    /\ catalogue' = to /\ to # catalogue
    /\ changes' = changes + 1
    /\ late' = IF request.pc # "hydrate" /\ request.got # <<>> THEN "hydrated" ELSE "listed"
    /\ UNCHANGED request

Without(ids) ==
    [rows |-> [i \in RowIds |-> IF i \in ids THEN Absent ELSE row(i)],
     alias |-> [a \in DOMAIN catalogue.alias |->
                  IF catalogue.alias[a] \in ids THEN 0 ELSE catalogue.alias[a]]]

EnsureNoLegacyDuplicate(i) == row(i).sha = "" \/ \A j \in Live \ {i} : row(j).sha # row(i).sha

\* All resources of a row must allow its deletion.
DeleteObjectsByChecksums(s, sums) ==
    LET f   == objectMethodResourceFilter(s, "delete")
        ids == ListObjectIDsByChecksumsAndResources(sums, f.resources, f.unscoped, f.restrict)
    IN  Change(Without({r.id : r \in {r \in StoreBulkObjects(ids) : requireAllObjectMethod(s, "delete", r)}}))

deletableObjectIDsForMethod(s, ids) ==
    {r.id : r \in filterObjectsByMethod(s, StoreBulkObjects(ids), "delete")}

\* A project's scope takes its grants; the policy is then pinned.
DeleteBulkByScope(s, scope) ==
    LET f   == objectMethodResourceFilter(s, "delete")
        ids == deletableObjectIDsForMethod(s, ListObjectIDsByScopeAndResources(scope, f.resources, f.restrict))
        removed(i) == IF i \notin ids THEN {}
                      ELSE {r \in row(i).res \cap ScopeResources(scope) : HasMethodAccess(s, "delete", {r})}
        left(i) == row(i).res \ removed(i)
    IN  /\ requireScopeMethod(s, scope, "delete")
        /\ \A i \in ids : EnsureNoLegacyDuplicate(i)
        /\ Change([catalogue EXCEPT !.rows = [i \in RowIds |->
                     IF removed(i) = {} THEN row(i)
                     ELSE [row(i) EXCEPT !.res = left(i),
                                         !.policy = IF @ # "unknown" THEN @
                                                    ELSE IF left(i) = {} THEN "public" ELSE "private"]]])

\* An id that has no record becomes an alias, or a record of new content.
CreateObjectAlias(a, i) ==
    /\ i \in Live /\ EnsureNoLegacyDuplicate(i) /\ catalogue.alias[a] \in {0, i}
    /\ Change([catalogue EXCEPT !.alias[a] = i])

RegisterObjects(i, new) ==
    /\ i \notin Live
    /\ \A j \in Live : row(j).sha # new.sha
    /\ Change([catalogue EXCEPT !.rows[i] = new])

Next ==
    \/ \E q \in Requests, s \in Sessions : Serve(q, s)
    \/ Hydrate \/ Batch \/ PrepareBatch \/ Slice \/ Done
    \/ \E s \in Sessions, sum \in {"x", "m"} : DeleteObjectsByChecksums(s, {sum})
    \/ \E s \in Sessions, scope \in {"o"} \cup Projects : DeleteBulkByScope(s, scope)
    \/ \E a \in DOMAIN catalogue.alias, i \in RowIds : CreateObjectAlias(a, i)
    \/ \E i, j \in RowIds : j \in Live /\ RegisterObjects(i, [row(j) EXCEPT !.sha = "y", !.sums = {"y"}])

Spec == Init /\ [][Next]_vars

-----------------------------------------------------------------------------
\* The fields that a merged record can only add to.
Shows(rec, part) ==
    /\ rec.sha = part.sha
    /\ part.urls \subseteq rec.urls /\ part.res \subseteq rec.res /\ part.sums \subseteq rec.sums
    /\ {part.name} \cup part.names \subseteq {rec.name, ""} \cup rec.names
    /\ part.size > 0 => rec.size > 0
    /\ part.note # "" => rec.note # ""

Unduplicated == \A i, j \in Live : row(i).sha = row(j).sha /\ row(i).sha # "" => i = j

\* The whole listing of a scope, nothing left on later pages.
WholeListing == /\ request.q.route = "byScope" /\ request.q.scope # "all"
                /\ request.q.limit >= MaxId /\ request.q.start = 0 /\ request.q.page = 0

\* The routes agree on what a session may see: whatever record a route answers,
\* by scope, URL, checksum or in bulk, the same session gets when it asks for
\* that id, with the same content and with every location, grant, checksum and
\* name the listing showed; the listing of an organization or a project has
\* every record of it that the session can get that way; a SHA-256 is valid when
\* the session gets a record by it; and what is not reported missing from a project
\* is listed there by its checksum.  That is so when nothing
\* changed while a listing was put together, and, for the second part, when no
\* older server left two records of one content.
RoutesAgree ==
    (request.pc = "answered" /\ late # "hydrated") =>
        LET method == IF request.q.route \in Lookups THEN request.q.method ELSE "read"
            get(i) == GetCanonicalContent(request.session, i, method)
        IN  /\ \A part \in request.got : \E rec \in get(part.id) : Shows(rec, part)
            /\ (WholeListing /\ Unduplicated /\ late = "no") =>
                 {r.id : r \in request.got} =
                 {i \in ListObjectIDsByScope(request.q.scope) : get(i) # {}}
            /\ request.q.route = "validity" =>
                 request.missing =
                 {sha \in request.q.arg : canonicalContentForChecksum(request.session, sha, "read") = {}}
            /\ request.q.route = "missing" =>
                 \A sha \in request.q.arg \ request.missing :
                   ListObjectIDsPageByChecksum(request.session, sha, request.q.scope, "read", 0, 1, 0) # <<>>
=============================================================================
