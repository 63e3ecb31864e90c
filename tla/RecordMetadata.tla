--------------------------- MODULE RecordMetadata ---------------------------
(***************************************************************************)
(* What clients write about a record and what they read back.  The         *)
(* internal index API, the DRS API and Git LFS each have a wire form with  *)
(* its own spellings and defaults; all of them end in the same two         *)
(* transactions of the store, a registration that merges and a             *)
(* replacement that overwrites, and all of them are read back from the     *)
(* same row.  The store is the SQLite one, whose transactions run one at   *)
(* a time.                                                                 *)
(*                                                                         *)
(* An optional field is a set with at most one element.  A name is the     *)
(* sequence of its path's components, a resource the sequence of its       *)
(* segments, and a checksum value a digest with or without the "sha256:"   *)
(* prefix.                                                                 *)
(***************************************************************************)
EXTENDS AccessPolicy, Sequences, FiniteSets, Naturals, TLC

CONSTANTS
    Ids,          \* record ids, the minted ones and the digests among them
    Digests,      \* well-formed SHA-256 digests
    Mint(_, _),   \* Mint(d, r): the id minted for digest d in project r
    Documents,    \* internal records clients send
    Candidates,   \* DRS registration candidates
    LfsCandidates,\* Git LFS metadata candidates
    MaxWrites     \* bound: accepted writes

VARIABLES
    row,      \* row[i]: drs_object and its child tables, for id i
    idAlias,  \* idAlias[i]: drs_object_alias
    claims,   \* history: the ids, names and digests of accepted writes
    writes    \* number of accepted writes

metaVars == <<row, idAlias, claims, writes>>

Default(field, value) == IF field = {} THEN value ELSE CHOOSE v \in field : TRUE

-----------------------------------------------------------------------------
(* Spellings.                                                              *)

Blank == <<>>

\* The last component of a path, whatever its separators; blank stays blank.
CleanToBasename(name) == IF name = Blank THEN Blank ELSE <<name[Len(name)]>>

\* Mutant of NormalizeNameAliases: the list is taken as it comes.
AliasesAsGiven(primary, aliases) == aliases \ {Blank}

NormalizeNameAliases(primary, aliases) ==
    {CleanToBasename(a) : a \in aliases} \ {Blank, CleanToBasename(primary)}

NormalizeChecksumType(type) ==
    CASE type \in {"sha256", "SHA-256"} -> "sha256"
      [] type \in {"md5", "MD5"} -> "md5"

NormalizeOid(value) == {value.digest} \cap Digests
Bare(digest) == [prefixed |-> FALSE, digest |-> digest]

IsSHA(c) == NormalizeChecksumType(c.type) = "sha256"
SHA256Values(checksums) == UNION {NormalizeOid(c.value) : c \in {c \in checksums : IsSHA(c)}}

\* The first well-formed SHA-256 of a list.
CanonicalSHA256(list) ==
    LET good == {k \in DOMAIN list : SHA256Values({list[k]}) # {}}
    IN  IF good = {} THEN {}
        ELSE NormalizeOid(list[CHOOSE k \in good : \A m \in good : k <= m].value)

\* The hashes of a document are a map, walked in any order: the checksums that
\* may come first of their type, whatever its spelling.
FirstOfTypes(checksums) ==
    LET Types(cs) == {NormalizeChecksumType(c.type) : c \in cs}
    IN  {first \in SUBSET checksums :
            /\ Types(first) = Types(checksums)
            /\ \A c, d \in first : NormalizeChecksumType(c.type) = NormalizeChecksumType(d.type) => c = d}

\* The SHA-256 found first when the checksums of first are the first of their
\* types; a malformed value is passed over.
FirstSHA256(checksums, first) ==
    IF SHA256Values(first) # {} THEN SHA256Values(first) ELSE SHA256Values(checksums)

\* Of the types the record has no checksum of, the first one is added, without
\* its prefix; the others of that type are dropped.
MergeAdditionalChecksums(existing, first) ==
    LET types == {NormalizeChecksumType(c.type) : c \in existing}
        fresh == {c \in first : NormalizeChecksumType(c.type) \notin types}
    IN  existing \cup {[type |-> c.type, value |-> Bare(c.value.digest)] : c \in fresh}

ResourcePath(org, project) ==
    IF project = "" THEN <<"organization", org>>
    ELSE <<"organization", org, "project", project>>

\* /programs/... and plural forms become /organization/...; anything else stays.
NormalizeAccessResource(raw) ==
    IF Len(raw) < 2 \/ raw[1] \notin {"program", "programs", "organization", "organizations"}
    THEN raw
    ELSE IF Len(raw) >= 4 /\ raw[3] \in {"project", "projects"}
         THEN ResourcePath(raw[2], raw[4]) ELSE ResourcePath(raw[2], "")

NormalizeAccessResources(raws) == {NormalizeAccessResource(r) : r \in raws}

\* Organization and project of a resource; nothing for other paths.
ResourceScope(raw) ==
    LET r == NormalizeAccessResource(raw)
    IN  IF Len(r) < 2 \/ r[1] # "organization" THEN {}
        ELSE {<<r[2], IF Len(r) = 4 THEN r[4] ELSE "">>}

\* Organization -> projects: a grant on the organization itself leaves no trace
\* beside a grant on one of its projects.
AuthzListToMap(paths) ==
    LET scopes == UNION {ResourceScope(p) : p \in paths}
    IN  [org \in {s[1] : s \in scopes} |-> {s[2] : s \in {s \in scopes : s[1] = org}} \ {""}]

AuthzMapToList(map) ==
    UNION {IF map[org] = {} THEN {ResourcePath(org, "")}
           ELSE {ResourcePath(org, p) : p \in map[org]} : org \in DOMAIN map}

-----------------------------------------------------------------------------
(* From the wire.                                                          *)

\* Access methods keep their type and URL; the id on the wire is not stored.
FromGeneratedAccessMethods(methods) ==
    {[type |-> m.type, url |-> Default(m.url, "")] : m \in methods}

ReadHash(c) ==
    IF IsSHA(c) /\ NormalizeOid(c.value) # {}
    THEN [type |-> "sha256", value |-> Bare(c.value.digest)] ELSE c

FromInternalRecord(doc) ==
    LET name == {CleanToBasename(n) : n \in doc.name} \ {Blank}
    IN  [id |-> doc.did, idAliases |-> {},
         name |-> name,
         nameAliases |-> NormalizeNameAliases(Default(name, Blank), doc.nameAliases),
         version |-> {Default(doc.version, "1")},
         description |-> doc.description,
         size |-> Default(doc.size, 0),
         checksums |-> {{ReadHash(c) : c \in h} : h \in doc.hashes},
         grants |-> {NormalizeAccessResources(g) : g \in doc.grants},
         methods |-> {FromGeneratedAccessMethods(ms) : ms \in doc.methods}]

AccessResources(obj) == NormalizeAccessResources(Default(obj.grants, {}))

EnforceCanonicalProjectScope(obj, project) ==
    IF project = {} THEN obj
    ELSE [obj EXCEPT !.grants = {AccessResources(obj) \cup project}]

InternalRecordToObject(doc) ==
    EnforceCanonicalProjectScope(FromInternalRecord(doc), doc.project)

\* Exactly one project among the grants names the project of a minted id.
CanonicalProjectScope(resources) ==
    LET projects == {r \in resources : \E s \in ResourceScope(r) : s[2] # ""}
    IN  IF Cardinality(projects) = 1 THEN projects ELSE {}

MintRecordIDFromChecksum(oid, resources) ==
    {Mint(oid, r) : r \in CanonicalProjectScope(resources)}

\* The id a candidate names first, else the minted one.
CandidateID(c, oid) ==
    IF c.ids # <<>> THEN {c.ids[1]}
    ELSE MintRecordIDFromChecksum(oid, AuthzMapToList(AuthzListToMap(Default(c.grants, {}))))

\* A candidate without SHA-256, access method or id is refused.
CandidateOK(c) ==
    /\ CanonicalSHA256(c.checksums) # {}
    /\ c.methods # {}
    /\ \A oid \in CanonicalSHA256(c.checksums) : CandidateID(c, oid) # {}

CandidateToRecord(c) ==
    LET oid == Default(CanonicalSHA256(c.checksums), "")
        given == {CleanToBasename(n) : n \in c.name} \ {Blank}
    IN  [id |-> Default(CandidateID(c, oid), ""),
         idAliases |-> {c.ids[k] : k \in DOMAIN c.ids},
         name |-> {Default(given, <<oid>>)}, nameAliases |-> {},
         version |-> {"1"}, description |-> c.description, size |-> c.size,
         checksums |-> {{[type |-> "sha256", value |-> Bare(oid)]}},
         grants |-> {NormalizeAccessResources(g) : g \in c.grants},
         methods |-> {c.methods}]

FromDrsAccessMethods(methods) ==
    {[type |-> m.type, url |-> Default(m.url, "")] : m \in methods}

\* The DRS candidate; its size is always given.
FromDrsCandidate(c) == [c EXCEPT !.methods = FromDrsAccessMethods(@)]

\* Git LFS: the explicit id or the first checksum of type sha256 is the id; a
\* candidate carries no grants.
FromLfsCandidate(c) ==
    LET sums == {k \in DOMAIN c.checksums : c.checksums[k].type = "sha256"}
        first == IF sums = {} THEN {}
                 ELSE NormalizeOid(c.checksums[CHOOSE k \in sums : \A m \in sums : k <= m].value)
        id == IF c.id # {} THEN c.id ELSE first
    IN  [ids |-> (IF id = {} THEN <<>> ELSE <<Default(id, "")>>) \o c.ids,
         name |-> c.name, description |-> c.description, size |-> c.size,
         checksums |-> c.checksums, grants |-> {},
         methods |-> {[type |-> m.type, url |-> Default(m.url, "")] : m \in c.methods}]

-----------------------------------------------------------------------------
(* The store.                                                              *)

NoRow == [live |-> FALSE]
Live(i) == row[i].live

SqliteObjectID(id) == IF Live(id) THEN {id} ELSE idAlias[id]

SqliteObjectSHAs(i) == SHA256Values(row[i].checksums)

SqliteObjectIDsBySHA(sha) ==
    {i \in Ids : Live(i) /\ \E c \in row[i].checksums : IsSHA(c) /\ c.value.digest = sha}

\* An id that is an alias of another row cannot be claimed.
CheckUUIDClaim(requested, canonical) == idAlias[requested] \subseteq {canonical}

SqliteCanReadContent(s, resources) ==
    s \in Unenforced \/ (resources # {} /\ HasObjectMethodAccess(s, "read", resources))

SqliteCanCreateResources(s, resources, current) ==
    \A r \in resources \ current : HasMethodAccess(s, "create", {r})

\* The row a registration belongs to; refused registrations have none.
RegistrationTarget(obj) ==
    LET shas == SHA256Values(Default(obj.checksums, {}))
        owners == UNION {SqliteObjectIDsBySHA(sha) : sha \in shas}
        byID == SqliteObjectID(obj.id)
        target == CASE owners # {} -> owners [] owners = {} /\ byID # {} -> byID [] OTHER -> {obj.id}
    IN  IF \/ Cardinality(shas) > 1
           \/ Cardinality(owners) > 1
           \/ owners # {} /\ byID # {} /\ byID # owners
           \/ owners = {} /\ shas # {} /\ \E i \in byID : SqliteObjectSHAs(i) \ shas # {}
           \/ \E i \in target : ~CheckUUIDClaim(obj.id, i)
        THEN {} ELSE target

InsertContentRow(obj) ==
    [live |-> TRUE, name |-> Blank, nameAliases |-> {}, version |-> "",
     description |-> "", size |-> obj.size, checksums |-> {}, grants |-> {},
     methods |-> {}, public |-> AccessResources(obj) = {}]

\* The merge of registration metadata: the one project a record belongs to may
\* replace it, others only fill in what is missing; the name that loses is kept
\* as a name alias.
MergeRegistrationMetadata(r, obj) ==
    LET replace == Cardinality(r.grants) = 1 /\ AccessResources(obj) \cap r.grants # {}
        incoming == CleanToBasename(Default(obj.name, Blank))
        Merged(old, new, empty) == IF (replace \/ old = empty) /\ new # empty THEN new ELSE old
        loser == IF r.name # Blank /\ incoming # Blank /\ r.name # incoming
                 THEN {IF replace THEN r.name ELSE incoming} ELSE {}
    IN  [r EXCEPT !.name = Merged(@, incoming, Blank),
                  !.nameAliases = @ \cup loser,
                  !.version = Merged(@, Default(obj.version, ""), ""),
                  !.description = Merged(@, Default(obj.description, ""), ""),
                  !.size = IF @ = 0 THEN obj.size ELSE @]

LowerType(type) == CASE type \in {"s3", "S3"} -> "s3" [] OTHER -> type
SameMethod(a, b) == LowerType(a.type) = LowerType(b.type) /\ a.url = b.url
\* One of each class of equal methods; methods without a URL are dropped.
Storable(methods) ==
    {a \in methods : a.url # "" /\ (LowerType(a.type) = a.type
                                    \/ ~\E b \in methods \ {a} : SameMethod(a, b))}

MergeContentChildren(r, obj) ==
    LET sums == Default(obj.checksums, {})
        sha == {[type |-> "sha256", value |-> Bare(d)] :
                  d \in SHA256Values(sums) \ SHA256Values(r.checksums)}
        other == {c \in sums : ~IsSHA(c) \/ NormalizeOid(c.value) = {}}
    IN  [r EXCEPT !.grants = @ \cup AccessResources(obj),
                  !.methods = @ \cup {a \in Storable(Default(obj.methods, {})) :
                                        ~\E b \in r.methods : SameMethod(a, b)},
                  !.nameAliases = @ \cup NormalizeNameAliases(Default(obj.name, Blank),
                                                              obj.nameAliases),
                  !.checksums = @ \cup sha \cup other]

Registered(r, obj) == MergeContentChildren(MergeRegistrationMetadata(r, obj), obj)

SizesConflict(r, obj) ==
    /\ SHA256Values(Default(obj.checksums, {})) # {}
    /\ r.size # 0 /\ obj.size # 0 /\ r.size # obj.size

\* Adding a grant or a location to content that exists needs to read it.
RegistrationAllowed(s, i, obj) ==
    LET current == IF Live(i) THEN row[i].grants ELSE {}
        resources == AccessResources(obj)
    IN  /\ Live(i) => /\ ~SizesConflict(row[i], obj)
                      /\ \/ row[i].public
                         \/ resources \subseteq current /\ current # {} /\ obj.methods = {}
                         \/ SqliteCanReadContent(s, current)
        /\ SqliteCanCreateResources(s, resources, current)
        /\ \A a \in obj.idAliases \ {i} : CheckUUIDClaim(a, i)

WithAliases(requested, others, i) ==
    [a \in Ids |-> IF a \in ({requested} \cup others) \ {i} THEN {i} ELSE idAlias[a]]

Claim(id, obj, names) ==
    [id |-> id, names |-> names \ {Blank}, shas |-> SHA256Values(Default(obj.checksums, {}))]

\* RegisterObjects of the store, for one object.
Register(s, obj) ==
    \E i \in RegistrationTarget(obj) :
        /\ RegistrationAllowed(s, i, obj)
        /\ row' = [row EXCEPT ![i] = Registered(IF Live(i) THEN @ ELSE InsertContentRow(obj), obj)]
        /\ idAlias' = WithAliases(obj.id, obj.idAliases, i)
        /\ claims' = claims \cup {Claim(obj.id, obj, obj.name \cup obj.nameAliases)}
        /\ writes' = writes + 1

\* Mutant of ReplacedName: a rename drops the old name.
NameDropped(r, name) == {}

\* The name a replacement takes away is kept as a name alias.
ReplacedName(r, name) == IF r.name # name THEN {r.name} \ {Blank} ELSE {}

ReplaceMetadata(r, obj) ==
    LET given == CleanToBasename(Default(obj.name, Blank))
        name == IF given = Blank THEN r.name ELSE given
        Kept(old, new) == IF new = "" THEN old ELSE new
    IN  [r EXCEPT !.name = name,
                  !.nameAliases = @ \cup ReplacedName(r, name),
                  !.version = Kept(@, Default(obj.version, "")),
                  !.description = Kept(@, Default(obj.description, "")),
                  !.size = IF obj.size = 0 THEN @ ELSE obj.size]

\* With a SHA-256 every row of that type gets its value before the other rows
\* are deleted and inserted anew.
ReplaceChecksums(stored, sums) ==
    LET shas == SHA256Values(sums)
        held == {c \in stored : IsSHA(c)}
        kept == IF shas = {} THEN held
                ELSE {[c EXCEPT !.value = Bare(Default(shas, ""))] :
                        c \in held \cup (IF held = {} THEN {[type |-> "sha256", value |-> Bare("")]}
                                         ELSE {})}
    IN  kept \cup {c \in sums : ~IsSHA(c) \/ NormalizeOid(c.value) = {}}

ReplaceChildren(r, obj) ==
    [r EXCEPT !.methods = IF obj.methods = {} THEN @ ELSE Storable(Default(obj.methods, {})),
              !.grants = IF obj.grants = {} THEN @ ELSE AccessResources(obj),
              !.checksums = IF obj.checksums = {} THEN @
                            ELSE ReplaceChecksums(@, Default(obj.checksums, {})),
              !.nameAliases = @ \cup NormalizeNameAliases(Default(obj.name, Blank),
                                                          obj.nameAliases)]

Replaced(r, obj) == ReplaceChildren(ReplaceMetadata(r, obj), obj)

ReplacementAllowed(s, i, obj) ==
    LET current == row[i].grants
        incoming == AccessResources(obj)
        shas == SHA256Values(Default(obj.checksums, {}))
        stored == SqliteObjectSHAs(i)
    IN  /\ HasMethodAccess(s, "update", current)
        /\ Cardinality(shas) <= 1
        /\ stored = {} => \A sha \in shas : SqliteObjectIDsBySHA(sha) \subseteq {i}
        /\ shas # {} => stored \subseteq shas
        /\ ~incoming \subseteq current =>
              /\ row[i].public \/ SqliteCanReadContent(s, current)
              /\ SqliteCanCreateResources(s, incoming, current)
        /\ ~(row[i].size # 0 /\ obj.size # 0 /\ row[i].size # obj.size /\ stored # {})

-----------------------------------------------------------------------------
(* Reading back.                                                           *)

\* A record as GetObject hydrates it: every column is there, a child table
\* without rows is not.
Hydrate(i) ==
    LET r == row[i]
    IN  [id |-> i, idAliases |-> {}, name |-> {r.name}, nameAliases |-> r.nameAliases,
         version |-> {r.version}, description |-> {r.description}, size |-> r.size,
         checksums |-> {r.checksums} \ {{}}, grants |-> {r.grants} \ {{}},
         methods |-> {r.methods} \ {{}}]

\* A checksum list as a map: one value of each type survives.
HashMaps(checksums) ==
    LET types == {c.type : c \in checksums}
    IN  {m \in SUBSET checksums :
            /\ {c.type : c \in m} = types
            /\ \A c, d \in m : c.type = d.type => c = d}

AccessMethodID(type, url) == <<LowerType(type), url>>

ToGeneratedAccessMethods(methods) ==
    {[type |-> a.type, id |-> {AccessMethodID(a.type, a.url)}, url |-> {a.url}] : a \in methods}

ToDrsAccessMethods(methods) ==
    {[type |-> a.type, id |-> {AccessMethodID(a.type, a.url)}, url |-> {a.url}] : a \in methods}

ToInternalRecord(obj, hashes) ==
    [did |-> obj.id, name |-> obj.name,
     nameAliases |-> NormalizeNameAliases(Default(obj.name, Blank), obj.nameAliases),
     version |-> obj.version, description |-> obj.description, size |-> {obj.size},
     hashes |-> {hashes} \ {{}}, grants |-> obj.grants,
     methods |-> {ToGeneratedAccessMethods(ms) : ms \in obj.methods}, project |-> {}]

\* GET /index/{id}: neither version nor a zero size.
Encode(obj, hashes) ==
    [ToInternalRecord(obj, hashes) EXCEPT !.version = {}, !.size = @ \ {0}]

\* The DRS object.
ToGenerated(obj) ==
    [id |-> obj.id, name |-> obj.name,
     version |-> obj.version, description |-> obj.description, size |-> obj.size,
     checksums |-> Default(obj.checksums, {}), grants |-> obj.grants,
     methods |-> {ToDrsAccessMethods(ms) : ms \in obj.methods}]

\* The payload of a DRS response: the object with the file's other names.
ObjectPayload(obj) == [nameAliases |-> obj.nameAliases] @@ ToGenerated(obj)

-----------------------------------------------------------------------------
(* The requests.                                                           *)

HasObjectMethod(s, method, r) ==
    \/ method = "read" /\ r.public
    \/ /\ ~(method = "read" /\ r.grants = {})
       /\ HasObjectMethodAccess(s, method, r.grants)

\* Content that exists must be readable before anything is registered for it.
ValidateExistingContentRead(s, obj) ==
    \A sha \in SHA256Values(Default(obj.checksums, {})) : \A i \in SqliteObjectIDsBySHA(sha) :
        HasObjectMethod(s, "read", row[i])

\* One granting resource is enough to create; an unscoped record needs none
\* only where authorization is not enforced.
CreateAllowed(s, obj) == HasObjectMethodAccess(s, "create", AccessResources(obj))

RegisterObject(s, obj) ==
    /\ ValidateExistingContentRead(s, obj)
    /\ CreateAllowed(s, obj)
    /\ Register(s, obj)

Init ==
    /\ row = [i \in Ids |-> NoRow]
    /\ idAlias = [i \in Ids |-> {}]
    /\ claims = {}
    /\ writes = 0

\* POST /index, one record of POST /index/bulk.
InternalCreate(s, doc) == RegisterObject(s, InternalRecordToObject(doc))

\* POST /ga4gh/drs/v1/objects/register.
DrsRegister(s, c) ==
    /\ CandidateOK(FromDrsCandidate(c))
    /\ RegisterObject(s, CandidateToRecord(FromDrsCandidate(c)))

\* Git LFS verify of staged metadata whose object is not found.
LfsRegister(s, c) ==
    LET cand == FromLfsCandidate(c)
    IN  /\ CandidateOK(cand)
        /\ \A oid \in CanonicalSHA256(cand.checksums) :
              SqliteObjectID(oid) = {} /\ SqliteObjectIDsBySHA(oid) = {}
        /\ RegisterObject(s, CandidateToRecord(cand))

\* The record of the same id, else the ones of the same content in the project.
OverwriteMatches(obj, resource) ==
    IF Live(obj.id) THEN {obj.id}
    ELSE {i \in UNION {SqliteObjectIDsBySHA(sha) : sha \in SHA256Values(Default(obj.checksums, {}))} :
            resource \in row[i].grants}

\* POST /index/bulk/overwrite of one record into its project.
BulkOverwrite(s, doc) ==
    LET obj == InternalRecordToObject(doc)
        resource == Default(doc.project, <<>>)
        matches == OverwriteMatches(obj, resource)
        method == IF matches = {} THEN "create" ELSE "update"
    IN  /\ doc.project # {}
        /\ idAlias[obj.id] \subseteq {obj.id}
        /\ \A i \in matches : resource \in row[i].grants
        /\ Cardinality(matches) <= 1
        /\ HasObjectMethodAccess(s, method, {resource})
        /\ \A i \in matches : HasMethodAccess(s, "update", row[i].grants)
        /\ HasObjectMethodAccess(s, method, AccessResources(obj))
        /\ Register(s, [obj EXCEPT !.id = Default(matches, obj.id)])

\* The fields an update gives, over the record as it was read; first are the
\* first of its checksums of each type.
MergeRecordUpdate(existing, update, first, id) ==
    LET Over(new, old) == IF new = {} THEN old ELSE new
    IN  [existing EXCEPT
            !.id = id,
            !.name = Over(update.name, @), !.description = Over(update.description, @),
            !.version = Over(update.version, @), !.grants = Over(update.grants, @),
            !.methods = Over(update.methods, @),
            !.checksums = IF update.checksums = {} THEN @
                          ELSE {MergeAdditionalChecksums(Default(@, {}), first)}]

\* PUT /index/{id}; the path, not the body, says which record is meant.
Update(s, id, doc) ==
    LET update == InternalRecordToObject(doc)
        sums == Default(update.checksums, {})
    IN  \E i \in SqliteObjectID(id), first \in FirstOfTypes(sums) :
          /\ HasObjectMethod(s, "update", row[i])
          /\ doc.size \subseteq {row[i].size}
          /\ \/ SHA256Values(sums) = {} \/ SqliteObjectSHAs(i) = {}
             \/ FirstSHA256(sums, first) \cap SqliteObjectSHAs(i) # {}
          /\ LET merged == MergeRecordUpdate(Hydrate(i), update, first, id)
             IN  /\ ReplacementAllowed(s, i, merged)
                 /\ row' = [row EXCEPT ![i] = Replaced(@, merged)]
                 /\ claims' = claims \cup {Claim(id, merged, update.name)}
          /\ idAlias' = WithAliases(id, {}, i)
          /\ writes' = writes + 1

Next ==
    \E s \in Sessions :
        /\ writes < MaxWrites
        /\ \/ \E doc \in Documents :
                \/ InternalCreate(s, doc)
                \/ BulkOverwrite(s, doc)
                \/ \E id \in Ids : Update(s, id, doc)
           \/ \E c \in Candidates : DrsRegister(s, c)
           \/ \E c \in LfsCandidates : LfsRegister(s, c)

-----------------------------------------------------------------------------
(* Properties.                                                             *)

\* Whatever was registered or written under an id can still be found under it:
\* the id leads to a live row, the row has that SHA-256 and no other, no other
\* row has it, and every file name the content was given is its name or one of
\* its name aliases (registration_merge.go:53-58, content_replacement.go:151).
\* Of an update the SHA-256 values are those of the merged record: a PUT that
\* gives two under two spellings of the type is accepted and keeps the one the
\* server meets first, and one is given in vain to a record that has a malformed
\* value of that type (checksums.go:67-75, update.go:20-24).
ClaimsKept ==
    \A c \in claims : \E i \in SqliteObjectID(c.id) :
        /\ Live(i)
        /\ c.names \subseteq {row[i].name} \cup row[i].nameAliases
        /\ c.shas # {} => SqliteObjectSHAs(i) = c.shas
        /\ \A sha \in c.shas : SqliteObjectIDsBySHA(sha) = {i}

\* What a record looks like apart from malformed values under a SHA-256 type.
Seen(r) == [r EXCEPT !.checksums = <<SHA256Values(@), {c \in @ : ~IsSHA(c)}>>]

\* The three representations of a record agree, and sending an internal one
\* back, by PUT or by POST, changes nothing: no field is lost, reset or respelled
\* on the way out and in (internal.go:18-91, codec.go:96, objects.go:50).  Two
\* exceptions.  The document of GET /index/{id} has no version, and sending it
\* back may reset the stored one to "1" (codec.go:96-179, internal.go:28), the
\* version alone.  A record with a malformed value under a SHA-256 type may show
\* that value for its SHA-256 in the two representations with a map of hashes.
WireFaithful ==
    \A i \in {i \in Ids : Live(i)} :
        LET obj == Hydrate(i)
            drs == ObjectPayload(obj)
            malformed == \E c \in row[i].checksums : IsSHA(c) /\ NormalizeOid(c.value) = {}
            \* The record after doc was sent back, by POST or by PUT.
            SentBack(doc) ==
                LET back == FromInternalRecord(doc)
                IN  {Registered(row[i], back)}
                    \cup {Replaced(row[i], MergeRecordUpdate(obj, back, first, i)) :
                             first \in FirstOfTypes(Default(back.checksums, {}))}
        IN  \A hashes \in HashMaps(row[i].checksums) :
              LET doc == ToInternalRecord(obj, hashes)
                  compat == Encode(obj, hashes)
              IN  /\ \A after \in SentBack(doc) : Seen(after) = Seen(row[i])
                  /\ \A after \in SentBack(compat) :
                        \E v \in {row[i].version, "1"} :
                            Seen(after) = [Seen(row[i]) EXCEPT !.version = v]
                  /\ {doc.name, compat.name} = {drs.name}
                  /\ {doc.nameAliases, compat.nameAliases} = {drs.nameAliases \ drs.name}
                  /\ doc.version = drs.version
                  /\ {doc.description, compat.description} = {drs.description}
                  /\ {doc.grants, compat.grants} = {drs.grants}
                  /\ {doc.methods, compat.methods} = {drs.methods}
                  /\ {Default(doc.size, 0), Default(compat.size, 0)} = {drs.size}
                  /\ malformed \/ \A d \in {doc, compat} :
                        SHA256Values(Default(d.hashes, {})) = SHA256Values(drs.checksums)
=============================================================================
