----------------------------- MODULE MCTransfers -----------------------------
(* The transfer path, one part of it busy in a behaviour: the counters of       *)
(* object_usage, the staged metadata of Git LFS, the attribution of access      *)
(* URLs, the places uploads and downloads agree on, the client's download from  *)
(* such a place, and the metadata clients register and read back.               *)
EXTENDS UsageLedger, LfsVerify, TransferAttribution, Downloads, TLC

CONSTANTS MaxChanges, MaxWrites

VARIABLES load,
          creds, scopes, located, record, staged, bytes, flow, how, answer, changes,
          row, idAlias, claims, writes

routeVars == <<creds, scopes, located, record, staged, bytes, flow, how, answer, changes>>
metaVars == <<row, idAlias, claims, writes>>
allVars == <<load, vars, lfsVars, issueVars, downloadVars, routeVars, metaVars>>

\* Two objects at one location each; the second is reached by Git LFS too.
Thing(obj, loc, dir, range, tally) ==
    [obj |-> obj, loc |-> loc, dir |-> dir, range |-> range, tally |-> tally]
Ask(req, bulk, items) == [req |-> req, bulk |-> bulk, items |-> items]

Read == Thing("x", "a", "download", "all", "id")
MCAsks ==
    {Ask("r1", FALSE, <<Read>>), Ask("r2", FALSE, <<Read>>),
     Ask("r1", FALSE, <<Thing("x", "a", "download", "part", "none")>>),
     Ask("r3", TRUE, <<Thing("x", "a", "upload", "all", "none"),
                       Thing("y", "b", "upload", "all", "none"),
                       Thing("x", "a", "upload", "all", "none")>>),
     Ask("r4", TRUE, <<Thing("y", "b", "download", "all", "oid"),
                       Thing("x", "a", "download", "all", "oid")>>)}
MCOld == {[req |-> r, obj |-> "x", loc |-> "a", dir |-> "download", range |-> "all"] :
             r \in {"r0", "r1"}}

\* Two projects of an organization over the buckets B and C; p names a bucket of
\* older clients, the prefix of a scope today.
Table(kind, org, q1, q2) ==
    <<"B" :> kind @@ "C" :> "s3path" @@ "p" :> "none",
      "org" :> org @@ "q1" :> q1 @@ "q2" :> q2, {<<"q1", "C">>}>>
Under(bucket, prefix) == [bucket |-> bucket, prefix |-> prefix]
Unset == Under("", <<>>)
MCTables ==
    {Table(kind, t[1], t[2], t[3]) :
        kind \in {"s3host", "s3path"},
        t \in {<<Unset, Under("B", <<"p">>), Unset>>,
              <<Under("B", <<>>), Unset, Under("C", <<"q">>)>>,
              <<Under("B", <<"p">>), Under("C", <<"p", "q">>), Unset>>,
              <<Under("B", <<"p">>), Under("C", <<"q">>), Unset>>,
              <<Unset, Under("B", <<"B", "q">>), Unset>>}}
    \cup {Table(kind, Unset, Under("B", <<"p">>), Unset) :
            kind \in {"gcs", "gcsjson", "azure", "azurite", "file"}}
MCStaging ==
    {[res |-> {"q1"},
      methods |-> <<[id |-> "id", type |-> "s3",
                     url |-> [scheme |-> at[1], bucket |-> at[2], key |-> <<"sha">>]]>>] :
        at \in {<<"s3", "B">>, <<"s3", "p">>, <<"", "">>}}

\* Two ids besides the minted ones and the digests Git LFS uses as ids.
Project(p) == <<"organization", "o", "project", p>>
MetaResources == {<<"organization", "o">>, Project("p"), Project("q")}
MetaPrivileges ==
    [s \in {"local", "member"} |-> [r \in MetaResources |->
        IF s = "member" /\ r # Project("q") THEN {"read", "create", "update"} ELSE {}]]
Hash(type, prefixed, digest) == [type |-> type, value |-> [prefixed |-> prefixed, digest |-> digest]]
Reached(type, url) == [type |-> type, id |-> {}, url |-> url]
Document(did, name, hashes, access) ==
    [did |-> did, name |-> name, nameAliases |-> {}, version |-> {}, description |-> {},
     size |-> {}, hashes |-> hashes, grants |-> access, methods |-> {}, project |-> {}]
S1 == Hash("sha256", FALSE, "s1")
\* Full documents, partial ones, respelled, malformed and conflicting checksums,
\* legacy resource paths, emptied lists.
MetaDocuments ==
    {[Document("d1", {<<"dir", "a">>}, {{S1}}, {{Project("p")}}) EXCEPT
        !.size = {1}, !.methods = {{Reached("s3", {"u"})}}],
     [Document("d2", {<<"b">>}, {{Hash("SHA-256", TRUE, "s1"), Hash("MD5", FALSE, "m")}},
          {{<<"programs", "o", "projects", "q">>}}) EXCEPT
        !.nameAliases = {<<"x", "c">>, <<>>}, !.version = {"2"},
        !.methods = {{Reached("S3", {"u"}), Reached("gs", {})}}],
     [Document("d1", {}, {{Hash("SHA-256", FALSE, "bad")}}, {}) EXCEPT
        !.project = {Project("p")}],
     [Document("d1", {<<"b">>}, {}, {}) EXCEPT !.description = {"t"}],
     [Document("d2", {<<>>}, {{Hash("sha256", FALSE, "s2")}}, {{}}) EXCEPT !.methods = {{}}],
     Document("d2", {}, {{S1, Hash("SHA-256", FALSE, "s2")}}, {}),
     [Document("d2", {<<"dir", "c">>}, {{Hash("md5", FALSE, "n")}}, {{<<"organization", "o">>}}) EXCEPT
        !.project = {Project("q")}, !.size = {2}]}
Candidate(ids, name, sums, access) ==
    [ids |-> ids, name |-> name, description |-> {}, size |-> 1, checksums |-> sums,
     grants |-> access, methods |-> {Reached("s3", {"v"})}]
MetaCandidates ==
    {Candidate(<<>>, {<<"d", "b">>}, <<S1>>, {{<<"organization", "o">>, Project("p")}}),
     Candidate(<<"d1", "d2">>, {<<>>}, <<Hash("md5", FALSE, "m"), Hash("SHA-256", TRUE, "s2"), S1>>, {{Project("q")}}),
     Candidate(<<>>, {}, <<S1>>, {{Project("p"), Project("q")}})}
MetaLfs ==
    {[id |-> {}, ids |-> <<>>, name |-> {<<"a">>}, description |-> {}, size |-> 1,
      checksums |-> <<Hash(t, FALSE, "s1")>>, methods |-> {Reached("s3", {"w"})}] : t \in {"sha256", "SHA-256"}}
MetaMint(d, r) == IF r = Project("p") THEN "mp" ELSE "mq"
Metadata == INSTANCE RecordMetadata WITH
    Sessions <- {"local", "member"}, Resources <- MetaResources, Privileges <- MetaPrivileges,
    Authz <- [s \in {"local", "member"} |-> {}], Unenforced <- {"local"}, Anonymous <- {},
    Ids <- {"d1", "d2", "s1", "s2", "mp", "mq"}, Digests <- {"s1", "s2"}, Mint <- MetaMint,
    Documents <- MetaDocuments, Candidates <- MetaCandidates, LfsCandidates <- MetaLfs

\* The object of a download is replaced by a shorter one.
MCSizes == <<3, 2>>
Routing == INSTANCE StorageRouting
             WITH rows <- located, Tables <- MCTables, Staging <- MCStaging

MCInit ==
    /\ load \in {"usage", "lfs", "issue", "download", "routing", "metadata"}
    /\ Init /\ LfsInit /\ IssueInit /\ DownloadInit /\ Routing!Init /\ Metadata!Init
    /\ load # "usage" => rows = {}
    /\ load # "issue" => attribution = {}
    /\ load # "download" => ranges
    /\ load # "routing" => creds["B"] = "gcs"

\* All requests of the behaviour have been answered, or all downloads made.
AllAnswered ==
    /\ \/ /\ load = "issue" /\ up /\ spent.asks = MaxAsks
          /\ \A p \in Callers : issue[p].pc = "idle"
       \/ load = "metadata" /\ writes = MaxWrites
       \/ load = "download" /\ runs = MaxRuns /\ run.pc = "idle"
    /\ UNCHANGED allVars

MCNext ==
    \/ AllAnswered
    \/ load = "usage" /\ Next /\ UNCHANGED <<load, lfsVars, issueVars, downloadVars, routeVars, metaVars>>
    \/ load = "lfs" /\ LfsNext /\ UNCHANGED <<load, vars, issueVars, downloadVars, routeVars, metaVars>>
    \/ load = "issue" /\ IssueNext /\ UNCHANGED <<load, vars, lfsVars, downloadVars, routeVars, metaVars>>
    \/ load = "download" /\ DownloadNext /\ UNCHANGED <<load, vars, lfsVars, issueVars, routeVars, metaVars>>
    \/ load = "routing" /\ Routing!Next
         /\ UNCHANGED <<load, vars, lfsVars, issueVars, downloadVars, metaVars>>
    \/ load = "metadata" /\ Metadata!Next
         /\ UNCHANGED <<load, vars, lfsVars, issueVars, downloadVars, routeVars>>

MCSpec == MCInit /\ [][MCNext]_allVars

DownloadFindsUpload == Routing!DownloadFindsUpload
ClaimsKept == Metadata!ClaimsKept
WireFaithful == Metadata!WireFaithful
==============================================================================
