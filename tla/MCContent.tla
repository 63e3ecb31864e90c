----------------------------- MODULE MCContent -----------------------------
(* The content catalogue, one side of it busy in a behaviour.                  *)
(*   identity: ids, SHA-256 values, sizes and aliases, two concurrent calls of *)
(*     one unrestricted session;                                               *)
(*   reads: every route over catalogues with rows that older servers left;     *)
(*   reports: the reports of usage;                                            *)
(*   events: provider events, which no report reads, and URLs being issued.    *)
EXTENDS ContentStore, TLC

CONSTANTS local, Loads

VARIABLE load

NoPrivileges == [s \in Sessions |-> [r \in Resources |-> {}]]
NoAuthz      == [s \in Sessions |-> {}]

\* A request names at most one id: alias besides its own id; a request without
\* a SHA-256 carries no size.
IdentityInputs ==
    {obj \in [id : Ids, sha : SHAs \cup {NoSHA}, size : Sizes, res : {Nil},
              meths : {Nil}, aliases : {{}} \cup {{a} : a \in Ids}, public : {FALSE}] :
       obj.id \notin obj.aliases /\ (obj.sha = NoSHA => obj.size = 0)}

\* A catalogue of an older server: the same SHA-256 may have several rows.
Legacy == {[sha |-> s, size |-> 0, res |-> {}, meths |-> {}, policy |-> "none"] :
             s \in LegacySHAs}

Symmetry == Permutations(Ids) \cup Permutations(Clients)

-----------------------------------------------------------------------------
(* The reads. *)

CONSTANTS MaxId, MinBatch, MaxChanges

VARIABLES catalogue, request, late, changes

readVars == <<catalogue, request, late, changes>>

ReadSessions == {"steward", "reader", "global", "listed", "anonymous", "local"}
ReadResources == {"o", "op", "oq", "programs"}

ReadPrivileges ==
    [s \in ReadSessions |-> [r \in ReadResources |->
        CASE s = "steward" /\ r # "programs" -> Verbs
          [] s = "reader" /\ r = "op" -> {"read"}
          [] s = "global" /\ r = "programs" -> {"read"}
          [] OTHER -> {}]]

ReadAuthz == [s \in ReadSessions |-> IF s = "listed" THEN {"oq"} ELSE {}]

\* Two rows of one content, two contents, and a row known by another checksum only.
Stored(sha, sums, size, name, note, urls, res, policy, born, stamp) ==
    [sha |-> sha, size |-> size, name |-> name, names |-> IF name = "b" THEN {"c"} ELSE {},
     note |-> note, sums |-> sums, urls |-> urls, res |-> res, policy |-> policy,
     born |-> born, stamp |-> stamp]
X(size, name, note, urls, res, policy, born, stamp) ==
    Stored("x", {"x", "m"}, size, name, note, urls, res, policy, born, stamp)
Y(res, policy) == Stored("y", {"y"}, 1, "a", "", {"u"}, res, policy, 2, 2)
Z(res, policy) == Stored("", {"m"}, 1, "b", "", {"u"}, res, policy, 3, 1)
Tables3(a, b, c, target) ==
    [rows |-> <<a, b, c>>, alias |-> [i \in 4..5 |-> IF i = 4 THEN target ELSE 0]]

PolicyRows == {"public", "private", "unknown"}
GrantSets == {{}, {"op"}, {"oq"}, {"op", "oq"}, {"o"}, {"o", "op"}}

MCCatalogues ==
    LET none == [Stored("", {}, 0, "", "", {}, {}, "", 0, 0) EXCEPT !.names = {}]
    IN  {Tables3(X(1, "a", "n", {"u"}, {"op"}, "private", 2, 1),
                 X(0, "b", "", {"v"}, g, p, 1, 2), none, 1) :
             g \in GrantSets, p \in {"public", "private"}}
        \cup {Tables3(X(1, "a", "n", {"u"}, {"op"}, "private", 2, 1),
                      X(0, "b", "", {"v"}, g, "unknown", 1, 2), none, 1) : g \in {{}, {"op"}}}
        \cup {Tables3(X(1, "a", "n", {"u"}, {"op"}, "private", 1, 1), none, Y(h, p), 3) :
                 h \in {{}, {"op"}, {"oq"}, {"o"}}, p \in {"public", "private"}}
        \cup {Tables3(X(1, "a", "n", {"u"}, {"o"}, "private", 1, 1), none, Y(h, "private"), 3) :
                 h \in {{"op"}, {"oq"}, {"o"}}}
        \cup {Tables3(X(0, "a", "", {"u"}, {"op"}, "private", 2, 3),
                      X(2, "b", "n", {"u"}, {"op"}, p, 1, 2), Z({"op"}, p), 2) : p \in PolicyRows}

List(route, arg, scope, p) ==
    [route |-> route, arg |-> arg, scope |-> scope, start |-> p[1], page |-> p[2], limit |-> p[3]]
Pages == {<<0, 0, 3>>, <<0, 0, 1>>, <<0, 1, 1>>, <<1, 0, 1>>}
Scopes == {"all", "o", "op"}

MCRequests ==
    {[route |-> "get", arg |-> i, method |-> m] : i \in 1..4, m \in {"", "read"}}
    \cup {[route |-> "getBySum", arg |-> a, method |-> m] : a \in {"x", "m"}, m \in {"", "read"}}
    \cup {[route |-> "documents", arg |-> {1, 2, 4}, method |-> m] : m \in {"", "read"}}
    \cup {[route |-> "hashes", arg |-> {"x", "m"}, method |-> m] : m \in {"", "read"}}
    \cup {[route |-> "validity", arg |-> {"x", "y"}]}
    \cup {[route |-> "missing", arg |-> {"x", "y"}, scope |-> "op"]}
    \cup {List("byURL", "u", scope, p) : scope \in {"all", "op"}, p \in Pages}
    \cup {List("byHash", "x", scope, p) : scope \in Scopes, p \in Pages}
    \cup {List("byHash", "m", scope, p) : scope \in {"all", "op"}, p \in {<<0, 0, 3>>, <<0, 1, 1>>}}
    \cup {List("byScope", "", scope, p) : scope \in Scopes, p \in Pages}

Reads == INSTANCE CatalogueReads
           WITH Sessions <- ReadSessions, Resources <- ReadResources,
                Privileges <- ReadPrivileges, Authz <- ReadAuthz,
                Unenforced <- {"local"}, Anonymous <- {"anonymous"},
                Catalogues <- MCCatalogues, Requests <- MCRequests

RoutesAgree == Reads!RoutesAgree

-----------------------------------------------------------------------------
(* The reports. *)

CONSTANT Sqlite

VARIABLES tally, ledger, issued, provider, ingests, report

usageVars == <<tally, ledger, issued, provider, ingests, report>>

\* The rights of "csv" come from the file of a server in local mode.
ReportSessions == {"steward", "member", "org", "global", "anonymous", "csv", "local"}

ReportPrivileges ==
    [s \in ReportSessions |-> [r \in ReadResources |->
        CASE s = "steward" /\ r # "programs" -> Verbs
          [] s \in {"member", "csv"} /\ r = "op" -> Verbs
          [] s = "member" /\ r = "oq" -> {"read"}
          [] s = "org" /\ r = "o" -> Verbs
          [] s = "global" /\ r = "programs" -> {"read"}
          [] OTHER -> {}]]

\* Records of one project, of both, of the organization, and public ones.
ReportCatalogues ==
    {Tables3(X(1, "a", "", {"u"}, {"op"}, "private", 1, 1),
             Stored("y", {"y"}, 1, "a", "", {"u"}, g[1], g[2], 2, 2), Z({"op"}, "private"), 2) :
        g \in {<<{"oq"}, "private">>, <<{"op", "oq"}, "private">>, <<{"o"}, "private">>, <<{}, "public">>}}

Count(ups, downs, at) == [ups |-> ups, downs |-> downs, last |-> at]
MCTallies == {<<Count(0, 0, 0), Count(1, 2, 3), Count(0, 1, 1)>>,
              <<Count(1, 1, 2), Count(0, 0, 0), Count(2, 0, 0)>>}

Event(grant, scope, dir, user, place, sha, bytes, time) ==
    [grant |-> grant, scope |-> scope, dir |-> dir, user |-> user, place |-> place, sha |-> sha,
     bytes |-> bytes, time |-> time, url |-> <<place, "k">>]
E1 == Event("g1", "op", "download", "ann", "b", "x", 2, 1)
E2 == Event("g2", "oq", "upload", "ann", "b", "y", 3, 2)
E3 == Event("g3", "o", "download", "bob", "c", "y", 1, 3)
E4 == Event("g1", "op", "download", "ann", "b", "x", 2, 4)
MCLedgers == {{E1, E2}, {E1, E2, E3}}

Grant(e) == [id |-> e.grant, place |-> e.place, url |-> e.url, scope |-> e.scope,
             user |-> e.user, last |-> e.time]
MCGrantTables == {{Grant(E1)}, {Grant(E1), Grant(E2)}, {Grant(E1), Grant(E2), Grant(E3)}}

Ask(kind, scope) == [kind |-> kind, scope |-> scope]
MCAsked ==
    {Ask("files", scope) @@ [cutoff |-> c] : scope \in {"", "o", "op", "oq"}, c \in {0, 2}}
    \cup {Ask("bulk", scope) @@ [cutoff |-> c, ids |-> {1, 2, 3}] : scope \in {"", "op"}, c \in {0, 2}}
    \cup {Ask("file", scope) @@ [id |-> i] : scope \in {"", "oq"}, i \in 1..3}
    \cup {Ask("transfers", scope) @@ [dir |-> d, group |-> g] : scope \in {"", "o", "op"},
             d \in {"all", "upload"}, g \in {"scope", "user", "provider", "object"}}

Seen(id, grant, place, url, time, scope, user) ==
    [id |-> id, grant |-> grant, place |-> place, url |-> url, key |-> <<"k">>, time |-> time,
     scope |-> scope, user |-> user, status |-> IF time = 5 THEN "matched" ELSE ""]
MCBatches ==
    {<<Seen("p1", "", "b", u, t, sc, "")>> : u \in {<<>>, <<"b", "k">>}, t \in {1, 3, 5}, sc \in {"", "o", "op"}}
    \cup {<<Seen("p1", "g2", "c", <<>>, 3, "oq", "eve"), Seen("p2", "gone", "c", <<>>, 4, "o", "")>>,
          <<Seen("p1", "g1", "b", <<>>, 9, "op", ""), Seen("p1", "", "c", <<>>, 3, "op", "")>>,
          <<Seen("p1", "g2", "b", <<>>, 2, "op", ""), Seen("p2", "", "", <<>>, 3, "op", "")>>}

Reports == INSTANCE UsageReports
             WITH Sessions <- ReportSessions, Resources <- ReadResources,
                  Privileges <- ReportPrivileges, Authz <- [s \in ReportSessions |-> {}],
                  Unenforced <- {"local"}, Anonymous <- {"anonymous"},
                  Catalogues <- ReportCatalogues, Requests <- {},
                  Tallies <- MCTallies, Ledgers <- MCLedgers, Issues <- {E3, E4},
                  GrantTables <- MCGrantTables, Asked <- MCAsked, Batches <- MCBatches,
                  Gen3 <- ReportSessions \ {"csv", "local"}, PageLen <- 2,
                  DefaultCutoff <- 2, MaxRows <- 3, Before <- 3, After <- 0,
                  MaxIngests <- 2

ReportsTruthful == Reports!ReportsTruthful
FilesAddUp == Reports!FilesAddUp

-----------------------------------------------------------------------------
\* The parts that are not busy start from one state.  No report reads both the
\* counters and the events, so each of their values is met once.
MCInit ==
    /\ load \in Loads
    /\ Init /\ (load # "identity" => \A i \in Ids : db.rows[i] = NoRow)
    /\ IF load = "reads" THEN Reads!Init ELSE Reports!Init
    /\ Reports!ReportInit
    /\ load \notin {"reads", "reports"} => catalogue = CHOOSE c \in ReportCatalogues : TRUE
    /\ ledger = {E1, E2} <=> tally = CHOOSE t \in MCTallies : TRUE
    /\ load # "reports" => ledger = {E1, E2}
    /\ load # "events" => issued = {Grant(E1), Grant(E2)}

MCNext ==
    \/ load = "identity" /\ Next /\ UNCHANGED <<load, readVars, usageVars>>
    \/ load = "reads" /\ Reads!Next /\ UNCHANGED <<load, vars, usageVars>>
    \/ load = "reports" /\ Reports!ReportNext /\ UNCHANGED <<load, vars, provider>>
    \/ /\ load = "events" /\ (Reports!Ingesting \/ Reports!Issuing)
       /\ UNCHANGED <<load, vars, catalogue, tally>>
    \/ load = "events" /\ ingests = 2 /\ UNCHANGED <<load, vars, readVars, usageVars>>

MCSpec == MCInit /\ [][MCNext]_<<load, vars, readVars, usageVars>>
=============================================================================
