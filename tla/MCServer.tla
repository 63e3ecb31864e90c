------------------------------ MODULE MCServer ------------------------------
(* What the server does around a request, one part of it busy in a behaviour:  *)
(* its start, from the configuration and from the database schema; the         *)
(* authentication of requests; and the bucket registry with its caches         *)
(* (MCBucketRegistry).                                                         *)
EXTENDS MCBucketRegistry, RequestAuth

CONSTANT MaxFaults

VARIABLES busy,
          engine, table, matching, at, faults, known, broken, met,
          file, environ, database, keyFiles, proc, starts, startFaults

\* The deployments the documentation names: gen3 with the built-in mechanism
\* and with plugins, gen3 mock, and local mode with and without a file.
Gen3 == [mode |-> "gen3", authn |-> "builtin", authz |-> FALSE, mock |-> FALSE,
         mockHeader |-> FALSE, basic |-> FALSE, csv |-> FALSE, rows |-> <<>>]
Local == [Gen3 EXCEPT !.mode = "local", !.basic = TRUE]

Line(user, password, methods) == [user |-> user, password |-> password, methods |-> methods]

Files ==
    {<<>>, <<Line("listed", "right", {"read"})>>,
     <<Line("listed", "right", {"read"}), Line("listed", "right", {"write"})>>,
     <<Line("listed", "right", {"write"}), Line("listed", "wrong", {"*"})>>,
     <<Line("admin", "wrong", {"*"}), Line("listed", "right", {"*"})>>}

MCDeployments ==
    {Gen3, [Gen3 EXCEPT !.authn = "plugin"],
     [Gen3 EXCEPT !.mock = TRUE, !.mockHeader = TRUE, !.authz = TRUE], Local,
     [Local EXCEPT !.basic = FALSE]}
      \cup {[Local EXCEPT !.csv = TRUE, !.rows = f, !.authn = a] : f \in Files, a \in {"builtin", "plugin"}}

Sent(route, hdr, retryable) == [route |-> route, hdr |-> hdr, retryable |-> retryable]

MCMessages ==
    {Sent("protected", h, TRUE) : h \in {"current", "admin", "listed", "unlisted"}}
      \cup {Sent("protected", h, FALSE) : h \in {"none", "other"}}
      \cup {Sent("metadata", "none", FALSE)}

MCOlder ==
    [sqlite |-> {"empty", "current", "oldColumns", "oldScope", "oldCredential"},
     postgres |-> {"empty", "current", "retiredColumn", "oldest"}]

\* Configurations: one bucket under two keys and two secrets, configured with its
\* projects or named by a scope, legacy lists, paths, keys and modes, and ones
\* that are refused.
MCBucket(bucket, access, secret, resources) ==
    [bucket |-> bucket, provider |-> "", region |-> TRUE, access |-> access, secret |-> secret,
     endpoint |-> FALSE, resources |-> resources]
MCScope(bucket, path, prefix) ==
    [org |-> "o", project |-> "p", id |-> <<>>, bucket |-> bucket, path |-> path, prefix |-> prefix,
     orgSub |-> <<>>, projectSub |-> <<>>]
MCProject == [project |-> "p", path |-> <<>>, prefix |-> <<>>, sub |-> <<"p">>]
MCResource == <<[org |-> "o", orgPath |-> <<"o">>, projects |-> <<MCProject>>]>>
WholeOrg == <<[org |-> "o", orgPath |-> <<"o">>, projects |-> <<>>]>>

MCBase == [sqlite |-> "x.db", mode |-> "local", user |-> "u", pass |-> "p"]
Configured(more) == [x \in DOMAIN MCBase \cup DOMAIN more |-> IF x \in DOMAIN more THEN more[x] ELSE MCBase[x]]
Listed(bs) == Configured([buckets |-> bs])

MCFiles ==
    {Listed(<<MCBucket("data", "k1", "s1", MCResource)>>),
     Listed(<<MCBucket("data", "k1", "s2", MCResource), MCBucket("Data_2", "", "", <<>>)>>),
     Listed(<<[MCBucket("data", "k1", "s2", MCResource) EXCEPT !.provider = "s3"],
              [MCBucket("Data_2", "", "", WholeOrg) EXCEPT !.provider = "file"]>>),
     Listed(<<MCBucket("data", "k2", "s2", MCResource)>>),
     Listed(<<MCBucket("data", "k2", "s2", <<>>)>>),
     Listed(<<MCBucket("data", "k1", "s1", <<>>), MCBucket("data", "k2", "s2", MCResource)>>),
     Configured([scopes |-> <<MCScope("data", <<>>, <<"q">>)>>]),
     Configured([s3_credentials |-> <<MCBucket("data", "k1", "s1", WholeOrg)>>,
                 scopes |-> <<MCScope("", <<"s3", "data", <<"r">>>>, <<>>)>>]),
     Configured([buckets |-> <<MCBucket("data", "k1", "s1", <<>>)>>, master |-> "m", keyFile |-> "key",
                 scopes |-> <<MCScope("data", <<>>, <<"q">>)>>]),
     Configured([user |-> "", pass |-> "", csv |-> "broken"]),
     Configured([user |-> "", pass |-> "", open |-> TRUE, mock |-> TRUE, plugin |-> "missing"]),
     Configured([sqlite |-> "", postgres |-> TRUE, mode |-> "gen3", plugin |-> "loads"])}

MCEnvironments ==
    {<<>>, [sqlite |-> "y.db"], [master |-> "m"], [master |-> "malformed"], [manager |-> "aws-kms"],
     [mode |-> "gen3", mock |-> TRUE], [csv |-> "loads", keyFile |-> "key"], [parses |-> FALSE], [open |-> FALSE]}

MCNameClass == [data |-> "plain", Data_2 |-> "mixed"]

Upgrade == INSTANCE SchemaUpgrade
          WITH Servers <- Calls, Records <- {q1}, Buckets <- {b1}, Older <- MCOlder

Start == INSTANCE ServerStart
          WITH Files <- MCFiles, Environments <- MCEnvironments, NameClass <- MCNameClass,
               MaxStarts <- 2, faults <- startFaults

schemaVars == <<engine, table, matching, at, faults, known, broken, met>>
startVars == <<file, environ, database, keyFiles, proc, starts, startFaults>>
allVars == <<busy, vars, authVars, schemaVars, startVars>>

\* The parts that are not busy start in one state only.
MCInit ==
    /\ busy \in {"buckets", "auth", "schema", "start"}
    /\ Init /\ AuthInit /\ Upgrade!Init /\ Start!Init
    /\ busy # "buckets" => load = "signing"
    /\ busy # "auth" => cfg = Gen3
    /\ busy # "schema" => engine = "sqlite" /\ known = {}
    /\ busy # "start" => file = Listed(<<MCBucket("data", "k1", "s1", MCResource)>>) /\ environ = <<>>

MCNext ==
    \/ busy = "buckets" /\ Next /\ UNCHANGED <<busy, authVars, schemaVars, startVars>>
    \/ busy = "auth" /\ AuthNext /\ UNCHANGED <<busy, vars, schemaVars, startVars>>
    \/ busy = "schema" /\ Upgrade!Next /\ UNCHANGED <<busy, vars, authVars, startVars>>
    \/ busy = "start" /\ Start!Next /\ UNCHANGED <<busy, vars, authVars, schemaVars>>

MCSpec == MCInit /\ [][MCNext]_allVars

ServesUpgraded == Upgrade!ServesUpgraded
StartedAsConfigured == Start!StartedAsConfigured
StartsSucceed == Upgrade!StartsSucceed
=============================================================================
