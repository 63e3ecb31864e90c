-------------------------- MODULE MCBucketRegistry --------------------------
(* Workloads: which requests meet.  Each is small, and the run explores them  *)
(* all: signing against rotation and deletion, scope lookups against scope     *)
(* administration, two administrators, and the first use of the key file.      *)
EXTENDS BucketRegistry, TLC

CONSTANTS b1, b2, q1, q2, k1, k2

Admin == [enforced |-> FALSE, may |-> {}]
Owner(q) == [enforced |-> TRUE, may |-> {q}]

Request(kind, b, q, k, who) ==
    [kind |-> kind, bucket |-> b, project |-> q, key |-> k, exact |-> TRUE, region |-> FALSE, prefix |-> "", who |-> who]
Put(b, q, k, who) == Request("put", b, q, k, who)
Keep(b) == [Request("put", b, None, None, Admin) EXCEPT !.region = TRUE]
Other(kind, b, q, who) == Request(kind, b, q, None, who)

Signing ==
    {Put(b1, None, k, Admin) : k \in {k1, k2}}
      \cup {Keep(b1), Other("sign", b1, None, Admin), Other("delete", b1, None, Owner(q1)), Other("add", b1, q1, Admin),
            Other("drop", b1, q1, Owner(q1))}

Scoping ==
    {Put(b1, q1, k1, Owner(q1)), Other("lookup", b1, q1, Admin), Other("lookup", b1, q2, Admin),
     Other("add", b1, q2, Owner(q2)), Other("drop", b1, q1, Owner(q1)), Other("drop", b1, q2, Owner(q2)),
     Other("delete", b1, None, Owner(q2)), Other("cleanup", None, q1, Owner(q1)), [Other("add", b1, q1, Admin) EXCEPT !.prefix = "data"],
     [Other("drop", b1, q1, Admin) EXCEPT !.prefix = "data"]}

Administration ==
    {Put(b1, q1, k1, Owner(q1)), Put(b2, q1, k1, Owner(q1)), Put(b1, q2, None, Owner(q2)),
     Other("drop", b1, q1, Owner(q1)), Other("drop", b1, q2, Owner(q2))}

Instance(engine, requests, config, kek) ==
    [engine |-> engine, requests |-> requests, config |-> config, kekFile |-> kek]

Config == [bucket |-> b1, key |-> k1, projects |-> {q1}]

MCWorkloads ==
    [signing |-> Instance("postgres", Signing, None, "first"),
     scoping |-> Instance("sqlite", Scoping, None, "first"),
     administration |-> Instance("sqlite", Administration, None, "first"),
     configured |-> Instance("sqlite", {Put(b1, q1, k2, Admin), Keep(b1), Other("sign", b1, None, Admin),
                                          [Other("sign", b1, None, Admin) EXCEPT !.exact = FALSE], Other("delete", b1, None, Owner(q1))}, Config, "first"),
     firstUse |-> Instance("sqlite", {Put(b1, None, k1, Admin), Put(b2, None, k1, Admin), Put(b1, q1, k2, Admin)}, None, None),
     firstStart |-> Instance("sqlite", {Put(b1, q1, k2, Admin)}, Config, None)]

PGWorkloads == [rivals |-> Instance("postgres", {Put(b1, None, k, Admin) : k \in {k1, k2}}, None, "first")]

Symmetry == Permutations(Calls)

=============================================================================
