------------------------ MODULE MCStorageInspection ------------------------
(* A bucket with the keys p/a, p/ab, p/b and pq/c, in this order; the scope of *)
(* the project has the prefix p.                                               *)
EXTENDS StorageInspection, TLC

MCInProject == {1, 2, 3}
MCStarting == <<{1, 2}, {2}, {3}, {4}>>
MCDirOf == <<"p", "p", "p", "pq">>
\* A directory is listed without its trailing slash, so that pq/c is found too.
MCInDir == [d \in {"p", "pq"} |-> IF d = "p" THEN {1, 2, 3, 4} ELSE {4}]

Nothing == [kind |-> "none", scoped |-> FALSE, mode |-> "items", heads |-> FALSE,
            targets |-> {}, items |-> <<>>]
Inspect(mode, heads) ==
    [Nothing EXCEPT !.kind = "inspect", !.scoped = TRUE, !.mode = mode, !.heads = heads]
Validate(targets) == [Nothing EXCEPT !.kind = "validate", !.targets = targets]
Probe(items) == [Nothing EXCEPT !.kind = "probe", !.items = items]
Delete(items) == [Nothing EXCEPT !.kind = "delete", !.scoped = TRUE, !.items = items]

At(key, expect) == [key |-> key, expect |-> expect]
Bucket(a, b, c, d) == <<a, b, c, d>>

Run(n, s, x, y) == [changes |-> n, store |-> s, asks |-> ("one" :> x @@ "two" :> y)]

MCWorkloads ==
    {   \* inventories over two pages, beside a deletion and another inventory
        Run(1, Bucket(0, 1, 0, 0), Inspect("items", FALSE), Delete(<<2, 4, 0>>)),
        Run(1, Bucket(1, Absent, 0, 0), Inspect("items", TRUE), Inspect("exists", FALSE)),
        Run(2, Bucket(0, 1, 1, 1), Inspect("summary", FALSE), Nothing),
        \* refused by the scope
        Run(1, Bucket(0, 1, Absent, 0), [Inspect("items", FALSE) EXCEPT !.scoped = FALSE],
            [Delete(<<1>>) EXCEPT !.scoped = FALSE]),
        \* validation: a dense directory, a directory over the limit, single keys
        Run(1, Bucket(0, 1, Absent, 0), Validate({At(1, 0), At(2, Unknown), At(4, 0), At(0, 0)}), Nothing),
        Run(2, Bucket(0, 1, 1, 0), Validate({At(1, 1), At(3, 1)}), Nothing),
        Run(1, Bucket(0, Absent, 1, 0), Validate({At(1, 0), At(1, 1)}), Delete(<<1>>)),
        \* probes, one of them twice
        Run(2, Bucket(0, Absent, 1, 0), Probe(<<At(1, 0), At(1, 0), At(2, 0)>>), Nothing),
        Run(1, Bucket(0, Absent, 1, 0), Probe(<<At(3, 1), At(0, 1)>>), Inspect("items", FALSE)) }
=============================================================================
