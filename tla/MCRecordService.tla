-------------------------- MODULE MCRecordService --------------------------
(* Two projects of one organization and two ids for one content: an owner of    *)
(* the first project, a guest who owns the second and may add to the first, a   *)
(* plain-list session and an anonymous one.  In a behaviour either two calls of *)
(* the record service run at a time, or a client calls the store with any       *)
(* record.                                                                      *)
EXTENDS RecordService

CONSTANTS owner, guest, listed, anon, r1, r2, i1, i2, a, m, u, c1

VARIABLE load

ServicePrivileges ==
    [s \in Sessions |-> [r \in Resources |->
        CASE s = owner /\ r = r1 -> Verbs
          [] s = guest /\ r = r1 -> {"create"}
          [] s = guest /\ r = r2 -> Verbs
          [] OTHER -> {}]]

ServiceAuthz == [s \in Sessions |-> IF s = listed THEN {r1} ELSE {}]

Organization == {Resources}

row(sha, res, meths, policy) ==
    [sha |-> sha, size |-> 0, res |-> res, meths |-> meths, policy |-> policy]

\* Rows older servers left have no policy; a private row may have lost its grants.
OneRow == {row(a, {r1}, {m}, "private"), row(a, {r1, r2}, {m}, "private"),
           row(a, {}, {m}, "private"), row(a, {r1}, {m}, "none"), row(a, {}, {m}, "public"),
           row(NoSHA, {r1}, {m}, "private")}

Legacy == {row(a, {r1}, {m}, "none"), row(a, {r2}, {m}, "none")}

tables(one, two, alias) ==
    [rows  |-> [i \in Ids |-> IF i = i1 THEN one ELSE two],
     alias |-> [i \in Ids |-> IF i = i2 THEN alias ELSE NoId]]

ServiceCatalogues ==
    {tables(one, NoRow, NoId) : one \in OneRow}
      \cup {tables(one, NoRow, i1) : one \in {r \in OneRow : r.sha = a /\ r.policy # "public"}}
      \cup {tables(one, two, NoId) : one \in Legacy, two \in {r \in Legacy : r.res = {r1}}}
      \cup {tables(one, two, NoId) : one \in {r \in Legacy : r.res = {r1}}, two \in Legacy}

request(op, s, id, obj, targets) ==
    [op |-> op, session |-> s, id |-> id, obj |-> obj, targets |-> targets]

object(id, sha, res, meths) ==
    [NoObject EXCEPT !.id = id, !.sha = sha, !.res = res, !.meths = meths]

Named(ops, s) == {request(op, s, id, NoObject, {}) : op \in ops, id \in Ids}

ServiceRequests ==
    LET update == {object(i1, NoSHA, Nil, {u}), object(i1, NoSHA, {r1}, Nil)}
    IN  Named({"get"}, guest) \cup Named({"delete"}, owner)
        \cup {request("bulkDelete", owner, i2, NoObject, {})}
        \cup {request("getBySHA", guest, i1, object(i1, a, Nil, Nil), {})}
        \cup {request("update", owner, id, obj, {}) : id \in Ids, obj \in update}
        \cup {request("register", s, i1, object(id, sha, {r2}, {m}), {}) :
                 s \in {guest}, id \in Ids, sha \in {a, NoSHA}}
        \cup {request("methods", owner, id, object(i1, NoSHA, Nil, {u}), {}) : id \in Ids}
        \cup {request("bulkMethods", owner, i2, object(i1, NoSHA, Nil, {u}), {})}
        \cup {request("removeGrant", owner, id, NoObject, {r1}) : id \in Ids}
        \cup {request("createAlias", owner, i2, object(i1, NoSHA, Nil, Nil), {})}
        \cup {request(op, owner, i1, object(i2, a, {r1}, {u}), {r1}) :
                 op \in {"overwrite", "deleteByScope", "repair"}}
        \cup {request("deleteByChecksums", owner, i1, object(i1, a, Nil, Nil), {})}

-----------------------------------------------------------------------------
\* What a client of the store may register, replace or delete.
StoreInputs ==
    [id : Ids, sha : SHAs, size : Sizes, res : {Nil} \cup SUBSET Resources,
     meths : {Nil, {}, {m}}, aliases : {{}}, public : BOOLEAN]

StoreInit ==
    /\ Init
    /\ db.rows[i1] \in {NoRow, row(a, {r1}, {m}, "none")} /\ db.rows[i2] = NoRow
    /\ call = [c \in Clients |-> Ready]

\* One client and one location are enough.
StoreNext ==
    /\ Next
    /\ \A c \in Clients \ {c1} : txn'[c] = txn[c]
    /\ \A i \in Ids : LET written == txn'[c1].writes.rows[i]
                      IN  written \notin {NoRow, Keep} => u \notin written.meths

MCInit == \/ load = "service" /\ ServiceInit
          \/ load = "store" /\ StoreInit

MCNext == \/ load = "service" /\ ServiceNext /\ UNCHANGED load
          \/ load = "store" /\ StoreNext /\ UNCHANGED <<load, call>>

MCSpec == MCInit /\ [][MCNext]_<<load, serviceVars>>
            /\ WF_<<call, txn>>(load = "service" /\ \E c \in Clients : Running(c))
=============================================================================
