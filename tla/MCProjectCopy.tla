-------------------------- MODULE MCProjectCopy --------------------------
(* Three ids, two contents; the command is run by the owner of both projects *)
(* or on a server that enforces nothing.                                     *)
EXTENDS ProjectCopy

CONSTANTS owner, local, r1, r2, i1, i2, i3, a, b, m

CopyPrivileges == [s \in Sessions |-> [r \in Resources |-> Verbs]]

CopyAuthz == [s \in Sessions |-> {}]

NoOrganization == {}

row(sha, res) == [sha |-> sha, size |-> 0, res |-> res, meths |-> {m}, policy |-> "private"]

NoLegacy == {}

\* The first id may be a legacy duplicate of either of the others.
CopyCatalogues ==
    {[rows  |-> [i \in Ids |-> IF i = i1 THEN one ELSE IF i = i2 THEN two ELSE three],
      alias |-> [i \in Ids |-> NoId]] :
       one \in {row(a, {r1})}, two \in {row(a, {r1}), row(b, {r1, r2})},
       three \in {NoRow, row(b, {r1})}}
      \cup {[rows  |-> [i \in Ids |-> IF i = i1 THEN row(a, {r1}) ELSE IF i = i2 THEN row(NoSHA, {r1}) ELSE NoRow],
             alias |-> [i \in Ids |-> NoId]]}

object(id, sha, res) == [NoObject EXCEPT !.id = id, !.sha = sha, !.res = res, !.meths = {m}]

\* The calls to a server are single steps here, so one request stands for the service's.
CopyRequests == {[op |-> "get", session |-> owner, id |-> i1, obj |-> NoObject, targets |-> {}]}

OtherRecords == {object(i3, a, {r1}), object(i3, b, {r1}), object(i1, b, {r1}), object(i1, a, {r2})}

\* Pages of one record and of two, with batches as large as the page.
SomeWalks == {[session |-> owner, limit |-> 2], [session |-> local, limit |-> 1]}

SomeScopes == {{}}
=============================================================================
