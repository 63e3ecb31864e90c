------------------------ MODULE BucketRegistryProofs ------------------------
(***************************************************************************)
(* What BucketRegistry guarantees for every number of concurrent requests, *)
(* buckets, projects, keys and prefixes, on either engine: one key seals   *)
(* all credentials, the caches answer what the tables hold, and a          *)
(* registration stays until somebody changes it.                           *)
(***************************************************************************)
EXTENDS BucketRegistry, TLAPS

\* Where a call may be, by what it is about to do.
ScopePcs  == {"scopeRead", "scopeInsert", "scopeUpdate", "seed"}
SealedPcs == {"unique", "trigger", "upsert", "commit"}
PutPcs    == {"seal", "writeKek"} \cup SealedPcs
DropPcs   == {"drop", "clear", "siblings"}
LastPcs   == {"aliases", "resolveId"}
GonePcs   == {"delScopes", "delCred"}
Pcs == {"idle", "put", "add", "cleanup", "lookup", "remember", "sign", "store", "forget"}
         \cup ScopePcs \cup PutPcs \cup DropPcs \cup LastPcs \cup GonePcs

CallStates ==
    [pc : Pcs, req : Requests \cup {None}, id : Ids \cup {None},
     seen : Keys \cup Scope \cup Buckets \cup {None}, kek : Calls \cup {None, "empty", "first"},
     raced : SUBSET {"scope", "cred"}, aliases : SUBSET Buckets]

TypeInv ==
    /\ load \in DOMAIN Workloads
    /\ up \in BOOLEAN
    /\ cred \in [Ids -> Credential \cup {None}]
    /\ scope \in [Projects -> Scope \cup {None}]
    /\ kekFile \in Calls \cup {None, "empty", "first"}
    /\ scopeCache \in [Projects -> [row : Scope \cup {None}, raced : BOOLEAN, orphaned : BOOLEAN] \cup {None}]
    /\ client \in [Buckets -> [key : Keys, raced : BOOLEAN] \cup {None}]
    /\ respelt \in [Buckets -> Keys \cup {None}]
    /\ call \in [Calls -> CallStates]

\* The bucket a credential id was derived from.
BucketOf(i) == i[1]

\* The request a call serves at each place, and what the call has found out for it.
Shape(c) ==
    /\ c.pc # "idle" => c.req \in Requests
    /\ c.pc \in {"put", "add", "cleanup", "lookup", "sign"} => c.req.kind = c.pc
    /\ c.pc = "remember" => c.req.kind = "lookup" /\ c.seen \in Scope \cup {None}
    /\ c.pc = "store" => c.req.kind = "sign" /\ c.seen \in Keys
    /\ c.pc \in ScopePcs =>
         /\ c.req.kind \in {"put", "add"} /\ c.req.project # None
         /\ c.req.kind = "put" => c.seen \in Keys \cup {None}
    /\ c.pc \in PutPcs => c.req.kind = "put" /\ c.seen \in Keys
    /\ c.pc \in ScopePcs \cup PutPcs \cup GonePcs => c.id # None
    /\ c.pc \in DropPcs =>
         /\ c.req.kind \in {"drop", "cleanup"}
         /\ c.req.kind = "cleanup" => c.id # None
         /\ c.pc = "siblings" /\ c.req.kind = "drop" => c.seen = c.req.bucket
    /\ c.pc \in LastPcs \cup GonePcs => c.req.kind \in {"delete", "drop", "cleanup"}
    /\ c.pc = "forget" => c.req.kind \in {"put", "delete", "drop", "cleanup"}
    /\ c.pc \notin {"idle", "cleanup", "lookup", "remember"} => c.req.bucket \in Buckets
    /\ c.id # None => BucketOf(c.id) = c.req.bucket

\* What a call that was not overtaken knows of the scopes sc: the one it is about
\* to cache or to update, or that none is left for the credential it deletes.
ScopeTrue(c, sc) ==
    "scope" \notin c.raced =>
      /\ c.pc = "seed" => sc[c.req.project] = Wanted(c)
      /\ c.pc = "scopeUpdate" => sc[c.req.project] # None
      /\ c.pc = "remember" => c.seen = sc[c.req.project]
      /\ c.pc \in LastPcs \cup {"delScopes"} /\ c.req.kind # "delete" =>
           \A q \in Projects : sc[q] # None =>
             IF c.id # None THEN sc[q].id # c.id ELSE sc[q].bucket # c.req.bucket

\* What a call that was not overtaken knows of the credentials cr: its bucket has
\* the key it signs with, and keys it was not given are those of its credential.
CredTrue(c, cr) ==
    "cred" \notin c.raced =>
      /\ c.pc = "store" =>
           \E i \in Ids : cr[i] # None /\ cr[i].bucket = c.req.bucket /\ cr[i].key = c.seen
      /\ c.pc \in ScopePcs \cup PutPcs /\ c.req.kind = "put" /\ c.req.key = None /\ c.seen # None =>
           cr[c.id] # None /\ cr[c.id].key = c.seen

\* The key file kf as a call left or found it.
KekTrue(c, kf) ==
    /\ c.pc = "writeKek" => kf = "empty"
    /\ c.pc \in SealedPcs => c.kek = kf /\ kf \notin {None, "empty"}

Fine(c, cr, sc, kf) == Shape(c) /\ ScopeTrue(c, sc) /\ CredTrue(c, cr) /\ KekTrue(c, kf)

\* The rows.
RowsInv ==
    /\ \A i \in Ids : cred[i] # None =>
         cred[i].bucket = BucketOf(i) /\ cred[i].kek = kekFile /\ kekFile \notin {None, "empty"}
    /\ \A q \in Projects : scope[q] # None => scope[q].bucket = BucketOf(scope[q].id)

\* One call at most creates the key file.
OneWriter == \A p, r \in Calls : call[p].pc = "writeKek" /\ call[r].pc = "writeKek" => p = r

\* Who will drop or replace the cached entry of project q.
ScopeChanger(c, q) == c.pc \in {"seed", "clear"} /\ c.req.project = q

CacheInv ==
    \A q \in Projects :
      scopeCache[q] # None /\ ~scopeCache[q].raced /\ ~scopeCache[q].orphaned =>
        scopeCache[q].row = scope[q] \/ \E p \in Calls : ScopeChanger(call[p], q)

\* A process that does not run has nothing in memory.
DownInv ==
    ~up => /\ \A p \in Calls : call[p].pc = "idle"
           /\ \A q \in Projects : scopeCache[q] = None
           /\ \A b \in Buckets : client[b] = None

IInv ==
    /\ TypeInv
    /\ \A p \in Calls : Fine(call[p], cred, scope, kekFile)
    /\ RowsInv
    /\ OneWriter
    /\ SignersCurrent
    /\ CacheInv
    /\ DownInv

-----------------------------------------------------------------------------
(* The helpers. *)

\* Ids and the buckets they name.
LEMMA DerivedId ==
    ASSUME NEW b \in Buckets, NEW k \in Keys
    PROVE  DeriveCredentialID(b, k) \in Ids /\ BucketOf(DeriveCredentialID(b, k)) = b
BY DEF DeriveCredentialID, Ids, BucketOf

\* A lookup by bucket finds a credential of that bucket, nothing, or fails.
LEMMA CredentialFound ==
    ASSUME TypeInv, RowsInv, NEW b
    PROVE  /\ GetS3Credential(b) \in Ids \cup {None, Error}
           /\ GetS3Credential(b) \in Ids =>
                /\ cred[GetS3Credential(b)] \in Credential
                /\ cred[GetS3Credential(b)].bucket = b
                /\ BucketOf(GetS3Credential(b)) = b
<1> DEFINE i == CHOOSE j \in IdsOfBucket(b) : TRUE
<1>1. IdsOfBucket(b) # {} => i \in IdsOfBucket(b)
  OBVIOUS
<1> HIDE DEF i
<1>2. GetS3Credential(b) \in {None, Error} \/ (IdsOfBucket(b) # {} /\ GetS3Credential(b) = i)
  BY DEF GetS3Credential, i
<1>3. CASE GetS3Credential(b) \in {None, Error}
  BY <1>3, RegistryAssumption
<1>4. CASE IdsOfBucket(b) # {} /\ GetS3Credential(b) = i
  <2>1. i \in Ids /\ cred[i] # None /\ cred[i].bucket = b
    BY <1>1, <1>4 DEF IdsOfBucket
  <2> QED
    BY <1>4, <2>1 DEF TypeInv, RowsInv
<1> QED
  BY <1>2, <1>3, <1>4

\* A call that serves nothing knows nothing.
LEMMA IdleFine ==
    /\ Idle \in CallStates /\ Idle.pc = "idle"
    /\ \A cr, sc, kf : Fine(Idle, cr, sc, kf)
<1>1. Idle \in CallStates /\ Idle.pc = "idle" /\ Idle.id = None /\ Idle.req = None
  BY DEF Idle, CallStates, Pcs
<1> QED
  BY <1>1 DEF Fine, Shape, ScopeTrue, CredTrue, KekTrue, ScopePcs, SealedPcs, PutPcs, DropPcs,
     LastPcs, GonePcs

\* A call that has just read is overtaken by nothing so far.
LEMMA CurrentType ==
    ASSUME NEW c \in CallStates, NEW what
    PROVE  /\ Current(c, what) \in CallStates /\ Current(c, what).raced = c.raced \ {what}
           /\ Current(c, what).pc = c.pc /\ Current(c, what).req = c.req /\ Current(c, what).id = c.id
           /\ Current(c, what).seen = c.seen /\ Current(c, what).kek = c.kek
BY DEF Current, CallStates

\* One call moves.
LEMMA Moved ==
    ASSUME TypeInv, NEW p \in Calls, NEW c \in CallStates, call' = [call EXCEPT ![p] = c]
    PROVE  /\ call' \in [Calls -> CallStates]
           /\ call'[p] = c
           /\ \A r \in Calls \ {p} : call'[r] = call[r]
BY DEF TypeInv

\* A step that only moves one call, from a place where nobody counts on it to
\* renew a cache.
LEMMA LocalStep ==
    ASSUME IInv, up, NEW p \in Calls, NEW c \in CallStates, Fine(c, cred, scope, kekFile),
           c.pc # "writeKek", call' = [call EXCEPT ![p] = c],
           call[p].pc \notin {"seed", "clear", "forget"},
           UNCHANGED <<load, up, cred, scope, kekFile, scopeCache, client, respelt>>
    PROVE  IInv'
<1>1. TypeInv /\ RowsInv /\ OneWriter /\ SignersCurrent /\ CacheInv
  BY DEF IInv
<1>2. /\ call' \in [Calls -> CallStates] /\ call'[p] = c
      /\ \A r \in Calls \ {p} : call'[r] = call[r]
  BY <1>1, Moved
<1>3. TypeInv'
  BY <1>1, <1>2 DEF TypeInv
<1>4. \A r \in Calls : Fine(call[r], cred, scope, kekFile)'
  BY <1>2 DEF IInv
<1>5. RowsInv'
  BY <1>1 DEF RowsInv
<1>6. OneWriter'
  BY <1>1, <1>2 DEF OneWriter
<1>7. SignersCurrent'
  BY <1>1, <1>2 DEF SignersCurrent, IdsOfBucket
<1>8. CacheInv'
  BY <1>1, <1>2 DEF CacheInv, ScopeChanger
<1>9. DownInv'
  BY DEF DownInv
<1> QED
  BY <1>3, <1>4, <1>5, <1>6, <1>7, <1>8, <1>9 DEF IInv

\* A call that gives up, from such a place.
LEMMA GiveUp ==
    ASSUME IInv, up, NEW p \in Calls, call' = [call EXCEPT ![p] = Idle],
           call[p].pc \notin {"seed", "clear", "forget"},
           UNCHANGED <<load, up, cred, scope, kekFile, scopeCache, client, respelt>>
    PROVE  IInv'
<1>1. Idle \in CallStates /\ Idle.pc # "writeKek" /\ Fine(Idle, cred, scope, kekFile)
  BY IdleFine
<1> QED
  BY <1>1, LocalStep

-----------------------------------------------------------------------------
(* Steps that only move a call. *)

\* What a call at work is known to be.
LEMMA CallKnown ==
    ASSUME IInv, NEW p \in Calls
    PROVE  /\ TypeInv /\ RowsInv
           /\ call[p] \in CallStates
           /\ Shape(call[p]) /\ ScopeTrue(call[p], scope)
           /\ CredTrue(call[p], cred) /\ KekTrue(call[p], kekFile)
BY DEF IInv, TypeInv, Fine

\* The requests of a workload are well formed.
LEMMA LoadType ==
    ASSUME TypeInv
    PROVE  Load \in Workload
BY RegistryAssumption DEF TypeInv, Load

\* A request arrives.
LEMMA BeginStep ==
    ASSUME IInv, NEW p \in Calls, Begin(p)
    PROVE  IInv'
<1> USE DEF ScopePcs, SealedPcs, PutPcs, DropPcs, LastPcs, GonePcs
<1>1. PICK r \in Load.requests :
        call' = [call EXCEPT ![p] = [Idle EXCEPT !.req = r, !.pc = IF r.kind = "delete" THEN "aliases" ELSE r.kind]]
  BY DEF Begin
<1> DEFINE c == [Idle EXCEPT !.req = r, !.pc = IF r.kind = "delete" THEN "aliases" ELSE r.kind]
<1>2. r \in Requests
  BY LoadType DEF IInv, Workload
<1>3. /\ r.kind \in {"put", "add", "drop", "cleanup", "delete", "lookup", "sign"}
      /\ r.kind \notin {"cleanup", "lookup"} => r.bucket \in Buckets
  BY <1>2 DEF Requests
<1>4. /\ c \in CallStates /\ c.req = r /\ c.id = None
      /\ c.pc = IF r.kind = "delete" THEN "aliases" ELSE r.kind
  BY <1>2, <1>3 DEF Idle, CallStates, Pcs
<1>5. call' = [call EXCEPT ![p] = c]
  BY <1>1
<1> HIDE DEF c
<1>6. Shape(c)
  BY <1>2, <1>3, <1>4 DEF Shape
<1>7. ScopeTrue(c, scope) /\ CredTrue(c, cred) /\ KekTrue(c, kekFile) /\ c.pc # "writeKek"
  BY <1>3, <1>4 DEF ScopeTrue, CredTrue, KekTrue
<1> QED
  BY <1>4, <1>5, <1>6, <1>7, LocalStep DEF Begin, Fine

\* PutBucket reuses the credential of the bucket, and takes keys it was not
\* given from it.
LEMMA PutBucketStep ==
    ASSUME IInv, NEW p \in Calls, PutBucket(p)
    PROVE  IInv'
<1> USE DEF ScopePcs, SealedPcs, PutPcs, DropPcs, LastPcs, GonePcs
<1> DEFINE o         == call[p]
           r         == o.req
           found     == GetS3Credential(r.bucket)
           id        == IF found = None THEN DeriveCredentialID(r.bucket, r.key) ELSE found
           rejected  == found = Error \/ (found = None /\ r.key = None)
           scopeOnly == r.key = None /\ ~r.region /\ r.project # None
           key       == IF r.key # None \/ scopeOnly THEN r.key ELSE cred[found].key
           to        == IF r.project # None THEN "scopeRead" ELSE "seal"
           d         == Current(o, "cred")
           c         == [d EXCEPT !.id = id, !.seen = key, !.pc = to]
<1>1. /\ up /\ o.pc = "put" /\ call' = [call EXCEPT ![p] = IF rejected THEN Idle ELSE c]
      /\ UNCHANGED <<load, up, cred, scope, kekFile, scopeCache, client, respelt>>
  BY DEF PutBucket, InFlight
<1>2. /\ o \in CallStates /\ r \in Requests /\ r.kind = "put" /\ r.bucket \in Buckets
      /\ r.key \in Keys \cup {None} /\ r.project \in Projects \cup {None}
  BY <1>1, CallKnown DEF Shape, Requests
<1>3. CASE rejected
  BY <1>1, <1>3, GiveUp
<1>4. CASE ~rejected
  <2>1. /\ id \in Ids /\ BucketOf(id) = r.bucket
        /\ found # None => found = id /\ cred[id] # None /\ cred[id].key \in Keys
    <3>1. TypeInv /\ RowsInv /\ Error # None /\ None \notin Ids \cup Credential
      BY CallKnown, RegistryAssumption
    <3>2. /\ found \in Ids \cup {None, Error}
          /\ found \in Ids => cred[found] \in Credential /\ BucketOf(found) = r.bucket
      BY <3>1, CredentialFound
    <3>3. CASE found = None
      BY <1>2, <1>4, <3>3, DerivedId
    <3>4. CASE found # None
      <4> HIDE DEF found, r
      <4>1. found \in Ids /\ id = found
        BY <1>4, <3>2, <3>4
      <4> QED
        BY <3>1, <3>2, <4>1 DEF Credential
    <3> QED
      BY <3>3, <3>4
  <2>2. /\ key \in Keys \cup {None} /\ (r.project = None => key # None)
        /\ r.key = None /\ key # None => cred[id] # None /\ cred[id].key = key
    BY <1>2, <1>4, <2>1, RegistryAssumption
  <2> HIDE DEF id, key, found
  <2>3. /\ c \in CallStates /\ c.req = r /\ c.id = id /\ c.seen = key
        /\ c.pc = to
    <3>1. to \in Pcs
      BY DEF Pcs
    <3>2. d \in CallStates /\ d.req = o.req
      BY <1>2, CurrentType
    <3> HIDE DEF o, to, d
    <3> QED
      BY <2>1, <2>2, <3>1, <3>2 DEF CallStates
  <2>4. call' = [call EXCEPT ![p] = c]
    BY <1>1, <1>4
  <2> HIDE DEF c, o, r
  <2>5. Shape(c)
    BY <1>2, <2>1, <2>2, <2>3, RegistryAssumption DEF Shape
  <2>6. ScopeTrue(c, scope) /\ CredTrue(c, cred) /\ KekTrue(c, kekFile) /\ c.pc # "writeKek"
    BY <2>2, <2>3 DEF ScopeTrue, CredTrue, KekTrue
  <2> QED
    BY <1>1, <2>3, <2>4, <2>5, <2>6, LocalStep DEF Fine, o
<1> QED
  BY <1>3, <1>4

\* AddBucketScope finds the credential.
LEMMA AddScopeStep ==
    ASSUME IInv, NEW p \in Calls, AddBucketScope(p)
    PROVE  IInv'
<1> USE DEF ScopePcs, SealedPcs, PutPcs, DropPcs, LastPcs, GonePcs
<1> DEFINE o     == call[p]
           found == GetS3Credential(o.req.bucket)
           c     == [o EXCEPT !.id = found, !.pc = "scopeRead"]
<1>1. /\ up /\ o.pc = "add" /\ call' = [call EXCEPT ![p] = IF found \in {None, Error} THEN Idle ELSE c]
      /\ UNCHANGED <<load, up, cred, scope, kekFile, scopeCache, client, respelt>>
  BY DEF AddBucketScope, InFlight
<1>2. /\ o \in CallStates /\ o.req \in Requests /\ o.req.kind = "add" /\ o.req.bucket \in Buckets
      /\ o.req.project # None
  BY <1>1, CallKnown DEF Shape, Requests
<1>3. CASE found \in {None, Error}
  BY <1>1, <1>3, GiveUp
<1>4. CASE found \notin {None, Error}
  <2>1. found \in Ids /\ BucketOf(found) = o.req.bucket
    BY <1>4, CallKnown, CredentialFound
  <2> HIDE DEF found
  <2>2. c \in CallStates /\ c.req = o.req /\ c.id = found /\ c.pc = "scopeRead" /\ c.seen = o.seen
    BY <1>2, <2>1 DEF CallStates, Pcs
  <2>3. call' = [call EXCEPT ![p] = c]
    BY <1>1, <1>4
  <2> HIDE DEF c, o
  <2>4. Shape(c)
    BY <1>2, <2>1, <2>2, RegistryAssumption DEF Shape
  <2>5. ScopeTrue(c, scope) /\ CredTrue(c, cred) /\ KekTrue(c, kekFile) /\ c.pc # "writeKek"
    BY <1>2, <2>2 DEF ScopeTrue, CredTrue, KekTrue
  <2> QED
    BY <1>1, <2>2, <2>3, <2>4, <2>5, LocalStep DEF Fine, o
<1> QED
  BY <1>3, <1>4

\* The scope of the project is read.
LEMMA ScopeReadStep ==
    ASSUME IInv, NEW p \in Calls, ScopeRead(p)
    PROVE  IInv'
<1> USE DEF ScopePcs, SealedPcs, PutPcs, DropPcs, LastPcs, GonePcs
<1> DEFINE o    == call[p]
           row  == scope[o.req.project]
           next == CASE row = None -> "scopeInsert" [] row = Wanted(o) -> "seed" [] OTHER -> "scopeUpdate"
           d    == Current(o, "scope")
           c    == [d EXCEPT !.pc = next]
<1>1. /\ up /\ o.pc = "scopeRead" /\ call' = [call EXCEPT ![p] = c]
      /\ UNCHANGED <<load, up, cred, scope, kekFile, scopeCache, client, respelt>>
  BY DEF ScopeRead, InFlight, GetBucketScope
<1>2. o \in CallStates /\ Shape(o) /\ CredTrue(o, cred)
  BY CallKnown
<1>3. /\ next \in {"scopeInsert", "seed", "scopeUpdate"}
      /\ next = "seed" => row = Wanted(o)
      /\ next = "scopeUpdate" => row # None
  OBVIOUS
<1> HIDE DEF next, row, o
<1>4. /\ c \in CallStates /\ c.pc = next /\ c.req = o.req /\ c.id = o.id /\ c.seen = o.seen
      /\ c.raced = o.raced \ {"scope"}
  <2>1. next \in Pcs
    BY <1>3 DEF Pcs
  <2>2. /\ d \in CallStates /\ d.req = o.req /\ d.id = o.id /\ d.seen = o.seen
        /\ d.raced = o.raced \ {"scope"}
    BY <1>2, CurrentType
  <2> HIDE DEF d
  <2> QED
    BY <2>1, <2>2 DEF CallStates
<1>5. Wanted(c) = Wanted(o)
  BY <1>4 DEF Wanted
<1> HIDE DEF c
<1>6. Shape(c)
  BY <1>1, <1>2, <1>3, <1>4 DEF Shape
<1>7. CredTrue(c, cred)
  BY <1>1, <1>2, <1>3, <1>4 DEF CredTrue
<1>8. ScopeTrue(c, scope) /\ KekTrue(c, kekFile) /\ c.pc # "writeKek"
  BY <1>3, <1>4, <1>5 DEF ScopeTrue, KekTrue, row
<1> QED
  BY <1>1, <1>4, <1>6, <1>7, <1>8, LocalStep DEF Fine, o

\* A cached answer ends a lookup; otherwise the table's is taken along.
LEMMA LookupStep ==
    ASSUME IInv, NEW p \in Calls, LookupBucketScope(p)
    PROVE  IInv'
<1> USE DEF ScopePcs, SealedPcs, PutPcs, DropPcs, LastPcs, GonePcs
<1> DEFINE o   == call[p]
           q   == o.req.project
           row == scope[q]
           c   == [Current(o, "scope") EXCEPT !.pc = "remember", !.seen = row]
<1>1. /\ up /\ o.pc = "lookup" /\ call' = [call EXCEPT ![p] = IF scopeCache[q] # None THEN Idle ELSE c]
      /\ UNCHANGED <<load, up, cred, scope, kekFile, scopeCache, client, respelt>>
  BY DEF LookupBucketScope, InFlight, GetBucketScope
<1>2. /\ o \in CallStates /\ Shape(o) /\ o.req \in Requests /\ o.req.kind = "lookup"
      /\ q \in Projects /\ row \in Scope \cup {None}
  BY <1>1, CallKnown DEF Shape, Requests, TypeInv
<1>3. CASE scopeCache[q] # None
  BY <1>1, <1>3, GiveUp
<1>4. CASE scopeCache[q] = None
  <2> HIDE DEF row
  <2>1. c \in CallStates /\ c.pc = "remember" /\ c.req = o.req /\ c.id = o.id /\ c.seen = row
    BY <1>2 DEF Current, CallStates, Pcs
  <2>2. call' = [call EXCEPT ![p] = c]
    BY <1>1, <1>4
  <2> HIDE DEF c, o
  <2>3. Shape(c)
    BY <1>2, <2>1 DEF Shape
  <2>4. ScopeTrue(c, scope) /\ CredTrue(c, cred) /\ KekTrue(c, kekFile) /\ c.pc # "writeKek"
    BY <2>1 DEF ScopeTrue, CredTrue, KekTrue, row
  <2> QED
    BY <1>1, <2>1, <2>2, <2>3, <2>4, LocalStep DEF Fine, o
<1> QED
  BY <1>3, <1>4

\* The cleanup of a project takes its scope as it is listed.
LEMMA CleanupStep ==
    ASSUME IInv, NEW p \in Calls, DeleteProjectData(p)
    PROVE  IInv'
<1> USE DEF ScopePcs, SealedPcs, PutPcs, DropPcs, LastPcs, GonePcs
<1> DEFINE o   == call[p]
           row == scope[o.req.project]
           r   == [o.req EXCEPT !.bucket = row.bucket, !.prefix = row.prefix]
           c   == [o EXCEPT !.pc = "drop", !.id = row.id, !.req = r]
<1>1. /\ up /\ o.pc = "cleanup" /\ UNCHANGED <<load, up, cred, scope, kekFile, scopeCache, client, respelt>>
  BY DEF DeleteProjectData, InFlight
<1>2. /\ o \in CallStates /\ o.req \in Requests /\ o.req.kind = "cleanup"
      /\ o.req.project \in Projects /\ row \in Scope \cup {None}
  BY <1>1, CallKnown DEF Shape, Requests, TypeInv
<1>3. call' = [call EXCEPT ![p] = IF row = None THEN Idle ELSE c]
  BY <1>2 DEF DeleteProjectData, CallStates, Requests
<1>4. CASE row = None
  BY <1>1, <1>3, <1>4, GiveUp
<1>5. CASE row # None
  <2>1. row.id \in Ids /\ row.bucket \in Buckets /\ row.prefix \in Prefixes /\ BucketOf(row.id) = row.bucket
    BY <1>2, <1>5, CallKnown DEF Scope, RowsInv
  <2> HIDE DEF row
  <2>2. r \in Requests /\ r.kind = "cleanup" /\ r.bucket = row.bucket
    BY <1>2, <2>1 DEF Requests
  <2> HIDE DEF r
  <2>3. c \in CallStates /\ c.pc = "drop" /\ c.req = r /\ c.id = row.id
    BY <1>2, <2>1, <2>2 DEF CallStates, Pcs
  <2>4. call' = [call EXCEPT ![p] = c]
    BY <1>3, <1>5
  <2> HIDE DEF c, o
  <2>5. Shape(c)
    BY <2>1, <2>2, <2>3, RegistryAssumption DEF Shape
  <2>6. ScopeTrue(c, scope) /\ CredTrue(c, cred) /\ KekTrue(c, kekFile) /\ c.pc # "writeKek"
    BY <2>3 DEF ScopeTrue, CredTrue, KekTrue
  <2> QED
    BY <1>1, <2>3, <2>4, <2>5, <2>6, LocalStep DEF Fine, o
<1> QED
  BY <1>4, <1>5

\* No scope is left for the credential.
LEMMA LastScopeStep ==
    ASSUME IInv, NEW p \in Calls, LastScope(p)
    PROVE  IInv'
<1> USE DEF ScopePcs, SealedPcs, PutPcs, DropPcs, LastPcs, GonePcs
<1> DEFINE o    == call[p]
           left == \E q \in ListBucketScopes : ScopeBelongsTo(q, o.id, o.seen)
           c    == [Current(o, "scope") EXCEPT !.pc = "aliases"]
<1>1. /\ up /\ o.pc = "siblings" /\ call' = [call EXCEPT ![p] = IF left THEN Idle ELSE c]
      /\ UNCHANGED <<load, up, cred, scope, kekFile, scopeCache, client, respelt>>
  BY DEF LastScope, InFlight
<1>2. o \in CallStates /\ Shape(o)
  BY CallKnown
<1>3. CASE left
  BY <1>1, <1>3, GiveUp
<1>4. CASE ~left
  <2>1. \A q \in Projects : scope[q] # None => scope[q].id # o.id /\ scope[q].bucket # o.seen
    BY <1>4 DEF ListBucketScopes, ScopeBelongsTo
  <2> HIDE DEF left
  <2>2. c \in CallStates /\ c.pc = "aliases" /\ c.req = o.req /\ c.id = o.id
    BY <1>2 DEF Current, CallStates, Pcs
  <2>3. call' = [call EXCEPT ![p] = c]
    BY <1>1, <1>4
  <2> HIDE DEF c, o
  <2>4. Shape(c) /\ (c.id = None => c.req.bucket = o.seen)
    BY <1>1, <1>2, <2>2 DEF Shape
  <2>5. ScopeTrue(c, scope)
    BY <2>1, <2>2, <2>4 DEF ScopeTrue
  <2>6. CredTrue(c, cred) /\ KekTrue(c, kekFile) /\ c.pc # "writeKek"
    BY <2>2 DEF CredTrue, KekTrue
  <2> QED
    BY <1>1, <2>2, <2>3, <2>4, <2>5, <2>6, LocalStep DEF Fine, o
<1> QED
  BY <1>3, <1>4

\* ensureUniquePhysicalBucket and the PostgreSQL trigger only move the call on.
LEMMA UniqueStep ==
    ASSUME IInv, NEW p \in Calls, EnsureUniquePhysicalBucket(p) \/ TriggerCheck(p)
    PROVE  IInv'
<1> USE DEF ScopePcs, SealedPcs, PutPcs, DropPcs, LastPcs, GonePcs
<1> DEFINE o     == call[p]
           c(to) == [o EXCEPT !.pc = to]
<1>1. /\ up /\ o.pc \in {"unique", "trigger"}
      /\ UNCHANGED <<load, up, cred, scope, kekFile, scopeCache, client, respelt>>
      /\ call' = [call EXCEPT ![p] = Idle] \/
         \E to \in {"upsert", "trigger", "commit"} : call' = [call EXCEPT ![p] = c(to)]
  BY DEF EnsureUniquePhysicalBucket, TriggerCheck, InFlight
<1>2. /\ o \in CallStates /\ Shape(o) /\ ScopeTrue(o, scope) /\ CredTrue(o, cred) /\ KekTrue(o, kekFile)
  BY CallKnown
<1>3. CASE call' = [call EXCEPT ![p] = Idle]
  BY <1>1, <1>3, GiveUp
<1>4. ASSUME NEW to \in {"upsert", "trigger", "commit"}, call' = [call EXCEPT ![p] = c(to)]
      PROVE  IInv'
  <2>1. to \in Pcs
    BY DEF Pcs
  <2> DEFINE n == c(to)
  <2> HIDE DEF o
  <2>2. /\ n \in CallStates /\ n.pc = to /\ n.req = o.req /\ n.id = o.id /\ n.seen = o.seen
        /\ n.raced = o.raced /\ n.kek = o.kek
    BY <1>2, <2>1 DEF CallStates
  <2>3. call' = [call EXCEPT ![p] = n]
    BY <1>4
  <2> HIDE DEF n
  <2>4. Shape(n)
    BY <1>1, <1>2, <2>2 DEF Shape
  <2>5. ScopeTrue(n, scope) /\ CredTrue(n, cred) /\ KekTrue(n, kekFile) /\ n.pc # "writeKek"
    BY <1>1, <1>2, <2>2 DEF ScopeTrue, CredTrue, KekTrue
  <2> QED
    BY <1>1, <2>2, <2>3, <2>4, <2>5, LocalStep DEF Fine, o
<1> QED
  BY <1>1, <1>3, <1>4

\* The names to invalidate.
LEMMA AliasesStep ==
    ASSUME IInv, NEW p \in Calls, DeleteS3Credential(p)
    PROVE  IInv'
<1> USE DEF ScopePcs, SealedPcs, PutPcs, DropPcs, LastPcs, GonePcs
<1> DEFINE o     == call[p]
           names == IF (IF o.id # None THEN Readable(o.id) ELSE TRUE)
                      THEN {o.req.bucket} ELSE {}
           c     == [o EXCEPT !.pc = "resolveId", !.aliases = names]
<1>1. /\ up /\ o.pc = "aliases" /\ UNCHANGED <<load, up, cred, scope, kekFile, scopeCache, client, respelt>>
  BY DEF DeleteS3Credential, InFlight
<1>2. o \in CallStates /\ Shape(o) /\ ScopeTrue(o, scope) /\ call \in [Calls -> CallStates]
  BY CallKnown DEF TypeInv
<1>3. call' = [call EXCEPT ![p] = c]
  BY <1>2 DEF DeleteS3Credential, CallStates
<1>4. names \in SUBSET Buckets
  BY <1>1, <1>2 DEF Shape
<1> HIDE DEF names, o
<1>5. /\ c \in CallStates /\ c.pc = "resolveId" /\ c.req = o.req /\ c.id = o.id
      /\ c.raced = o.raced
  BY <1>2, <1>4 DEF CallStates, Pcs
<1> HIDE DEF c
<1>6. Shape(c)
  BY <1>1, <1>2, <1>5 DEF Shape
<1>7. ScopeTrue(c, scope) /\ CredTrue(c, cred) /\ KekTrue(c, kekFile) /\ c.pc # "writeKek"
  BY <1>1, <1>2, <1>5 DEF ScopeTrue, CredTrue, KekTrue
<1> QED
  BY <1>1, <1>3, <1>5, <1>6, <1>7, LocalStep DEF Fine, o

\* The store finds the credential: no scope has a credential id of another bucket.
LEMMA ResolveStep ==
    ASSUME IInv, NEW p \in Calls, ResolveCredentialID(p)
    PROVE  IInv'
<1> USE DEF ScopePcs, SealedPcs, PutPcs, DropPcs, LastPcs, GonePcs
<1> DEFINE o   == call[p]
           id  == IF o.id # None THEN (IF cred[o.id] # None THEN o.id ELSE None)
                  ELSE GetS3Credential(o.req.bucket)
           c   == [o EXCEPT !.id = id, !.pc = "delScopes"]
<1>1. /\ up /\ o.pc = "resolveId" /\ call' = [call EXCEPT ![p] = IF id \in {None, Error} THEN Idle ELSE c]
      /\ UNCHANGED <<load, up, cred, scope, kekFile, scopeCache, client, respelt>>
  BY DEF ResolveCredentialID, InFlight
<1>2. o \in CallStates /\ Shape(o) /\ ScopeTrue(o, scope)
  BY CallKnown
<1>3. CASE id \in {None, Error}
  BY <1>1, <1>3, GiveUp
<1>4. CASE id \notin {None, Error}
  <2>1. id \in Ids /\ BucketOf(id) = o.req.bucket /\ (o.id # None => id = o.id)
    <3>1. CASE o.id # None
      BY <1>2, <1>4, <3>1 DEF Shape, CallStates
    <3>2. CASE o.id = None
      BY <1>4, <3>2, CallKnown, CredentialFound
    <3> QED
      BY <3>1, <3>2
  <2>2. \A q \in Projects : scope[q] # None => scope[q].bucket = BucketOf(scope[q].id)
    BY CallKnown DEF RowsInv
  <2>3. call' = [call EXCEPT ![p] = c]
    BY <1>1, <1>4
  <2> HIDE DEF id, o
  <2>4. c \in CallStates /\ c.pc = "delScopes" /\ c.req = o.req /\ c.id = id /\ c.raced = o.raced
    BY <1>2, <2>1 DEF CallStates, Pcs
  <2> HIDE DEF c
  <2>5. id # None
    BY <2>1, RegistryAssumption
  <2>6. Shape(c)
    BY <1>1, <1>2, <2>1, <2>4, <2>5 DEF Shape
  <2>7. ScopeTrue(c, scope)
    BY <1>1, <1>2, <2>1, <2>2, <2>4, <2>5 DEF ScopeTrue
  <2>8. CredTrue(c, cred) /\ KekTrue(c, kekFile) /\ c.pc # "writeKek"
    BY <2>4 DEF CredTrue, KekTrue
  <2> QED
    BY <1>1, <2>3, <2>4, <2>6, <2>7, <2>8, LocalStep DEF Fine, o
<1> QED
  BY <1>3, <1>4

\* A signer without a client reads the credential, however it spells the name.
LEMMA GetClientsStep ==
    ASSUME IInv, NEW p \in Calls, GetClients(p)
    PROVE  IInv'
<1> USE DEF ScopePcs, SealedPcs, PutPcs, DropPcs, LastPcs, GonePcs
<1> DEFINE o     == call[p]
           b     == o.req.bucket
           found == IF o.req.exact THEN {GetS3Credential(b)} \ {None, Error} ELSE FoldedCredentials(b)
           d     == Current(o, "cred")
           c(i)  == [d EXCEPT !.pc = "store", !.seen = cred[i].key]
<1>1. /\ up /\ o.pc = "sign"
      /\ UNCHANGED <<load, up, cred, scope, kekFile, scopeCache, client, respelt>>
      /\ \/ call' = [call EXCEPT ![p] = Idle]
         \/ \E i \in found : call' = [call EXCEPT ![p] = c(i)]
  BY DEF GetClients, InFlight
<1>2. o \in CallStates /\ Shape(o)
  BY CallKnown
<1>3. CASE call' = [call EXCEPT ![p] = Idle]
  BY <1>1, <1>3, GiveUp
<1>4. ASSUME NEW i \in found, call' = [call EXCEPT ![p] = c(i)]
      PROVE  IInv'
  <2>1. i \in Ids /\ cred[i] # None /\ cred[i].bucket = b /\ cred[i].key \in Keys
    <3>1. TypeInv /\ RowsInv /\ None \notin Credential
      BY CallKnown, RegistryAssumption
    <3>2. i \in Ids /\ cred[i] \in Credential /\ cred[i].bucket = b
      <4>1. CASE o.req.exact
        <5>1. i = GetS3Credential(b) /\ i \notin {None, Error}
          BY <4>1
        <5> QED
          BY <3>1, <5>1, CredentialFound
      <4>2. CASE ~o.req.exact
        <5>1. i \in IdsOfBucket(b)
          BY <4>2 DEF FoldedCredentials
        <5> QED
          BY <3>1, <5>1 DEF IdsOfBucket, TypeInv
      <4> QED
        BY <4>1, <4>2
    <3> HIDE DEF found, b
    <3> QED
      BY <3>1, <3>2 DEF Credential
  <2> DEFINE n == c(i)
  <2>2. call' = [call EXCEPT ![p] = n]
    BY <1>4
  <2>3. d \in CallStates /\ d.req = o.req /\ d.id = o.id
    BY <1>2, CurrentType
  <2> HIDE DEF found, d, o
  <2>4. n \in CallStates /\ n.pc = "store" /\ n.req = o.req /\ n.id = o.id /\ n.seen = cred[i].key
    BY <2>1, <2>3 DEF CallStates, Pcs
  <2> HIDE DEF n
  <2>5. Shape(n)
    BY <1>1, <1>2, <2>1, <2>4 DEF Shape
  <2>6. CredTrue(n, cred)
    BY <2>1, <2>4 DEF CredTrue
  <2>7. ScopeTrue(n, scope) /\ KekTrue(n, kekFile) /\ n.pc # "writeKek"
    BY <2>4 DEF ScopeTrue, KekTrue
  <2> QED
    BY <1>1, <2>2, <2>4, <2>5, <2>6, <2>7, LocalStep DEF Fine, o
<1> QED
  BY <1>1, <1>3, <1>4

-----------------------------------------------------------------------------
(* The key file. *)

\* The first call to seal creates the file, and writes it alone.
LEMMA SealStep ==
    ASSUME IInv, NEW p \in Calls, Seal(p)
    PROVE  IInv'
<1> USE DEF ScopePcs, SealedPcs, PutPcs, DropPcs, LastPcs, GonePcs
<1> DEFINE o == call[p]
<1>1. /\ up /\ o.pc = "seal" /\ UNCHANGED <<load, up, cred, scope, scopeCache, client, respelt>>
      /\ \/ kekFile = None /\ kekFile' = "empty" /\ call' = [call EXCEPT ![p].pc = "writeKek"]
         \/ kekFile = "empty" /\ call' = [call EXCEPT ![p] = Idle] /\ UNCHANGED kekFile
         \/ /\ kekFile \notin {None, "empty"} /\ UNCHANGED kekFile
            /\ call' = [call EXCEPT ![p] = SealedWith(o, kekFile)]
  BY DEF Seal, InFlight
<1>2. /\ o \in CallStates /\ Shape(o) /\ ScopeTrue(o, scope) /\ CredTrue(o, cred)
      /\ TypeInv /\ RowsInv /\ call \in [Calls -> CallStates]
  BY CallKnown DEF TypeInv
<1>3. CASE kekFile = "empty" /\ call' = [call EXCEPT ![p] = Idle] /\ UNCHANGED kekFile
  BY <1>1, <1>3, GiveUp
<1>4. CASE /\ kekFile \notin {None, "empty"} /\ UNCHANGED kekFile
           /\ call' = [call EXCEPT ![p] = SealedWith(o, kekFile)]
  <2> DEFINE c == SealedWith(o, kekFile)
  <2>1. kekFile \in Calls \cup {None, "empty", "first"}
    BY <1>2 DEF TypeInv
  <2> HIDE DEF o
  <2>2. /\ c \in CallStates /\ c.pc = "unique" /\ c.req = o.req /\ c.id = o.id /\ c.seen = o.seen
        /\ c.raced = o.raced /\ c.kek = kekFile
    BY <1>2, <2>1 DEF SealedWith, CallStates, Pcs
  <2>3. call' = [call EXCEPT ![p] = c]
    BY <1>4 DEF o
  <2> HIDE DEF c
  <2>4. Shape(c)
    BY <1>1, <1>2, <2>2 DEF Shape
  <2>5. ScopeTrue(c, scope) /\ CredTrue(c, cred) /\ KekTrue(c, kekFile) /\ c.pc # "writeKek"
    BY <1>1, <1>2, <1>4, <2>2 DEF ScopeTrue, CredTrue, KekTrue
  <2> QED
    BY <1>1, <1>4, <2>2, <2>3, <2>4, <2>5, LocalStep DEF Fine, o
<1>5. CASE kekFile = None /\ kekFile' = "empty" /\ call' = [call EXCEPT ![p].pc = "writeKek"]
  <2> DEFINE c == [o EXCEPT !.pc = "writeKek"]
  <2>1. call' = [call EXCEPT ![p] = c]
    BY <1>5
  <2> HIDE DEF o
  <2>2. /\ c \in CallStates /\ c.pc = "writeKek" /\ c.req = o.req /\ c.id = o.id /\ c.seen = o.seen
        /\ c.raced = o.raced
    BY <1>2 DEF CallStates, Pcs
  <2> HIDE DEF c
  <2>3. /\ call' \in [Calls -> CallStates] /\ call'[p] = c
        /\ \A r \in Calls \ {p} : call'[r] = call[r]
    BY <1>2, <2>1, <2>2, Moved
  <2>4. \A i \in Ids : cred[i] = None
    BY <1>2, <1>5 DEF RowsInv
  <2>5. \A r \in Calls : call[r].pc \notin SealedPcs \cup {"writeKek"}
    BY <1>5, CallKnown, RegistryAssumption DEF KekTrue
  <2>6. TypeInv'
    BY <1>1, <1>2, <1>5, <2>3 DEF TypeInv
  <2>7. Fine(c, cred, scope, "empty")
    <3>1. Shape(c)
      BY <1>1, <1>2, <2>2 DEF Shape
    <3>2. ScopeTrue(c, scope) /\ CredTrue(c, cred) /\ KekTrue(c, "empty")
      BY <1>1, <1>2, <2>2 DEF ScopeTrue, CredTrue, KekTrue
    <3> QED
      BY <3>1, <3>2 DEF Fine
  <2>8. ASSUME NEW r \in Calls \ {p} PROVE Fine(call[r], cred, scope, "empty")
    BY <2>5, CallKnown DEF Fine, KekTrue
  <2>9. \A r \in Calls : Fine(call[r], cred, scope, kekFile)'
    BY <1>1, <1>5, <2>3, <2>7, <2>8
  <2>10. RowsInv' /\ OneWriter'
    BY <1>1, <1>2, <2>3, <2>4, <2>5 DEF RowsInv, OneWriter
  <2>11. SignersCurrent' /\ CacheInv' /\ DownInv'
    BY <1>1, <2>3 DEF IInv, SignersCurrent, IdsOfBucket, CacheInv, ScopeChanger, DownInv, o
  <2> QED
    BY <2>6, <2>9, <2>10, <2>11 DEF IInv
<1> QED
  BY <1>1, <1>3, <1>4, <1>5

\* The key goes into the empty file; nothing has been sealed before.
LEMMA WriteKekStep ==
    ASSUME IInv, NEW p \in Calls, WriteKek(p)
    PROVE  IInv'
<1> USE DEF ScopePcs, SealedPcs, PutPcs, DropPcs, LastPcs, GonePcs
<1> DEFINE o == call[p]
           c == SealedWith(o, p)
<1>1. /\ up /\ o.pc = "writeKek" /\ UNCHANGED <<load, up, cred, scope, scopeCache, client, respelt>>
      /\ kekFile' = p /\ call' = [call EXCEPT ![p] = c]
  BY DEF WriteKek, InFlight
<1>2. /\ o \in CallStates /\ Shape(o) /\ ScopeTrue(o, scope) /\ CredTrue(o, cred)
      /\ TypeInv /\ RowsInv /\ call \in [Calls -> CallStates] /\ OneWriter
  BY CallKnown DEF TypeInv, IInv
<1>3. kekFile = "empty" /\ p \notin {None, "empty"}
  BY <1>1, CallKnown, RegistryAssumption DEF KekTrue
<1> HIDE DEF o
<1>4. /\ c \in CallStates /\ c.pc = "unique" /\ c.req = o.req /\ c.id = o.id /\ c.seen = o.seen
      /\ c.raced = o.raced /\ c.kek = p
  BY <1>2 DEF SealedWith, CallStates, Pcs
<1> HIDE DEF c
<1>5. /\ call' \in [Calls -> CallStates] /\ call'[p] = c
      /\ \A r \in Calls \ {p} : call'[r] = call[r]
  BY <1>1, <1>2, <1>4, Moved
<1>6. \A i \in Ids : cred[i] = None
  BY <1>2, <1>3 DEF RowsInv
<1>7. \A r \in Calls \ {p} : call[r].pc \notin SealedPcs \cup {"writeKek"}
  BY <1>1, <1>2, <1>3, CallKnown DEF KekTrue, OneWriter, o
<1>8. TypeInv'
  BY <1>1, <1>2, <1>5 DEF TypeInv
<1>9. Fine(c, cred, scope, p)
  <2>1. Shape(c)
    BY <1>1, <1>2, <1>4 DEF Shape
  <2>2. ScopeTrue(c, scope) /\ CredTrue(c, cred) /\ KekTrue(c, p)
    BY <1>1, <1>2, <1>3, <1>4 DEF ScopeTrue, CredTrue, KekTrue
  <2> QED
    BY <2>1, <2>2 DEF Fine
<1>10. ASSUME NEW r \in Calls \ {p} PROVE Fine(call[r], cred, scope, p)
  BY <1>7, CallKnown DEF Fine, KekTrue
<1>11. \A r \in Calls : Fine(call[r], cred, scope, kekFile)'
  BY <1>1, <1>5, <1>9, <1>10
<1>12. RowsInv' /\ OneWriter'
  BY <1>1, <1>2, <1>4, <1>5, <1>6, <1>7 DEF RowsInv, OneWriter
<1>13. SignersCurrent' /\ CacheInv' /\ DownInv'
  BY <1>1, <1>5 DEF IInv, SignersCurrent, IdsOfBucket, CacheInv, ScopeChanger, DownInv, o
<1> QED
  BY <1>8, <1>11, <1>12, <1>13 DEF IInv

-----------------------------------------------------------------------------
(* Steps that change the rows. *)

Overtaken(c, what) == [c EXCEPT !.raced = @ \cup {what}]

\* A call that was overtaken is where it was, and relies on less.
LEMMA OvertakenFine ==
    ASSUME NEW c \in CallStates, NEW what \in {"scope", "cred"}
    PROVE  LET o == Overtaken(c, what)
           IN  /\ o \in CallStates /\ o.pc = c.pc /\ o.req = c.req
               /\ Shape(c) => Shape(o)
               /\ \A kf : KekTrue(c, kf) => KekTrue(o, kf)
               /\ \A sc : ScopeTrue(c, sc) \/ what = "scope" => ScopeTrue(o, sc)
               /\ \A cr : CredTrue(c, cr) \/ what = "cred" => CredTrue(o, cr)
<1> DEFINE o == Overtaken(c, what)
<1>1. /\ o \in CallStates /\ o.pc = c.pc /\ o.req = c.req /\ o.id = c.id /\ o.seen = c.seen
      /\ o.kek = c.kek /\ o.raced = c.raced \cup {what}
  BY DEF Overtaken, CallStates
<1> HIDE DEF o
<1>2. Shape(c) => Shape(o)
  BY <1>1 DEF Shape
<1>3. \A kf : KekTrue(c, kf) => KekTrue(o, kf)
  BY <1>1 DEF KekTrue
<1>4. Wanted(o) = Wanted(c)
  BY <1>1 DEF Wanted
<1>5. \A sc : ScopeTrue(c, sc) \/ what = "scope" => ScopeTrue(o, sc)
  BY <1>1, <1>4 DEF ScopeTrue
<1>6. \A cr : CredTrue(c, cr) \/ what = "cred" => CredTrue(o, cr)
  BY <1>1 DEF CredTrue
<1> QED
  BY <1>1, <1>2, <1>3, <1>5, <1>6 DEF o

\* Call p stores the scopes sc and moves to c; who relied on other scopes is
\* overtaken.  An entry of the cache that is no longer what is stored will be
\* renewed by c, or its row was deleted with its credential.
LEMMA ScopeChange ==
    ASSUME IInv, up, NEW p \in Calls, NEW c \in CallStates, NEW sc \in [Projects -> Scope \cup {None}],
           \A q \in Projects : sc[q] # None => sc[q].bucket = BucketOf(sc[q].id),
           scopeCache' \in [Projects -> [row : Scope \cup {None}, raced : BOOLEAN, orphaned : BOOLEAN] \cup {None}],
           \A q \in Projects : scopeCache'[q] = scopeCache[q] \/ scopeCache'[q].orphaned,
           \A q \in Projects : sc[q] # scope[q] =>
             ScopeChanger(c, q) \/ scopeCache'[q] = None \/ scopeCache'[q].orphaned,
           Fine(c, cred, sc, kekFile), c.pc # "writeKek", scope' = sc,
           call[p].pc \notin {"seed", "clear", "forget"},
           NEW touched,
           call' = [r \in Calls |-> IF r = p THEN c
                                    ELSE IF r \in touched THEN Overtaken(call[r], "scope")
                                    ELSE call[r]],
           \A r \in Calls \ touched : r # p => ScopeTrue(call[r], sc),
           UNCHANGED <<load, up, cred, kekFile, client, respelt>>
    PROVE  IInv'
<1>1. TypeInv /\ RowsInv /\ OneWriter /\ SignersCurrent /\ CacheInv /\ call \in [Calls -> CallStates]
  BY DEF IInv, TypeInv
<1>2. call'[p] = c
  OBVIOUS
<1>3. ASSUME NEW r \in Calls \ {p}
      PROVE  /\ call'[r] \in CallStates /\ call'[r].pc = call[r].pc /\ call'[r].req = call[r].req
             /\ Fine(call'[r], cred, sc, kekFile)
  <2>1. call[r] \in CallStates /\ Fine(call[r], cred, scope, kekFile)
    BY <1>1 DEF IInv
  <2>2. CASE r \in touched
    <3>1. call'[r] = Overtaken(call[r], "scope")
      BY <2>2
    <3> QED
      BY <2>1, <3>1, OvertakenFine DEF Fine
  <2>3. CASE r \notin touched
    BY <2>1, <2>3 DEF Fine
  <2> QED
    BY <2>2, <2>3
<1>4. call' \in [Calls -> CallStates]
  BY <1>2, <1>3
<1>5. TypeInv'
  BY <1>1, <1>4 DEF TypeInv
<1>6. \A r \in Calls : Fine(call[r], cred, scope, kekFile)'
  BY <1>2, <1>3
<1>7. RowsInv'
  BY <1>1 DEF RowsInv
<1>8. OneWriter'
  BY <1>1, <1>2, <1>3 DEF OneWriter
<1>9. SignersCurrent'
  BY <1>1, <1>2, <1>3 DEF SignersCurrent, IdsOfBucket
<1>10. CacheInv'
  BY <1>1, <1>2, <1>3 DEF CacheInv, ScopeChanger
<1>11. DownInv'
  BY DEF DownInv
<1> QED
  BY <1>5, <1>6, <1>7, <1>8, <1>9, <1>10, <1>11 DEF IInv

\* Call p stores the credentials cr, which differ from the old ones in its bucket
\* only, and will invalidate the client of that bucket.
LEMMA CredChange ==
    ASSUME IInv, up, NEW p \in Calls, NEW c \in CallStates, NEW cr \in [Ids -> Credential \cup {None}],
           \A i \in Ids : cr[i] # None =>
             cr[i].bucket = BucketOf(i) /\ cr[i].kek = kekFile /\ kekFile \notin {None, "empty"},
           \A i \in Ids : cr[i] # cred[i] => BucketOf(i) = c.req.bucket,
           c.pc = "forget", Fine(c, cr, scope, kekFile), cred' = cr,
           call[p].pc \notin {"seed", "clear", "forget"},
           call' = [r \in Calls |-> IF r = p THEN c
                                    ELSE IF call[r].pc # "idle" /\ call[r].req.bucket = c.req.bucket
                                           THEN Overtaken(call[r], "cred")
                                    ELSE call[r]],
           UNCHANGED <<load, up, scope, kekFile, scopeCache, client, respelt>>
    PROVE  IInv'
<1> USE DEF ScopePcs, SealedPcs, PutPcs, DropPcs, LastPcs, GonePcs
<1>1. TypeInv /\ RowsInv /\ OneWriter /\ SignersCurrent /\ CacheInv /\ call \in [Calls -> CallStates]
  BY DEF IInv, TypeInv
<1>2. call'[p] = c
  OBVIOUS
<1>3. ASSUME NEW r \in Calls \ {p}
      PROVE  /\ call'[r] \in CallStates /\ call'[r].pc = call[r].pc /\ call'[r].req = call[r].req
             /\ Fine(call'[r], cr, scope, kekFile)
  <2>1. call[r] \in CallStates /\ Fine(call[r], cred, scope, kekFile)
    BY <1>1 DEF IInv
  <2>2. CASE call[r].pc # "idle" /\ call[r].req.bucket = c.req.bucket
    <3>1. call'[r] = Overtaken(call[r], "cred")
      BY <2>2
    <3> QED
      BY <2>1, <3>1, OvertakenFine DEF Fine
  <2>3. CASE ~(call[r].pc # "idle" /\ call[r].req.bucket = c.req.bucket)
    <3>1. call'[r] = call[r]
      BY <2>3
    <3> DEFINE o == call[r]
    <3>2. Shape(o) /\ CredTrue(o, cred) /\ o.id \in Ids \cup {None}
      BY <2>1 DEF Fine, CallStates
    <3>3. o.pc # "idle" => o.req.bucket # c.req.bucket
      BY <2>3
    <3> HIDE DEF o
    <3>4. \A i \in Ids : cred[i] # None => cred[i].bucket = BucketOf(i)
      BY <1>1 DEF RowsInv
    <3>5. CredTrue(o, cr)
      BY <3>2, <3>3, <3>4 DEF CredTrue, Shape
    <3> QED
      BY <2>1, <3>1, <3>5 DEF Fine, o
  <2> QED
    BY <2>2, <2>3
<1>4. call' \in [Calls -> CallStates]
  BY <1>2, <1>3
<1>5. TypeInv'
  BY <1>1, <1>4 DEF TypeInv
<1>6. \A r \in Calls : Fine(call[r], cred, scope, kekFile)'
  BY <1>2, <1>3
<1>7. RowsInv'
  BY <1>1 DEF RowsInv
<1>8. OneWriter'
  BY <1>1, <1>2, <1>3 DEF OneWriter
<1>9. SignersCurrent'
  <2> SUFFICES ASSUME NEW b \in Buckets, client[b] # None, ~client[b].raced
               PROVE  \/ \E i \in Ids : cr[i] # None /\ cr[i].bucket = b /\ cr[i].key = client[b].key
                      \/ \E r \in Calls : call'[r].pc = "forget" /\ call'[r].req.bucket = b
    BY DEF SignersCurrent, IdsOfBucket
  <2>1. CASE b = c.req.bucket
    BY <1>2, <2>1
  <2>2. CASE b # c.req.bucket
    <3>1. CASE \E i \in Ids : cred[i] # None /\ cred[i].bucket = b /\ cred[i].key = client[b].key
      BY <1>1, <2>2, <3>1 DEF RowsInv
    <3>2. CASE \E r \in Calls : call[r].pc = "forget" /\ call[r].req.bucket = b
      BY <1>3, <3>2
    <3> QED
      BY <1>1, <3>1, <3>2 DEF SignersCurrent, IdsOfBucket
  <2> QED
    BY <2>1, <2>2
<1>10. CacheInv'
  BY <1>1, <1>2, <1>3 DEF CacheInv, ScopeChanger
<1>11. DownInv'
  BY DEF DownInv
<1> QED
  BY <1>5, <1>6, <1>7, <1>8, <1>9, <1>10, <1>11 DEF IInv

\* A scope of bucket b is stored or dropped for project q: whoever is neither
\* about that project nor about to delete that bucket's credential is not misled.
LEMMA UntouchedScope ==
    ASSUME NEW c \in CallStates, Shape(c), ScopeTrue(c, scope), TypeInv, NEW q \in Projects, NEW b,
           NEW row \in Scope \cup {None}, row # None => row.bucket = b /\ BucketOf(row.id) = b,
           ~(c.pc # "idle" /\ (c.req.project = q \/ (c.req.kind \in {"drop", "cleanup"} /\ c.req.bucket = b)))
    PROVE  ScopeTrue(c, [scope EXCEPT ![q] = row])
<1> USE DEF ScopePcs, SealedPcs, PutPcs, DropPcs, LastPcs, GonePcs
<1> DEFINE sc == [scope EXCEPT ![q] = row]
<1>1. \A x \in Projects : sc[x] = IF x = q THEN row ELSE scope[x]
  BY DEF TypeInv
<1>2. ASSUME c.pc \in {"seed", "scopeUpdate", "remember"}
      PROVE  c.req.project \in Projects /\ c.req.project # q
  BY <1>2 DEF Shape, Requests
<1>3. ASSUME c.pc \in LastPcs \cup {"delScopes"}, c.req.kind # "delete"
      PROVE  c.req.bucket # b
  BY <1>3 DEF Shape
<1> HIDE DEF sc
<1>4. ScopeTrue(c, sc)
  BY <1>1, <1>2, <1>3 DEF ScopeTrue, Shape
<1> QED
  BY <1>4 DEF sc

\* A row for project q of bucket b, stored by p, which moves to c.
LEMMA ScopeRowChange ==
    ASSUME IInv, up, NEW p \in Calls, NEW c \in CallStates, NEW q \in Projects, NEW b,
           NEW row \in Scope \cup {None}, row # None => row.bucket = b /\ BucketOf(row.id) = b,
           ScopeChanger(c, q), Fine(c, cred, [scope EXCEPT ![q] = row], kekFile), c.pc # "writeKek",
           scope' = [scope EXCEPT ![q] = row],
           call[p].pc \notin {"seed", "clear", "forget"},
           ScopeOvertakes(p, c, q, b),
           UNCHANGED <<load, up, cred, kekFile, scopeCache, client, respelt>>
    PROVE  IInv'
<1> DEFINE sc == [scope EXCEPT ![q] = row]
           Touches(r) == r.project = q \/ (r.kind \in {"drop", "cleanup"} /\ r.bucket = b)
           touched == {r \in Calls : call[r].pc # "idle" /\ Touches(call[r].req)}
<1>1. TypeInv /\ RowsInv /\ scope \in [Projects -> Scope \cup {None}]
  BY DEF IInv, TypeInv
<1>2. sc \in [Projects -> Scope \cup {None}] /\ \A x \in Projects : sc[x] = IF x = q THEN row ELSE scope[x]
  BY <1>1
<1>3. \A x \in Projects : sc[x] # None => sc[x].bucket = BucketOf(sc[x].id)
  BY <1>1, <1>2 DEF RowsInv
<1>4. \A x \in Projects : sc[x] # scope[x] => ScopeChanger(c, x)
  BY <1>2
<1>5. call' = [r \in Calls |-> IF r = p THEN c
                               ELSE IF r \in touched THEN Overtaken(call[r], "scope")
                               ELSE call[r]]
  BY DEF ScopeOvertakes, Overtakes, Overtaken
<1>6. ASSUME NEW r \in Calls \ touched
      PROVE  ScopeTrue(call[r], sc)
  <2>1. call[r] \in CallStates /\ Shape(call[r]) /\ ScopeTrue(call[r], scope)
    BY CallKnown
  <2>2. ~(call[r].pc # "idle" /\ Touches(call[r].req))
    OBVIOUS
  <2> QED
    BY <1>1, <2>1, <2>2, UntouchedScope
<1>7. scope' = sc /\ Fine(c, cred, sc, kekFile)
  OBVIOUS
<1>8. scopeCache' \in [Projects -> [row : Scope \cup {None}, raced : BOOLEAN, orphaned : BOOLEAN] \cup {None}]
  BY <1>1 DEF TypeInv
<1> HIDE DEF sc, touched
<1> QED
  BY <1>2, <1>3, <1>4, <1>5, <1>6, <1>7, <1>8, ScopeChange

\* CreateBucketScope stores the scope of its project, and seeds the cache next.
LEMMA ScopeStored ==
    ASSUME IInv, up, NEW p \in Calls, call[p].pc \in {"scopeInsert", "scopeUpdate"},
           scope' = [scope EXCEPT ![call[p].req.project] = Wanted(call[p])],
           ScopeOvertakes(p, [Current(call[p], "scope") EXCEPT !.pc = "seed"],
                          call[p].req.project, call[p].req.bucket),
           UNCHANGED <<load, up, cred, kekFile, scopeCache, client, respelt>>
    PROVE  IInv'
<1> USE DEF ScopePcs, SealedPcs, PutPcs, DropPcs, LastPcs, GonePcs
<1> DEFINE o   == call[p]
           q   == o.req.project
           row == Wanted(o)
           d   == Current(o, "scope")
           c   == [d EXCEPT !.pc = "seed"]
           sc  == [scope EXCEPT ![q] = row]
<1>1. /\ o \in CallStates /\ Shape(o) /\ CredTrue(o, cred) /\ TypeInv /\ o.pc \in {"scopeInsert", "scopeUpdate"}
      /\ scope \in [Projects -> Scope \cup {None}]
  BY CallKnown DEF TypeInv
<1>2. /\ o.req \in Requests /\ o.req.kind \in {"put", "add"} /\ o.req.project # None /\ o.id # None
      /\ o.req.bucket \in Buckets /\ BucketOf(o.id) = o.req.bucket
  BY <1>1 DEF Shape
<1>3. q \in Projects /\ o.req.prefix \in Prefixes /\ o.id \in Ids
  BY <1>1, <1>2 DEF Requests, CallStates
<1>4. d \in CallStates /\ d.req = o.req /\ d.id = o.id /\ d.seen = o.seen /\ d.raced = o.raced \ {"scope"}
  BY <1>1, CurrentType
<1>5. row \in Scope /\ row.bucket = o.req.bucket /\ BucketOf(row.id) = o.req.bucket
  BY <1>2, <1>3 DEF Wanted, Scope
<1>6. ScopeOvertakes(p, c, q, o.req.bucket) /\ scope' = sc
  OBVIOUS
<1>7. sc[q] = row
  BY <1>1, <1>3
<1> HIDE DEF o, d
<1>8. /\ c \in CallStates /\ c.pc = "seed" /\ c.req = o.req /\ c.id = o.id /\ c.seen = o.seen
      /\ c.raced = o.raced \ {"scope"}
  BY <1>4 DEF CallStates, Pcs
<1> HIDE DEF c, sc
<1>9. Wanted(c) = row
  BY <1>8 DEF Wanted
<1> HIDE DEF row
<1>10. Shape(c)
  BY <1>1, <1>2, <1>8 DEF Shape
<1>11. ScopeTrue(c, sc) /\ KekTrue(c, kekFile) /\ c.pc # "writeKek" /\ ScopeChanger(c, q)
  BY <1>7, <1>8, <1>9 DEF ScopeTrue, KekTrue, ScopeChanger
<1>12. CredTrue(c, cred)
  BY <1>1, <1>8 DEF CredTrue
<1>13. Fine(c, cred, sc, kekFile)
  BY <1>10, <1>11, <1>12 DEF Fine
<1> QED
  BY <1>1, <1>3, <1>5, <1>6, <1>8, <1>11, <1>13, ScopeRowChange DEF o, sc

\* An insert that finds a row gives up.
LEMMA ScopeInsertStep ==
    ASSUME IInv, NEW p \in Calls, ScopeInsert(p)
    PROVE  IInv'
<1>1. /\ up /\ call[p].pc = "scopeInsert" /\ UNCHANGED <<load, up, cred, kekFile, scopeCache, client, respelt>>
      /\ \/ /\ scope' = [scope EXCEPT ![call[p].req.project] = Wanted(call[p])]
            /\ ScopeOvertakes(p, [Current(call[p], "scope") EXCEPT !.pc = "seed"],
                              call[p].req.project, call[p].req.bucket)
         \/ call' = [call EXCEPT ![p] = Idle] /\ UNCHANGED scope
  BY DEF ScopeInsert, InFlight
<1>2. CASE call' = [call EXCEPT ![p] = Idle] /\ UNCHANGED scope
  BY <1>1, <1>2, GiveUp
<1> QED
  BY <1>1, <1>2, ScopeStored

\* An update that finds no row has been overtaken.
LEMMA ScopeUpdateStep ==
    ASSUME IInv, NEW p \in Calls, ScopeUpdate(p)
    PROVE  IInv'
<1> USE DEF ScopePcs, SealedPcs, PutPcs, DropPcs, LastPcs, GonePcs
<1> DEFINE o == call[p]
           c == [o EXCEPT !.pc = "seed"]
<1>1. /\ up /\ o.pc = "scopeUpdate" /\ UNCHANGED <<load, up, cred, kekFile, scopeCache, client, respelt>>
      /\ \/ /\ scope' = [scope EXCEPT ![o.req.project] = Wanted(o)]
            /\ ScopeOvertakes(p, [Current(o, "scope") EXCEPT !.pc = "seed"], o.req.project, o.req.bucket)
         \/ scope[o.req.project] = None /\ call' = [call EXCEPT ![p] = c] /\ UNCHANGED scope
  BY DEF ScopeUpdate, InFlight
<1>2. CASE scope[o.req.project] = None /\ call' = [call EXCEPT ![p] = c] /\ UNCHANGED scope
  <2>1. o \in CallStates /\ Shape(o) /\ CredTrue(o, cred) /\ ScopeTrue(o, scope)
    BY CallKnown
  <2>2. call' = [call EXCEPT ![p] = c]
    BY <1>2
  <2> HIDE DEF o
  <2>3. /\ c \in CallStates /\ c.pc = "seed" /\ c.req = o.req /\ c.id = o.id /\ c.seen = o.seen
        /\ c.raced = o.raced
    BY <2>1 DEF CallStates, Pcs
  <2> HIDE DEF c
  <2>4. Shape(c)
    BY <1>1, <2>1, <2>3 DEF Shape
  <2>5. ScopeTrue(c, scope) /\ CredTrue(c, cred) /\ KekTrue(c, kekFile) /\ c.pc # "writeKek"
    BY <1>1, <1>2, <2>1, <2>3 DEF ScopeTrue, CredTrue, KekTrue
  <2> QED
    BY <1>1, <1>2, <2>2, <2>3, <2>4, <2>5, LocalStep DEF Fine, o
<1> QED
  BY <1>1, <1>2, ScopeStored

\* A scope is dropped, and the cache is cleared next.
LEMMA DropScopeStep ==
    ASSUME IInv, NEW p \in Calls, DropScope(p)
    PROVE  IInv'
<1> USE DEF ScopePcs, SealedPcs, PutPcs, DropPcs, LastPcs, GonePcs
<1> DEFINE o == call[p]
           q == o.req.project
           c == [o EXCEPT !.pc = "clear"]
           sc == [scope EXCEPT ![q] = None]
<1>1. /\ up /\ o.pc = "drop" /\ UNCHANGED <<load, up, cred, kekFile, scopeCache, client, respelt>>
      /\ \/ scope' = sc /\ ScopeOvertakes(p, c, q, o.req.bucket)
         \/ call' = [call EXCEPT ![p] = Idle] /\ UNCHANGED scope
  BY DEF DropScope, InFlight
<1>2. CASE call' = [call EXCEPT ![p] = Idle] /\ UNCHANGED scope
  BY <1>1, <1>2, GiveUp
<1>3. CASE scope' = sc /\ ScopeOvertakes(p, c, q, o.req.bucket)
  <2>1. o \in CallStates /\ Shape(o) /\ TypeInv
    BY CallKnown
  <2>2. q \in Projects
    BY <1>1, <2>1 DEF Shape, Requests
  <2> HIDE DEF o
  <2>3. c \in CallStates /\ c.pc = "clear" /\ c.req = o.req /\ c.id = o.id /\ c.seen = o.seen
    BY <2>1 DEF CallStates, Pcs
  <2> HIDE DEF c, sc
  <2>4. Shape(c)
    BY <1>1, <2>1, <2>3 DEF Shape
  <2>5. /\ ScopeTrue(c, sc) /\ CredTrue(c, cred) /\ KekTrue(c, kekFile) /\ c.pc # "writeKek"
        /\ ScopeChanger(c, q)
    BY <2>3 DEF ScopeTrue, CredTrue, KekTrue, ScopeChanger
  <2>6. Fine(c, cred, sc, kekFile)
    BY <2>4, <2>5 DEF Fine
  <2> QED
    BY <1>1, <1>3, <2>2, <2>3, <2>5, <2>6, ScopeRowChange DEF o, sc
<1> QED
  BY <1>1, <1>2, <1>3

\* The scopes of the credential go: who counted on one of them is overtaken, and
\* what is cached of them is left behind.
LEMMA DeleteScopesStep ==
    ASSUME IInv, NEW p \in Calls, DeleteScopesOf(p)
    PROVE  IInv'
<1> USE DEF ScopePcs, SealedPcs, PutPcs, DropPcs, LastPcs, GonePcs
<1> DEFINE o       == call[p]
           gone    == {q \in Projects : scope[q] # None /\ scope[q].id = o.id}
           sc      == [q \in Projects |-> IF q \in gone THEN None ELSE scope[q]]
           c       == [o EXCEPT !.pc = "delCred"]
           touched == {r \in Calls : call[r].pc # "idle" /\ call[r].req.project \in gone}
           left    == [q \in Projects |-> IF q \in gone /\ scopeCache[q] # None
                                            THEN [scopeCache[q] EXCEPT !.orphaned = TRUE]
                                            ELSE scopeCache[q]]
<1>1. /\ up /\ o.pc = "delScopes" /\ scope' = sc /\ scopeCache' = left
      /\ UNCHANGED <<load, up, cred, kekFile, client, respelt>>
  BY DEF DeleteScopesOf, InFlight
<1>2. call' = [r \in Calls |-> IF r = p THEN c
                               ELSE IF r \in touched THEN Overtaken(call[r], "scope")
                               ELSE call[r]]
  BY DEF DeleteScopesOf, Overtakes, Overtaken
<1>3. /\ o \in CallStates /\ Shape(o) /\ TypeInv /\ RowsInv /\ scope \in [Projects -> Scope \cup {None}]
  BY CallKnown DEF TypeInv
<1>4. /\ sc \in [Projects -> Scope \cup {None}]
      /\ \A q \in Projects : sc[q] = IF q \in gone THEN None ELSE scope[q]
  BY <1>3
<1>11. ASSUME NEW q \in Projects
       PROVE  /\ left[q] \in [row : Scope \cup {None}, raced : BOOLEAN, orphaned : BOOLEAN] \cup {None}
              /\ left[q] = scopeCache[q] \/ left[q].orphaned
              /\ sc[q] # scope[q] => left[q] = None \/ left[q].orphaned
  <2> DEFINE e == scopeCache[q]
  <2>1. e \in [row : Scope \cup {None}, raced : BOOLEAN, orphaned : BOOLEAN] \cup {None}
    BY <1>3 DEF TypeInv
  <2>2. left[q] = IF q \in gone /\ e # None THEN [e EXCEPT !.orphaned = TRUE] ELSE e
    OBVIOUS
  <2> HIDE DEF e, left, gone, sc
  <2>3. e # None => /\ [e EXCEPT !.orphaned = TRUE] \in [row : Scope \cup {None}, raced : BOOLEAN, orphaned : BOOLEAN]
                    /\ [e EXCEPT !.orphaned = TRUE].orphaned
    BY <2>1
  <2> QED
    BY <1>4, <2>1, <2>2, <2>3 DEF e
<1>12. left \in [Projects -> [row : Scope \cup {None}, raced : BOOLEAN, orphaned : BOOLEAN] \cup {None}]
  BY <1>11
<1> HIDE DEF gone, sc, left
<1>5. ASSUME NEW r \in Calls \ touched
      PROVE  ScopeTrue(call[r], sc)
  <2> DEFINE x == call[r]
  <2>1. Shape(x) /\ ScopeTrue(x, scope) /\ ~(x.pc # "idle" /\ x.req.project \in gone)
    BY CallKnown
  <2> HIDE DEF x
  <2>2. ASSUME x.pc \in {"seed", "scopeUpdate", "remember"}
        PROVE  x.req.project \in Projects /\ sc[x.req.project] = scope[x.req.project]
    BY <1>4, <2>1, <2>2 DEF Shape, Requests
  <2>3. ScopeTrue(x, sc)
    BY <1>4, <2>1, <2>2 DEF ScopeTrue
  <2> QED
    BY <2>3 DEF x
<1> HIDE DEF o, touched
<1>6. c \in CallStates /\ c.pc = "delCred" /\ c.req = o.req /\ c.id = o.id /\ c.seen = o.seen
  BY <1>3 DEF CallStates, Pcs
<1> HIDE DEF c
<1>7. Shape(c)
  BY <1>1, <1>3, <1>6 DEF Shape
<1>8. /\ ScopeTrue(c, sc) /\ CredTrue(c, cred) /\ KekTrue(c, kekFile) /\ c.pc # "writeKek"
  BY <1>6 DEF ScopeTrue, CredTrue, KekTrue
<1>9. \A q \in Projects : sc[q] # None => sc[q].bucket = BucketOf(sc[q].id)
  BY <1>3, <1>4 DEF RowsInv
<1>10. Fine(c, cred, sc, kekFile) /\ call[p].pc = "delScopes"
  BY <1>1, <1>7, <1>8 DEF Fine, o
<1> QED
  BY <1>1, <1>2, <1>4, <1>5, <1>6, <1>8, <1>9, <1>10, <1>11, <1>12, ScopeChange

\* A credential is stored under the key of the key file, in its own bucket.
LEMMA UpsertStep ==
    ASSUME IInv, NEW p \in Calls, Upsert(p)
    PROVE  IInv'
<1> USE DEF ScopePcs, SealedPcs, PutPcs, DropPcs, LastPcs, GonePcs
<1> DEFINE o   == call[p]
           row == [bucket |-> o.req.bucket, key |-> o.seen, kek |-> o.kek]
           cr  == [cred EXCEPT ![o.id] = row]
           c   == [o EXCEPT !.pc = "forget", !.aliases = SavedAliases(o)]
<1>1. /\ up /\ o.pc \in {"upsert", "commit"} /\ UNCHANGED <<load, up, scope, kekFile, scopeCache, client, respelt>>
      /\ \/ cred' = cr /\ CredentialOvertakes(p, c, o.req.bucket)
         \/ call' = [call EXCEPT ![p] = Idle] /\ UNCHANGED cred
  BY DEF Upsert, InFlight
<1>2. CASE call' = [call EXCEPT ![p] = Idle] /\ UNCHANGED cred
  BY <1>1, <1>2, GiveUp
<1>3. CASE cred' = cr /\ CredentialOvertakes(p, c, o.req.bucket)
  <2>1. /\ o \in CallStates /\ Shape(o) /\ TypeInv /\ RowsInv /\ KekTrue(o, kekFile)
        /\ cred \in [Ids -> Credential \cup {None}] /\ kekFile \in Calls \cup {None, "empty", "first"}
    BY CallKnown DEF TypeInv
  <2>2. /\ o.req.kind = "put" /\ o.seen \in Keys /\ o.id # None /\ o.req.bucket \in Buckets
        /\ BucketOf(o.id) = o.req.bucket /\ o.kek = kekFile /\ kekFile \notin {None, "empty"}
        /\ o.req \in Requests
    BY <1>1, <2>1 DEF Shape, KekTrue
  <2>3. o.id \in Ids
    BY <2>1, <2>2 DEF CallStates
  <2>4. call' = [r \in Calls |-> IF r = p THEN c
                                 ELSE IF call[r].pc # "idle" /\ call[r].req.bucket = o.req.bucket
                                        THEN Overtaken(call[r], "cred")
                                 ELSE call[r]]
    BY <1>3 DEF CredentialOvertakes, Overtakes, Overtaken
  <2> HIDE DEF o
  <2>5. row \in Credential /\ row.bucket = o.req.bucket /\ row.kek = kekFile
    BY <2>1, <2>2 DEF Credential
  <2> HIDE DEF row
  <2>6. /\ cr \in [Ids -> Credential \cup {None}]
        /\ \A i \in Ids : cr[i] = IF i = o.id THEN row ELSE cred[i]
    BY <2>1, <2>3, <2>5
  <2>7. c \in CallStates /\ c.pc = "forget" /\ c.req = o.req /\ c.id = o.id
    BY <2>1, <2>2 DEF CallStates, Pcs, SavedAliases
  <2> HIDE DEF c, cr
  <2>8. Shape(c)
    BY <2>1, <2>2, <2>7 DEF Shape
  <2>9. Fine(c, cr, scope, kekFile)
    BY <2>7, <2>8 DEF Fine, ScopeTrue, CredTrue, KekTrue
  <2>10. \A i \in Ids : cr[i] # None =>
           cr[i].bucket = BucketOf(i) /\ cr[i].kek = kekFile /\ kekFile \notin {None, "empty"}
    BY <2>1, <2>2, <2>5, <2>6 DEF RowsInv
  <2>11. \A i \in Ids : cr[i] # cred[i] => BucketOf(i) = c.req.bucket
    BY <2>2, <2>6, <2>7
  <2>12. call[p].pc \notin {"seed", "clear", "forget"} /\ cred' = cr
    BY <1>1, <1>3 DEF o
  <2> QED
    BY <1>1, <2>4, <2>6, <2>7, <2>9, <2>10, <2>11, <2>12, CredChange
<1> QED
  BY <1>1, <1>2, <1>3

-----------------------------------------------------------------------------
(* Steps that change the caches. *)

\* One call moves, and what is cached changes with it.
LEMMA CacheStep ==
    ASSUME IInv, up, NEW p \in Calls, NEW c \in CallStates, Fine(c, cred, scope, kekFile),
           c.pc # "writeKek", call' = [call EXCEPT ![p] = c],
           scopeCache' \in [Projects -> [row : Scope \cup {None}, raced : BOOLEAN, orphaned : BOOLEAN] \cup {None}],
           client' \in [Buckets -> [key : Keys, raced : BOOLEAN] \cup {None}],
           respelt' \in [Buckets -> Keys \cup {None}],
           SignersCurrent', CacheInv',
           UNCHANGED <<load, up, cred, scope, kekFile>>
    PROVE  IInv'
<1>1. TypeInv /\ RowsInv /\ OneWriter
  BY DEF IInv
<1>2. /\ call' \in [Calls -> CallStates] /\ call'[p] = c
      /\ \A r \in Calls \ {p} : call'[r] = call[r]
  BY <1>1, Moved
<1>3. TypeInv'
  BY <1>1, <1>2 DEF TypeInv
<1>4. \A r \in Calls : Fine(call[r], cred, scope, kekFile)'
  BY <1>2 DEF IInv
<1>5. RowsInv'
  BY <1>1 DEF RowsInv
<1>6. OneWriter'
  BY <1>1, <1>2 DEF OneWriter
<1>7. DownInv'
  BY DEF DownInv
<1> QED
  BY <1>3, <1>4, <1>5, <1>6, <1>7 DEF IInv

\* A step that leaves the clients alone, from a call that invalidates none.
LEMMA ScopeCacheStep ==
    ASSUME IInv, up, NEW p \in Calls, NEW c \in CallStates, Fine(c, cred, scope, kekFile),
           c.pc # "writeKek", call' = [call EXCEPT ![p] = c], call[p].pc # "forget",
           scopeCache' \in [Projects -> [row : Scope \cup {None}, raced : BOOLEAN, orphaned : BOOLEAN] \cup {None}],
           CacheInv',
           UNCHANGED <<load, up, cred, scope, kekFile, client, respelt>>
    PROVE  IInv'
<1>1. TypeInv /\ SignersCurrent
  BY DEF IInv
<1>2. call'[p] = c /\ \A r \in Calls \ {p} : call'[r] = call[r]
  BY <1>1, Moved
<1>3. SignersCurrent'
  BY <1>1, <1>2 DEF SignersCurrent, IdsOfBucket
<1>4. /\ client' \in [Buckets -> [key : Keys, raced : BOOLEAN] \cup {None}]
      /\ respelt' \in [Buckets -> Keys \cup {None}]
  BY <1>1 DEF TypeInv
<1> QED
  BY <1>3, <1>4, CacheStep

\* The credential goes, or has gone before.
LEMMA DeleteCredentialStep ==
    ASSUME IInv, NEW p \in Calls, DeleteCredentialRow(p)
    PROVE  IInv'
<1> USE DEF ScopePcs, SealedPcs, PutPcs, DropPcs, LastPcs, GonePcs
<1> DEFINE o   == call[p]
           cr  == [cred EXCEPT ![o.id] = None]
           c   == [o EXCEPT !.pc = "forget"]
<1>1. /\ up /\ o.pc = "delCred" /\ UNCHANGED <<load, up, scope, kekFile, scopeCache, client, respelt>>
      /\ \/ cred' = cr /\ CredentialOvertakes(p, c, o.req.bucket)
         \/ call' = [call EXCEPT ![p] = Idle] /\ UNCHANGED cred
  BY DEF DeleteCredentialRow, InFlight
<1>2. CASE call' = [call EXCEPT ![p] = Idle] /\ UNCHANGED cred
  BY <1>1, <1>2, GiveUp
<1>3. CASE cred' = cr /\ CredentialOvertakes(p, c, o.req.bucket)
  <2>1. /\ o \in CallStates /\ Shape(o) /\ TypeInv /\ RowsInv
        /\ cred \in [Ids -> Credential \cup {None}]
    BY CallKnown DEF TypeInv
  <2>2. /\ o.req.kind \in {"delete", "drop", "cleanup"} /\ o.id # None /\ o.req.bucket \in Buckets
        /\ BucketOf(o.id) = o.req.bucket
    BY <1>1, <2>1 DEF Shape
  <2>3. o.id \in Ids
    BY <2>1, <2>2 DEF CallStates
  <2>4. call' = [r \in Calls |-> IF r = p THEN c
                                 ELSE IF call[r].pc # "idle" /\ call[r].req.bucket = o.req.bucket
                                        THEN Overtaken(call[r], "cred")
                                 ELSE call[r]]
    BY <1>3 DEF CredentialOvertakes, Overtakes, Overtaken
  <2> HIDE DEF o
  <2>5. /\ cr \in [Ids -> Credential \cup {None}]
        /\ \A i \in Ids : cr[i] = IF i = o.id THEN None ELSE cred[i]
    BY <2>1, <2>3
  <2>6. c \in CallStates /\ c.pc = "forget" /\ c.req = o.req /\ c.id = o.id
    BY <2>1 DEF CallStates, Pcs
  <2> HIDE DEF c, cr
  <2>7. Shape(c)
    BY <1>1, <2>1, <2>2, <2>6 DEF Shape
  <2>8. Fine(c, cr, scope, kekFile)
    BY <2>6, <2>7 DEF Fine, ScopeTrue, CredTrue, KekTrue
  <2>9. \A i \in Ids : cr[i] # None =>
           cr[i].bucket = BucketOf(i) /\ cr[i].kek = kekFile /\ kekFile \notin {None, "empty"}
    BY <2>1, <2>5 DEF RowsInv
  <2>10. \A i \in Ids : cr[i] # cred[i] => BucketOf(i) = c.req.bucket
    BY <2>2, <2>5, <2>6
  <2>11. call[p].pc \notin {"seed", "clear", "forget"} /\ cred' = cr
    BY <1>1, <1>3 DEF o
  <2> QED
    BY <1>1, <1>3, <2>4, <2>5, <2>6, <2>8, <2>9, <2>10, <2>11, CredChange
<1> QED
  BY <1>1, <1>2, <1>3

\* An entry is written for a project: a fresh one is what the table holds.
LEMMA EntryWritten ==
    ASSUME IInv, up, NEW p \in Calls, NEW c \in CallStates, Fine(c, cred, scope, kekFile),
           c.pc # "writeKek", call' = [call EXCEPT ![p] = c], NEW q \in Projects, NEW row \in Scope \cup {None},
           call[p].pc \notin {"clear", "forget"},
           call[p].pc = "seed" => call[p].req.project = q,
           scopeCache' = [scopeCache EXCEPT ![q] = Entry(row, call[p])],
           "scope" \notin call[p].raced => row = scope[q],
           UNCHANGED <<load, up, cred, scope, kekFile, client, respelt>>
    PROVE  IInv'
<1>1. /\ scopeCache \in [Projects -> [row : Scope \cup {None}, raced : BOOLEAN, orphaned : BOOLEAN] \cup {None}]
      /\ TypeInv /\ CacheInv
  BY DEF IInv, TypeInv
<1> DEFINE old == "scope" \in call[p].raced
           e   == [row |-> row, raced |-> old, orphaned |-> FALSE]
<1>2. /\ e \in [row : Scope \cup {None}, raced : BOOLEAN, orphaned : BOOLEAN] /\ e.row = row
      /\ ~e.raced => row = scope[q]
  <2>1. old \in BOOLEAN /\ (~old => row = scope[q])
    OBVIOUS
  <2> HIDE DEF old
  <2> QED
    BY <2>1
<1>3. Entry(row, call[p]) = e
  BY DEF Entry
<1> HIDE DEF e
<1>4. /\ scopeCache' \in [Projects -> [row : Scope \cup {None}, raced : BOOLEAN, orphaned : BOOLEAN] \cup {None}]
      /\ scopeCache'[q] = e /\ \A x \in Projects \ {q} : scopeCache'[x] = scopeCache[x]
  BY <1>1, <1>2, <1>3
<1>5. call'[p] = c /\ \A r \in Calls \ {p} : call'[r] = call[r]
  BY <1>1, Moved
<1>6. CacheInv'
  <2> SUFFICES ASSUME NEW x \in Projects, scopeCache'[x] # None, ~scopeCache'[x].raced, ~scopeCache'[x].orphaned
               PROVE  scopeCache'[x].row = scope[x] \/ \E r \in Calls : ScopeChanger(call'[r], x)
    BY DEF CacheInv, ScopeChanger
  <2>1. CASE x = q
    BY <1>2, <1>4, <2>1
  <2>2. CASE x # q
    <3>1. CASE scopeCache[x].row = scope[x]
      BY <1>4, <2>2, <3>1
    <3>2. CASE \E r \in Calls : ScopeChanger(call[r], x)
      <4>1. PICK r \in Calls : ScopeChanger(call[r], x)
        BY <3>2
      <4>2. r # p
        BY <2>2, <4>1 DEF ScopeChanger
      <4> QED
        BY <1>5, <4>1, <4>2
    <3> QED
      BY <1>1, <1>4, <2>2, <3>1, <3>2 DEF CacheInv
  <2> QED
    BY <2>1, <2>2
<1> QED
  BY <1>4, <1>6, ScopeCacheStep

\* The cache is seeded with the scope that was stored.
LEMMA SeedStep ==
    ASSUME IInv, NEW p \in Calls, SeedScope(p)
    PROVE  IInv'
<1> USE DEF ScopePcs, SealedPcs, PutPcs, DropPcs, LastPcs, GonePcs
<1> DEFINE o  == call[p]
           d  == [o EXCEPT !.pc = "seal"]
           on == o.req.kind = "put" /\ o.seen # None
           c  == IF on THEN d ELSE Idle
<1>1. /\ up /\ o.pc = "seed" /\ UNCHANGED <<load, up, cred, scope, kekFile, client, respelt>>
      /\ scopeCache' = [scopeCache EXCEPT ![o.req.project] = Entry(Wanted(o), o)]
      /\ call' = [call EXCEPT ![p] = c]
  BY DEF SeedScope, InFlight
<1>2. o \in CallStates /\ Shape(o) /\ ScopeTrue(o, scope) /\ CredTrue(o, cred)
  BY CallKnown
<1>3. /\ o.req \in Requests /\ o.id # None /\ o.req.bucket \in Buckets /\ o.req.project # None
      /\ o.req.kind = "put" => o.seen \in Keys \cup {None}
  BY <1>1, <1>2 DEF Shape
<1>4. o.req.project \in Projects /\ o.req.prefix \in Prefixes /\ o.id \in Ids
  BY <1>2, <1>3 DEF Requests, CallStates
<1>5. Wanted(o) \in Scope /\ ("scope" \notin o.raced => Wanted(o) = scope[o.req.project])
  BY <1>1, <1>2, <1>3, <1>4 DEF Wanted, Scope, ScopeTrue
<1> HIDE DEF o
<1>6. c \in CallStates /\ Fine(c, cred, scope, kekFile) /\ c.pc # "writeKek"
  <2>1. CASE ~on
    BY <2>1, IdleFine
  <2>2. CASE on
    <3>1. d \in CallStates /\ d.pc = "seal" /\ d.req = o.req /\ d.id = o.id /\ d.seen = o.seen /\ d.raced = o.raced
      BY <1>2 DEF CallStates, Pcs
    <3> HIDE DEF d
    <3>2. Shape(d)
      BY <1>1, <1>2, <1>3, <2>2, <3>1 DEF Shape
    <3>3. ScopeTrue(d, scope) /\ CredTrue(d, cred) /\ KekTrue(d, kekFile)
      BY <1>1, <1>2, <2>2, <3>1 DEF ScopeTrue, CredTrue, KekTrue
    <3> QED
      BY <2>2, <3>1, <3>2, <3>3 DEF Fine
  <2> QED
    BY <2>1, <2>2
<1> HIDE DEF c
<1> QED
  BY <1>1, <1>4, <1>5, <1>6, EntryWritten DEF o

\* A lookup caches the answer it read.
LEMMA RememberStep ==
    ASSUME IInv, NEW p \in Calls, RememberScope(p)
    PROVE  IInv'
<1>1. up /\ call[p].pc = "remember"
  BY DEF RememberScope, InFlight
<1>2. Shape(call[p]) /\ ScopeTrue(call[p], scope)
  BY CallKnown
<1>3. call[p].req.project \in Projects /\ call[p].seen \in Scope \cup {None}
  BY <1>1, <1>2 DEF Shape, Requests
<1>4. "scope" \notin call[p].raced => call[p].seen = scope[call[p].req.project]
  BY <1>1, <1>2 DEF ScopeTrue
<1>5. Idle \in CallStates /\ Idle.pc # "writeKek" /\ Fine(Idle, cred, scope, kekFile)
  BY IdleFine
<1> QED
  BY <1>1, <1>3, <1>4, <1>5, EntryWritten DEF RememberScope

\* A client is kept: under the stored name, its key is one its bucket has, unless
\* it was overtaken.
LEMMA StoreClientStep ==
    ASSUME IInv, NEW p \in Calls, StoreClient(p)
    PROVE  IInv'
<1> DEFINE o == call[p]
           b == o.req.bucket
           old == "cred" \in o.raced
           k == [key |-> o.seen, raced |-> old]
<1>1. /\ up /\ o.pc = "store" /\ call' = [call EXCEPT ![p] = Idle]
      /\ UNCHANGED <<load, up, cred, scope, kekFile, scopeCache>>
      /\ \/ client' = [client EXCEPT ![b] = k] /\ UNCHANGED respelt
         \/ respelt' = [respelt EXCEPT ![b] = o.seen] /\ UNCHANGED client
  BY DEF StoreClient, InFlight
<1>2. Shape(o) /\ CredTrue(o, cred) /\ TypeInv /\ SignersCurrent /\ CacheInv
  BY CallKnown DEF IInv
<1>3. b \in Buckets /\ o.seen \in Keys
  BY <1>1, <1>2 DEF Shape
<1>4. "cred" \notin o.raced => \E i \in Ids : cred[i] # None /\ cred[i].bucket = b /\ cred[i].key = o.seen
  BY <1>1, <1>2 DEF CredTrue
<1>5. k \in [key : Keys, raced : BOOLEAN] /\ k.key = o.seen /\ (~k.raced => ~old)
  <2>1. old \in BOOLEAN
    OBVIOUS
  <2> HIDE DEF old
  <2> QED
    BY <1>3, <2>1
<1> HIDE DEF k
<1>6. /\ client' \in [Buckets -> [key : Keys, raced : BOOLEAN] \cup {None}]
      /\ respelt' \in [Buckets -> Keys \cup {None}]
      /\ client'[b] \in {k, client[b]} /\ \A x \in Buckets \ {b} : client'[x] = client[x]
  <2>1. client \in [Buckets -> [key : Keys, raced : BOOLEAN] \cup {None}] /\ respelt \in [Buckets -> Keys \cup {None}]
    BY <1>2 DEF TypeInv
  <2> HIDE DEF b, o
  <2>2. CASE client' = [client EXCEPT ![b] = k] /\ UNCHANGED respelt
    BY <1>3, <1>5, <2>1, <2>2
  <2>3. CASE respelt' = [respelt EXCEPT ![b] = o.seen] /\ UNCHANGED client
    BY <1>3, <2>1, <2>3
  <2> QED
    BY <1>1, <2>2, <2>3
<1>7. Idle \in CallStates /\ Idle.pc = "idle" /\ Fine(Idle, cred, scope, kekFile)
  BY IdleFine
<1>8. call'[p] = Idle /\ \A r \in Calls \ {p} : call'[r] = call[r]
  BY <1>1, <1>2, <1>7, Moved
<1>9. SignersCurrent'
  <2> SUFFICES ASSUME NEW x \in Buckets, client'[x] # None, ~client'[x].raced
               PROVE  \/ \E i \in Ids : cred[i] # None /\ cred[i].bucket = x /\ cred[i].key = client'[x].key
                      \/ \E r \in Calls : call'[r].pc = "forget" /\ call'[r].req.bucket = x
    BY <1>1 DEF SignersCurrent, IdsOfBucket
  <2>1. CASE client'[x] = k /\ x = b
    BY <1>4, <1>5, <2>1
  <2>2. CASE client'[x] = client[x]
    <3> HIDE DEF o, b
    <3>1. client'[x] = client[x] /\ o.pc = "store" /\ call[p] = o
      BY <1>1, <2>2 DEF o
    <3> QED
      BY <1>2, <1>8, <3>1 DEF SignersCurrent, IdsOfBucket
  <2> QED
    BY <1>6, <2>1, <2>2
<1>10. CacheInv'
  BY <1>1, <1>2, <1>7, <1>8 DEF CacheInv, ScopeChanger
<1>11. scopeCache' \in [Projects -> [row : Scope \cup {None}, raced : BOOLEAN, orphaned : BOOLEAN] \cup {None}]
  BY <1>1, <1>2 DEF TypeInv
<1> QED
  BY <1>1, <1>6, <1>7, <1>9, <1>10, <1>11, CacheStep

\* The cache is empty, so nothing in it is old.
LEMMA ClearStep ==
    ASSUME IInv, NEW p \in Calls, ClearScopes(p)
    PROVE  IInv'
<1> USE DEF ScopePcs, SealedPcs, PutPcs, DropPcs, LastPcs, GonePcs
<1> DEFINE o     == call[p]
           found == GetS3Credential(o.req.bucket)
           who   == IF found = Error THEN None ELSE found
           name  == IF Readable(o.id) THEN o.req.bucket ELSE None
           d     == [o EXCEPT !.pc = "siblings", !.seen = name]
           e     == [o EXCEPT !.pc = "siblings", !.seen = o.req.bucket, !.id = who]
           c     == IF o.req.kind = "cleanup" THEN d ELSE e
<1>1. /\ up /\ o.pc = "clear" /\ UNCHANGED <<load, up, cred, scope, kekFile, client, respelt>>
      /\ scopeCache' = EmptyScopeCache /\ call' = [call EXCEPT ![p] = c]
  BY DEF ClearScopes, InFlight, Whose
<1>2. o \in CallStates /\ Shape(o)
  BY CallKnown
<1>3. /\ o.req.bucket \in Buckets /\ o.req.kind \in {"drop", "cleanup"}
      /\ (o.req.kind = "cleanup" => o.id # None) /\ o.req \in Requests
  BY <1>1, <1>2 DEF Shape
<1>4. who \in Ids \cup {None} /\ (who # None => BucketOf(who) = o.req.bucket)
  BY CallKnown, CredentialFound, RegistryAssumption
<1>5. name \in Buckets \cup {None}
  BY <1>3
<1> HIDE DEF o, who, name
<1>6. d \in CallStates /\ d.pc = "siblings" /\ d.req = o.req /\ d.id = o.id
  BY <1>2, <1>5 DEF CallStates, Pcs
<1>7. e \in CallStates /\ e.pc = "siblings" /\ e.req = o.req /\ e.id = who /\ e.seen = o.req.bucket
  BY <1>2, <1>3, <1>4 DEF CallStates, Pcs
<1> HIDE DEF d, e
<1>8. o.req.kind = "cleanup" => Shape(d)
  BY <1>1, <1>2, <1>3, <1>6 DEF Shape
<1>9. o.req.kind # "cleanup" => Shape(e)
  BY <1>3, <1>4, <1>7 DEF Shape
<1>10. c \in CallStates /\ c.pc = "siblings" /\ Shape(c)
  BY <1>6, <1>7, <1>8, <1>9
<1> HIDE DEF c
<1>11. Fine(c, cred, scope, kekFile)
  BY <1>10 DEF Fine, ScopeTrue, CredTrue, KekTrue
<1>12. /\ scopeCache' \in [Projects -> [row : Scope \cup {None}, raced : BOOLEAN, orphaned : BOOLEAN] \cup {None}]
       /\ CacheInv'
  BY <1>1 DEF EmptyScopeCache, CacheInv
<1> QED
  BY <1>1, <1>10, <1>11, <1>12, ScopeCacheStep DEF o

\* The clients of the bucket are dropped, or marked.
LEMMA InvalidateStep ==
    ASSUME IInv, NEW p \in Calls, InvalidateAliases(p)
    PROVE  IInv'
<1> DEFINE o == call[p]
           cl == [b \in Buckets |-> IF b \in o.aliases THEN None
                                    ELSE IF b = o.req.bucket /\ client[b] # None
                                           THEN [client[b] EXCEPT !.raced = TRUE]
                                    ELSE client[b]]
<1>1. /\ up /\ o.pc = "forget" /\ client' = cl /\ call' = [call EXCEPT ![p] = Idle]
      /\ scopeCache' = IF o.req.kind = "put" THEN scopeCache ELSE EmptyScopeCache
      /\ UNCHANGED <<load, up, cred, scope, kekFile, respelt>>
  BY DEF InvalidateAliases, InFlight
<1>2. TypeInv /\ SignersCurrent /\ CacheInv /\ client \in [Buckets -> [key : Keys, raced : BOOLEAN] \cup {None}]
  BY DEF IInv, TypeInv
<1>3. ASSUME NEW b \in Buckets
      PROVE  /\ cl[b] \in [key : Keys, raced : BOOLEAN] \cup {None}
             /\ cl[b] # None /\ ~cl[b].raced => b # o.req.bucket /\ cl[b] = client[b]
  <2> DEFINE e == client[b]
  <2>1. e \in [key : Keys, raced : BOOLEAN] \cup {None}
    BY <1>2
  <2>2. cl[b] = IF b \in o.aliases THEN None
                ELSE IF b = o.req.bucket /\ e # None THEN [e EXCEPT !.raced = TRUE] ELSE e
    OBVIOUS
  <2> HIDE DEF e, cl, o
  <2>3. e # None => [e EXCEPT !.raced = TRUE] \in [key : Keys, raced : BOOLEAN] /\ [e EXCEPT !.raced = TRUE].raced
    BY <2>1
  <2> QED
    BY <2>1, <2>2, <2>3 DEF e
<1>4. cl \in [Buckets -> [key : Keys, raced : BOOLEAN] \cup {None}]
  BY <1>3
<1> HIDE DEF cl
<1>5. Idle \in CallStates /\ Idle.pc = "idle" /\ Fine(Idle, cred, scope, kekFile)
  BY IdleFine
<1>6. call'[p] = Idle /\ \A r \in Calls \ {p} : call'[r] = call[r]
  BY <1>1, <1>2, <1>5, Moved
<1>7. SignersCurrent'
  <2> SUFFICES ASSUME NEW b \in Buckets, cl[b] # None, ~cl[b].raced
               PROVE  \/ \E i \in Ids : cred[i] # None /\ cred[i].bucket = b /\ cred[i].key = cl[b].key
                      \/ \E r \in Calls : call'[r].pc = "forget" /\ call'[r].req.bucket = b
    BY <1>1 DEF SignersCurrent, IdsOfBucket
  <2>1. b # o.req.bucket /\ cl[b] = client[b]
    BY <1>3
  <2> QED
    BY <1>2, <1>6, <2>1 DEF SignersCurrent, IdsOfBucket
<1>8. /\ scopeCache' \in [Projects -> [row : Scope \cup {None}, raced : BOOLEAN, orphaned : BOOLEAN] \cup {None}]
      /\ respelt' \in [Buckets -> Keys \cup {None}]
  BY <1>1, <1>2 DEF EmptyScopeCache, TypeInv
<1>9. CacheInv'
  <2>1. CASE o.req.kind # "put"
    BY <1>1, <2>1 DEF EmptyScopeCache, CacheInv
  <2>2. CASE o.req.kind = "put"
    <3>1. scopeCache' = scopeCache /\ \A q \in Projects : ~ScopeChanger(o, q)
      BY <1>1, <2>2 DEF ScopeChanger
    <3> HIDE DEF o
    <3>2. \A q \in Projects : (\E r \in Calls : ScopeChanger(call[r], q)) => \E r \in Calls : ScopeChanger(call'[r], q)
      BY <1>6, <3>1 DEF o
    <3>3. scope' = scope
      BY <1>1
    <3> QED
      BY <1>2, <3>1, <3>2, <3>3 DEF CacheInv, ScopeChanger
  <2> QED
    BY <2>1, <2>2
<1> QED
  BY <1>1, <1>4, <1>5, <1>7, <1>8, <1>9, CacheStep

-----------------------------------------------------------------------------
(* Failures, restarts, and the start. *)

\* A statement fails.
LEMMA FailStep ==
    ASSUME IInv, NEW p \in Calls, Fail(p)
    PROVE  IInv'
<1>1. /\ up /\ call' = [call EXCEPT ![p] = Idle] /\ call[p].pc \notin {"seed", "clear", "forget"}
      /\ UNCHANGED <<load, up, cred, scope, kekFile, scopeCache, client, respelt>>
  BY DEF Fail, InFlight
<1> QED
  BY <1>1, GiveUp

\* A cached entry expires.
LEMMA ExpireStep ==
    ASSUME IInv, NEW q \in Projects, ExpireScope(q)
    PROVE  IInv'
<1>1. /\ UNCHANGED <<load, up, cred, scope, kekFile, client, respelt, call>>
      /\ scopeCache' = [scopeCache EXCEPT ![q] = None]
  BY DEF ExpireScope
<1>2. TypeInv /\ RowsInv /\ OneWriter /\ SignersCurrent /\ CacheInv /\ DownInv
  BY DEF IInv
<1>3. TypeInv' /\ \A x \in Projects : scopeCache'[x] = IF x = q THEN None ELSE scopeCache[x]
  BY <1>1, <1>2 DEF TypeInv
<1>4. \A r \in Calls : Fine(call[r], cred, scope, kekFile)'
  BY <1>1 DEF IInv
<1>5. RowsInv' /\ OneWriter' /\ SignersCurrent'
  BY <1>1, <1>2 DEF RowsInv, OneWriter, SignersCurrent, IdsOfBucket
<1>6. CacheInv' /\ DownInv'
  BY <1>1, <1>2, <1>3 DEF CacheInv, ScopeChanger, DownInv
<1> QED
  BY <1>3, <1>4, <1>5, <1>6 DEF IInv

\* Nothing in memory: whatever is said of it holds.
LEMMA NothingInMemory ==
    ASSUME \A p \in Calls : call[p] = Idle, scopeCache = EmptyScopeCache, client = [b \in Buckets |-> None]
    PROVE  /\ \A p \in Calls : Fine(call[p], cred, scope, kekFile)
           /\ OneWriter /\ SignersCurrent /\ CacheInv /\ DownInv
<1>1. \A p \in Calls : call[p].pc = "idle" /\ Fine(call[p], cred, scope, kekFile)
  BY IdleFine
<1>2. OneWriter
  BY <1>1 DEF OneWriter
<1>3. SignersCurrent /\ CacheInv /\ DownInv
  BY <1>1 DEF SignersCurrent, CacheInv, DownInv, EmptyScopeCache
<1> QED
  BY <1>1, <1>2, <1>3

\* The process stops, and forgets.
LEMMA StopStep ==
    ASSUME IInv, Stop
    PROVE  IInv'
<1>1. /\ up' = FALSE /\ scopeCache' = EmptyScopeCache /\ client' = [b \in Buckets |-> None]
      /\ respelt' = [b \in Buckets |-> None]
      /\ call' = [p \in Calls |-> Idle] /\ UNCHANGED <<load, cred, scope, kekFile>>
  BY DEF Stop
<1>2. TypeInv /\ RowsInv
  BY DEF IInv
<1>3. TypeInv'
  BY <1>1, <1>2, IdleFine DEF TypeInv, EmptyScopeCache
<1>4. RowsInv'
  BY <1>1, <1>2 DEF RowsInv
<1>5. (\A p \in Calls : call[p] = Idle)' /\ (scopeCache = EmptyScopeCache)'
  BY <1>1 DEF EmptyScopeCache
<1>6. (\A p \in Calls : Fine(call[p], cred, scope, kekFile))'
  BY <1>5, IdleFine
<1>7. \A p \in Calls : call'[p].pc = "idle"
  BY <1>5, IdleFine
<1>8. OneWriter' /\ SignersCurrent' /\ CacheInv' /\ DownInv'
  BY <1>1, <1>7 DEF OneWriter, SignersCurrent, CacheInv, DownInv, EmptyScopeCache
<1> QED
  BY <1>3, <1>4, <1>6, <1>8 DEF IInv

\* The rows change while nothing runs.
LEMMA StartStep ==
    ASSUME IInv, ~up, TypeInv', RowsInv', UNCHANGED <<scopeCache, client, respelt, call>>
    PROVE  IInv'
<1>1. /\ \A p \in Calls : call[p].pc = "idle" /\ call[p] \in CallStates
      /\ \A q \in Projects : scopeCache[q] = None
      /\ \A b \in Buckets : client[b] = None
  BY DEF IInv, DownInv, TypeInv
<1>2. ASSUME NEW p \in Calls
      PROVE  Fine(call[p], cred, scope, kekFile)'
  <2>1. Shape(call[p]) /\ call[p].pc = "idle"
    BY <1>1, CallKnown
  <2> DEFINE o == call[p]
  <2> HIDE DEF o
  <2>2. o.pc = "idle" /\ Shape(o) /\ call'[p] = o
    BY <2>1 DEF o
  <2>3. Fine(o, cred', scope', kekFile')
    BY <2>2 DEF Fine, ScopeTrue, CredTrue, KekTrue, ScopePcs, SealedPcs, PutPcs, LastPcs
  <2> QED
    BY <2>2, <2>3
<1>3. OneWriter' /\ SignersCurrent' /\ CacheInv' /\ DownInv'
  BY <1>1 DEF OneWriter, SignersCurrent, CacheInv, DownInv
<1> QED
  BY <1>2, <1>3 DEF IInv

\* The start-up seals the configured credential with the key of the file, and adds
\* scopes of its bucket only.
LEMMA ServeStep ==
    ASSUME IInv, Serve
    PROVE  IInv'
<1> DEFINE w == Load.config
           i == DeriveCredentialID(w.bucket, w.key)
<1>1. TypeInv /\ RowsInv /\ ~up /\ UNCHANGED <<load, scopeCache, client, respelt, call>>
  BY DEF IInv, Serve
<1>2. /\ kekFile \in Calls \cup {None, "empty", "first"} /\ cred \in [Ids -> Credential \cup {None}]
      /\ scope \in [Projects -> Scope \cup {None}]
  BY <1>1 DEF TypeInv
<1>3. CASE w = None
  <2>1. up' = TRUE /\ UNCHANGED <<cred, scope, kekFile>>
    BY <1>3 DEF Serve
  <2> QED
    BY <1>1, <2>1, StartStep DEF TypeInv, RowsInv
<1>4. CASE w # None /\ kekFile \in {None, "empty"}
  <2>1. kekFile' = (IF kekFile = None THEN "first" ELSE kekFile) /\ UNCHANGED <<up, cred, scope>>
    BY <1>4 DEF Serve
  <2>2. \A j \in Ids : cred[j] = None
    BY <1>1, <1>4 DEF RowsInv
  <2>3. TypeInv'
    BY <1>1, <1>2, <2>1 DEF TypeInv
  <2>4. RowsInv'
    BY <1>1, <2>1, <2>2 DEF RowsInv
  <2> QED
    BY <1>1, <2>3, <2>4, StartStep
<1>5. CASE w # None /\ kekFile \notin {None, "empty"}
  <2> DEFINE row == [bucket |-> w.bucket, key |-> w.key, kek |-> kekFile]
             new == [id |-> i, bucket |-> w.bucket, prefix |-> CHOOSE x \in Prefixes : TRUE]
  <2>1. /\ cred' = ConfiguredCredential(i, w.bucket, w.key)
        /\ scope' = ConfiguredScopes(i, w.bucket, w.projects, cred')
        /\ up' = (cred'[i] # None) /\ UNCHANGED kekFile
    BY <1>5 DEF Serve
  <2>2. w.bucket \in Buckets /\ w.key \in Keys
    BY <1>1, <1>5, LoadType DEF Workload
  <2>3. i \in Ids /\ BucketOf(i) = w.bucket
    BY <2>2, DerivedId
  <2>4. (CHOOSE x \in Prefixes : TRUE) \in Prefixes
    BY RegistryAssumption
  <2> HIDE DEF w, i
  <2>5. row \in Credential /\ row.bucket = w.bucket /\ row.kek = kekFile
    BY <1>2, <1>5, <2>2 DEF Credential
  <2>6. new \in Scope /\ new.bucket = w.bucket /\ new.id = i
    <3> DEFINE pre == CHOOSE x \in Prefixes : TRUE
    <3> HIDE DEF pre
    <3>1. new = [id |-> i, bucket |-> w.bucket, prefix |-> pre] /\ pre \in Prefixes
      BY <2>4 DEF pre
    <3> HIDE DEF new
    <3> QED
      BY <2>2, <2>3, <3>1 DEF Scope
  <2>7. /\ cred' = cred \/ cred' = [cred EXCEPT ![i] = row]
        /\ scope' = [q \in Projects |-> IF q \in w.projects /\ cred'[i] # None THEN new ELSE scope[q]]
    BY <2>1 DEF ConfiguredCredential, ConfiguredScopes
  <2> HIDE DEF row, new
  <2>8. /\ cred' \in [Ids -> Credential \cup {None}]
        /\ \A j \in Ids : cred'[j] = cred[j] \/ (j = i /\ cred'[j] = row)
    BY <1>2, <2>3, <2>5, <2>7
  <2>9. /\ scope' \in [Projects -> Scope \cup {None}]
        /\ \A q \in Projects : scope'[q] \in {scope[q], new}
    BY <1>2, <2>6, <2>7
  <2>10. TypeInv'
    BY <1>1, <2>1, <2>8, <2>9 DEF TypeInv
  <2>11. RowsInv'
    BY <1>1, <1>5, <2>1, <2>3, <2>5, <2>6, <2>8, <2>9 DEF RowsInv
  <2> QED
    BY <1>1, <2>10, <2>11, StartStep
<1> QED
  BY <1>3, <1>4, <1>5

-----------------------------------------------------------------------------
(* The theorems. *)

\* It holds before the first start.
LEMMA InitIInv == Init => IInv
<1> SUFFICES ASSUME Init PROVE IInv
  OBVIOUS
<1>1. TypeInv
  <2>1. load \in DOMAIN Workloads /\ Load \in Workload
    BY RegistryAssumption DEF Init, Load
  <2>2. kekFile \in {None, "empty", "first"}
    BY <2>1 DEF Init, Workload
  <2> QED
    BY <2>1, <2>2, IdleFine DEF Init, TypeInv, EmptyScopeCache
<1>2. RowsInv
  BY DEF Init, RowsInv
<1> QED
  BY <1>1, <1>2, NothingInMemory DEF Init, IInv

\* Every step preserves it.
LEMMA NextIInv ==
    ASSUME IInv, [Next]_vars
    PROVE  IInv'
<1>1. CASE UNCHANGED vars
  BY <1>1 DEF vars, IInv, TypeInv, RowsInv, OneWriter, SignersCurrent, IdsOfBucket, CacheInv, DownInv
<1>2. ASSUME NEW p \in Calls,
             \/ Begin(p) \/ PutBucket(p) \/ AddBucketScope(p)
             \/ ScopeRead(p) \/ ScopeInsert(p) \/ ScopeUpdate(p) \/ SeedScope(p)
             \/ LookupBucketScope(p) \/ RememberScope(p)
             \/ DeleteProjectData(p) \/ DropScope(p) \/ ClearScopes(p) \/ LastScope(p)
      PROVE  IInv'
  BY <1>2, BeginStep, PutBucketStep, AddScopeStep, ScopeReadStep, ScopeInsertStep, ScopeUpdateStep, SeedStep,
     LookupStep, RememberStep, CleanupStep, DropScopeStep, ClearStep, LastScopeStep
<1>3. ASSUME NEW p \in Calls,
             \/ Seal(p) \/ WriteKek(p) \/ EnsureUniquePhysicalBucket(p) \/ TriggerCheck(p) \/ Upsert(p)
             \/ DeleteS3Credential(p) \/ ResolveCredentialID(p) \/ DeleteScopesOf(p) \/ DeleteCredentialRow(p)
             \/ InvalidateAliases(p) \/ GetClients(p) \/ StoreClient(p) \/ Fail(p)
      PROVE  IInv'
  BY <1>3, SealStep, WriteKekStep, UniqueStep, UpsertStep, AliasesStep, ResolveStep, DeleteScopesStep,
     DeleteCredentialStep, InvalidateStep, GetClientsStep, StoreClientStep, FailStep
<1>4. CASE \E q \in Projects : ExpireScope(q)
  BY <1>4, ExpireStep
<1> QED
  BY <1>1, <1>2, <1>3, <1>4, StopStep, ServeStep DEF Next

\* Whatever requests are served at once, and wherever they fail or the process
\* stops, a call knows what it acts on unless somebody overtook it.
THEOREM RegistryInvariance == Spec => []IInv
<1>1. IInv /\ [Next]_vars => IInv'
  BY NextIInv
<1> QED
  BY <1>1, InitIInv, PTL DEF Spec

\* One key seals every stored credential: the file gets one key, and nothing is
\* sealed before it has one.
THEOREM KekIsOne == Spec => []OneKek
<1>1. IInv => OneKek
  BY DEF IInv, RowsInv, OneKek
<1> QED
  BY <1>1, RegistryInvariance, PTL

\* A cached client or scope is current unless its request was overtaken, the
\* change that makes it old is still to invalidate it, its row went with a deleted
\* credential (a deletion that fails halfway does not clear the cache), a deletion
\* did not find out the client's name, or the client is kept under a spelling of
\* the bucket's name that nothing invalidates.
THEOREM CachesStayCurrent == Spec => []CachesCurrent
<1>1. IInv => CachesCurrent
  BY DEF IInv, CacheInv, ScopeChanger, CachesCurrent, ScopeCacheCurrent
<1> QED
  BY <1>1, RegistryInvariance, PTL

\* One call's step.
Acts(p) ==
    \/ Begin(p) \/ PutBucket(p) \/ AddBucketScope(p)
    \/ ScopeRead(p) \/ ScopeInsert(p) \/ ScopeUpdate(p) \/ SeedScope(p)
    \/ LookupBucketScope(p) \/ RememberScope(p)
    \/ DeleteProjectData(p) \/ DropScope(p) \/ ClearScopes(p) \/ LastScope(p)
    \/ Seal(p) \/ WriteKek(p) \/ EnsureUniquePhysicalBucket(p) \/ TriggerCheck(p) \/ Upsert(p)
    \/ DeleteS3Credential(p) \/ ResolveCredentialID(p) \/ DeleteScopesOf(p) \/ DeleteCredentialRow(p)
    \/ InvalidateAliases(p) \/ GetClients(p) \/ StoreClient(p) \/ Fail(p)

\* A call that is overtaken stays where it is.
LEMMA OvertakenStays ==
    ASSUME TypeInv, NEW p \in Calls, NEW r \in Calls \ {p}, NEW to, NEW what, NEW touched(_),
           Overtakes(p, to, what, touched)
    PROVE  call'[r].pc = call[r].pc
<1> DEFINE o == call[r]
<1>1. o \in CallStates
  BY DEF TypeInv
<1>2. call'[r] \in {o, [o EXCEPT !.raced = @ \cup {what}]}
  BY DEF Overtakes
<1> HIDE DEF o
<1>3. [o EXCEPT !.raced = @ \cup {what}].pc = o.pc
  BY <1>1 DEF CallStates
<1> QED
  BY <1>2, <1>3 DEF o

\* Nobody moves another call.
LEMMA OthersStay ==
    ASSUME IInv, NEW p \in Calls, NEW r \in Calls \ {p}, Acts(p)
    PROVE  call'[r].pc = call[r].pc
<1>1. TypeInv /\ call \in [Calls -> CallStates]
  BY DEF IInv, TypeInv
<1>2. ASSUME NEW c, call' = [call EXCEPT ![p] = c]
      PROVE  call'[r].pc = call[r].pc
  BY <1>1, <1>2
<1>3. CASE Begin(p) \/ PutBucket(p) \/ AddBucketScope(p) \/ ScopeRead(p) \/ SeedScope(p) \/ LookupBucketScope(p)
  BY <1>1, <1>3 DEF Begin, PutBucket, AddBucketScope, ScopeRead, SeedScope, LookupBucketScope
<1>4. CASE RememberScope(p) \/ DeleteProjectData(p) \/ ClearScopes(p) \/ LastScope(p) \/ WriteKek(p)
             \/ EnsureUniquePhysicalBucket(p) \/ TriggerCheck(p)
  BY <1>1, <1>4 DEF RememberScope, DeleteProjectData, ClearScopes, LastScope, WriteKek,
     EnsureUniquePhysicalBucket, TriggerCheck
<1>5. CASE DeleteS3Credential(p) \/ ResolveCredentialID(p) \/ InvalidateAliases(p) \/ GetClients(p)
             \/ StoreClient(p) \/ Fail(p)
  BY <1>1, <1>5 DEF DeleteS3Credential, ResolveCredentialID, InvalidateAliases, GetClients, StoreClient, Fail
<1>6. CASE Seal(p)
  BY <1>1, <1>6 DEF Seal
<1>7. CASE ScopeInsert(p) \/ ScopeUpdate(p) \/ DropScope(p)
  BY <1>1, <1>7, OvertakenStays DEF ScopeInsert, ScopeUpdate, DropScope, ScopeOvertakes
<1>8. CASE Upsert(p) \/ DeleteScopesOf(p) \/ DeleteCredentialRow(p)
  BY <1>1, <1>8, OvertakenStays DEF Upsert, DeleteScopesOf, DeleteCredentialRow, CredentialOvertakes
<1> QED
  BY <1>3, <1>4, <1>5, <1>6, <1>7, <1>8 DEF Acts

\* A call that moves on does so by itself.
LEMMA OwnStep ==
    ASSUME IInv, [Next]_vars, NEW p \in Calls, call'[p].pc \notin {call[p].pc, "idle"}
    PROVE  Acts(p)
<1>1. CASE \E r \in Calls : Acts(r)
  BY <1>1, OthersStay
<1>2. CASE (\E q \in Projects : ExpireScope(q)) \/ Serve \/ UNCHANGED vars
  BY <1>2 DEF ExpireScope, Serve, vars
<1>3. CASE Stop
  BY <1>3, IdleFine DEF Stop
<1>4. (\E r \in Calls : Acts(r)) \/ (\E q \in Projects : ExpireScope(q)) \/ Serve \/ UNCHANGED vars \/ Stop
  BY DEF Next, Acts
<1> QED
  BY <1>1, <1>2, <1>3, <1>4

\* What a call does before its credential is stored, or its scopes are deleted.
LEMMA OwnWrite ==
    ASSUME IInv, NEW p \in Calls, Acts(p), call'[p].pc # "idle"
    PROVE  /\ call[p].pc \in {"upsert", "commit"} => Upsert(p)
           /\ call[p].pc = "delScopes" => DeleteScopesOf(p)
<1>1. CASE Begin(p) \/ PutBucket(p) \/ AddBucketScope(p) \/ ScopeRead(p) \/ ScopeInsert(p) \/ ScopeUpdate(p)
             \/ SeedScope(p) \/ LookupBucketScope(p) \/ RememberScope(p)
  BY <1>1 DEF Begin, PutBucket, AddBucketScope, ScopeRead, ScopeInsert, ScopeUpdate, SeedScope,
     LookupBucketScope, RememberScope, InFlight
<1>2. CASE DeleteProjectData(p) \/ DropScope(p) \/ ClearScopes(p) \/ LastScope(p)
             \/ Seal(p) \/ WriteKek(p) \/ EnsureUniquePhysicalBucket(p) \/ TriggerCheck(p)
  BY <1>2 DEF DeleteProjectData, DropScope, ClearScopes, LastScope, Seal, WriteKek,
     EnsureUniquePhysicalBucket, TriggerCheck, InFlight
<1>3. CASE DeleteS3Credential(p) \/ ResolveCredentialID(p) \/ DeleteCredentialRow(p)
             \/ InvalidateAliases(p) \/ GetClients(p) \/ StoreClient(p)
  BY <1>3 DEF DeleteS3Credential, ResolveCredentialID, DeleteCredentialRow, InvalidateAliases,
     GetClients, StoreClient, InFlight
<1>4. CASE Upsert(p) \/ DeleteScopesOf(p)
  BY <1>4 DEF Upsert, DeleteScopesOf, InFlight
<1>5. CASE Fail(p)
  BY <1>5, IdleFine DEF Fail, IInv, TypeInv
<1> QED
  BY <1>1, <1>2, <1>3, <1>4, <1>5 DEF Acts

\* Keys that were left out are still those of the row that is replaced.
LEMMA StepKeepsRotations ==
    ASSUME IInv, [Next]_vars
    PROVE  RotationKept
<1> USE DEF ScopePcs, SealedPcs, PutPcs
<1> SUFFICES ASSUME NEW p \in Calls, NEW i \in Ids,
                    call[p].pc \in {"upsert", "commit"}, call'[p].pc = "forget", call[p].id = i,
                    call[p].req.key = None, "cred" \notin call[p].raced
             PROVE  cred[i] # None /\ cred'[i].key = cred[i].key
  BY DEF RotationKept
<1>1. Upsert(p)
  BY OwnStep, OwnWrite
<1>2. Shape(call[p]) /\ CredTrue(call[p], cred) /\ cred \in [Ids -> Credential \cup {None}]
  BY CallKnown DEF TypeInv
<1>3. cred' = [cred EXCEPT ![i] = [bucket |-> call[p].req.bucket, key |-> call[p].seen, kek |-> call[p].kek]]
  BY <1>1, IdleFine DEF Upsert, IInv, TypeInv
<1>4. cred'[i].key = call[p].seen
  BY <1>2, <1>3
<1>5. call[p].req.kind = "put" /\ call[p].seen \in Keys /\ None \notin Keys
  BY <1>2, RegistryAssumption DEF Shape
<1>6. cred[i] # None /\ cred[i].key = call[p].seen
  BY <1>2, <1>5 DEF CredTrue
<1> QED
  BY <1>4, <1>6

\* Without a scope for it when it looked, a deletion takes none away, unless one
\* appeared meanwhile.
LEMMA StepKeepsSiblings ==
    ASSUME IInv, [Next]_vars
    PROVE  SiblingsKept
<1> USE DEF ScopePcs, PutPcs, GonePcs, LastPcs
<1> SUFFICES ASSUME NEW p \in Calls, NEW q \in Projects,
                    call[p].pc = "delScopes", call'[p].pc = "delCred", call[p].req.kind # "delete",
                    scope[q] # None, scope'[q] = None, "scope" \notin call[p].raced
             PROVE  FALSE
  BY DEF SiblingsKept
<1>1. DeleteScopesOf(p)
  BY OwnStep, OwnWrite
<1>2. Shape(call[p]) /\ ScopeTrue(call[p], scope)
  BY CallKnown
<1>3. scope[q].id = call[p].id
  BY <1>1 DEF DeleteScopesOf
<1>4. call[p].id # None
  BY <1>2 DEF Shape
<1> QED
  BY <1>2, <1>3, <1>4 DEF ScopeTrue

\* A rotated key and the scopes of other projects stay, unless a concurrent
\* request changed them between the look and the write.
THEOREM RegistrationsDoStick == Spec => RegistrationsStick
<1>1. IInv /\ [Next]_vars => RotationKept /\ SiblingsKept
  BY StepKeepsRotations, StepKeepsSiblings
<1> QED
  BY <1>1, RegistryInvariance, PTL DEF Spec, RegistrationsStick

=============================================================================
