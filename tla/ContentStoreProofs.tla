------------------------- MODULE ContentStoreProofs -------------------------
(***************************************************************************)
(* What the catalogue guarantees for every number of clients, ids, SHA-256 *)
(* values, resources and sessions: first as ContentStore describes its     *)
(* clients, then as the record service calls it, and what the service      *)
(* promises on top.                                                        *)
(***************************************************************************)
EXTENDS RecordService, FiniteSetTheorems, TLAPS

\* The tables are well formed, no SHA-256 has two rows unless an older server
\* stored it so, and every alias leads to a row.
Good(v) == v \in Tables /\ OneOwner(v) /\ TargetsExist(v)

\* A row that is there stays there with its SHA-256 and, once both are known, its
\* size.
KeepsContent(old, new) ==
    old # NoRow =>
      /\ new # NoRow
      /\ old.sha # NoSHA => new.sha = old.sha /\ (old.size # 0 => new.size = old.size)

\* The tables w came from the tables u by elements of a call of kind op: content
\* is kept, and unless op drops aliases every id still names the same row.
Follows(u, w, op) ==
    /\ \A i \in Ids : KeepsContent(u.rows[i], w.rows[i])
    /\ op # "deleteAlias" =>
         \A i \in Ids : Resolve(u, i) # NoId => Resolve(w, i) = Resolve(u, i)

\* The transaction that holds the lock would leave good tables behind at every
\* point where it may commit, tables that follow from the committed ones, and
\* nobody else has uncommitted writes.
TxnInv ==
    \A c \in Clients :
      IF txn[c].pc = "active" THEN lock = c /\ Good(View(c)) /\ Follows(db, View(c), txn[c].op)
      ELSE txn[c].writes = NoWrites

IInv == TypeOK /\ Good(db) /\ TxnInv

\* The catalogue's steps, whatever records and resources its callers name.
Locks(c) ==
    /\ txn[c].pc = "waiting"
    /\ LockFree(c)
    /\ lock' = c
    /\ \E op \in Ops, s \in Sessions, targets \in SUBSET Resources :
         txn' = [txn EXCEPT ![c].pc = "active", ![c].op = op,
                            ![c].session = s, ![c].targets = targets]
    /\ UNCHANGED <<db, last>>

RegistersAny(c) ==
    /\ Element(c, "register")
    /\ \E obj \in Record :
         /\ RegisterOK(View(c), txn[c].session, obj)
         /\ Writes(c, Registered(View(c), obj), {})

ReplacesAny(c) ==
    /\ Element(c, "replace")
    /\ \E obj \in Record :
         /\ ReplaceOK(View(c), txn[c].session, obj)
         /\ Writes(c, Replaced(View(c), obj), {})

StripsAny(c) ==
    /\ Element(c, "removeGrantBulk")
    /\ \/ Writes(c, View(c), {})
       \/ \E id \in {i \in Ids : Resolve(View(c), i) # NoId}, targets \in SUBSET Resources :
            Writes(c, WithoutGrants(View(c), txn[c].session, id, targets), {})

AnyCall(c) ==
    \/ RegistersAny(c) \/ ReplacesAny(c)
    \/ DeleteObject(c) \/ BulkDeleteObjects(c)
    \/ CreateObjectAlias(c) \/ DeleteObjectAlias(c)
    \/ UpdateObjectAccessMethods(c) \/ BulkUpdateAccessMethods(c)
    \/ RemoveObjectControlledAccess(c) \/ StripsAny(c)

StoreStep == \E c \in Clients : Begin(c) \/ Locks(c) \/ AnyCall(c) \/ Commit(c) \/ Rollback(c)

-----------------------------------------------------------------------------
(* The helpers. *)

\* A lookup of an id ends at an id or nowhere.
LEMMA ResolveType ==
    ASSUME NEW v \in Tables, NEW id \in Ids
    PROVE  Resolve(v, id) \in Ids \cup {NoId}
BY DEF Resolve, Tables

\* With existing alias targets, whatever a lookup finds is a physical row.
LEMMA ResolveRow ==
    ASSUME NEW v \in Tables, TargetsExist(v), NEW id \in Ids, Resolve(v, id) # NoId
    PROVE  Resolve(v, id) \in Ids /\ v.rows[Resolve(v, id)] \in Row
BY StoreAssumption DEF Resolve, Tables, TargetsExist

\* The owner of an element's SHA-256, or the row its id names, or its own id.
LEMMA CanonicalType ==
    ASSUME NEW v \in Tables, NEW obj \in Record
    PROVE  CanonicalID(v, obj) \in Ids
BY ResolveType DEF CanonicalID, Owners, Record, Tables

\* The type of the policy a write leaves.
LEMMA PolicyType ==
    ASSUME NEW policy, NEW public
    PROVE  SetPublicRead(policy, public) \in Policies
BY DEF SetPublicRead, Policies

-----------------------------------------------------------------------------
(* Each element leaves good tables when it finds them. *)

\* Storing a row under id c, with alias claims for it, keeps the tables good
\* if no other row has its SHA-256.
LEMMA PutRowGood ==
    ASSUME NEW v, Good(v), NEW c \in Ids, NEW row \in Row, NEW claims \in SUBSET Ids,
           \A j \in Ids \ {c} : ShaOf(v, j) = row.sha => row.sha \in LegacySHAs \cup {NoSHA}
    PROVE  Good([rows  |-> [v.rows EXCEPT ![c] = row],
                 alias |-> InsertAliases(v.alias, claims, c)])
<1> DEFINE w == [rows  |-> [v.rows EXCEPT ![c] = row],
                 alias |-> InsertAliases(v.alias, claims, c)]
<1>1. v \in Tables /\ OneOwner(v) /\ TargetsExist(v)
  BY DEF Good
<1>2. /\ w.rows = [v.rows EXCEPT ![c] = row]
      /\ w.alias = InsertAliases(v.alias, claims, c)
  OBVIOUS
<1>3. /\ w.alias \in [Ids -> Ids \cup {NoId}]
      /\ \A a \in Ids : w.alias[a] \in {v.alias[a], c}
  BY <1>1 DEF InsertAliases, Tables
<1>4. w \in Tables
  BY <1>1, <1>3 DEF Tables
<1>5. \A i \in Ids : ShaOf(w, i) = IF i = c THEN row.sha ELSE ShaOf(v, i)
  BY <1>1, StoreAssumption DEF ShaOf, Tables
<1> HIDE DEF w
<1>6. OneOwner(w)
  BY <1>1, <1>5 DEF OneOwner
<1>7. TargetsExist(w)
  <2> SUFFICES ASSUME NEW a \in Ids, w.alias[a] # NoId
               PROVE  w.rows[w.alias[a]] # NoRow
    BY DEF TargetsExist
  <2>1. CASE w.alias[a] = c
    BY <1>1, <1>2, <2>1, StoreAssumption DEF Tables
  <2>2. CASE w.alias[a] # c
    <3>1. w.alias[a] = v.alias[a] /\ v.alias[a] \in Ids
      BY <1>1, <1>3, <2>2 DEF Tables
    <3> QED
      BY <1>1, <1>2, <2>2, <3>1 DEF Tables, TargetsExist
  <2> QED
    BY <2>1, <2>2
<1>8. Good(w)
  BY <1>4, <1>6, <1>7 DEF Good
<1> QED
  BY <1>8 DEF w

\* A new row content with the same SHA-256, aliases untouched.
LEMMA UpdateRowGood ==
    ASSUME NEW v, Good(v), NEW c \in Ids, v.rows[c] \in Row,
           NEW row \in Row, row.sha = v.rows[c].sha
    PROVE  Good([v EXCEPT !.rows[c] = row])
<1>1. v \in Tables /\ OneOwner(v)
  BY DEF Good
<1>2. ShaOf(v, c) = row.sha
  BY StoreAssumption DEF ShaOf
<1>3. \A j \in Ids \ {c} : ShaOf(v, j) = row.sha => row.sha \in LegacySHAs \cup {NoSHA}
  BY <1>1, <1>2 DEF OneOwner
<1>4. InsertAliases(v.alias, {}, c) = v.alias
  BY <1>1 DEF InsertAliases, Tables
<1>5. [v EXCEPT !.rows[c] = row] =
        [rows |-> [v.rows EXCEPT ![c] = row], alias |-> InsertAliases(v.alias, {}, c)]
  BY <1>1, <1>4 DEF Tables
<1>6. Good([rows |-> [v.rows EXCEPT ![c] = row], alias |-> InsertAliases(v.alias, {}, c)])
  BY <1>3, {} \in SUBSET Ids, PutRowGood
<1> QED
  BY <1>5, <1>6

\* The row mergeContentRowTx and mergeContentChildren leave is a row.
LEMMA MergedRowType ==
    ASSUME NEW v \in Tables, NEW obj \in Record
    PROVE  MergedRow(v, obj) \in Row
<1> DEFINE canonical == CanonicalID(v, obj)
           row       == v.rows[canonical]
           methods   == IF obj.meths = Nil THEN {} ELSE obj.meths
<1>1. canonical \in Ids
  BY CanonicalType
<1>2. row \in Row \cup {NoRow}
  BY <1>1 DEF Tables
<1>3. /\ obj.sha \in SHAs \cup {NoSHA} /\ obj.size \in Sizes
      /\ ObjectResources(obj) \in SUBSET Resources
      /\ methods \in SUBSET Methods
  BY DEF Record, ObjectResources
<1>4. CASE row = NoRow
  BY <1>3, <1>4, PolicyType DEF MergedRow, Row
<1>5. CASE row \in Row
  <2>1. row # NoRow
    BY <1>5, StoreAssumption
  <2>2. MergedSize(row.size, obj.size) \in Sizes
    BY <1>3, <1>5 DEF MergedSize, Row
  <2> QED
    BY <1>3, <1>5, <2>1, <2>2, PolicyType DEF MergedRow, Row
<1> QED
  BY <1>2, <1>4, <1>5

\* The SHA-256 of the row a registration leaves.
LEMMA MergedRowSha ==
    ASSUME NEW v \in Tables, NEW obj \in Record
    PROVE  MergedRow(v, obj).sha = IF obj.sha = NoSHA THEN ShaOf(v, CanonicalID(v, obj)) ELSE obj.sha
BY DEF MergedRow, ShaOf

\* Registration: the SHA-256 lookup, the UUID claim and the merge keep one row
\* for each SHA-256 and every alias on a row.
LEMMA RegisteredGood ==
    ASSUME NEW v, Good(v), NEW s, NEW obj \in Record, RegisterOK(v, s, obj)
    PROVE  Good(Registered(v, obj))
<1> DEFINE canonical == CanonicalID(v, obj)
           row       == MergedRow(v, obj)
           claims    == obj.aliases \cup {obj.id}
<1>1. v \in Tables /\ OneOwner(v)
  BY DEF Good
<1>2. canonical \in Ids /\ row \in Row /\ claims \in SUBSET Ids
  BY <1>1, CanonicalType, MergedRowType DEF Record
<1>3. ASSUME NEW j \in Ids \ {canonical}, ShaOf(v, j) = row.sha
      PROVE  row.sha \in LegacySHAs \cup {NoSHA}
  <2>1. CASE obj.sha = NoSHA
    BY <1>1, <1>2, <1>3, <2>1, MergedRowSha DEF OneOwner
  <2>2. CASE obj.sha # NoSHA
    <3>1. ShaOf(v, j) = obj.sha
      BY <1>1, <1>3, <2>2, MergedRowSha
    <3>2. j \in Owners(v, obj.sha)
      BY <2>2, <3>1 DEF Owners, ShaOf
    <3>3. canonical \in Owners(v, obj.sha)
      BY <2>2, <3>2 DEF CanonicalID
    <3>4. \A i, k \in Owners(v, obj.sha) : i = k
      BY <2>2 DEF RegisterOK, IdentityOK
    <3> QED
      BY <3>2, <3>3, <3>4
  <2> QED
    BY <2>1, <2>2
<1> HIDE DEF row, canonical, claims
<1>4. Good([rows |-> [v.rows EXCEPT ![canonical] = row],
            alias |-> InsertAliases(v.alias, claims, canonical)])
  BY <1>2, <1>3, PutRowGood
<1> QED
  BY <1>4 DEF Registered, row, canonical, claims

\* The row replaceObjectTx leaves is a row.
LEMMA ReplacedRowType ==
    ASSUME NEW v \in Tables, NEW obj \in Record, v.rows[Resolve(v, obj.id)] \in Row
    PROVE  ReplacedRow(v, obj) \in Row
<1> DEFINE row == v.rows[Resolve(v, obj.id)]
<1>1. /\ obj.sha \in SHAs \cup {NoSHA} /\ obj.size \in Sizes
      /\ obj.res = Nil \/ obj.res \in SUBSET Resources
      /\ obj.meths = Nil \/ obj.meths \in SUBSET Methods
  BY DEF Record
<1> QED
  BY <1>1, PolicyType DEF ReplacedRow, Row

\* Replacement: a row gains a SHA-256 only if nobody owns it.
LEMMA ReplacedGood ==
    ASSUME NEW v, Good(v), NEW s, NEW obj \in Record, ReplaceOK(v, s, obj)
    PROVE  Good(Replaced(v, obj))
<1> DEFINE canonical == Resolve(v, obj.id)
           row       == ReplacedRow(v, obj)
           claims    == obj.aliases \cup {obj.id}
<1>1. v \in Tables /\ OneOwner(v) /\ TargetsExist(v)
  BY DEF Good
<1>2. canonical \in Ids /\ v.rows[canonical] \in Row
  BY <1>1, ResolveRow DEF ReplaceOK, Record
<1>3. row \in Row /\ claims \in SUBSET Ids
  BY <1>1, <1>2, ReplacedRowType DEF Record
<1>4. ShaOf(v, canonical) = v.rows[canonical].sha
  BY <1>2, StoreAssumption DEF ShaOf
<1>5. row.sha = IF obj.sha = NoSHA THEN ShaOf(v, canonical) ELSE obj.sha
  BY <1>4 DEF ReplacedRow
<1>6. ASSUME NEW j \in Ids \ {canonical}, ShaOf(v, j) = row.sha
      PROVE  row.sha \in LegacySHAs \cup {NoSHA}
  <2>1. CASE row.sha = ShaOf(v, canonical)
    BY <1>1, <1>2, <1>6, <2>1 DEF OneOwner
  <2>2. CASE row.sha # ShaOf(v, canonical)
    <3>1. obj.sha # NoSHA /\ ShaOf(v, canonical) = NoSHA /\ Owners(v, obj.sha) = {}
      BY <1>5, <2>2 DEF ReplaceOK
    <3>2. j \in Owners(v, obj.sha)
      BY <1>5, <1>6, <3>1 DEF Owners, ShaOf
    <3> QED
      BY <3>1, <3>2
  <2> QED
    BY <2>1, <2>2
<1> HIDE DEF row, canonical, claims
<1>7. Good([rows |-> [v.rows EXCEPT ![canonical] = row],
            alias |-> InsertAliases(v.alias, claims, canonical)])
  BY <1>2, <1>3, <1>6, PutRowGood
<1> QED
  BY <1>7 DEF Replaced, row, canonical, claims

\* Deletion takes the alias rows with it.
LEMMA WithoutRowsGood ==
    ASSUME NEW v, Good(v), NEW ids \in SUBSET Ids
    PROVE  Good(WithoutRows(v, ids))
<1> DEFINE w == WithoutRows(v, ids)
<1>1. v \in Tables /\ OneOwner(v) /\ TargetsExist(v)
  BY DEF Good
<1>2. w \in Tables
  BY <1>1 DEF WithoutRows, Tables
<1>3. OneOwner(w)
  BY <1>1 DEF OneOwner, ShaOf, WithoutRows, Tables
<1>4. TargetsExist(w)
  BY <1>1, StoreAssumption DEF TargetsExist, WithoutRows, Tables
<1> QED
  BY <1>2, <1>3, <1>4 DEF Good

\* A new alias for a row that exists.
LEMMA AliasGood ==
    ASSUME NEW v, Good(v), NEW alias \in Ids, NEW c \in Ids, v.rows[c] # NoRow
    PROVE  Good([v EXCEPT !.alias = InsertAliases(@, {alias}, c)])
<1> DEFINE w == [v EXCEPT !.alias = InsertAliases(@, {alias}, c)]
<1>1. v \in Tables /\ OneOwner(v) /\ TargetsExist(v)
  BY DEF Good
<1>2. w.rows = v.rows /\ w.alias = InsertAliases(v.alias, {alias}, c) /\ w \in Tables
  BY <1>1 DEF Tables, InsertAliases
<1>3. \A a \in Ids : w.alias[a] \in {v.alias[a], c}
  BY <1>1 DEF Tables, InsertAliases
<1> HIDE DEF w
<1>4. OneOwner(w)
  BY <1>1, <1>2 DEF OneOwner, ShaOf
<1>5. TargetsExist(w)
  BY <1>1, <1>2, <1>3 DEF TargetsExist
<1>6. Good(w)
  BY <1>2, <1>4, <1>5 DEF Good
<1> QED
  BY <1>6 DEF w

\* Dropping an alias row.
LEMMA DropAliasGood ==
    ASSUME NEW v, Good(v), NEW alias \in Ids
    PROVE  Good([v EXCEPT !.alias[alias] = NoId])
<1> DEFINE w == [v EXCEPT !.alias[alias] = NoId]
<1>1. v \in Tables /\ OneOwner(v) /\ TargetsExist(v)
  BY DEF Good
<1>2. w.rows = v.rows /\ w \in Tables
  BY <1>1 DEF Tables
<1>3. \A a \in Ids : w.alias[a] \in {v.alias[a], NoId}
  BY <1>1 DEF Tables
<1> HIDE DEF w
<1>4. OneOwner(w)
  BY <1>1, <1>2 DEF OneOwner, ShaOf
<1>5. TargetsExist(w)
  BY <1>1, <1>2, <1>3 DEF TargetsExist
<1>6. Good(w)
  BY <1>2, <1>4, <1>5 DEF Good
<1> QED
  BY <1>6 DEF w

\* New access methods.
LEMMA WithMethodsGood ==
    ASSUME NEW v, Good(v), NEW id \in Ids, Resolve(v, id) # NoId, NEW methods \in SUBSET Methods
    PROVE  Good(WithMethods(v, id, methods))
<1> DEFINE c   == Resolve(v, id)
           row == [v.rows[c] EXCEPT !.meths = methods]
<1>1. v \in Tables /\ TargetsExist(v)
  BY DEF Good
<1>2. c \in Ids /\ v.rows[c] \in Row
  BY <1>1, ResolveRow
<1>3. row \in Row /\ row.sha = v.rows[c].sha
  BY <1>2 DEF Row
<1>4. WithMethods(v, id, methods) = [v EXCEPT !.rows[c] = row]
  BY <1>1, <1>2 DEF WithMethods, Tables
<1> HIDE DEF c, row
<1> QED
  BY <1>2, <1>3, <1>4, UpdateRowGood

\* A grant goes, with the policy pinned.
LEMMA WithoutGrantGood ==
    ASSUME NEW v, Good(v), NEW id \in Ids, Resolve(v, id) # NoId, NEW resource
    PROVE  Good(WithoutGrant(v, id, resource))
<1> DEFINE c   == Resolve(v, id)
           old == v.rows[c]
           row == [old EXCEPT !.res    = @ \ {resource},
                              !.policy = SetPublicRead(@, PublicRead(v, c, old.res = {}))]
<1>1. v \in Tables /\ TargetsExist(v)
  BY DEF Good
<1>2. c \in Ids /\ v.rows[c] \in Row
  BY <1>1, ResolveRow
<1>3. row \in Row /\ row.sha = v.rows[c].sha
  BY <1>2, PolicyType DEF Row
<1>4. WithoutGrant(v, id, resource) = [v EXCEPT !.rows[c] = row]
  BY DEF WithoutGrant
<1> HIDE DEF c, row
<1> QED
  BY <1>2, <1>3, <1>4, UpdateRowGood

\* Several grants go, with the policy recomputed.
LEMMA WithoutGrantsGood ==
    ASSUME NEW v, Good(v), NEW s, NEW id \in Ids, Resolve(v, id) # NoId, NEW targets
    PROVE  Good(WithoutGrants(v, s, id, targets))
<1> DEFINE c    == Resolve(v, id)
           old  == v.rows[c]
           left == old.res \ RemovableGrants(v, s, c, targets)
           row  == [old EXCEPT !.res    = left,
                               !.policy = SetPublicRead(@, PublicRead(v, c, left = {}))]
<1>1. v \in Tables /\ TargetsExist(v)
  BY DEF Good
<1>2. c \in Ids /\ v.rows[c] \in Row
  BY <1>1, ResolveRow
<1>3. row \in Row /\ row.sha = v.rows[c].sha
  BY <1>2, PolicyType DEF Row
<1>4. WithoutGrants(v, s, id, targets) \in {v, [v EXCEPT !.rows[c] = row]}
  BY DEF WithoutGrants
<1> HIDE DEF c, row
<1>5. Good([v EXCEPT !.rows[c] = row])
  BY <1>2, <1>3, UpdateRowGood
<1> QED
  BY <1>4, <1>5

-----------------------------------------------------------------------------
(* Each element's tables follow from the ones it found. *)

\* Tables that do not change keep content and names.
LEMMA FollowsReflexive ==
    ASSUME NEW v, NEW op
    PROVE  Follows(v, v, op)
BY DEF Follows, KeepsContent

\* Element after element, content and names are kept.
LEMMA FollowsTransitive ==
    ASSUME NEW u, NEW v, NEW w, NEW op, Follows(u, v, op), Follows(v, w, op)
    PROVE  Follows(u, w, op)
BY DEF Follows, KeepsContent

\* Storing a row under c keeps every name if c was no alias.
LEMMA PutRowFollows ==
    ASSUME NEW v \in Tables, NEW c \in Ids, NEW row \in Row, NEW claims \in SUBSET Ids,
           KeepsContent(v.rows[c], row),
           v.rows[c] = NoRow => v.alias[c] = NoId, NEW op
    PROVE  Follows(v, [rows  |-> [v.rows EXCEPT ![c] = row],
                       alias |-> InsertAliases(v.alias, claims, c)], op)
<1> DEFINE w == [rows  |-> [v.rows EXCEPT ![c] = row],
                 alias |-> InsertAliases(v.alias, claims, c)]
<1>1. /\ w.rows = [v.rows EXCEPT ![c] = row]
      /\ \A a \in Ids : v.alias[a] # NoId => w.alias[a] = v.alias[a]
  BY DEF InsertAliases
<1>2. v.rows \in [Ids -> Row \cup {NoRow}] /\ row # NoRow
  BY StoreAssumption DEF Tables
<1> HIDE DEF w
<1>3. ASSUME NEW i \in Ids
      PROVE  KeepsContent(v.rows[i], w.rows[i])
  BY <1>1, <1>2 DEF KeepsContent
<1>4. ASSUME NEW i \in Ids, Resolve(v, i) # NoId
      PROVE  Resolve(w, i) = Resolve(v, i)
  BY <1>1, <1>2, <1>4 DEF Resolve
<1>5. Follows(v, w, op)
  BY <1>3, <1>4 DEF Follows
<1> QED
  BY <1>5 DEF w

\* New row content with the same SHA-256 and size keeps every name.
LEMMA UpdateRowFollows ==
    ASSUME NEW v \in Tables, NEW c \in Ids, v.rows[c] \in Row,
           NEW row \in Row, KeepsContent(v.rows[c], row), NEW op
    PROVE  Follows(v, [v EXCEPT !.rows[c] = row], op)
<1> DEFINE w == [v EXCEPT !.rows[c] = row]
<1>1. w.rows = [v.rows EXCEPT ![c] = row] /\ w.alias = v.alias
  BY DEF Tables
<1>2. v.rows \in [Ids -> Row \cup {NoRow}] /\ row # NoRow /\ v.rows[c] # NoRow
  BY StoreAssumption DEF Tables
<1> HIDE DEF w
<1>3. ASSUME NEW i \in Ids
      PROVE  KeepsContent(v.rows[i], w.rows[i]) /\ Resolve(w, i) = Resolve(v, i)
  BY <1>1, <1>2 DEF KeepsContent, Resolve
<1>4. Follows(v, w, op)
  BY <1>3 DEF Follows
<1> QED
  BY <1>4 DEF w

\* A registration keeps the content of every row and what every id names.
LEMMA RegisteredFollows ==
    ASSUME NEW v, Good(v), NEW s, NEW obj \in Record, RegisterOK(v, s, obj), NEW op
    PROVE  Follows(v, Registered(v, obj), op)
<1> DEFINE canonical == CanonicalID(v, obj)
           row       == MergedRow(v, obj)
           claims    == obj.aliases \cup {obj.id}
           old       == v.rows[canonical]
<1>1. v \in Tables /\ TargetsExist(v)
  BY DEF Good
<1>2. canonical \in Ids /\ row \in Row /\ claims \in SUBSET Ids
  BY <1>1, CanonicalType, MergedRowType DEF Record
<1>3. old = NoRow => v.alias[canonical] = NoId
  <2> SUFFICES ASSUME old = NoRow PROVE v.alias[canonical] = NoId
    OBVIOUS
  <2>1. obj.sha = NoSHA \/ Owners(v, obj.sha) = {}
    BY DEF CanonicalID, Owners
  <2>2. Resolve(v, obj.id) = NoId
    BY <1>1, <2>1, ResolveRow, StoreAssumption DEF CanonicalID, Record
  <2> QED
    BY <2>1, <2>2 DEF CanonicalID, Resolve
<1>4. KeepsContent(old, row)
  <2> SUFFICES ASSUME old # NoRow
               PROVE  /\ row # NoRow
                      /\ old.sha # NoSHA =>
                           row.sha = old.sha /\ (old.size # 0 => row.size = old.size)
    BY DEF KeepsContent
  <2>1. row # NoRow
    BY <1>2, StoreAssumption
  <2>2. ASSUME old.sha # NoSHA, obj.sha # NoSHA PROVE obj.sha = old.sha
    <3>1. CASE Owners(v, obj.sha) # {}
      BY <2>2, <3>1 DEF CanonicalID, Owners
    <3>2. CASE Owners(v, obj.sha) = {}
      <4>1. CASE Resolve(v, obj.id) = NoId
        BY <3>2, <4>1, StoreAssumption DEF CanonicalID, Resolve, Record
      <4>2. CASE Resolve(v, obj.id) # NoId
        <5>1. canonical = Resolve(v, obj.id)
          BY <3>2, <4>2 DEF CanonicalID
        <5>2. ShaOf(v, canonical) = NoSHA
          BY <2>2, <3>2, <4>2, <5>1 DEF RegisterOK, IdentityOK
        <5> QED
          BY <2>2, <5>2 DEF ShaOf
      <4> QED
        BY <4>1, <4>2
    <3> QED
      BY <3>1, <3>2
  <2>3. /\ row.sha = IF obj.sha = NoSHA THEN old.sha ELSE obj.sha
        /\ row.size = MergedSize(old.size, obj.size)
    BY DEF MergedRow
  <2> QED
    BY <2>1, <2>2, <2>3 DEF MergedSize
<1> HIDE DEF row, canonical, claims
<1>5. Follows(v, [rows |-> [v.rows EXCEPT ![canonical] = row],
                  alias |-> InsertAliases(v.alias, claims, canonical)], op)
  BY <1>1, <1>2, <1>3, <1>4, PutRowFollows
<1> QED
  BY <1>5 DEF Registered, row, canonical, claims

\* So does a replacement.
LEMMA ReplacedFollows ==
    ASSUME NEW v, Good(v), NEW s, NEW obj \in Record, ReplaceOK(v, s, obj), NEW op
    PROVE  Follows(v, Replaced(v, obj), op)
<1> DEFINE canonical == Resolve(v, obj.id)
           row       == ReplacedRow(v, obj)
           claims    == obj.aliases \cup {obj.id}
           old       == v.rows[canonical]
<1>1. v \in Tables /\ TargetsExist(v)
  BY DEF Good
<1>2. canonical \in Ids /\ old \in Row /\ old # NoRow
  BY <1>1, ResolveRow DEF ReplaceOK, Record
<1>3. row \in Row /\ row # NoRow /\ claims \in SUBSET Ids
  BY <1>1, <1>2, ReplacedRowType, StoreAssumption DEF Record
<1>4. ASSUME old.sha # NoSHA
      PROVE  /\ obj.sha # NoSHA => obj.sha = old.sha
             /\ ~SizesConflict(old.size, obj.size)
  BY <1>2, <1>4 DEF ReplaceOK, ShaOf
<1>5. /\ row.sha = IF obj.sha = NoSHA THEN old.sha ELSE obj.sha
      /\ row.size = IF obj.size = 0 THEN old.size ELSE obj.size
  BY DEF ReplacedRow
<1>6. KeepsContent(old, row)
  BY <1>3, <1>4, <1>5 DEF KeepsContent, SizesConflict
<1> HIDE DEF row, canonical, claims
<1>7. Follows(v, [rows |-> [v.rows EXCEPT ![canonical] = row],
                  alias |-> InsertAliases(v.alias, claims, canonical)], op)
  BY <1>1, <1>2, <1>3, <1>6, PutRowFollows
<1> QED
  BY <1>7 DEF Replaced, row, canonical, claims

\* So does a new alias, because its id names nothing else.
LEMMA AliasFollows ==
    ASSUME NEW v \in Tables, NEW alias \in Ids, NEW c \in Ids, NEW op
    PROVE  Follows(v, [v EXCEPT !.alias = InsertAliases(@, {alias}, c)], op)
<1> DEFINE w == [v EXCEPT !.alias = InsertAliases(@, {alias}, c)]
<1>1. /\ w.rows = v.rows
      /\ \A a \in Ids : v.alias[a] # NoId => w.alias[a] = v.alias[a]
  BY DEF Tables, InsertAliases
<1> HIDE DEF w
<1>2. Follows(v, w, op)
  BY <1>1 DEF Follows, KeepsContent, Resolve
<1> QED
  BY <1>2 DEF w

\* Dropping an alias keeps the content of every row.
LEMMA DropAliasFollows ==
    ASSUME NEW v \in Tables, NEW alias \in Ids
    PROVE  Follows(v, [v EXCEPT !.alias[alias] = NoId], "deleteAlias")
BY DEF Tables, Follows, KeepsContent

\* New access methods keep content and names.
LEMMA WithMethodsFollows ==
    ASSUME NEW v, Good(v), NEW id \in Ids, Resolve(v, id) # NoId, NEW methods \in SUBSET Methods,
           NEW op
    PROVE  Follows(v, WithMethods(v, id, methods), op)
<1> DEFINE c   == Resolve(v, id)
           row == [v.rows[c] EXCEPT !.meths = methods]
<1>1. v \in Tables /\ TargetsExist(v)
  BY DEF Good
<1>2. c \in Ids /\ v.rows[c] \in Row
  BY <1>1, ResolveRow
<1>3. row \in Row /\ KeepsContent(v.rows[c], row)
  BY <1>2, StoreAssumption DEF Row, KeepsContent
<1>4. WithMethods(v, id, methods) = [v EXCEPT !.rows[c] = row]
  BY <1>1, <1>2 DEF WithMethods, Tables
<1> HIDE DEF c, row
<1> QED
  BY <1>1, <1>2, <1>3, <1>4, UpdateRowFollows

\* So does the removal of a grant.
LEMMA WithoutGrantFollows ==
    ASSUME NEW v, Good(v), NEW id \in Ids, Resolve(v, id) # NoId, NEW resource, NEW op
    PROVE  Follows(v, WithoutGrant(v, id, resource), op)
<1> DEFINE c   == Resolve(v, id)
           old == v.rows[c]
           row == [old EXCEPT !.res    = @ \ {resource},
                              !.policy = SetPublicRead(@, PublicRead(v, c, old.res = {}))]
<1>1. v \in Tables /\ TargetsExist(v)
  BY DEF Good
<1>2. c \in Ids /\ v.rows[c] \in Row
  BY <1>1, ResolveRow
<1>3. row \in Row /\ row.sha = old.sha /\ row.size = old.size
  BY <1>2, PolicyType DEF Row
<1>4. KeepsContent(v.rows[c], row)
  BY <1>3, StoreAssumption DEF KeepsContent
<1>5. WithoutGrant(v, id, resource) = [v EXCEPT !.rows[c] = row]
  BY DEF WithoutGrant
<1> HIDE DEF c, old, row
<1> QED
  BY <1>1, <1>2, <1>3, <1>4, <1>5, UpdateRowFollows

\* So does the removal of the grants of a scope.
LEMMA WithoutGrantsFollows ==
    ASSUME NEW v, Good(v), NEW s, NEW id \in Ids, Resolve(v, id) # NoId, NEW targets, NEW op
    PROVE  Follows(v, WithoutGrants(v, s, id, targets), op)
<1> DEFINE c    == Resolve(v, id)
           old  == v.rows[c]
           left == old.res \ RemovableGrants(v, s, c, targets)
           row  == [old EXCEPT !.res    = left,
                               !.policy = SetPublicRead(@, PublicRead(v, c, left = {}))]
<1>1. v \in Tables /\ TargetsExist(v)
  BY DEF Good
<1>2. c \in Ids /\ v.rows[c] \in Row
  BY <1>1, ResolveRow
<1>3. row \in Row /\ row.sha = old.sha /\ row.size = old.size
  BY <1>2, PolicyType DEF Row
<1>4. KeepsContent(v.rows[c], row)
  BY <1>3, StoreAssumption DEF KeepsContent
<1>5. WithoutGrants(v, s, id, targets) \in {v, [v EXCEPT !.rows[c] = row]}
  BY DEF WithoutGrants
<1> HIDE DEF c, old, row
<1>6. Follows(v, [v EXCEPT !.rows[c] = row], op)
  BY <1>1, <1>2, <1>3, <1>4, UpdateRowFollows
<1> QED
  BY <1>5, <1>6, FollowsReflexive

-----------------------------------------------------------------------------
(* Transactions. *)

\* An element's writes show the client the tables the element computed.
LEMMA ViewAfterWrites ==
    ASSUME TypeOK, NEW c \in Clients, NEW v \in Tables, NEW doomed,
           Writes(c, v, doomed), UNCHANGED db
    PROVE  View(c)' = v
<1> DEFINE w == Wrote(c, v)
<1>1. txn'[c].writes = w
  BY DEF Writes, TypeOK, Transactions
<1>2. ASSUME NEW i \in Ids
      PROVE  (IF w.rows[i] = Keep THEN db.rows[i] ELSE w.rows[i]) = v.rows[i]
  BY <1>2, StoreAssumption DEF Wrote, View, Tables
<1>3. ASSUME NEW i \in Ids
      PROVE  (IF w.alias[i] = Keep THEN db.alias[i] ELSE w.alias[i]) = v.alias[i]
  BY <1>3, StoreAssumption DEF Wrote, View, Tables
<1> HIDE DEF w
<1>4. View(c)' = [rows  |-> [i \in Ids |-> IF w.rows[i] = Keep THEN db.rows[i] ELSE w.rows[i]],
                  alias |-> [i \in Ids |-> IF w.alias[i] = Keep THEN db.alias[i] ELSE w.alias[i]]]
  BY <1>1 DEF View
<1>5. /\ v = [rows |-> v.rows, alias |-> v.alias]
      /\ v.rows = [i \in Ids |-> v.rows[i]] /\ v.alias = [i \in Ids |-> v.alias[i]]
  BY DEF Tables
<1> QED
  BY <1>2, <1>3, <1>4, <1>5

\* Any element that computes good tables keeps the invariant.
LEMMA ElementStep ==
    ASSUME IInv, NEW c \in Clients, NEW op \in Ops, Element(c, op),
           NEW v, Good(v), Follows(View(c), v, op),
           NEW doomed \in SUBSET Ids, Writes(c, v, doomed)
    PROVE  IInv'
<1>1. TypeOK /\ Good(db) /\ TxnInv /\ v \in Tables
  BY DEF IInv, Good
<1>2. /\ UNCHANGED <<db, lock, last>> /\ txn[c].pc = "active" /\ txn[c].op = op
      /\ lock = c /\ Follows(db, View(c), op)
  BY <1>1 DEF Element, TxnInv
<1>3. Wrote(c, v) \in [rows  : [Ids -> Row \cup {NoRow, Keep}],
                       alias : [Ids -> Ids \cup {NoId, Keep}]]
  BY <1>1 DEF Wrote, TypeOK, Transactions, Tables
<1>4. txn[c].n \in Nat /\ txn[c].n + 1 \in 0 .. MaxBatch
  BY <1>1, StoreAssumption DEF Element, Max, TypeOK, Transactions
<1> DEFINE t == [txn[c] EXCEPT !.writes = Wrote(c, v), !.n = @ + 1, !.doomed = @ \cup doomed]
<1>5. txn' = [txn EXCEPT ![c] = t] /\ t.pc = "active" /\ t.op = op
  BY <1>1, <1>2 DEF Writes, TypeOK, Transactions
<1>6. TypeOK'
  <2>1. txn[c] \in Transactions
    BY <1>1 DEF TypeOK
  <2>2. t \in Transactions
    BY <1>3, <1>4, <2>1 DEF Transactions
  <2> HIDE DEF t
  <2> QED
    BY <1>1, <1>2, <1>5, <2>2 DEF TypeOK
<1>7. Good(db)'
  BY <1>1, <1>2 DEF Good, OneOwner, TargetsExist, ShaOf
<1> HIDE DEF t
<1>8. TxnInv'
  <2> SUFFICES ASSUME NEW d \in Clients
               PROVE  IF txn'[d].pc = "active" THEN /\ lock' = d /\ Good(View(d)')
                                                         /\ Follows(db', View(d)', txn'[d].op)
                      ELSE txn'[d].writes = NoWrites
    BY DEF TxnInv, Good, OneOwner, TargetsExist, ShaOf, NoWrites, Follows, Resolve
  <2>1. CASE d = c
    <3>1. View(c)' = v
      BY <1>1, <1>2, ViewAfterWrites
    <3>2. txn'[c].pc = "active" /\ txn'[c].op = op
      BY <1>1, <1>5 DEF TypeOK
    <3>3. Follows(db, v, op)
      BY <1>2, FollowsTransitive
    <3> QED
      BY <1>2, <2>1, <3>1, <3>2, <3>3
  <2>2. CASE d # c
    <3>1. txn'[d] = txn[d]
      BY <1>1, <1>5, <2>2 DEF TypeOK
    <3>2. txn[d].pc # "active" /\ txn[d].writes = NoWrites
      BY <1>1, <1>2, <2>2 DEF TxnInv
    <3> QED
      BY <3>1, <3>2
  <2> QED
    BY <2>1, <2>2
<1> QED
  BY <1>6, <1>7, <1>8 DEF IInv

-----------------------------------------------------------------------------
(* The inductive invariant. *)

\* The record of a client between two calls is a transaction record.
LEMMA IdleType == Idle \in Transactions
<1>1. NoWrites \in [rows  : [Ids -> Row \cup {NoRow, Keep}],
                    alias : [Ids -> Ids \cup {NoId, Keep}]]
  BY DEF NoWrites
<1>2. (CHOOSE s \in Sessions : TRUE) \in Sessions
  BY StoreAssumption
<1> QED
  BY <1>1, <1>2, StoreAssumption DEF Idle, Transactions, Ops, BulkOps, SingleOps

\* An empty or legacy catalogue satisfies the invariant.
LEMMA InitInv == Init => IInv
<1> SUFFICES ASSUME Init PROVE IInv
  OBVIOUS
<1>1. db \in Tables
  BY StoreAssumption DEF Init, Tables
<1>2. TypeOK
  BY <1>1, IdleType DEF Init, TypeOK, Transactions, Idle, Ops, BulkOps, SingleOps
<1>3. OneOwner(db) /\ TargetsExist(db)
  BY DEF Init, OneOwner, TargetsExist
<1>4. TxnInv
  BY DEF Init, TxnInv, Idle
<1> QED
  BY <1>1, <1>2, <1>3, <1>4 DEF IInv, Good

\* The elements of the ten calls.
LEMMA CallInv ==
    ASSUME IInv, NEW c \in Clients, AnyCall(c)
    PROVE  IInv'
<1> DEFINE v == View(c)
           s == txn[c].session
<1> USE DEF Ops, BulkOps, SingleOps
<1>1. txn[c].pc = "active" /\ TypeOK /\ TxnInv
  BY DEF AnyCall, RegistersAny, ReplacesAny, DeleteObject, BulkDeleteObjects,
     CreateObjectAlias, DeleteObjectAlias, UpdateObjectAccessMethods, BulkUpdateAccessMethods,
     RemoveObjectControlledAccess, StripsAny, Element, IInv
<1>2. Good(v) /\ v \in Tables
  BY <1>1 DEF TxnInv, Good
<1> HIDE DEF v, s
<1>3. CASE RegistersAny(c)
  <2>1. PICK obj \in Record : RegisterOK(v, s, obj) /\ Writes(c, Registered(v, obj), {})
    BY <1>3 DEF RegistersAny, v, s
  <2>2. Good(Registered(v, obj)) /\ Follows(v, Registered(v, obj), "register")
    BY <1>2, <2>1, RegisteredGood, RegisteredFollows, StoreAssumption
  <2> QED
    BY <1>3, <2>1, <2>2, ElementStep DEF RegistersAny, v
<1>4. CASE ReplacesAny(c)
  <2>1. PICK obj \in Record : ReplaceOK(v, s, obj) /\ Writes(c, Replaced(v, obj), {})
    BY <1>4 DEF ReplacesAny, v, s
  <2>2. Good(Replaced(v, obj)) /\ Follows(v, Replaced(v, obj), "replace")
    BY <1>2, <2>1, ReplacedGood, ReplacedFollows, StoreAssumption
  <2> QED
    BY <1>4, <2>1, <2>2, ElementStep DEF ReplacesAny, v
<1>5. CASE DeleteObject(c)
  <2>1. PICK id \in Ids : DeleteOK(v, s, id) /\ Writes(c, v, {Resolve(v, id)})
    BY <1>5 DEF DeleteObject, v, s
  <2>2. {Resolve(v, id)} \in SUBSET Ids
    BY <1>2, <2>1, ResolveType DEF DeleteOK
  <2> QED
    BY <1>2, <1>5, <2>1, <2>2, FollowsReflexive, ElementStep DEF DeleteObject, v
<1>6. CASE BulkDeleteObjects(c)
  <2>1. PICK id \in Ids : Writes(c, v, {Resolve(v, id)} \ {NoId})
    BY <1>6 DEF BulkDeleteObjects, v, s
  <2>2. {Resolve(v, id)} \ {NoId} \in SUBSET Ids
    BY <1>2, ResolveType
  <2> QED
    BY <1>2, <1>6, <2>1, <2>2, FollowsReflexive, ElementStep DEF BulkDeleteObjects, v
<1>7. CASE CreateObjectAlias(c)
  <2>1. PICK alias \in Ids, canonical \in Ids :
          /\ CreateAliasOK(v, s, alias, canonical)
          /\ Writes(c, [v EXCEPT !.alias = InsertAliases(@, {alias}, canonical)], {})
    BY <1>7 DEF CreateObjectAlias, v, s
  <2>2. /\ Good([v EXCEPT !.alias = InsertAliases(@, {alias}, canonical)])
        /\ Follows(v, [v EXCEPT !.alias = InsertAliases(@, {alias}, canonical)], "createAlias")
    BY <1>2, <2>1, AliasGood, AliasFollows DEF CreateAliasOK
  <2> QED
    BY <1>7, <2>1, <2>2, ElementStep DEF CreateObjectAlias, v
<1>8. CASE DeleteObjectAlias(c)
  <2>1. PICK alias \in Ids : Writes(c, [v EXCEPT !.alias[alias] = NoId], {})
    BY <1>8 DEF DeleteObjectAlias, v
  <2>2. /\ Good([v EXCEPT !.alias[alias] = NoId])
        /\ Follows(v, [v EXCEPT !.alias[alias] = NoId], "deleteAlias")
    BY <1>2, DropAliasGood, DropAliasFollows
  <2> QED
    BY <1>8, <2>1, <2>2, ElementStep DEF DeleteObjectAlias, v
<1>9. CASE UpdateObjectAccessMethods(c)
  <2>1. PICK id \in Ids, methods \in SUBSET Methods :
          UpdateMethodsOK(v, s, id) /\ Writes(c, WithMethods(v, id, methods), {})
    BY <1>9 DEF UpdateObjectAccessMethods, v, s
  <2>2. Good(WithMethods(v, id, methods)) /\ Follows(v, WithMethods(v, id, methods), "methods")
    BY <1>2, <2>1, WithMethodsGood, WithMethodsFollows DEF UpdateMethodsOK
  <2> QED
    BY <1>9, <2>1, <2>2, ElementStep DEF UpdateObjectAccessMethods, v
<1>10. CASE BulkUpdateAccessMethods(c)
  <2>1. PICK id \in Ids, methods \in SUBSET Methods :
          UpdateMethodsOK(v, s, id) /\ Writes(c, WithMethods(v, id, methods), {})
    BY <1>10 DEF BulkUpdateAccessMethods, v, s
  <2>2. Good(WithMethods(v, id, methods)) /\ Follows(v, WithMethods(v, id, methods), "bulkMethods")
    BY <1>2, <2>1, WithMethodsGood, WithMethodsFollows DEF UpdateMethodsOK
  <2> QED
    BY <1>10, <2>1, <2>2, ElementStep DEF BulkUpdateAccessMethods, v
<1>11. CASE RemoveObjectControlledAccess(c)
  <2>1. PICK id \in Ids, resource \in Resources :
          RemoveGrantOK(v, s, id, resource) /\ Writes(c, WithoutGrant(v, id, resource), {})
    BY <1>11 DEF RemoveObjectControlledAccess, v, s
  <2>2. /\ Good(WithoutGrant(v, id, resource))
        /\ Follows(v, WithoutGrant(v, id, resource), "removeGrant")
    BY <1>2, <2>1, WithoutGrantGood, WithoutGrantFollows DEF RemoveGrantOK
  <2> QED
    BY <1>11, <2>1, <2>2, ElementStep DEF RemoveObjectControlledAccess, v
<1>12. CASE StripsAny(c)
  <2>1. Element(c, "removeGrantBulk")
    BY <1>12 DEF StripsAny
  <2>2. CASE Writes(c, v, {})
    BY <1>2, <2>1, <2>2, FollowsReflexive, ElementStep DEF v
  <2>3. ASSUME NEW id \in Ids, NEW targets \in SUBSET Resources, Resolve(v, id) # NoId,
               Writes(c, WithoutGrants(v, s, id, targets), {})
        PROVE  IInv'
    <3>1. /\ Good(WithoutGrants(v, s, id, targets))
          /\ Follows(v, WithoutGrants(v, s, id, targets), "removeGrantBulk")
      BY <1>2, <2>3, WithoutGrantsGood, WithoutGrantsFollows
    <3> QED
      BY <2>1, <2>3, <3>1, ElementStep DEF v
  <2> QED
    BY <1>12, <2>2, <2>3 DEF StripsAny, v, s
<1> QED
  BY <1>3, <1>4, <1>5, <1>6, <1>7, <1>8, <1>9, <1>10, <1>11, <1>12 DEF AnyCall

\* Taking the lock: the view is the committed tables.
LEMMA LockInv ==
    ASSUME IInv, NEW c \in Clients, Locks(c)
    PROVE  IInv'
<1>1. TypeOK /\ Good(db) /\ TxnInv /\ UNCHANGED <<db, last>>
  BY DEF IInv, Locks
<1>2. /\ txn[c].pc = "waiting" /\ lock = NoId /\ lock' = c
      /\ txn[c].writes = NoWrites
  BY <1>1 DEF Locks, LockFree, TxnInv
<1>3. PICK op \in Ops, s \in Sessions, targets \in SUBSET Resources :
        txn' = [txn EXCEPT ![c].pc = "active", ![c].op = op,
                           ![c].session = s, ![c].targets = targets]
  BY DEF Locks
<1> DEFINE t == [txn[c] EXCEPT !.pc = "active", !.op = op, !.session = s, !.targets = targets]
<1>6. /\ txn' = [txn EXCEPT ![c] = t]
      /\ t \in Transactions /\ t.pc = "active" /\ t.writes = NoWrites
  BY <1>1, <1>2, <1>3 DEF TypeOK, Transactions
<1> HIDE DEF t
<1>7. TypeOK'
  BY <1>1, <1>2, <1>6 DEF TypeOK
<1>8. Good(db)'
  BY <1>1 DEF Good, OneOwner, TargetsExist, ShaOf
<1>9. TxnInv'
  <2> SUFFICES ASSUME NEW d \in Clients
               PROVE  IF txn'[d].pc = "active" THEN /\ lock' = d /\ Good(View(d)')
                                                         /\ Follows(db', View(d)', txn'[d].op)
                      ELSE txn'[d].writes = NoWrites
    BY DEF TxnInv, Good, OneOwner, TargetsExist, ShaOf, NoWrites, Follows, Resolve
  <2>1. CASE d = c
    <3>1. txn'[c].pc = "active" /\ txn'[c].writes = NoWrites
      BY <1>1, <1>6 DEF TypeOK
    <3>2. View(c)' = [rows |-> [i \in Ids |-> db.rows[i]], alias |-> [i \in Ids |-> db.alias[i]]]
      BY <1>1, <3>1 DEF View, NoWrites
    <3>3. View(c)' = db
      BY <1>1, <3>2 DEF TypeOK, Tables
    <3> QED
      BY <1>1, <1>2, <2>1, <3>1, <3>3, FollowsReflexive
  <2>2. CASE d # c
    <3>1. txn'[d] = txn[d]
      BY <1>1, <1>6, <2>2 DEF TypeOK
    <3>2. txn[d].pc # "active" /\ txn[d].writes = NoWrites
      BY <1>1, <1>2, StoreAssumption DEF TxnInv
    <3> QED
      BY <3>1, <3>2
  <2> QED
    BY <2>1, <2>2
<1> QED
  BY <1>7, <1>8, <1>9 DEF IInv

\* A transaction ends: the tables it leaves are good, and nobody else was active
\* if it held the lock.
LEMMA EndInv ==
    ASSUME IInv, NEW c \in Clients,
           txn' = [txn EXCEPT ![c] = Idle], TypeOK', Good(db)',
           \/ UNCHANGED db /\ lock' = IF lock = c THEN NoId ELSE lock
           \/ lock = c
    PROVE  IInv'
<1>1. TypeOK /\ TxnInv
  BY DEF IInv
<1>2. TxnInv'
  <2> SUFFICES ASSUME NEW d \in Clients
               PROVE  IF txn'[d].pc = "active" THEN /\ lock' = d /\ Good(View(d)')
                                                         /\ Follows(db', View(d)', txn'[d].op)
                      ELSE txn'[d].writes = NoWrites
    BY DEF TxnInv, Good, OneOwner, TargetsExist, ShaOf, NoWrites, Follows, Resolve
  <2>1. CASE d = c
    BY <1>1, <2>1 DEF TypeOK, Idle
  <2>2. CASE d # c /\ txn[d].pc = "active"
    <3>1. txn'[d] = txn[d] /\ lock = d /\ Good(View(d)) /\ Follows(db, View(d), txn[d].op)
      BY <1>1, <2>2 DEF TypeOK, TxnInv
    <3>2. UNCHANGED db /\ lock' = lock
      BY <2>2, <3>1
    <3>3. View(d)' = View(d)
      BY <3>1, <3>2 DEF View
    <3> QED
      BY <2>2, <3>1, <3>2, <3>3
  <2>3. CASE d # c /\ txn[d].pc # "active"
    BY <1>1, <2>3 DEF TypeOK, TxnInv
  <2> QED
    BY <2>1, <2>2, <2>3
<1> QED
  BY <1>2 DEF IInv

\* Commit: the tables of the view, less the doomed rows, are good tables.
LEMMA CommitInv ==
    ASSUME IInv, NEW c \in Clients, Commit(c)
    PROVE  IInv'
<1>1. TypeOK /\ TxnInv
  BY DEF IInv
<1>2. lock = c /\ Good(View(c)) /\ txn[c].doomed \in SUBSET Ids
  BY <1>1 DEF Commit, TxnInv, TypeOK, Transactions
<1>3. Good(WithoutRows(View(c), txn[c].doomed))
  BY <1>2, WithoutRowsGood
<1>4. db' = WithoutRows(View(c), txn[c].doomed) /\ txn' = [txn EXCEPT ![c] = Idle]
  BY DEF Commit
<1>5. Good(db)'
  BY <1>3, <1>4 DEF Good, OneOwner, TargetsExist, ShaOf
<1>6. txn[c].op \in Ops /\ txn[c].session \in Sessions
  BY <1>1 DEF TypeOK, Transactions
<1>7. TypeOK'
  BY <1>1, <1>4, <1>5, <1>6, IdleType DEF TypeOK, Good, Commit
<1> QED
  BY <1>2, <1>4, <1>5, <1>7, EndInv

\* Rollback: the committed tables stay and the lock is given back.
LEMMA RollbackInv ==
    ASSUME IInv, NEW c \in Clients, Rollback(c)
    PROVE  IInv'
<1>1. TypeOK /\ Good(db)
  BY DEF IInv
<1>2. Good(db)'
  BY <1>1 DEF Good, OneOwner, TargetsExist, ShaOf, Rollback
<1>3. TypeOK'
  BY <1>1, IdleType DEF TypeOK, Rollback
<1> QED
  BY <1>2, <1>3, EndInv DEF Rollback

\* Beginning a transaction touches nothing.
LEMMA BeginInv ==
    ASSUME IInv, NEW c \in Clients, Begin(c)
    PROVE  IInv'
<1>1. TypeOK /\ Good(db) /\ TxnInv /\ UNCHANGED <<db, lock, last>>
  BY DEF IInv, Begin
<1> DEFINE t == [txn[c] EXCEPT !.pc = "waiting"]
<1>2. /\ txn' = [txn EXCEPT ![c] = t] /\ t \in Transactions
      /\ t.pc = "waiting" /\ t.writes = NoWrites
  BY <1>1 DEF Begin, TypeOK, Transactions, TxnInv
<1> HIDE DEF t
<1>3. TypeOK'
  BY <1>1, <1>2 DEF TypeOK
<1>4. Good(db)'
  BY <1>1 DEF Good, OneOwner, TargetsExist, ShaOf
<1>5. TxnInv'
  <2> SUFFICES ASSUME NEW d \in Clients
               PROVE  IF txn'[d].pc = "active" THEN /\ lock' = d /\ Good(View(d)')
                                                         /\ Follows(db', View(d)', txn'[d].op)
                      ELSE txn'[d].writes = NoWrites
    BY DEF TxnInv, Good, OneOwner, TargetsExist, ShaOf, NoWrites, Follows, Resolve
  <2>1. CASE d = c
    BY <1>1, <1>2, <2>1 DEF TypeOK
  <2>2. CASE d # c
    <3>1. txn'[d] = txn[d]
      BY <1>1, <1>2, <2>2 DEF TypeOK
    <3>2. View(d)' = View(d)
      BY <1>1, <3>1 DEF View
    <3> QED
      BY <1>1, <3>1, <3>2 DEF TxnInv
  <2> QED
    BY <2>1, <2>2
<1> QED
  BY <1>3, <1>4, <1>5 DEF IInv

\* Every step keeps the invariant.
LEMMA NextInv == IInv /\ [StoreStep]_vars => IInv'
<1> SUFFICES ASSUME IInv, [StoreStep]_vars PROVE IInv'
  OBVIOUS
<1>1. CASE UNCHANGED vars
  <2>1. UNCHANGED <<db, txn, lock, last>>
    BY <1>1 DEF vars
  <2>2. \A c \in Clients : View(c)' = View(c)
    BY <2>1 DEF View
  <2> QED
    BY <2>1, <2>2 DEF IInv, TypeOK, TxnInv, Good, OneOwner, TargetsExist, ShaOf, NoWrites, Follows, Resolve
<1>2. CASE StoreStep
  <2>1. PICK c \in Clients : Begin(c) \/ Locks(c) \/ AnyCall(c) \/ Commit(c) \/ Rollback(c)
    BY <1>2 DEF StoreStep
  <2> QED
    BY <2>1, BeginInv, LockInv, CallInv, CommitInv, RollbackInv
<1> QED
  BY <1>1, <1>2

\* ContentStore's own clients make no other steps.
LEMMA NextIsStoreStep == TypeOK /\ [Next]_vars => [StoreStep]_vars
<1> SUFFICES ASSUME TypeOK, NEW c \in Clients,
                    Begin(c) \/ Lock(c) \/ Call(c) \/ Commit(c) \/ Rollback(c)
             PROVE  StoreStep
  BY DEF Next
<1>1. CASE Lock(c)
  <2>1. PICK op \in Ops, s \in Sessions : \E targets \in GrantTargets(s, op) :
          txn' = [txn EXCEPT ![c].pc = "active", ![c].op = op,
                             ![c].session = s, ![c].targets = targets]
    BY <1>1 DEF Lock
  <2>2. GrantTargets(s, op) \subseteq SUBSET Resources
    <3>1. {{r} : r \in {r \in Resources : HasMethodAccess(s, "delete", {r})}} \subseteq SUBSET Resources
      OBVIOUS
    <3>2. OrgScopes \subseteq SUBSET Resources /\ {{}} \subseteq SUBSET Resources
      BY StoreAssumption
    <3> QED
      BY <3>1, <3>2 DEF GrantTargets
  <2>3. \E targets \in SUBSET Resources :
          txn' = [txn EXCEPT ![c].pc = "active", ![c].op = op,
                             ![c].session = s, ![c].targets = targets]
    BY <2>1, <2>2
  <2>4. Locks(c)
    BY <1>1, <2>3 DEF Lock, Locks
  <2> QED
    BY <2>4 DEF StoreStep
<1>2. CASE Call(c)
  <2>1. RegisterObjects(c) => RegistersAny(c)
    BY StoreAssumption DEF RegisterObjects, RegistersAny
  <2>2. ReplaceObjects(c) => ReplacesAny(c)
    BY StoreAssumption DEF ReplaceObjects, ReplacesAny
  <2>3. RemoveObjectControlledAccessBulk(c) => StripsAny(c)
    <3>1. txn[c].targets \in SUBSET Resources
      BY DEF TypeOK, Transactions
    <3> QED
      BY <3>1 DEF RemoveObjectControlledAccessBulk, StripsAny
  <2> QED
    BY <1>2, <2>1, <2>2, <2>3 DEF Call, AnyCall, StoreStep
<1> QED
  BY <1>1, <1>2 DEF StoreStep

\* Every reachable state satisfies the inductive invariant.
THEOREM Invariance == Spec => []IInv
<1>1. IInv /\ [Next]_vars => IInv'
  BY NextInv, NextIsStoreStep DEF IInv
<1> QED
  BY <1>1, InitInv, PTL DEF Spec

\* The tables, the transactions and the lock always have their types.
THEOREM TypeCorrect == Spec => []TypeOK
<1>1. IInv => TypeOK
  BY DEF IInv
<1> QED
  BY <1>1, Invariance, PTL

\* However many clients register, replace and delete at once, no SHA-256 ever has
\* two physical rows that no older server stored.
THEOREM ContentUnique == Spec => []UniqueContent
<1>1. IInv => UniqueContent
  BY DEF IInv, Good, UniqueContent
<1> QED
  BY <1>1, Invariance, PTL

\* However aliases are claimed, created and cascaded away, none ever points at a
\* record that is gone.
THEOREM AliasesLead == Spec => []AliasTargetsExist
<1>1. IInv => AliasTargetsExist
  BY DEF IInv, Good, AliasTargetsExist
<1> QED
  BY <1>1, Invariance, PTL

\* Only a commit changes the committed tables.
LEMMA OnlyCommits ==
    ASSUME [StoreStep]_vars, ~ \E c \in Clients : Commit(c)
    PROVE  UNCHANGED db
BY DEF StoreStep, vars, Begin, Locks, Rollback, AnyCall, RegistersAny, ReplacesAny, DeleteObject,
   BulkDeleteObjects, CreateObjectAlias, DeleteObjectAlias, UpdateObjectAccessMethods,
   BulkUpdateAccessMethods, RemoveObjectControlledAccess, StripsAny, Element

\* What a commit does to the tables: they follow from the old ones, but for the
\* deleted rows.
LEMMA CommitFollows ==
    ASSUME IInv, NEW c \in Clients, Commit(c)
    PROVE  /\ View(c) \in Tables
           /\ Follows(db, View(c), last'.op)
           /\ db' = WithoutRows(View(c), txn[c].doomed)
BY DEF IInv, TxnInv, Commit, Good

\* A row that survives a step keeps its SHA-256 and its known size.
LEMMA StepKeepsContent == IInv /\ [StoreStep]_vars => ContentKept
<1> SUFFICES ASSUME IInv, [StoreStep]_vars, NEW i \in Ids,
                    db.rows[i] # NoRow, db'.rows[i] # NoRow, ShaOf(db, i) # NoSHA
             PROVE  /\ ShaOf(db', i) = ShaOf(db, i)
                    /\ db.rows[i].size # 0 => db'.rows[i].size = db.rows[i].size
  BY DEF ContentKept
<1>1. CASE ~ \E c \in Clients : Commit(c)
  BY <1>1, OnlyCommits
<1>2. CASE \E c \in Clients : Commit(c)
  <2>1. PICK c \in Clients : Commit(c)
    BY <1>2
  <2>2. KeepsContent(db.rows[i], View(c).rows[i])
    BY <2>1, CommitFollows DEF Follows
  <2>3. db'.rows[i] = View(c).rows[i]
    BY <2>1, CommitFollows DEF WithoutRows
  <2> QED
    BY <2>2, <2>3 DEF KeepsContent, ShaOf
<1> QED
  BY <1>1, <1>2

\* An id keeps naming the row it named, while that row survives.
LEMMA StepKeepsIdentity == IInv /\ [StoreStep]_vars => IdentityKept
<1> SUFFICES ASSUME IInv, [StoreStep]_vars, NEW i \in Ids, Resolve(db, i) # NoId,
                    db'.rows[Resolve(db, i)] # NoRow, last'.op # "deleteAlias"
             PROVE  Resolve(db', i) = Resolve(db, i)
  BY DEF IdentityKept
<1>1. CASE ~ \E c \in Clients : Commit(c)
  BY <1>1, OnlyCommits
<1>2. CASE \E c \in Clients : Commit(c)
  <2>1. PICK c \in Clients : Commit(c)
    BY <1>2
  <2> DEFINE v   == View(c)
             row == Resolve(db, i)
  <2>2. /\ v \in Tables /\ db' = WithoutRows(v, txn[c].doomed)
        /\ Resolve(v, i) = row
    BY <2>1, CommitFollows DEF Follows
  <2>3. row \in Ids /\ row # NoId
    BY ResolveType DEF IInv, Good
  <2> HIDE DEF v, row
  <2>4. row \notin txn[c].doomed
    BY <2>2, <2>3 DEF WithoutRows, row
  <2>5. db'.rows[i] # NoRow => v.rows[i] # NoRow
    BY <2>2 DEF WithoutRows
  <2> QED
    BY <2>2, <2>3, <2>4, <2>5 DEF Resolve, WithoutRows, row
<1> QED
  BY <1>1, <1>2

\* Content identity is immutable for every number of clients and records.
THEOREM ContentNeverChanges == Spec => ContentImmutable
<1>1. IInv /\ [Next]_vars => [ContentKept]_vars
  BY StepKeepsContent, NextIsStoreStep DEF IInv
<1> QED
  BY <1>1, Invariance, PTL DEF Spec, ContentImmutable

\* Ids are stable for every number of clients and records.
THEOREM IdentityNeverMoves == Spec => IdentityStable
<1>1. IInv /\ [Next]_vars => [IdentityKept]_vars
  BY StepKeepsIdentity, NextIsStoreStep DEF IInv
<1> QED
  BY <1>1, Invariance, PTL DEF Spec, IdentityStable

-----------------------------------------------------------------------------
(* Every change a commit makes to grants, rows, access methods and read     *)
(* policies was one its session had the right to make, for every number of  *)
(* clients, records, resources and sessions, and for batches of any size.   *)

Granted(row) == IF row = NoRow THEN {} ELSE row.res

\* The row is readable by everybody, by its policy or by having no grants.
Open(row) == IF row.policy = "none" THEN row.res = {} ELSE row.policy = "public"

\* Grants appear by the right to create, and go by the right to update or delete.
GrantsByRight(old, new, s) ==
    /\ \A r \in Granted(new) \ Granted(old) : HasMethodAccess(s, "create", {r})
    /\ \A r \in Granted(old) \ Granted(new) :
         HasMethodAccess(s, "update", {r}) \/ HasMethodAccess(s, "delete", {r})

\* A row changes under a replacement, and its methods under an update of them, by the
\* right to update under every grant it had; nothing else drops an access method.
UpdatesByRight(old, new, s, op) ==
    /\ op = "replace" /\ new # old => HasMethodAccess(s, "update", old.res)
    /\ op \in {"methods", "bulkMethods"} =>
         /\ new.res = old.res
         /\ new.meths # old.meths => HasMethodAccess(s, "update", old.res)
    /\ op \notin {"replace", "methods", "bulkMethods"} => old.meths \subseteq new.meths

\* A row that stays private gained nothing from a session that could not read it.
JoinsByReading(old, new, s, op) ==
    ~Open(new) => \/ CanReadContent(s, old.res)
                  \/ /\ new.res \subseteq old.res
                     /\ op = "register" => new.meths \subseteq old.meths

\* Public rows stay public, written policies stay written, and what opens a row.
OpensByRight(old, new, op) ==
    /\ Open(old) => Open(new)
    /\ new.policy = "none" => old.policy = "none"
    /\ ~Open(old) /\ Open(new) =>
         op = "replace" \/ (op = "removeGrantBulk" /\ old.policy = "none")

\* A session was entitled to turn the row old into the row new by a call op.  A new row
\* has a written policy.
Entitled(old, new, s, op) ==
    /\ GrantsByRight(old, new, s)
    /\ old = NoRow /\ new # NoRow => new.policy # "none"
    /\ old # NoRow =>
         /\ new # NoRow
         /\ UpdatesByRight(old, new, s, op)
         /\ JoinsByReading(old, new, s, op)
         /\ OpensByRight(old, new, op)

Deletions == {"delete", "bulkDelete"}

\* What client c has done so far it was entitled to do, compared with the
\* committed rows and not with what its own earlier elements left; deletions
\* write nothing before the rows they were allowed to delete go.
Rightful(c) ==
    /\ \A i \in Ids : Entitled(db.rows[i], View(c).rows[i], txn[c].session, txn[c].op)
    /\ IF txn[c].op \in Deletions THEN View(c) = db ELSE txn[c].doomed = {}
    /\ \A i \in txn[c].doomed :
         db.rows[i] # NoRow /\ HasMethodAccess(txn[c].session, "delete", db.rows[i].res)

RightsInv ==
    \A c \in Clients : IF txn[c].pc = "active" THEN Rightful(c) ELSE txn[c].doomed = {}

-----------------------------------------------------------------------------
(* Rights. *)

\* A right under every grant is a right under each.
LEMMA RightUnderEach ==
    ASSUME NEW s, NEW verb, NEW R, HasMethodAccess(s, verb, R), NEW r \in R
    PROVE  HasMethodAccess(s, verb, {r})
BY DEF HasMethodAccess

\* Whoever could read a row through some grants can read it through more.
LEMMA ReadGrows ==
    ASSUME NEW s, NEW R, NEW S, R \subseteq S, CanReadContent(s, R)
    PROVE  CanReadContent(s, S)
BY DEF CanReadContent, HasObjectMethodAccess, CheckAccess

\* A row that does not change needs no right.
LEMMA EntitledReflexive ==
    ASSUME NEW row, NEW s, NEW op
    PROVE  Entitled(row, row, s, op)
BY DEF Entitled, GrantsByRight, UpdatesByRight, JoinsByReading, OpensByRight

\* Elements of one batch: what each was entitled to do to the row it found, the
\* batch was entitled to do to the row it started from.
LEMMA EntitledTransitive ==
    ASSUME NEW old, NEW mid, NEW new, NEW s, NEW op,
           Entitled(old, mid, s, op), Entitled(mid, new, s, op)
    PROVE  Entitled(old, new, s, op)
<1>1. GrantsByRight(old, new, s)
  BY DEF Entitled, GrantsByRight
<1>2. ASSUME old # NoRow
      PROVE  /\ new # NoRow
             /\ UpdatesByRight(old, new, s, op)
             /\ JoinsByReading(old, new, s, op)
             /\ OpensByRight(old, new, op)
  <2>1. mid # NoRow /\ new # NoRow
    BY <1>2 DEF Entitled
  <2>2. /\ UpdatesByRight(old, mid, s, op) /\ UpdatesByRight(mid, new, s, op)
        /\ JoinsByReading(old, mid, s, op) /\ JoinsByReading(mid, new, s, op)
        /\ OpensByRight(old, mid, op) /\ OpensByRight(mid, new, op)
    BY <1>2, <2>1 DEF Entitled
  <2>3. UpdatesByRight(old, new, s, op)
    BY <2>2 DEF UpdatesByRight
  <2>4. JoinsByReading(old, new, s, op)
    <3> SUFFICES ASSUME ~Open(new), ~CanReadContent(s, old.res)
                 PROVE  /\ new.res \subseteq old.res
                        /\ op = "register" => new.meths \subseteq old.meths
      BY DEF JoinsByReading
    <3>1. ~Open(mid)
      BY <2>2 DEF OpensByRight
    <3>2. mid.res \subseteq old.res /\ (op = "register" => mid.meths \subseteq old.meths)
      BY <2>2, <3>1 DEF JoinsByReading
    <3>3. ~CanReadContent(s, mid.res)
      BY <3>2, ReadGrows
    <3> QED
      BY <2>2, <3>2, <3>3 DEF JoinsByReading
  <2>5. OpensByRight(old, new, op)
    BY <2>2 DEF OpensByRight
  <2> QED
    BY <2>1, <2>3, <2>4, <2>5
<1>3. old = NoRow /\ new # NoRow => new.policy # "none"
  BY DEF Entitled, OpensByRight
<1> QED
  BY <1>1, <1>2, <1>3 DEF Entitled

-----------------------------------------------------------------------------
(* Each element does what its session is entitled to. *)

\* The effective policy, before and after it is written down.
LEMMA PublicIsOpen ==
    ASSUME NEW v \in Tables, NEW c \in Ids, v.rows[c] # NoRow
    PROVE  PublicRead(v, c, v.rows[c].res = {}) = Open(v.rows[c])
BY DEF PublicRead, Open

\* Registration: what joins a private row must be able to read it.
LEMMA RegisterEntitled ==
    ASSUME NEW v, Good(v), NEW s, NEW obj \in Record, RegisterOK(v, s, obj), NEW i \in Ids
    PROVE  Entitled(v.rows[i], Registered(v, obj).rows[i], s, "register")
<1> DEFINE canonical == CanonicalID(v, obj)
           old       == v.rows[canonical]
           new       == MergedRow(v, obj)
           incoming  == ObjectResources(obj)
<1>1. v \in Tables /\ canonical \in Ids
  BY CanonicalType DEF Good
<1>2. Registered(v, obj).rows = [v.rows EXCEPT ![canonical] = new]
  BY DEF Registered
<1>3. Registered(v, obj).rows[i] = IF i = canonical THEN new ELSE v.rows[i]
  BY <1>1, <1>2 DEF Tables
<1>4. new # NoRow
  BY <1>1, MergedRowType, StoreAssumption
<1>5. ASSUME NEW r \in incoming \ Granted(old) PROVE HasMethodAccess(s, "create", {r})
  BY <1>5 DEF RegisterOK, CanCreateResources, ResourcesOf, Granted
<1>6. CASE old = NoRow
  <2>1. new.res = incoming /\ new.policy # "none"
    BY <1>6 DEF MergedRow, SetPublicRead
  <2> HIDE DEF new
  <2>2. Entitled(old, new, s, "register")
    BY <1>4, <1>5, <1>6, <2>1 DEF Entitled, GrantsByRight, Granted
  <2> QED
    BY <1>3, <2>2, EntitledReflexive
<1>7. CASE old # NoRow
  <2> DEFINE methods == IF obj.meths = Nil THEN {} ELSE obj.meths
  <2>1. /\ new.res = old.res \cup incoming
        /\ new.meths = old.meths \cup methods
        /\ new.policy = SetPublicRead(old.policy, PublicRead(v, canonical, old.res = {}))
    BY <1>7 DEF MergedRow
  <2>2. new.policy = IF Open(old) THEN "public" ELSE "private"
    BY <1>1, <1>7, <2>1, PublicIsOpen DEF SetPublicRead, Open
  <2>3. Open(new) <=> Open(old)
    BY <2>2 DEF Open
  <2>4. ~Open(old) /\ Joins(obj, old.res) => CanReadContent(s, old.res)
    BY <1>1, <1>7, PublicIsOpen DEF RegisterOK, ResourcesOf
  <2> HIDE DEF new, old, incoming
  <2>5. JoinsByReading(old, new, s, "register")
    BY <2>1, <2>3, <2>4 DEF JoinsByReading, Joins, incoming
  <2>6. OpensByRight(old, new, "register")
    BY <2>2, <2>3 DEF OpensByRight
  <2>7. UpdatesByRight(old, new, s, "register")
    BY <2>1 DEF UpdatesByRight
  <2>8. GrantsByRight(old, new, s)
    BY <1>4, <1>5, <1>7, <2>1 DEF GrantsByRight, Granted
  <2>9. Entitled(old, new, s, "register")
    BY <1>4, <1>7, <2>5, <2>6, <2>7, <2>8 DEF Entitled
  <2> QED
    BY <1>3, <2>9, EntitledReflexive DEF old
<1> QED
  BY <1>6, <1>7

\* Replacement: the right to update under every grant, to create in the new ones
\* and, for a private row, to read it.
LEMMA ReplaceEntitled ==
    ASSUME NEW v, Good(v), NEW s, NEW obj \in Record, ReplaceOK(v, s, obj), NEW i \in Ids
    PROVE  Entitled(v.rows[i], Replaced(v, obj).rows[i], s, "replace")
<1> DEFINE canonical == Resolve(v, obj.id)
           old       == v.rows[canonical]
           new       == ReplacedRow(v, obj)
<1>1. v \in Tables /\ canonical \in Ids /\ old \in Row /\ old # NoRow
  BY ResolveRow DEF Good, ReplaceOK, Record
<1>2. Replaced(v, obj).rows = [v.rows EXCEPT ![canonical] = new]
  BY DEF Replaced
<1>3. Replaced(v, obj).rows[i] = IF i = canonical THEN new ELSE v.rows[i]
  BY <1>1, <1>2 DEF Tables
<1>4. new # NoRow
  BY <1>1, ReplacedRowType, StoreAssumption
<1>5. /\ new.res = (IF obj.res = Nil THEN old.res ELSE obj.res)
      /\ new.policy = SetPublicRead(old.policy, PublicRead(v, canonical, old.res = {}) \/ obj.public)
  BY DEF ReplacedRow
<1>6. ResourcesOf(v, canonical) = old.res
  BY <1>1 DEF ResourcesOf
<1>7. HasMethodAccess(s, "update", old.res)
  BY <1>6 DEF ReplaceOK
<1>8. new.res \ old.res # {} =>
        /\ Open(old) \/ CanReadContent(s, old.res)
        /\ CanCreateResources(s, new.res, old.res)
  BY <1>1, <1>5, <1>6, PublicIsOpen DEF ReplaceOK, ObjectResources
<1>9. new.policy \in {"public", "private"} /\ (Open(old) => new.policy = "public")
  BY <1>1, <1>5, PublicIsOpen DEF SetPublicRead
<1> HIDE DEF new, old
<1>10. GrantsByRight(old, new, s)
  <2>1. ASSUME NEW r \in new.res \ old.res PROVE HasMethodAccess(s, "create", {r})
    BY <1>8, <2>1 DEF CanCreateResources
  <2>2. ASSUME NEW r \in old.res PROVE HasMethodAccess(s, "update", {r})
    BY <1>7, RightUnderEach
  <2> QED
    BY <1>1, <1>4, <2>1, <2>2 DEF GrantsByRight, Granted
<1>11. UpdatesByRight(old, new, s, "replace")
  BY <1>7 DEF UpdatesByRight
<1>12. OpensByRight(old, new, "replace")
  BY <1>9 DEF OpensByRight, Open
<1>13. JoinsByReading(old, new, s, "replace")
  BY <1>8, <1>12 DEF JoinsByReading, OpensByRight
<1>14. Entitled(old, new, s, "replace")
  BY <1>1, <1>4, <1>10, <1>11, <1>12, <1>13 DEF Entitled
<1> QED
  BY <1>3, <1>14, EntitledReflexive DEF old

\* New access methods, alone or in bulk: the right to update under every grant.
LEMMA MethodsEntitled ==
    ASSUME NEW v, Good(v), NEW s, NEW id \in Ids, UpdateMethodsOK(v, s, id),
           NEW methods \in SUBSET Methods, NEW i \in Ids,
           NEW op \in {"methods", "bulkMethods"}
    PROVE  Entitled(v.rows[i], WithMethods(v, id, methods).rows[i], s, op)
<1> DEFINE c   == Resolve(v, id)
           old == v.rows[c]
           new == [old EXCEPT !.meths = methods]
<1>1. v \in Tables /\ c \in Ids /\ old \in Row /\ old # NoRow
  BY ResolveRow, StoreAssumption DEF Good, UpdateMethodsOK
<1>2. WithMethods(v, id, methods).rows[i] = IF i = c THEN new ELSE v.rows[i]
  BY <1>1 DEF WithMethods, Tables
<1>3. new \in Row /\ new # NoRow /\ new.res = old.res /\ new.policy = old.policy
  BY <1>1, StoreAssumption DEF Row
<1>4. HasMethodAccess(s, "update", old.res)
  BY <1>1 DEF UpdateMethodsOK, RequireContentMethod, ResourcesOf
<1> HIDE DEF new, old
<1>5. GrantsByRight(old, new, s)
  BY <1>1, <1>3 DEF GrantsByRight, Granted
<1>6. UpdatesByRight(old, new, s, op)
  BY <1>3, <1>4 DEF UpdatesByRight
<1>7. JoinsByReading(old, new, s, op) /\ OpensByRight(old, new, op)
  BY <1>3 DEF JoinsByReading, OpensByRight, Open
<1>8. Entitled(old, new, s, op)
  BY <1>1, <1>3, <1>5, <1>6, <1>7 DEF Entitled
<1> QED
  BY <1>2, <1>8, EntitledReflexive DEF old

\* A grant goes by the right to update there, and the policy is pinned first.
LEMMA RemoveGrantEntitled ==
    ASSUME NEW v, Good(v), NEW s, NEW id \in Ids, NEW resource \in Resources,
           RemoveGrantOK(v, s, id, resource), NEW i \in Ids
    PROVE  Entitled(v.rows[i], WithoutGrant(v, id, resource).rows[i], s, "removeGrant")
<1> DEFINE c   == Resolve(v, id)
           old == v.rows[c]
           pol == SetPublicRead(old.policy, PublicRead(v, c, old.res = {}))
           new == [old EXCEPT !.res = @ \ {resource}, !.policy = pol]
<1>1. v \in Tables /\ c \in Ids /\ old \in Row /\ old # NoRow
  BY ResolveRow, StoreAssumption DEF Good, RemoveGrantOK
<1>2. WithoutGrant(v, id, resource) = [v EXCEPT !.rows[c] = new]
  BY DEF WithoutGrant
<1>3. WithoutGrant(v, id, resource).rows[i] = IF i = c THEN new ELSE v.rows[i]
  BY <1>1, <1>2 DEF Tables
<1>4. /\ new \in Row /\ new # NoRow /\ new.res = old.res \ {resource} /\ new.meths = old.meths
      /\ new.policy = pol
  <2>1. pol \in Policies
    BY PolicyType
  <2> HIDE DEF pol, old
  <2>2. old \in Row
    BY <1>1
  <2>3. /\ new \in Row /\ new.res = old.res \ {resource} /\ new.meths = old.meths
        /\ new.policy = pol
    BY <2>1, <2>2 DEF Row
  <2> QED
    BY <2>3, StoreAssumption
<1>5. new.policy = IF Open(old) THEN "public" ELSE "private"
  BY <1>1, <1>4, PublicIsOpen DEF SetPublicRead, Open
<1>6. HasMethodAccess(s, "update", {resource})
  BY DEF RemoveGrantOK
<1> HIDE DEF new, old
<1>7. GrantsByRight(old, new, s)
  BY <1>1, <1>4, <1>6 DEF GrantsByRight, Granted
<1>8. UpdatesByRight(old, new, s, "removeGrant") /\ JoinsByReading(old, new, s, "removeGrant")
  BY <1>4 DEF UpdatesByRight, JoinsByReading
<1>9. OpensByRight(old, new, "removeGrant")
  BY <1>5 DEF OpensByRight, Open
<1>10. Entitled(old, new, s, "removeGrant")
  BY <1>1, <1>4, <1>7, <1>8, <1>9 DEF Entitled
<1> QED
  BY <1>3, <1>10, EntitledReflexive DEF old

\* The grants of a scope go by the right to delete there; only a row without a
\* written policy can become public by it.
LEMMA RemoveGrantsEntitled ==
    ASSUME NEW v, Good(v), NEW s, NEW id \in Ids, Resolve(v, id) # NoId, NEW targets, NEW i \in Ids
    PROVE  Entitled(v.rows[i], WithoutGrants(v, s, id, targets).rows[i], s, "removeGrantBulk")
<1> DEFINE c       == Resolve(v, id)
           old     == v.rows[c]
           removed == RemovableGrants(v, s, c, targets)
           left    == old.res \ removed
           pol     == SetPublicRead(old.policy, PublicRead(v, c, left = {}))
           new     == [old EXCEPT !.res = left, !.policy = pol]
<1>1. v \in Tables /\ c \in Ids /\ old \in Row /\ old # NoRow
  BY ResolveRow, StoreAssumption DEF Good
<1>2. CASE removed = {}
  BY <1>2, EntitledReflexive DEF WithoutGrants
<1>3. CASE removed # {}
  <2>1. WithoutGrants(v, s, id, targets) = [v EXCEPT !.rows[c] = new]
    BY <1>3 DEF WithoutGrants
  <2>2. WithoutGrants(v, s, id, targets).rows[i] = IF i = c THEN new ELSE v.rows[i]
    BY <1>1, <2>1 DEF Tables
  <2>3. /\ new \in Row /\ new # NoRow /\ new.res = left /\ new.meths = old.meths
        /\ new.policy = pol
    <3>1. pol \in Policies
      BY PolicyType
    <3> HIDE DEF pol, old, removed
    <3>2. old \in Row
      BY <1>1
    <3>3. new \in Row /\ new.res = left /\ new.meths = old.meths /\ new.policy = pol
      BY <3>1, <3>2 DEF Row
    <3> QED
      BY <3>3, StoreAssumption
  <2>4. old.res # {} /\ \A r \in removed : HasMethodAccess(s, "delete", {r})
    BY <1>1, <1>3 DEF RemovableGrants, ResourcesOf
  <2>5. /\ new.policy \in {"public", "private"}
        /\ old.policy = "public" => new.policy = "public"
        /\ old.policy \notin {"none", "public"} => new.policy = "private"
    BY <1>1, <2>3 DEF SetPublicRead, PublicRead
  <2> HIDE DEF new, old, removed
  <2>6. GrantsByRight(old, new, s)
    BY <1>1, <2>3, <2>4 DEF GrantsByRight, Granted
  <2>7. /\ UpdatesByRight(old, new, s, "removeGrantBulk")
        /\ JoinsByReading(old, new, s, "removeGrantBulk")
    BY <2>3 DEF UpdatesByRight, JoinsByReading
  <2>8. OpensByRight(old, new, "removeGrantBulk")
    BY <2>4, <2>5 DEF OpensByRight, Open
  <2>9. Entitled(old, new, s, "removeGrantBulk")
    BY <1>1, <2>3, <2>6, <2>7, <2>8 DEF Entitled
  <2> QED
    BY <2>2, <2>9, EntitledReflexive DEF old
<1> QED
  BY <1>2, <1>3

-----------------------------------------------------------------------------
(* Transactions. *)

\* Between two calls nothing is doomed, and there is nothing to be entitled to.
LEMMA RightsInit == Init => RightsInv
<1> SUFFICES ASSUME Init, NEW c \in Clients
             PROVE  txn[c].pc # "active" /\ txn[c].doomed = {}
  BY DEF RightsInv
<1>1. txn[c] = Idle
  BY DEF Init
<1> QED
  BY <1>1 DEF Idle

\* An element that is entitled to its effect keeps the whole transaction rightful.
LEMMA ElementRights ==
    ASSUME IInv, RightsInv, NEW c \in Clients, NEW op \in Ops, Element(c, op),
           NEW v \in Tables, NEW doomed, Writes(c, v, doomed),
           \A i \in Ids : Entitled(View(c).rows[i], v.rows[i], txn[c].session, op),
           IF op \in Deletions THEN v = View(c) ELSE doomed = {},
           \A i \in doomed :
             db.rows[i] # NoRow /\ HasMethodAccess(txn[c].session, "delete", db.rows[i].res)
    PROVE  RightsInv'
<1>1. TypeOK /\ TxnInv
  BY DEF IInv
<1>2. UNCHANGED <<db, lock, last>> /\ txn[c].pc = "active" /\ txn[c].op = op /\ lock = c
  BY <1>1 DEF Element, TxnInv
<1>3. Rightful(c)
  BY <1>2 DEF RightsInv
<1> DEFINE t == [txn[c] EXCEPT !.writes = Wrote(c, v), !.n = @ + 1, !.doomed = @ \cup doomed]
<1>4. /\ txn' = [txn EXCEPT ![c] = t] /\ t.pc = "active" /\ t.op = op
      /\ t.session = txn[c].session /\ t.doomed = txn[c].doomed \cup doomed
  BY <1>1, <1>2 DEF Writes, TypeOK, Transactions
<1> HIDE DEF t
<1>5. View(c)' = v
  BY <1>1, <1>2, ViewAfterWrites
<1>6. /\ txn'[c].pc = "active" /\ txn'[c].op = op /\ txn'[c].session = txn[c].session
      /\ txn'[c].doomed = txn[c].doomed \cup doomed
  BY <1>1, <1>4 DEF TypeOK
<1>7. Rightful(c)'
  <2>1. ASSUME NEW i \in Ids
        PROVE  Entitled(db.rows[i], v.rows[i], txn[c].session, op)
    BY <1>2, <1>3, EntitledTransitive DEF Rightful
  <2>2. \A i \in Ids : Entitled(db.rows[i], View(c).rows[i], txn[c].session, txn[c].op)'
    BY <1>2, <1>5, <1>6, <2>1
  <2>3. IF op \in Deletions THEN v = db ELSE txn[c].doomed \cup doomed = {}
    BY <1>2, <1>3 DEF Rightful
  <2>4. \A i \in txn[c].doomed \cup doomed :
          db.rows[i] # NoRow /\ HasMethodAccess(txn[c].session, "delete", db.rows[i].res)
    BY <1>3 DEF Rightful
  <2> QED
    BY <1>2, <1>5, <1>6, <2>2, <2>3, <2>4 DEF Rightful
<1>8. ASSUME NEW d \in Clients, d # c
      PROVE  txn'[d].pc # "active" /\ txn'[d].doomed = {}
  BY <1>1, <1>2, <1>4, <1>8 DEF TypeOK, TxnInv, RightsInv
<1> QED
  BY <1>6, <1>7, <1>8 DEF RightsInv

\* The elements of the ten calls.
LEMMA CallRights ==
    ASSUME IInv, RightsInv, NEW c \in Clients, AnyCall(c)
    PROVE  RightsInv'
<1> DEFINE v == View(c)
           s == txn[c].session
<1> USE DEF Ops, BulkOps, SingleOps, Deletions
<1>1. txn[c].pc = "active" /\ TypeOK /\ TxnInv
  BY DEF AnyCall, RegistersAny, ReplacesAny, DeleteObject, BulkDeleteObjects,
     CreateObjectAlias, DeleteObjectAlias, UpdateObjectAccessMethods, BulkUpdateAccessMethods,
     RemoveObjectControlledAccess, StripsAny, Element, IInv
<1>2. Good(v) /\ v \in Tables /\ Rightful(c)
  BY <1>1 DEF TxnInv, Good, RightsInv
<1> HIDE DEF v, s
<1>3. CASE RegistersAny(c)
  <2>1. PICK obj \in Record : RegisterOK(v, s, obj) /\ Writes(c, Registered(v, obj), {})
    BY <1>3 DEF RegistersAny, v, s
  <2>2. Registered(v, obj) \in Tables
    BY <1>2, <2>1, RegisteredGood, StoreAssumption DEF Good
  <2>3. \A i \in Ids : Entitled(v.rows[i], Registered(v, obj).rows[i], s, "register")
    BY <1>2, <2>1, RegisterEntitled, StoreAssumption
  <2> QED
    BY <1>3, <2>1, <2>2, <2>3, ElementRights DEF RegistersAny, v, s
<1>4. CASE ReplacesAny(c)
  <2>1. PICK obj \in Record : ReplaceOK(v, s, obj) /\ Writes(c, Replaced(v, obj), {})
    BY <1>4 DEF ReplacesAny, v, s
  <2>2. Replaced(v, obj) \in Tables
    BY <1>2, <2>1, ReplacedGood, StoreAssumption DEF Good
  <2>3. \A i \in Ids : Entitled(v.rows[i], Replaced(v, obj).rows[i], s, "replace")
    BY <1>2, <2>1, ReplaceEntitled, StoreAssumption
  <2> QED
    BY <1>4, <2>1, <2>2, <2>3, ElementRights DEF ReplacesAny, v, s
<1>5. CASE DeleteObject(c)
  <2>1. PICK id \in Ids : DeleteOK(v, s, id) /\ Writes(c, v, {Resolve(v, id)})
    BY <1>5 DEF DeleteObject, v, s
  <2>2. Element(c, "delete") /\ v = db
    BY <1>2, <1>5 DEF DeleteObject, Element, Rightful, v
  <2>3. v.rows[Resolve(v, id)] # NoRow /\ HasMethodAccess(s, "delete", v.rows[Resolve(v, id)].res)
    <3>1. v.rows[Resolve(v, id)] # NoRow
      BY <1>2, <2>1, ResolveRow, StoreAssumption DEF DeleteOK, Good
    <3> QED
      BY <2>1, <3>1 DEF DeleteOK, RequireContentMethod, ResourcesOf
  <2>4. \A i \in {Resolve(v, id)} : db.rows[i] # NoRow /\ HasMethodAccess(s, "delete", db.rows[i].res)
    BY <2>2, <2>3
  <2>5. \A i \in Ids : Entitled(v.rows[i], v.rows[i], s, "delete")
    BY EntitledReflexive
  <2> QED
    BY <1>2, <2>1, <2>2, <2>4, <2>5, ElementRights DEF v, s
<1>6. CASE BulkDeleteObjects(c)
  <2>1. PICK id \in Ids : BulkDeleteOK(v, s, id) /\ Writes(c, v, {Resolve(v, id)} \ {NoId})
    BY <1>6 DEF BulkDeleteObjects, v, s
  <2>2. Element(c, "bulkDelete") /\ v = db
    BY <1>2, <1>6 DEF BulkDeleteObjects, Element, Rightful, v
  <2>3. ASSUME Resolve(v, id) # NoId
        PROVE  v.rows[Resolve(v, id)] # NoRow /\ HasMethodAccess(s, "delete", v.rows[Resolve(v, id)].res)
    <3>1. v.rows[Resolve(v, id)] # NoRow
      BY <1>2, <2>3, ResolveRow, StoreAssumption DEF Good
    <3> QED
      BY <2>1, <2>3, <3>1 DEF BulkDeleteOK, RequireContentMethod, ResourcesOf
  <2>4. \A i \in {Resolve(v, id)} \ {NoId} :
          db.rows[i] # NoRow /\ HasMethodAccess(s, "delete", db.rows[i].res)
    BY <2>2, <2>3
  <2>5. \A i \in Ids : Entitled(v.rows[i], v.rows[i], s, "bulkDelete")
    BY EntitledReflexive
  <2> QED
    BY <1>2, <2>1, <2>2, <2>4, <2>5, ElementRights DEF v, s
<1>7. CASE CreateObjectAlias(c)
  <2>1. PICK alias \in Ids, canonical \in Ids :
          /\ CreateAliasOK(v, s, alias, canonical)
          /\ Writes(c, [v EXCEPT !.alias = InsertAliases(@, {alias}, canonical)], {})
    BY <1>7 DEF CreateObjectAlias, v, s
  <2> DEFINE w == [v EXCEPT !.alias = InsertAliases(@, {alias}, canonical)]
  <2>2. w \in Tables /\ w.rows = v.rows
    BY <1>2 DEF Tables, InsertAliases
  <2>3. \A i \in Ids : Entitled(v.rows[i], w.rows[i], s, "createAlias")
    BY <2>2, EntitledReflexive
  <2>4. Element(c, "createAlias") /\ Writes(c, w, {})
    BY <1>7, <2>1 DEF CreateObjectAlias
  <2> HIDE DEF w
  <2> QED
    BY <2>2, <2>3, <2>4, ElementRights DEF v, s
<1>8. CASE DeleteObjectAlias(c)
  <2>1. PICK alias \in Ids : Writes(c, [v EXCEPT !.alias[alias] = NoId], {})
    BY <1>8 DEF DeleteObjectAlias, v
  <2> DEFINE w == [v EXCEPT !.alias[alias] = NoId]
  <2>2. w \in Tables /\ w.rows = v.rows
    BY <1>2 DEF Tables
  <2>3. \A i \in Ids : Entitled(v.rows[i], w.rows[i], s, "deleteAlias")
    BY <2>2, EntitledReflexive
  <2>4. Element(c, "deleteAlias") /\ Writes(c, w, {})
    BY <1>8, <2>1 DEF DeleteObjectAlias
  <2> HIDE DEF w
  <2> QED
    BY <2>2, <2>3, <2>4, ElementRights DEF v, s
<1>9. CASE UpdateObjectAccessMethods(c)
  <2>1. PICK id \in Ids, methods \in SUBSET Methods :
          UpdateMethodsOK(v, s, id) /\ Writes(c, WithMethods(v, id, methods), {})
    BY <1>9 DEF UpdateObjectAccessMethods, v, s
  <2>2. WithMethods(v, id, methods) \in Tables
    BY <1>2, <2>1, WithMethodsGood DEF UpdateMethodsOK, Good
  <2>3. \A i \in Ids : Entitled(v.rows[i], WithMethods(v, id, methods).rows[i], s, "methods")
    BY <1>2, <2>1, MethodsEntitled
  <2> QED
    BY <1>9, <2>1, <2>2, <2>3, ElementRights DEF UpdateObjectAccessMethods, v, s
<1>10. CASE BulkUpdateAccessMethods(c)
  <2>1. PICK id \in Ids, methods \in SUBSET Methods :
          UpdateMethodsOK(v, s, id) /\ Writes(c, WithMethods(v, id, methods), {})
    BY <1>10 DEF BulkUpdateAccessMethods, v, s
  <2>2. WithMethods(v, id, methods) \in Tables
    BY <1>2, <2>1, WithMethodsGood DEF UpdateMethodsOK, Good
  <2>3. \A i \in Ids : Entitled(v.rows[i], WithMethods(v, id, methods).rows[i], s, "bulkMethods")
    BY <1>2, <2>1, MethodsEntitled
  <2> QED
    BY <1>10, <2>1, <2>2, <2>3, ElementRights DEF BulkUpdateAccessMethods, v, s
<1>11. CASE RemoveObjectControlledAccess(c)
  <2>1. PICK id \in Ids, resource \in Resources :
          RemoveGrantOK(v, s, id, resource) /\ Writes(c, WithoutGrant(v, id, resource), {})
    BY <1>11 DEF RemoveObjectControlledAccess, v, s
  <2>2. WithoutGrant(v, id, resource) \in Tables
    BY <1>2, <2>1, WithoutGrantGood DEF RemoveGrantOK, Good
  <2>3. \A i \in Ids : Entitled(v.rows[i], WithoutGrant(v, id, resource).rows[i], s, "removeGrant")
    BY <1>2, <2>1, RemoveGrantEntitled
  <2> QED
    BY <1>11, <2>1, <2>2, <2>3, ElementRights DEF RemoveObjectControlledAccess, v, s
<1>12. CASE StripsAny(c)
  <2>1. Element(c, "removeGrantBulk")
    BY <1>12 DEF StripsAny
  <2>2. CASE Writes(c, v, {})
    <3>1. \A i \in Ids : Entitled(v.rows[i], v.rows[i], s, "removeGrantBulk")
      BY EntitledReflexive
    <3> QED
      BY <1>2, <2>1, <2>2, <3>1, ElementRights DEF v, s
  <2>3. ASSUME NEW id \in Ids, NEW targets \in SUBSET Resources, Resolve(v, id) # NoId,
               Writes(c, WithoutGrants(v, s, id, targets), {})
        PROVE  RightsInv'
    <3> DEFINE w == WithoutGrants(v, s, id, targets)
    <3>1. w \in Tables
      BY <1>2, <2>3, WithoutGrantsGood DEF Good
    <3>2. \A i \in Ids : Entitled(v.rows[i], w.rows[i], s, "removeGrantBulk")
      BY <1>2, <2>3, RemoveGrantsEntitled
    <3>3. Writes(c, w, {})
      BY <2>3
    <3> HIDE DEF w
    <3> QED
      BY <2>1, <3>1, <3>2, <3>3, ElementRights DEF v, s
  <2> QED
    BY <1>12, <2>2, <2>3 DEF StripsAny, v, s
<1> QED
  BY <1>3, <1>4, <1>5, <1>6, <1>7, <1>8, <1>9, <1>10, <1>11, <1>12 DEF AnyCall

\* Taking the lock: nothing has been written yet.
LEMMA LockRights ==
    ASSUME IInv, RightsInv, NEW c \in Clients, Locks(c)
    PROVE  RightsInv'
<1>1. TypeOK /\ TxnInv /\ UNCHANGED <<db, last>> /\ txn[c].pc = "waiting" /\ lock = NoId
  BY DEF IInv, Locks, LockFree
<1>2. txn[c].writes = NoWrites /\ txn[c].doomed = {}
  BY <1>1 DEF TxnInv, RightsInv
<1>3. /\ txn'[c].writes = NoWrites /\ txn'[c].doomed = {} /\ txn'[c].pc = "active"
      /\ \A d \in Clients \ {c} : txn'[d] = txn[d]
  BY <1>1, <1>2 DEF Locks, TypeOK, Transactions
<1>4. View(c)' = [rows |-> [i \in Ids |-> db.rows[i]], alias |-> [i \in Ids |-> db.alias[i]]]
  BY <1>1, <1>3 DEF View, NoWrites
<1>5. View(c)' = db
  BY <1>1, <1>4 DEF TypeOK, Tables
<1>6. \A i \in Ids : Entitled(db.rows[i], View(c).rows[i], txn[c].session, txn[c].op)'
  BY <1>1, <1>5, EntitledReflexive
<1>7. Rightful(c)'
  BY <1>1, <1>3, <1>5, <1>6 DEF Rightful
<1>8. ASSUME NEW d \in Clients, d # c
      PROVE  txn'[d].pc # "active" /\ txn'[d].doomed = {}
  BY <1>1, <1>3, <1>8, StoreAssumption DEF TxnInv, RightsInv
<1> QED
  BY <1>3, <1>7, <1>8 DEF RightsInv

\* The other steps leave the client they are of with nothing doomed, and the tables
\* of the client that holds the lock alone.
LEMMA OtherRights ==
    ASSUME IInv, RightsInv, NEW c \in Clients, txn'[c].pc # "active", txn'[c].doomed = {},
           \A d \in Clients \ {c} : txn'[d] = txn[d],
           UNCHANGED db \/ lock = c
    PROVE  RightsInv'
<1> SUFFICES ASSUME NEW d \in Clients
             PROVE  IF txn'[d].pc = "active" THEN Rightful(d)' ELSE txn'[d].doomed = {}
  BY DEF RightsInv
<1>1. CASE d = c
  BY <1>1
<1>2. CASE d # c /\ txn[d].pc # "active"
  BY <1>2 DEF RightsInv
<1>3. CASE d # c /\ txn[d].pc = "active"
  <2>1. lock = d /\ txn'[d] = txn[d] /\ Rightful(d)
    BY <1>3 DEF IInv, TxnInv, RightsInv
  <2>2. UNCHANGED db
    BY <1>3, <2>1
  <2>3. View(d)' = View(d)
    BY <2>1, <2>2 DEF View
  <2>4. \A i \in Ids : Entitled(db.rows[i], View(d).rows[i], txn[d].session, txn[d].op)'
    BY <2>1, <2>2, <2>3 DEF Rightful
  <2> QED
    BY <1>3, <2>1, <2>2, <2>3, <2>4 DEF Rightful
<1> QED
  BY <1>1, <1>2, <1>3

\* Every step keeps every transaction rightful.
LEMMA NextRights ==
    ASSUME IInv, RightsInv, [StoreStep]_vars
    PROVE  RightsInv'
<1>0. TypeOK /\ TxnInv
  BY DEF IInv
<1>1. CASE UNCHANGED vars
  <2>1. UNCHANGED <<db, txn, lock, last>>
    BY <1>1 DEF vars
  <2>2. \A c \in Clients : View(c)' = View(c)
    BY <2>1 DEF View
  <2>3. ASSUME NEW c \in Clients, Rightful(c) PROVE Rightful(c)'
    <3>1. \A i \in Ids : Entitled(db.rows[i], View(c).rows[i], txn[c].session, txn[c].op)'
      BY <2>1, <2>2, <2>3 DEF Rightful
    <3> QED
      BY <2>1, <2>2, <2>3, <3>1 DEF Rightful
  <2> QED
    BY <2>1, <2>3 DEF RightsInv
<1>2. CASE StoreStep
  <2>1. PICK c \in Clients : Begin(c) \/ Locks(c) \/ AnyCall(c) \/ Commit(c) \/ Rollback(c)
    BY <1>2 DEF StoreStep
  <2>2. CASE Begin(c)
    <3>1. /\ txn'[c].pc = "waiting" /\ txn'[c].doomed = txn[c].doomed /\ txn[c].pc = "idle"
          /\ UNCHANGED db /\ \A d \in Clients \ {c} : txn'[d] = txn[d]
      BY <1>0, <2>2 DEF Begin, TypeOK, Transactions
    <3>2. txn[c].doomed = {}
      BY <3>1 DEF RightsInv
    <3> QED
      BY <3>1, <3>2, OtherRights
  <2>3. ASSUME txn' = [txn EXCEPT ![c] = Idle] , UNCHANGED db \/ lock = c PROVE RightsInv'
    <3>1. txn'[c] = Idle /\ \A d \in Clients \ {c} : txn'[d] = txn[d]
      BY <1>0, <2>3 DEF TypeOK
    <3>2. txn'[c].pc # "active" /\ txn'[c].doomed = {}
      BY <3>1 DEF Idle
    <3> QED
      BY <2>3, <3>1, <3>2, OtherRights
  <2>4. CASE Commit(c)
    BY <1>0, <2>3, <2>4 DEF Commit, TxnInv
  <2>5. CASE Rollback(c)
    BY <2>3, <2>5 DEF Rollback
  <2> QED
    BY <2>1, <2>2, <2>4, <2>5, CallRights, LockRights
<1> QED
  BY <1>1, <1>2

\* In every reachable state every open transaction is rightful.
THEOREM RightsInvariance == Spec => [](IInv /\ RightsInv)
<1>1. Init => IInv /\ RightsInv
  BY InitInv, RightsInit
<1>2. IInv /\ RightsInv /\ [Next]_vars => (IInv /\ RightsInv)'
  BY NextInv, NextRights, NextIsStoreStep DEF IInv
<1> QED
  BY <1>1, <1>2, PTL DEF Spec

-----------------------------------------------------------------------------
(* What a commit does. *)

\* A row of the new tables: gone by the right to delete it, or turned into the
\* new one by a session entitled to that.
LEMMA CommitRights ==
    ASSUME IInv, RightsInv, NEW c \in Clients, Commit(c), NEW i \in Ids
    PROVE  \/ /\ db'.rows[i] = NoRow /\ db.rows[i] # NoRow
              /\ HasMethodAccess(last'.session, "delete", db.rows[i].res)
           \/ Entitled(db.rows[i], db'.rows[i], last'.session, last'.op)
<1>1. /\ txn[c].pc = "active" /\ db' = WithoutRows(View(c), txn[c].doomed)
      /\ last'.op = txn[c].op /\ last'.session = txn[c].session
  BY DEF Commit
<1>2. Rightful(c)
  BY <1>1 DEF RightsInv
<1>3. db'.rows[i] = IF i \in txn[c].doomed THEN NoRow ELSE View(c).rows[i]
  BY <1>1 DEF WithoutRows
<1> QED
  BY <1>1, <1>2, <1>3 DEF Rightful

\* The same for any step.
LEMMA StepRights ==
    ASSUME IInv, RightsInv, [StoreStep]_vars, NEW i \in Ids
    PROVE  \/ /\ db'.rows[i] = NoRow /\ db.rows[i] # NoRow
              /\ HasMethodAccess(last'.session, "delete", db.rows[i].res)
           \/ Entitled(db.rows[i], db'.rows[i], last'.session, last'.op)
BY OnlyCommits, CommitRights, EntitledReflexive

\* The effective policy of a row is what Open says of it.
LEMMA EffectiveIsOpen ==
    ASSUME NEW v, NEW i, v.rows[i] # NoRow
    PROVE  EffectivePublic(v, i) <=> Open(v.rows[i])
BY DEF EffectivePublic, PublicRead, ResourcesOf, Open

\* The grants a step adds and removes.
LEMMA StepGrants ==
    ASSUME IInv, RightsInv, [StoreStep]_vars
    PROVE  GrantsChangeByRight
<1> SUFFICES ASSUME NEW i \in Ids
             PROVE  GrantsByRight(db.rows[i], db'.rows[i], last'.session)
  BY DEF GrantsChangeByRight, GrantsByRight, Granted, ResourcesOf
<1>1. CASE Entitled(db.rows[i], db'.rows[i], last'.session, last'.op)
  BY <1>1 DEF Entitled
<1>2. CASE /\ db'.rows[i] = NoRow /\ db.rows[i] # NoRow
           /\ HasMethodAccess(last'.session, "delete", db.rows[i].res)
  BY <1>2, RightUnderEach DEF GrantsByRight, Granted
<1> QED
  BY <1>1, <1>2, StepRights

\* Grants appear and disappear only by the right of the committing session,
\* however many clients and whatever batches they send.
THEOREM GrantsAlwaysAuthorized == Spec => GrantsAuthorized
<1>1. IInv /\ RightsInv /\ [Next]_vars => [GrantsChangeByRight]_vars
  BY StepGrants, NextIsStoreStep DEF IInv
<1> QED
  BY <1>1, RightsInvariance, PTL DEF Spec, GrantsAuthorized

\* The rows and the locations a step removes.
LEMMA StepShared ==
    ASSUME IInv, RightsInv, [StoreStep]_vars
    PROVE  SharedGoesByRight
<1> SUFFICES ASSUME NEW i \in Ids, db.rows[i] # NoRow
             PROVE  IF db'.rows[i] = NoRow
                      THEN HasMethodAccess(last'.session, "delete", db.rows[i].res)
                      ELSE ~(db.rows[i].meths \subseteq db'.rows[i].meths) =>
                             HasMethodAccess(last'.session, "update", db.rows[i].res)
  BY DEF SharedGoesByRight
<1>1. CASE Entitled(db.rows[i], db'.rows[i], last'.session, last'.op)
  BY <1>1 DEF Entitled, UpdatesByRight
<1> QED
  BY <1>1, StepRights

\* Content that several projects share is safe from any one of them.
THEOREM SharedAlwaysProtected == Spec => SharedContentProtected
<1>1. IInv /\ RightsInv /\ [Next]_vars => [SharedGoesByRight]_vars
  BY StepShared, NextIsStoreStep DEF IInv
<1> QED
  BY <1>1, RightsInvariance, PTL DEF Spec, SharedContentProtected

\* What a step adds to private rows, and which it opens.
LEMMA StepPrivate ==
    ASSUME IInv, RightsInv, [StoreStep]_vars
    PROVE  JoinNeedsRead /\ PrivateStaysPrivate
<1>1. ASSUME NEW i \in Ids, db.rows[i] # NoRow, db'.rows[i] # NoRow
      PROVE  /\ UpdatesByRight(db.rows[i], db'.rows[i], last'.session, last'.op)
             /\ JoinsByReading(db.rows[i], db'.rows[i], last'.session, last'.op)
             /\ OpensByRight(db.rows[i], db'.rows[i], last'.op)
             /\ EffectivePublic(db, i) <=> Open(db.rows[i])
             /\ EffectivePublic(db', i) <=> Open(db'.rows[i])
  BY <1>1, StepRights, EffectiveIsOpen DEF Entitled
<1>2. JoinNeedsRead
  BY <1>1 DEF JoinNeedsRead, JoinsByReading
<1>3. PrivateStaysPrivate
  BY <1>1 DEF PrivateStaysPrivate, OpensByRight, UpdatesByRight
<1> QED
  BY <1>2, <1>3

\* Private content is not opened by knowing its SHA-256, and stays private.
THEOREM PrivateAlwaysKept == Spec => PrivateContentKept
<1>1. IInv /\ RightsInv /\ [Next]_vars => [JoinNeedsRead /\ PrivateStaysPrivate]_vars
  BY StepPrivate, NextIsStoreStep DEF IInv
<1> QED
  BY <1>1, RightsInvariance, PTL DEF Spec, PrivateContentKept

-----------------------------------------------------------------------------
(* The record service.  Its calls make the catalogue's steps only, so what   *)
(* was shown of those holds for them; the states a call goes through.        *)

\* The service deletes no alias by itself.
TaskOps == Ops \ {"deleteAlias"}

Elements == [id : Ids, obj : Record]

Tasks ==
    {t \in [op : TaskOps, elems : SUBSET Elements, targets : SUBSET Resources] :
       t.op \in {"methods", "bulkMethods"} => \A e \in t.elems : e.obj.meths # Nil}

ReadRows == [Ids -> Row \cup {NoRow}]

CallStates ==
    [pc : {"ready", "reading", "writing", "done"}, req : Requests,
     goal : {"none", "object", "family", "group", "audit"}, at : Ids \cup {NoId},
     sha : SHAs \cup {NoSHA}, step : Nat, seen : ReadRows, fix : ReadRows, todo : Seq(Tasks),
     ok : BOOLEAN, allowed : BOOLEAN, moved : SUBSET Ids]

Getting(k) == k.req.op \in {"get", "getBySHA"}

\* What a call that reads one record, or the records of one content, knows.
About(k) ==
    /\ k.goal \in {"group", "audit"} => k.req.op = "repair"
    /\ k.goal \in {"object", "family"} /\ ~Getting(k) =>
         k.at \in Ids /\ (k.req.op = "repair" => k.fix[k.at] # NoRow)

\* The shape of a call.
Shape(k) ==
    /\ k.pc = "reading" => k.step \in 1 .. 5 /\ k.goal # "none" /\ About(k)
    /\ k.pc = "writing" => k.todo # <<>> /\ ~Getting(k) /\ About(k)

Sound(k) == k \in CallStates /\ Shape(k)

-----------------------------------------------------------------------------
(* The types of what a call computes. *)

\* The order of a finite set is a sequence of its elements.
LEMMA SetToSeqType ==
    ASSUME NEW S, IsFiniteSet(S)
    PROVE  Seqs!SetToSeq(S) \in Seq(S)
<1> DEFINE n == Cardinality(S)
<1>1. n \in Nat /\ \E m \in Nat : ExistsBijection(1 .. m, S)
  BY FS_CardinalityType, FS_NatBijection
<1>2. ExistsBijection(1 .. n, S)
  BY FS_CardinalityType
<1>3. PICK f \in [1 .. n -> S] : IsInjective(f)
  BY <1>2 DEF ExistsBijection, Bijection, Injection, IsInjective
<1>4. Seqs!Cardinality(S) = n
  BY DEF Seqs!Cardinality, Cardinality
<1> DEFINE g == Seqs!SetToSeq(S)
<1>5. g = CHOOSE h \in [1 .. n -> S] : Seqs!IsInjective(h)
  BY <1>4 DEF Seqs!SetToSeq
<1>6. Seqs!IsInjective(f)
  BY <1>3 DEF Seqs!IsInjective, IsInjective
<1> HIDE DEF n, g
<1>7. g \in [1 .. n -> S]
  BY <1>5, <1>6
<1>8. g \in Seq(S)
  BY <1>1, <1>7
<1> QED
  BY <1>8 DEF g


\* Five tables, the rows first.
LEMMA OrderType ==
    ASSUME NEW goal, NEW n \in 1 .. 5
    PROVE  /\ Len(Order(goal)) = 5
           /\ Order(goal)[n] \in {"rows", "meths", "res", "policy", "sha"}
           /\ Order(goal)[n] = "rows" <=> n = 1
BY DEF Order, ObjectTables, BulkTables

\* The records a request may carry.
LEMMA RequestType ==
    ASSUME NEW q \in Requests
    PROVE  /\ q.op \in ServiceOps /\ q.session \in Sessions /\ q.id \in Ids
           /\ q.obj \in Record /\ q.targets \in SUBSET Resources
           /\ q.op \in {"methods", "bulkMethods"} => q.obj.meths # Nil
BY ServiceAssumption

LEMMA NoObjectType == NoObject \in Record
<1>1. PICK q \in Requests : TRUE
  BY ServiceAssumption
<1>2. Oldest(Ids) \in Ids
  BY <1>1, RequestType DEF Oldest
<1> QED
  BY <1>2, StoreAssumption DEF NoObject, Record

\* Reading a column of a row.
LEMMA ColumnType ==
    ASSUME NEW row \in Row, NEW stored \in Row, NEW table \in {"meths", "res", "policy", "sha"}
    PROVE  [row EXCEPT ![table] = stored[table]] \in Row
BY DEF Row

LEMMA StoredType ==
    ASSUME db \in Tables, NEW i \in Ids
    PROVE  Stored(i) \in Row /\ Unread \in Row
<1>1. Unread \in Row
  BY StoreAssumption DEF Unread, Row, Policies
<1> QED
  BY <1>1 DEF Stored, Tables

\* One statement of a read.
LEMMA FetchType ==
    ASSUME db \in Tables, NEW k \in CallStates, NEW table \in {"rows", "meths", "res", "policy", "sha"}
    PROVE  Fetch(k, table) \in ReadRows
<1>1. \A i \in Ids : Stored(i) \in Row /\ Unread \in Row /\ k.seen[i] \in Row \cup {NoRow}
  BY StoredType DEF CallStates, ReadRows
<1>2. \A i \in Ids : [Unread EXCEPT !.size = Stored(i).size] \in Row
  BY <1>1 DEF Row
<1>3. CASE table = "rows"
  BY <1>2, <1>3 DEF Fetch, ReadRows
<1>4. CASE table # "rows"
  <2>1. \A i \in Ids : k.seen[i] # NoRow => [k.seen[i] EXCEPT ![table] = Stored(i)[table]] \in Row
    BY <1>1, <1>4, ColumnType
  <2> QED
    BY <1>4, <2>1 DEF Fetch, ReadRows
<1> QED
  BY <1>3, <1>4

LEMMA ReadyType == Ready \in CallStates
<1>1. (CHOOSE q \in Requests : TRUE) \in Requests
  BY ServiceAssumption
<1>2. NoRead \in ReadRows
  BY DEF NoRead, ReadRows
<1>3. <<>> \in Seq(Tasks)
  OBVIOUS
<1> QED
  BY <1>1, <1>2, <1>3 DEF Ready, CallStates

\* A call that has ended.
LEMMA EndedSound ==
    ASSUME NEW k \in CallStates, NEW ok \in BOOLEAN
    PROVE  /\ Sound(Ended(k, ok)) /\ Ended(k, ok).pc = "done" /\ Ended(k, ok).ok = ok
           /\ Ended(k, ok).req = k.req /\ Ended(k, ok).allowed = k.allowed
<1>1. /\ Ended(k, ok) \in CallStates /\ Ended(k, ok).pc = "done" /\ Ended(k, ok).ok = ok
      /\ Ended(k, ok).req = k.req /\ Ended(k, ok).allowed = k.allowed
  BY ReadyType DEF Ended, CallStates
<1> QED
  BY <1>1 DEF Sound, Shape

\* A call that begins to read.
LEMMA ReadsSound ==
    ASSUME NEW k \in CallStates, NEW goal \in {"object", "family", "group", "audit"},
           NEW at \in Ids \cup {NoId}, NEW sha \in SHAs \cup {NoSHA},
           goal \in {"group", "audit"} => k.req.op = "repair",
           goal \in {"object", "family"} /\ ~Getting(k) =>
             at \in Ids /\ (k.req.op = "repair" => k.fix[at] # NoRow)
    PROVE  Sound(Reads(k, goal, at, sha))
<1>1. NoRead \in ReadRows
  BY DEF NoRead, ReadRows
<1>2. /\ Reads(k, goal, at, sha) \in CallStates /\ Reads(k, goal, at, sha).pc = "reading"
      /\ Reads(k, goal, at, sha).goal = goal /\ Reads(k, goal, at, sha).step = 1
      /\ Reads(k, goal, at, sha).req = k.req /\ Reads(k, goal, at, sha).fix = k.fix
      /\ Reads(k, goal, at, sha).at = at
  BY <1>1 DEF Reads, CallStates
<1> QED
  BY <1>2 DEF Sound, Shape, About, Getting

\* A call that submits transactions.
LEMMA SubmitsSound ==
    ASSUME NEW k \in CallStates, NEW todo \in Seq(Tasks), todo # <<>>, ~Getting(k), About(k)
    PROVE  Sound(Submits(k, todo))
<1>1. NoRead \in ReadRows
  BY DEF NoRead, ReadRows
<1>2. /\ Submits(k, todo) \in CallStates /\ Submits(k, todo).pc = "writing"
      /\ Submits(k, todo).goal = k.goal /\ Submits(k, todo).req = k.req
      /\ Submits(k, todo).fix = k.fix /\ Submits(k, todo).at = k.at /\ Submits(k, todo).todo = todo
  BY <1>1 DEF Submits, CallStates
<1> QED
  BY <1>2 DEF Sound, Shape, About, Getting

\* A repair goes on to the next record it can fix.
LEMMA NextFixSound ==
    ASSUME NEW k \in CallStates, k.req.op = "repair"
    PROVE  Sound(NextFix(k))
<1> DEFINE left == {i \in Ids : k.fix[i] # NoRow}
<1>1. CASE left = {}
  BY <1>1, EndedSound DEF NextFix
<1>2. CASE left # {}
  <2>1. Oldest(left) \in left
    BY <1>2 DEF Oldest
  <2>2. NextFix(k) = Reads(k, "object", Oldest(left), NoSHA)
    BY <1>2 DEF NextFix
  <2> QED
    BY <2>1, <2>2, ReadsSound DEF Getting
<1> QED
  BY <1>1, <1>2

\* Without the rest of its transactions a call is still typed.
LEMMA ClearedType ==
    ASSUME NEW k \in CallStates, NEW fix \in ReadRows, NEW todo \in Seq(Tasks)
    PROVE  [k EXCEPT !.fix = fix, !.todo = todo] \in CallStates
BY DEF CallStates

LEMMA TodoType ==
    ASSUME NEW k \in CallStates, NEW todo \in Seq(Tasks)
    PROVE  [k EXCEPT !.todo = todo] \in CallStates
BY DEF CallStates

LEMMA NoTasks == <<>> \in Seq(Tasks)
OBVIOUS

\* A record is struck off the ones to fix.
LEMMA StruckType ==
    ASSUME NEW f \in ReadRows, NEW x
    PROVE  [f EXCEPT ![x] = NoRow] \in ReadRows
<1> DEFINE g == [f EXCEPT ![x] = NoRow]
<1>1. g = [i \in Ids |-> IF i = x THEN NoRow ELSE f[i]]
  BY DEF ReadRows
<1> QED
  BY <1>1 DEF ReadRows

LEMMA FixedSound ==
    ASSUME NEW k \in CallStates, k.req.op = "repair"
    PROVE  Sound(Fixed(k))
<1> DEFINE n == [k EXCEPT !.fix[k.at] = NoRow, !.todo = <<>>]
<1>1. n \in CallStates /\ n.req = k.req
  <2>1. k.fix \in ReadRows
    BY DEF CallStates
  <2>2. n = [k EXCEPT !.fix = [k.fix EXCEPT ![k.at] = NoRow], !.todo = <<>>] /\ n.req = k.req
    BY DEF CallStates
  <2> HIDE DEF n
  <2> QED
    BY <2>1, <2>2, StruckType, NoTasks, ClearedType
<1> HIDE DEF n
<1> QED
  BY <1>1, NextFixSound DEF Fixed, n

LEMMA FailsSound ==
    ASSUME NEW k \in CallStates
    PROVE  Sound(Fails(k))
BY FixedSound, EndedSound DEF Fails

LEMMA SucceedsSound ==
    ASSUME NEW k \in CallStates
    PROVE  Sound(Succeeds(k))
<1>1. CASE k.req.op = "repair" /\ k.goal = "group"
  <2> DEFINE n == [k EXCEPT !.todo = <<>>]
  <2>1. n \in CallStates
    BY NoTasks, TodoType
  <2>2. n.req = k.req
    BY DEF CallStates
  <2> HIDE DEF n
  <2>3. Sound(Reads(n, "audit", NoId, NoSHA))
    BY <1>1, <2>1, <2>2, ReadsSound
  <2> QED
    BY <1>1, <2>3 DEF Succeeds, n
<1>2. CASE k.req.op = "repair" /\ k.goal \in {"object", "family"}
  BY <1>2, FixedSound DEF Succeeds
<1>3. CASE ~(k.req.op = "repair" /\ k.goal \in {"group", "object", "family"})
  <2>1. Succeeds(k) = Ended(k, TRUE)
    BY <1>3 DEF Succeeds
  <2> QED
    BY <2>1, EndedSound
<1> QED
  BY <1>1, <1>2, <1>3

-----------------------------------------------------------------------------
(* The records a call writes back. *)

LEMMA GivenType ==
    ASSUME NEW S, NEW R \in SUBSET S
    PROVE  Given(R) \in {Nil} \cup SUBSET S
BY DEF Given

\* The merged record of rows that were read.
LEMMA CollapseType ==
    ASSUME NEW seen \in ReadRows, NEW ids \in SUBSET Ids, ids # {},
           \A i \in ids : seen[i] # NoRow
    PROVE  CollapseCanonicalGroup(seen, ids) \in Row
<1> DEFINE some == CHOOSE i \in ids : \A j \in ids : seen[j].size # 0 => seen[i].size # 0
           res  == UNION {seen[i].res : i \in ids}
           meths == UNION {seen[i].meths : i \in ids}
           policy == IF \E i \in ids : IsPublic(seen[i]) THEN "public"
                     ELSE IF \E i \in ids : seen[i].policy # "none" THEN "private" ELSE "none"
<1>1. \A i \in ids : seen[i] \in Row
  BY DEF ReadRows
<1>2. some \in ids
  <2>1. \E i \in ids : \A j \in ids : seen[j].size # 0 => seen[i].size # 0
    OBVIOUS
  <2> QED
    BY <2>1
<1>3. res \in SUBSET Resources /\ meths \in SUBSET Methods /\ policy \in Policies
  BY <1>1 DEF Row, Policies
<1>4. seen[some].sha \in SHAs \cup {NoSHA} /\ seen[some].size \in Sizes
  BY <1>1, <1>2 DEF Row
<1>5. CollapseCanonicalGroup(seen, ids) =
        [sha |-> seen[some].sha, size |-> seen[some].size, res |-> res, meths |-> meths,
         policy |-> policy]
  BY DEF CollapseCanonicalGroup
<1> HIDE DEF some, res, meths, policy
<1> QED
  BY <1>3, <1>4, <1>5 DEF Row

\* What an update writes over the record it read.
LEMMA MergeType ==
    ASSUME NEW existing \in Row, NEW update \in Record, NEW id \in Ids
    PROVE  LET obj == MergeRecordUpdate(existing, update, id)
           IN  /\ obj \in Record
               /\ obj.id = id /\ obj.size = existing.size
               /\ obj.sha = IF existing.sha = NoSHA THEN update.sha ELSE existing.sha
               /\ obj.res = IF update.res = Nil THEN Given(existing.res) ELSE update.res
               /\ obj.meths = IF update.meths = Nil THEN Given(existing.meths) ELSE update.meths
               /\ obj.public = IsPublic(existing) /\ obj.aliases = update.aliases
<1> DEFINE sha    == IF existing.sha = NoSHA THEN update.sha ELSE existing.sha
           res    == IF update.res = Nil THEN Given(existing.res) ELSE update.res
           meths  == IF update.meths = Nil THEN Given(existing.meths) ELSE update.meths
           public == IsPublic(existing)
           size   == existing.size
<1>1. /\ sha \in SHAs \cup {NoSHA} /\ size \in Sizes
      /\ res \in {Nil} \cup SUBSET Resources /\ meths \in {Nil} \cup SUBSET Methods
  BY GivenType DEF Row, Record
<1>2. public \in BOOLEAN
  BY DEF IsPublic
<1>3. MergeRecordUpdate(existing, update, id) =
        [update EXCEPT !.id = id, !.sha = sha, !.size = size, !.res = res, !.meths = meths,
                       !.public = public]
  BY DEF MergeRecordUpdate, Record
<1> DEFINE obj == MergeRecordUpdate(existing, update, id)
<1> HIDE DEF sha, res, meths, public, size, obj
<1>4. obj = [update EXCEPT !.id = id, !.sha = sha, !.size = size, !.res = res, !.meths = meths,
                           !.public = public]
  BY <1>3 DEF obj
<1>5. /\ obj \in Record
      /\ obj.id = id /\ obj.size = size /\ obj.sha = sha /\ obj.res = res /\ obj.meths = meths
      /\ obj.public = public /\ obj.aliases = update.aliases
  BY <1>1, <1>2, <1>4 DEF Record
<1> QED
  BY <1>5 DEF obj, sha, res, meths, public, size

\* The locations, grants and SHA-256 a repair puts into an update.
LEMMA FixType ==
    ASSUME NEW row \in Row
    PROVE  LET obj == [NoObject EXCEPT !.sha = row.sha, !.res = Given(row.res), !.meths = {TargetURL}]
           IN  /\ obj \in Record /\ obj.sha = row.sha /\ obj.res = Given(row.res)
               /\ obj.meths = {TargetURL} /\ obj.size = 0
<1>1. row.sha \in SHAs \cup {NoSHA} /\ Given(row.res) \in {Nil} \cup SUBSET Resources
  BY GivenType DEF Row
<1>2. {TargetURL} \in SUBSET Methods
  BY ServiceAssumption
<1>3. NoObject.size = 0
  BY DEF NoObject
<1> QED
  BY <1>1, <1>2, <1>3, NoObjectType DEF Record

\* One transaction.
LEMMA TaskType ==
    ASSUME NEW op \in TaskOps, NEW elems \in SUBSET Elements, NEW targets \in SUBSET Resources,
           op \in {"methods", "bulkMethods"} => \A e \in elems : e.obj.meths # Nil
    PROVE  /\ Transaction(op, elems, targets) \in Tasks
           /\ <<Transaction(op, elems, targets)>> \in Seq(Tasks)
           /\ <<Transaction(op, elems, targets)>> # <<>>
<1>1. Transaction(op, elems, targets) \in Tasks
  BY DEF Transaction, Tasks
<1> HIDE DEF Transaction
<1> QED
  BY <1>1

LEMMA ElemType ==
    ASSUME NEW id \in Ids, NEW obj \in Record
    PROVE  Elem(id, obj) \in Elements /\ {Elem(id, obj)} \in SUBSET Elements
BY DEF Elem, Elements

\* The update a call makes: the request's, or what the repair has found to fix.
UpdateOf(k) ==
    IF k.req.op # "repair" THEN k.req.obj
    ELSE [NoObject EXCEPT !.sha = k.fix[k.at].sha, !.res = Given(k.fix[k.at].res), !.meths = {TargetURL}]

LEMMA UpdateType ==
    ASSUME NEW k \in CallStates, About(k), ~Getting(k), k.goal \in {"object", "family"}
    PROVE  UpdateOf(k) \in Record /\ k.at \in Ids
<1>1. k.at \in Ids /\ (k.req.op = "repair" => k.fix[k.at] # NoRow)
  BY DEF About
<1>2. CASE k.req.op # "repair"
  BY <1>1, <1>2, RequestType DEF UpdateOf, CallStates
<1>3. CASE k.req.op = "repair"
  <2>1. k.fix[k.at] \in Row
    BY <1>1, <1>3 DEF CallStates, ReadRows
  <2> QED
    BY <1>1, <1>3, <2>1, FixType DEF UpdateOf
<1> QED
  BY <1>2, <1>3

\* An update either fails or submits one replacement of the record it read.
LEMMA UpdatedCases ==
    ASSUME NEW k \in CallStates, NEW existing
    PROVE  \/ Updated(k, existing) = Fails(k)
           \/ Updated(k, existing) =
                Submits(k, <<Transaction("replace",
                  {Elem(k.at, MergeRecordUpdate(existing, UpdateOf(k), k.at))}, {})>>)
BY DEF Updated, UpdateRecord, RepairRecord, WritesBack, UpdateOf

LEMMA ReplaceTask ==
    ASSUME NEW existing \in Row, NEW update \in Record, NEW id \in Ids
    PROVE  LET todo == <<Transaction("replace", {Elem(id, MergeRecordUpdate(existing, update, id))}, {})>>
           IN  todo \in Seq(Tasks) /\ todo # <<>>
<1>1. MergeRecordUpdate(existing, update, id) \in Record
  BY MergeType
<1>2. {Elem(id, MergeRecordUpdate(existing, update, id))} \in SUBSET Elements
  BY <1>1, ElemType
<1>3. "replace" \in TaskOps /\ {} \in SUBSET Resources /\ "replace" \notin {"methods", "bulkMethods"}
  BY DEF TaskOps, Ops, BulkOps
<1> QED
  BY <1>2, <1>3, TaskType

LEMMA UpdatedSound ==
    ASSUME NEW k \in CallStates, About(k), ~Getting(k), k.goal \in {"object", "family"},
           NEW existing \in Row
    PROVE  Sound(Updated(k, existing))
<1>1. CASE Updated(k, existing) = Fails(k)
  BY <1>1, FailsSound
<1>2. CASE Updated(k, existing) # Fails(k)
  <2> DEFINE todo == <<Transaction("replace",
                        {Elem(k.at, MergeRecordUpdate(existing, UpdateOf(k), k.at))}, {})>>
  <2>1. Updated(k, existing) = Submits(k, todo)
    BY <1>2, UpdatedCases
  <2>2. todo \in Seq(Tasks) /\ todo # <<>>
    BY UpdateType, ReplaceTask
  <2> HIDE DEF todo
  <2> QED
    BY <2>1, <2>2, SubmitsSound
<1> QED
  BY <1>1, <1>2

\* The check of a record's content.
LEMMA CheckedSound ==
    ASSUME NEW k \in CallStates, About(k), k.goal \in {"object", "family"},
           NEW ids \in SUBSET Found(k)
    PROVE  Sound(ContentAndCheckAccess(k, ids))
<1> DEFINE view   == CollapseCanonicalGroup(k.seen, ids)
           method == IF k.req.op \in {"get", "getBySHA"} THEN "read" ELSE "update"
<1>1. CASE ids = {} \/ ~HasObjectMethod(k.req.session, method, view)
  <2>1. ContentAndCheckAccess(k, ids) = Fails(k)
    BY <1>1 DEF ContentAndCheckAccess
  <2> QED
    BY <2>1, FailsSound
<1>2. CASE ~(ids = {} \/ ~HasObjectMethod(k.req.session, method, view)) /\ Getting(k)
  <2>1. ContentAndCheckAccess(k, ids) = Ended(k, TRUE)
    BY <1>2 DEF ContentAndCheckAccess, Getting
  <2> QED
    BY <2>1, EndedSound
<1>3. CASE ~(ids = {} \/ ~HasObjectMethod(k.req.session, method, view)) /\ ~Getting(k)
  <2>1. ContentAndCheckAccess(k, ids) = Updated(k, view)
    BY <1>3 DEF ContentAndCheckAccess, Getting
  <2>2. view \in Row
    BY <1>3, CollapseType DEF Found, CallStates
  <2> HIDE DEF view
  <2> QED
    BY <1>3, <2>1, <2>2, UpdatedSound
<1> QED
  BY <1>1, <1>2, <1>3

\* The audit.
LEMMA AuditedSound ==
    ASSUME NEW k \in CallStates, k.req.op = "repair"
    PROVE  Sound(Audited(k))
<1> DEFINE fix == [i \in Ids |->
                     IF /\ i \in Found(k)
                        /\ k.seen[i].sha # NoSHA /\ k.seen[i].res = k.req.targets
                        /\ HasObjectMethod(k.req.session, "read", k.seen[i])
                        /\ k.seen[i].meths \notin {{}, {TargetURL}}
                       THEN k.seen[i] ELSE NoRow]
           n   == [k EXCEPT !.fix = fix]
<1>1. fix \in ReadRows
  BY DEF CallStates, ReadRows
<1>2. Audited(k) = NextFix(n)
  BY DEF Audited
<1> HIDE DEF fix
<1>3. n \in CallStates /\ n.req = k.req
  BY <1>1 DEF CallStates
<1> HIDE DEF n
<1> QED
  BY <1>2, <1>3, NextFixSound

\* The collapse of duplicates: the record that stays, and an element of its transactions.
Survivor(k, i) == Oldest(Group(k, i))

MergedElem(k, id, i) ==
    Elem(id, MergeRecordUpdate(CollapseCanonicalGroup(k.seen, Group(k, i)), NoObject, Survivor(k, i)))

LEMMA MergedElemType ==
    ASSUME NEW k \in CallStates, NEW i \in Found(k)
    PROVE  /\ Survivor(k, i) \in Group(k, i) /\ Survivor(k, i) \in Ids /\ i \in Ids
           /\ CollapseCanonicalGroup(k.seen, Group(k, i)) \in Row
           /\ \A id \in Ids : MergedElem(k, id, i) \in Elements
<1>1. i \in Group(k, i) /\ Group(k, i) \in SUBSET Ids /\ \A j \in Group(k, i) : k.seen[j] # NoRow
  BY DEF Group, Found
<1>2. Survivor(k, i) \in Group(k, i)
  BY <1>1 DEF Survivor, Oldest
<1>3. k.seen \in ReadRows
  BY DEF CallStates
<1>4. CollapseCanonicalGroup(k.seen, Group(k, i)) \in Row
  BY <1>1, <1>3, CollapseType
<1>5. MergeRecordUpdate(CollapseCanonicalGroup(k.seen, Group(k, i)), NoObject, Survivor(k, i)) \in Record
  BY <1>1, <1>2, <1>4, MergeType, NoObjectType
<1> QED
  BY <1>1, <1>2, <1>4, <1>5, ElemType DEF MergedElem

\* Three sequences of tasks, one after the other.
LEMMA TasksJoin ==
    ASSUME NEW a \in Seq(Tasks), NEW b \in Seq(Tasks), NEW c \in Seq(Tasks), a # <<>>
    PROVE  /\ a \o b \o c \in Seq(Tasks) /\ a \o b \o c # <<>>
           /\ Head(a \o b \o c) = Head(a)
<1>1. a \o b \in Seq(Tasks) /\ Len(a \o b) = Len(a) + Len(b) /\ Len(a) > 0 /\ Len(b) \in Nat
      /\ (a \o b)[1] = a[1]
  OBVIOUS
<1> DEFINE d == a \o b
<1> HIDE DEF d
<1>2. d \o c \in Seq(Tasks) /\ Len(d \o c) = Len(d) + Len(c) /\ Len(c) \in Nat /\ (d \o c)[1] = d[1]
  BY <1>1 DEF d
<1> QED
  BY <1>1, <1>2 DEF d

\* What the collapse submits.
CollapseTasks(k) ==
    LET others == {i \in Duplicates(k) : i # Survivor(k, i)}
        order  == Seqs!SetToSeq(others)
    IN  <<Transaction("register", {MergedElem(k, Survivor(k, i), i) : i \in Duplicates(k)}, {})>>
          \o [n \in DOMAIN order |-> Transaction("createAlias", {MergedElem(k, order[n], order[n])}, {})]
          \o <<Transaction("bulkDelete", {MergedElem(k, i, i) : i \in others}, {})>>

LEMMA CollapseTasksType ==
    ASSUME NEW k \in CallStates
    PROVE  /\ CollapseTasks(k) \in Seq(Tasks) /\ CollapseTasks(k) # <<>>
           /\ Head(CollapseTasks(k)) =
                Transaction("register", {MergedElem(k, Survivor(k, i), i) : i \in Duplicates(k)}, {})
<1> DEFINE others == {i \in Duplicates(k) : i # Survivor(k, i)}
           order  == Seqs!SetToSeq(others)
           T1     == Transaction("register", {MergedElem(k, Survivor(k, i), i) : i \in Duplicates(k)}, {})
           t1     == <<T1>>
           t2     == [n \in DOMAIN order |->
                        Transaction("createAlias", {MergedElem(k, order[n], order[n])}, {})]
           t3     == <<Transaction("bulkDelete", {MergedElem(k, i, i) : i \in others}, {})>>
<1>1. /\ "register" \in TaskOps /\ "createAlias" \in TaskOps /\ "bulkDelete" \in TaskOps /\ {} \in SUBSET Resources
      /\ "register" \notin {"methods", "bulkMethods"} /\ "createAlias" \notin {"methods", "bulkMethods"}
      /\ "bulkDelete" \notin {"methods", "bulkMethods"}
  BY DEF TaskOps, Ops, BulkOps, SingleOps
<1>2. Duplicates(k) \subseteq Found(k) /\ Found(k) \subseteq Ids
  BY DEF Duplicates, Found
<1>3. {MergedElem(k, Survivor(k, i), i) : i \in Duplicates(k)} \in SUBSET Elements
  BY <1>2, MergedElemType
<1>4. {MergedElem(k, i, i) : i \in others} \in SUBSET Elements
  BY <1>2, MergedElemType
<1>5. IsFiniteSet(others)
  BY <1>2, ServiceAssumption, FS_Subset
<1>6. order \in Seq(others)
  BY <1>5, SetToSeqType
<1>7. t1 \in Seq(Tasks) /\ t1 # <<>> /\ Head(t1) = T1
  BY <1>1, <1>3, TaskType
<1>8. t3 \in Seq(Tasks)
  BY <1>1, <1>4, TaskType
<1>9. t2 \in Seq(Tasks)
  <2>1. \A i \in others : Transaction("createAlias", {MergedElem(k, i, i)}, {}) \in Tasks
    <3> SUFFICES ASSUME NEW i \in others
                 PROVE  Transaction("createAlias", {MergedElem(k, i, i)}, {}) \in Tasks
      OBVIOUS
    <3>1. {MergedElem(k, i, i)} \in SUBSET Elements
      BY <1>2, MergedElemType
    <3> QED
      BY <1>1, <3>1, TaskType
  <2> HIDE DEF order, others
  <2>2. DOMAIN order = 1 .. Len(order) /\ Len(order) \in Nat /\ \A n \in DOMAIN order : order[n] \in others
    BY <1>6
  <2>3. t2 \in [1 .. Len(order) -> Tasks]
    BY <2>1, <2>2
  <2> HIDE DEF t2
  <2> QED
    BY <2>2, <2>3
<1>10. CollapseTasks(k) = t1 \o t2 \o t3
  BY DEF CollapseTasks
<1> HIDE DEF t1, t2, t3, T1
<1>11. /\ t1 \o t2 \o t3 \in Seq(Tasks) /\ t1 \o t2 \o t3 # <<>>
       /\ Head(t1 \o t2 \o t3) = Head(t1)
  BY <1>7, <1>8, <1>9, TasksJoin
<1> QED
  BY <1>7, <1>10, <1>11 DEF T1

\* A collapse fails, has nothing to do, or submits its transactions.
LEMMA CollapsedCases ==
    ASSUME NEW k \in CallStates
    PROVE  \/ Collapsed(k) = Fails(k)
           \/ Collapsed(k) = Succeeds(k)
           \/ Collapsed(k) = Submits(k, CollapseTasks(k)) /\ Duplicates(k) # {}
BY DEF Collapsed, CollapseTasks, MergedElem, Survivor

LEMMA CollapsedSound ==
    ASSUME NEW k \in CallStates, k.goal = "group", k.req.op = "repair"
    PROVE  Sound(Collapsed(k))
<1>1. About(k) /\ ~Getting(k)
  BY DEF About, Getting
<1> QED
  BY <1>1, CollapsedCases, FailsSound, SucceedsSound, SubmitsSound, CollapseTasksType

\* What follows the last statement of a read.
LEMMA ConcludeSound ==
    ASSUME NEW k \in CallStates, About(k), k.goal # "none"
    PROVE  Sound(Conclude(k))
<1>1. CASE k.goal = "object"
  <2>1. CASE Found(k) = {}
    BY <1>1, <2>1, FailsSound DEF Conclude
  <2>2. CASE Found(k) # {}
    <3> DEFINE i   == CHOOSE i \in Found(k) : TRUE
               sha == k.seen[i].sha
    <3>1. i \in Found(k)
      BY <2>2
    <3>2. k.seen[i] \in Row
      BY <3>1 DEF Found, CallStates, ReadRows
    <3>3. sha \in SHAs \cup {NoSHA}
      BY <3>2 DEF Row
    <3>4. Conclude(k) = IF sha = NoSHA THEN ContentAndCheckAccess(k, Found(k))
                        ELSE Reads(k, "family", k.at, sha)
      BY <1>1, <2>2 DEF Conclude
    <3> HIDE DEF sha
    <3>5. k.at \in Ids \cup {NoId}
      BY DEF CallStates
    <3>6. Sound(Reads(k, "family", k.at, sha))
      BY <1>1, <3>3, <3>5, ReadsSound DEF About
    <3> QED
      BY <1>1, <3>4, <3>6, CheckedSound
  <2> QED
    BY <2>1, <2>2
<1>2. CASE k.goal = "family"
  <2>1. Conclude(k) = ContentAndCheckAccess(k, {i \in Found(k) : k.seen[i].sha = k.sha})
    BY <1>2 DEF Conclude
  <2> QED
    BY <1>2, <2>1, CheckedSound
<1>3. CASE k.goal = "group"
  BY <1>3, CollapsedSound DEF Conclude, About
<1>4. CASE k.goal = "audit"
  BY <1>4, AuditedSound DEF Conclude, About
<1>5. k.goal \in {"none", "object", "family", "group", "audit"}
  BY DEF CallStates
<1> QED
  BY <1>1, <1>2, <1>3, <1>4, <1>5

-----------------------------------------------------------------------------
(* The plans of the other calls. *)

\* A plan of one transaction.
LEMMA SingleTask ==
    ASSUME NEW op \in TaskOps, NEW id \in Ids, NEW obj \in Record, NEW targets \in SUBSET Resources,
           op \in {"methods", "bulkMethods"} => obj.meths # Nil
    PROVE  <<Transaction(op, {Elem(id, obj)}, targets)>> \in Seq(Tasks)
<1>1. {Elem(id, obj)} \in SUBSET Elements /\ \A e \in {Elem(id, obj)} : e.obj = obj
  BY ElemType DEF Elem
<1> QED
  BY <1>1, TaskType

\* A plan over the elements that are left.
LEMMA FilteredTask ==
    ASSUME NEW op \in TaskOps, NEW elems \in SUBSET Elements, NEW targets \in SUBSET Resources,
           op \notin {"methods", "bulkMethods"}
    PROVE  Filtered(op, elems, targets) \in Seq(Tasks)
BY TaskType, NoTasks DEF Filtered

LEMMA PlanType ==
    ASSUME NEW v \in Tables, NEW q \in Requests, q.op \notin {"get", "getBySHA", "update", "repair"}
    PROVE  Plan(v, q) = Refused \/ Plan(v, q) \in Seq(Tasks)
<1> USE DEF When
<1>1. /\ q.op \in ServiceOps /\ q.session \in Sessions /\ q.id \in Ids
      /\ q.obj \in Record /\ q.targets \in SUBSET Resources /\ q.obj.id \in Ids
      /\ q.op \in {"methods", "bulkMethods"} => q.obj.meths # Nil
      /\ {} \in SUBSET Resources
  BY RequestType DEF Record
<1>2. /\ "register" \in TaskOps /\ "methods" \in TaskOps /\ "bulkMethods" \in TaskOps /\ "removeGrant" \in TaskOps
      /\ "createAlias" \in TaskOps /\ "delete" \in TaskOps /\ "bulkDelete" \in TaskOps /\ "removeGrantBulk" \in TaskOps
  BY DEF TaskOps, Ops, BulkOps, SingleOps
<1>3. CASE q.op = "register"
  <2>1. <<Transaction("register", {Elem(q.obj.id, q.obj)}, {})>> \in Seq(Tasks)
    BY <1>1, <1>2, SingleTask
  <2> QED
    BY <1>3, <2>1 DEF Plan, RegisterPlan
<1>4. CASE q.op = "overwrite"
  <2> DEFINE bySHA  == {i \in Owners(v, q.obj.sha) : q.obj.sha # NoSHA /\ q.targets \subseteq v.rows[i].res}
             target == IF v.rows[q.obj.id] = NoRow /\ bySHA # {} THEN Oldest(bySHA) ELSE q.obj.id
             obj    == [q.obj EXCEPT !.id = target]
  <2>1. target \in Ids
    <3>1. bySHA # {} => Oldest(bySHA) \in bySHA
      BY DEF Oldest
    <3>2. bySHA \subseteq Ids
      BY DEF Owners
    <3> QED
      BY <1>1, <3>1, <3>2
  <2>2. Plan(v, q) = Refused \/ Plan(v, q) = <<Transaction("register", {Elem(target, obj)}, {})>>
    BY <1>4 DEF Plan, OverwritePlan
  <2> HIDE DEF target
  <2>3. obj \in Record
    BY <1>1, <2>1 DEF Record
  <2> HIDE DEF obj
  <2>4. <<Transaction("register", {Elem(target, obj)}, {})>> \in Seq(Tasks)
    BY <1>1, <1>2, <2>1, <2>3, SingleTask
  <2> QED
    BY <2>2, <2>4
<1>5. CASE q.op \in {"methods", "bulkMethods"}
  <2>1. <<Transaction(q.op, {Elem(q.id, q.obj)}, {})>> \in Seq(Tasks)
    BY <1>1, <1>2, <1>5, SingleTask
  <2> QED
    BY <1>5, <2>1 DEF Plan, UpdateMethodsPlan
<1>6. CASE q.op = "removeGrant"
  <2>1. <<Transaction("removeGrant", {Elem(q.id, q.obj)}, q.targets)>> \in Seq(Tasks)
    BY <1>1, <1>2, SingleTask
  <2> QED
    BY <1>6, <2>1 DEF Plan, RemoveGrantPlan
<1>7. CASE q.op = "createAlias"
  <2>1. <<Transaction("createAlias", {Elem(q.id, q.obj)}, {})>> \in Seq(Tasks)
    BY <1>1, <1>2, SingleTask
  <2> QED
    BY <1>7, <2>1 DEF Plan, CreateAliasPlan
<1>8. CASE q.op = "delete"
  <2>1. <<Transaction("delete", {Elem(q.id, q.obj)}, {})>> \in Seq(Tasks)
    BY <1>1, <1>2, SingleTask
  <2> QED
    BY <1>8, <2>1 DEF Plan, DeletePlan
<1>9. CASE q.op = "bulkDelete"
  <2> DEFINE elems == {e \in {Elem(q.id, q.obj)} :
                         v.rows[q.id] # NoRow /\ RequireAllObjectMethod(q.session, "delete", v.rows[q.id])}
  <2>1. elems \in SUBSET Elements
    BY <1>1, ElemType
  <2>2. Filtered("bulkDelete", elems, {}) \in Seq(Tasks)
    BY <1>1, <1>2, <2>1, FilteredTask
  <2> QED
    BY <1>9, <2>2 DEF Plan, BulkDeletePlan
<1>10. CASE q.op = "deleteByChecksums"
  <2> DEFINE elems == {Elem(i, q.obj) : i \in {i \in Owners(v, q.obj.sha) :
                         RequireAllObjectMethod(q.session, "delete", v.rows[i])}}
  <2>1. elems \in SUBSET Elements
    BY <1>1, ElemType DEF Owners
  <2>2. Filtered("bulkDelete", elems, {}) \in Seq(Tasks)
    BY <1>1, <1>2, <2>1, FilteredTask
  <2> QED
    BY <1>10, <2>2 DEF Plan, DeleteByChecksumsPlan
<1>11. CASE q.op = "deleteByScope"
  <2> DEFINE elems == {Elem(i, q.obj) : i \in {i \in Ids :
                         /\ ResourcesOf(v, i) \cap q.targets # {}
                         /\ HasObjectMethod(q.session, "delete", v.rows[i])}}
  <2>1. elems \in SUBSET Elements
    BY <1>1, ElemType
  <2>2. Filtered("removeGrantBulk", elems, q.targets) \in Seq(Tasks)
    BY <1>1, <1>2, <2>1, FilteredTask
  <2> QED
    BY <1>11, <2>2 DEF Plan, DeleteByScopePlan
<1> QED
  BY <1>1, <1>3, <1>4, <1>5, <1>6, <1>7, <1>8, <1>9, <1>10, <1>11 DEF ServiceOps

LEMMA PlannedSound ==
    ASSUME NEW k \in CallStates, k.goal = "none", ~Getting(k), NEW plan,
           plan = Refused \/ plan \in Seq(Tasks)
    PROVE  Sound(Planned(k, plan))
<1>1. About(k)
  BY DEF About
<1> QED
  BY <1>1, EndedSound, SubmitsSound DEF Planned

-----------------------------------------------------------------------------
(* The service's steps are the catalogue's. *)

\* A client has a transaction only for a call that writes, and of its kind.
Linked(c) ==
    /\ txn[c].pc # "idle" => call[c].pc = "writing"
    /\ txn[c].pc = "active" => txn[c].op = Head(call[c].todo).op

CallsSound == call \in [Clients -> CallStates] /\ \A c \in Clients : Sound(call[c]) /\ Linked(c)

ServiceBase == IInv /\ RightsInv /\ CallsSound

\* The transaction a writing call works on.
LEMMA HeadType ==
    ASSUME CallsSound, NEW c \in Clients, call[c].pc = "writing"
    PROVE  /\ call[c] \in CallStates /\ call[c].todo \in Seq(Tasks) /\ call[c].todo # <<>>
           /\ Head(call[c].todo) \in Tasks /\ Tail(call[c].todo) \in Seq(Tasks)
           /\ call[c].req \in Requests /\ About(call[c]) /\ ~Getting(call[c])
<1>1. /\ call[c] \in CallStates /\ call[c].todo \in Seq(Tasks) /\ call[c].todo # <<>>
      /\ call[c].req \in Requests /\ About(call[c]) /\ ~Getting(call[c])
  BY DEF CallsSound, Sound, Shape, CallStates
<1> QED
  BY <1>1

\* An element of a service call is an element of a catalogue call.
LEMMA EffectIsCall ==
    ASSUME NEW c \in Clients, NEW t \in Tasks, Element(c, t.op), NEW e \in Elements, e \in t.elems,
           Effect(c, t, e)
    PROVE  AnyCall(c)
<1>1. /\ t.op \in TaskOps /\ t.targets \in SUBSET Resources /\ e.id \in Ids /\ e.obj \in Record
      /\ e.obj.id \in Ids
      /\ t.op \in {"methods", "bulkMethods"} => e.obj.meths \in SUBSET Methods
  BY DEF Tasks, Elements, Record
<1>2. CASE t.op = "register"
  <2>1. RegistersAny(c)
    BY <1>1, <1>2 DEF Effect, RegistersAny
  <2> QED
    BY <2>1 DEF AnyCall
<1>3. CASE t.op = "replace"
  <2>1. ReplacesAny(c)
    BY <1>1, <1>3 DEF Effect, ReplacesAny
  <2> QED
    BY <2>1 DEF AnyCall
<1>4. CASE t.op = "delete"
  <2>1. DeleteObject(c)
    BY <1>1, <1>4 DEF Effect, DeleteObject
  <2> QED
    BY <2>1 DEF AnyCall
<1>5. CASE t.op = "bulkDelete"
  <2>1. BulkDeleteObjects(c)
    BY <1>1, <1>5 DEF Effect, BulkDeleteObjects
  <2> QED
    BY <2>1 DEF AnyCall
<1>6. CASE t.op = "createAlias"
  <2>1. CreateObjectAlias(c)
    BY <1>1, <1>6 DEF Effect, CreateObjectAlias
  <2> QED
    BY <2>1 DEF AnyCall
<1>7. CASE t.op = "methods"
  <2>1. UpdateObjectAccessMethods(c)
    BY <1>1, <1>7 DEF Effect, UpdateObjectAccessMethods
  <2> QED
    BY <2>1 DEF AnyCall
<1>8. CASE t.op = "bulkMethods"
  <2>1. BulkUpdateAccessMethods(c)
    BY <1>1, <1>8 DEF Effect, BulkUpdateAccessMethods
  <2> QED
    BY <2>1 DEF AnyCall
<1>9. CASE t.op = "removeGrant"
  <2>1. RemoveObjectControlledAccess(c)
    BY <1>1, <1>9 DEF Effect, RemoveObjectControlledAccess
  <2> QED
    BY <2>1 DEF AnyCall
<1>10. CASE t.op = "removeGrantBulk"
  <2>1. StripsAny(c)
    BY <1>1, <1>10 DEF Effect, StripsAny
  <2> QED
    BY <2>1 DEF AnyCall
<1> QED
  BY <1>1, <1>2, <1>3, <1>4, <1>5, <1>6, <1>7, <1>8, <1>9, <1>10 DEF TaskOps, Ops, BulkOps, SingleOps

\* Every step of the service is a step of the catalogue, or leaves it alone.
LEMMA ServiceIsStoreStep ==
    ASSUME ServiceBase, [ServiceNext]_serviceVars
    PROVE  [StoreStep]_vars
<1>0. CallsSound
  BY DEF ServiceBase
<1>1. CASE UNCHANGED serviceVars
  BY <1>1 DEF serviceVars, vars
<1>2. ASSUME NEW c \in Clients, Request(c) \/ Read(c)
      PROVE  UNCHANGED vars
  BY <1>2 DEF Request, Read
<1>3. ASSUME NEW c \in Clients, Acquire(c)
      PROVE  Locks(c)
  <2>1. call[c].pc = "writing"
    BY <1>0, <1>3 DEF Acquire, CallsSound, Linked
  <2> DEFINE t == Head(call[c].todo)
  <2>2. t \in Tasks /\ call[c].req \in Requests
    BY <1>0, <2>1, HeadType
  <2>3. t.op \in Ops /\ t.targets \in SUBSET Resources /\ call[c].req.session \in Sessions
    BY <2>2, RequestType DEF Tasks, TaskOps
  <2>4. txn' = [txn EXCEPT ![c].pc = "active", ![c].op = t.op,
                           ![c].session = call[c].req.session, ![c].targets = t.targets]
    BY <1>3 DEF Acquire
  <2> HIDE DEF t
  <2>5. \E op \in Ops, s \in Sessions, targets \in SUBSET Resources :
          txn' = [txn EXCEPT ![c].pc = "active", ![c].op = op,
                             ![c].session = s, ![c].targets = targets]
    BY <2>3, <2>4, Zenon
  <2>6. txn[c].pc = "waiting" /\ LockFree(c) /\ lock' = c /\ UNCHANGED <<db, last>>
    BY <1>3 DEF Acquire
  <2> QED
    BY <2>5, <2>6 DEF Locks
<1>4. ASSUME NEW c \in Clients, Process(c)
      PROVE  AnyCall(c)
  <2>1. call[c].pc = "writing"
    BY <1>0, <1>4 DEF Process, CallsSound, Linked
  <2> DEFINE t == Head(call[c].todo)
  <2>2. t \in Tasks
    BY <1>0, <2>1, HeadType
  <2>3. PICK e \in t.elems : Element(c, t.op) /\ Effect(c, t, e)
    BY <1>4 DEF Process
  <2>4. e \in Elements
    BY <2>2 DEF Tasks
  <2> HIDE DEF t
  <2> QED
    BY <2>2, <2>3, <2>4, EffectIsCall
<1>5. CASE ServiceNext
  <2>1. PICK c \in Clients : Request(c) \/ Acquire(c) \/ ServiceStep(c)
    BY <1>5 DEF ServiceNext
  <2>2. CASE Request(c) \/ Read(c)
    BY <1>2, <2>2
  <2>3. CASE Acquire(c)
    BY <1>3, <2>3 DEF StoreStep
  <2>4. CASE Process(c)
    BY <1>4, <2>4 DEF StoreStep
  <2>5. CASE Submit(c) \/ CommitTransaction(c) \/ FailTransaction(c)
    BY <2>5 DEF Submit, CommitTransaction, FailTransaction, StoreStep
  <2> QED
    BY <2>1, <2>2, <2>3, <2>4, <2>5 DEF ServiceStep
<1> QED
  BY <1>1, <1>5

\* One element less to process.
LEMMA ElementDone ==
    ASSUME NEW k \in CallStates, k.todo # <<>>, NEW e
    PROVE  LET n == [k EXCEPT !.todo[1].elems = @ \ {e}]
           IN  /\ n \in CallStates /\ n.todo # <<>>
               /\ Head(n.todo) = [Head(k.todo) EXCEPT !.elems = @ \ {e}]
               /\ Head(n.todo).op = Head(k.todo).op
               /\ Head(n.todo).elems = Head(k.todo).elems \ {e}
               /\ n = [k EXCEPT !.todo = n.todo]
<1> DEFINE n == [k EXCEPT !.todo[1].elems = @ \ {e}]
           t == [k.todo[1] EXCEPT !.elems = @ \ {e}]
           s == [k.todo EXCEPT ![1] = t]
<1>1. k.todo \in Seq(Tasks) /\ Len(k.todo) \in Nat /\ Len(k.todo) > 0 /\ Head(k.todo) = k.todo[1]
  BY DEF CallStates
<1>2. k.todo[1] \in Tasks
  BY <1>1
<1>3. /\ t \in Tasks /\ t.op = k.todo[1].op /\ t.elems = k.todo[1].elems \ {e}
  BY <1>2 DEF Tasks
<1>4. n = [k EXCEPT !.todo = s]
  BY DEF CallStates
<1> HIDE DEF t
<1>5. s \in Seq(Tasks) /\ s # <<>> /\ Head(s) = t
  <2>1. s \in [1 .. Len(k.todo) -> Tasks] /\ s[1] = t
    BY <1>1, <1>3
  <2> HIDE DEF s
  <2>2. s \in Seq(Tasks) /\ Len(s) = Len(k.todo)
    BY <1>1, <2>1
  <2> QED
    BY <1>1, <2>1, <2>2
<1> HIDE DEF s
<1>6. n \in CallStates /\ n.todo = s
  BY <1>4, <1>5 DEF CallStates
<1> HIDE DEF n
<1> QED
  BY <1>1, <1>3, <1>4, <1>5, <1>6 DEF n, t

\* A step of one client that leaves its call sound keeps all calls sound.
LEMMA OneCall ==
    ASSUME CallsSound, NEW c \in Clients, NEW k, Sound(k), call' = [call EXCEPT ![c] = k],
           \A d \in Clients \ {c} : txn'[d] = txn[d],
           txn'[c].pc # "idle" => k.pc = "writing",
           txn'[c].pc = "active" => txn'[c].op = Head(k.todo).op
    PROVE  CallsSound'
<1>1. k \in CallStates /\ call \in [Clients -> CallStates]
  BY DEF CallsSound, Sound
<1>2. call' \in [Clients -> CallStates] /\ call'[c] = k /\ \A d \in Clients \ {c} : call'[d] = call[d]
  BY <1>1
<1>3. \A d \in Clients : Sound(call'[d])
  BY <1>2 DEF CallsSound
<1>4. \A d \in Clients : Linked(d)'
  BY <1>2 DEF CallsSound, Linked
<1> QED
  BY <1>2, <1>3, <1>4 DEF CallsSound

\* A request arrives.
LEMMA RequestSound ==
    ASSUME ServiceBase, NEW c \in Clients, Request(c)
    PROVE  CallsSound'
<1>1. CallsSound /\ db \in Tables /\ txn[c].pc = "idle" /\ UNCHANGED txn
  BY DEF ServiceBase, IInv, TypeOK, Request, CallsSound, Linked, vars
<1>2. PICK q \in Requests :
        LET k == [Ready EXCEPT !.req = q]
        IN  Continues(c, CASE q.op \in {"get", "update"} -> Reads(k, "object", q.id, NoSHA)
                        [] q.op = "getBySHA" -> Reads(k, "family", NoId, q.obj.sha)
                        [] q.op = "repair"   -> Reads(k, "group", NoId, NoSHA)
                        [] OTHER             -> Planned(k, Plan(db, q)))
  BY DEF Request
<1> DEFINE k == [Ready EXCEPT !.req = q]
           n == CASE q.op \in {"get", "update"} -> Reads(k, "object", q.id, NoSHA)
                  [] q.op = "getBySHA" -> Reads(k, "family", NoId, q.obj.sha)
                  [] q.op = "repair"   -> Reads(k, "group", NoId, NoSHA)
                  [] OTHER             -> Planned(k, Plan(db, q))
<1>3. k \in CallStates /\ k.req = q /\ k.goal = "none"
  BY ReadyType DEF CallStates, Ready
<1>4. q.id \in Ids /\ q.obj.sha \in SHAs \cup {NoSHA} /\ NoSHA \in SHAs \cup {NoSHA}
  BY RequestType DEF Record
<1>5. call' = [call EXCEPT ![c] = n]
  BY <1>2 DEF Continues
<1> HIDE DEF k
<1>6. Sound(n)
  <2>1. CASE q.op \in {"get", "update"}
    BY <1>3, <1>4, <2>1, ReadsSound
  <2>2. CASE q.op = "getBySHA"
    BY <1>3, <1>4, <2>2, ReadsSound DEF Getting
  <2>3. CASE q.op = "repair"
    BY <1>3, <1>4, <2>3, ReadsSound
  <2>4. CASE q.op \notin {"get", "update", "getBySHA", "repair"}
    <3>1. n = Planned(k, Plan(db, q))
      BY <2>4
    <3> QED
      BY <1>1, <1>3, <2>4, <3>1, PlanType, PlannedSound DEF Getting
  <2> QED
    BY <2>1, <2>2, <2>3, <2>4
<1> HIDE DEF n
<1> QED
  BY <1>1, <1>5, <1>6, OneCall

\* The call after one more statement of a read.
AfterRead(k) ==
    LET r == [k EXCEPT !.seen = Fetch(k, Order(k.goal)[k.step]), !.step = @ + 1]
    IN  [r EXCEPT !.allowed = @ \/ \E i \in Found(r) : Opens(k.req.session, i)]

LEMMA AfterReadType ==
    ASSUME db \in Tables, NEW k \in CallStates, k.step \in 1 .. 5
    PROVE  LET n == AfterRead(k)
               seen == Fetch(k, Order(k.goal)[k.step])
           IN  /\ n \in CallStates /\ n.pc = k.pc /\ n.req = k.req /\ n.goal = k.goal /\ n.at = k.at
               /\ n.sha = k.sha /\ n.step = k.step + 1 /\ n.seen = seen /\ n.fix = k.fix
               /\ n.moved = k.moved /\ n.todo = k.todo
               /\ n.allowed <=> k.allowed \/ \E i \in Found(n) : Opens(k.req.session, i)
<1> DEFINE seen == Fetch(k, Order(k.goal)[k.step])
           step == k.step + 1
           r    == [k EXCEPT !.seen = seen, !.step = step]
           opens == \E i \in Found(r) : Opens(k.req.session, i)
           allowed == k.allowed \/ opens
           n    == [r EXCEPT !.allowed = allowed]
<1>1. seen \in ReadRows
  BY OrderType, FetchType
<1>2. step \in Nat
  BY DEF CallStates
<1>3. AfterRead(k) = n
  BY DEF AfterRead, CallStates
<1> HIDE DEF seen, step
<1>4. /\ r \in CallStates /\ r.pc = k.pc /\ r.req = k.req /\ r.goal = k.goal /\ r.at = k.at
      /\ r.sha = k.sha /\ r.step = step /\ r.seen = seen /\ r.fix = k.fix
      /\ r.moved = k.moved /\ r.todo = k.todo /\ r.allowed = k.allowed
  BY <1>1, <1>2 DEF CallStates
<1>5. allowed \in BOOLEAN
  BY <1>4 DEF CallStates
<1> HIDE DEF r, allowed
<1>6. /\ n \in CallStates /\ n.pc = k.pc /\ n.req = k.req /\ n.goal = k.goal /\ n.at = k.at
      /\ n.sha = k.sha /\ n.step = step /\ n.seen = seen /\ n.fix = k.fix
      /\ n.moved = k.moved /\ n.todo = k.todo /\ n.allowed = allowed
  BY <1>4, <1>5 DEF CallStates
<1>7. Found(n) = Found(r)
  BY <1>4, <1>6 DEF Found
<1> HIDE DEF n
<1>8. n.allowed <=> k.allowed \/ \E i \in Found(n) : Opens(k.req.session, i)
  BY <1>6, <1>7 DEF allowed
<1> QED
  BY <1>3, <1>6, <1>8 DEF seen, step

\* One statement of a read.
LEMMA ReadStep ==
    ASSUME NEW c \in Clients, Read(c)
    PROVE  /\ call[c].pc = "reading"
           /\ call' = [call EXCEPT ![c] = IF call[c].step = 5 THEN Conclude(AfterRead(call[c]))
                                          ELSE AfterRead(call[c])]
           /\ UNCHANGED <<db, txn, lock, last>>
<1>1. \A goal : Len(Order(goal)) = 5
  BY OrderType
<1> QED
  BY <1>1 DEF Read, AfterRead, Continues, vars

LEMMA ReadSound ==
    ASSUME ServiceBase, NEW c \in Clients, Read(c)
    PROVE  CallsSound'
<1> DEFINE k == call[c]
           n == AfterRead(k)
           m == IF k.step = 5 THEN Conclude(n) ELSE n
<1>1. CallsSound /\ db \in Tables
  BY DEF ServiceBase, IInv, TypeOK
<1>2. k.pc = "reading" /\ call' = [call EXCEPT ![c] = m] /\ UNCHANGED txn
  BY ReadStep
<1>3. k \in CallStates /\ k.step \in 1 .. 5 /\ k.goal # "none" /\ About(k) /\ txn[c].pc = "idle"
  BY <1>1, <1>2 DEF CallsSound, Sound, Shape, Linked, IInv, TypeOK, Transactions
<1> HIDE DEF k
<1>4. /\ n \in CallStates /\ n.pc = "reading" /\ n.goal = k.goal /\ n.step = k.step + 1
      /\ n.req = k.req /\ n.at = k.at /\ n.fix = k.fix
  BY <1>1, <1>2, <1>3, AfterReadType DEF k
<1>5. About(n)
  BY <1>3, <1>4 DEF About, Getting
<1> HIDE DEF n
<1>6. Sound(m)
  <2>1. CASE k.step = 5
    BY <1>3, <1>4, <1>5, <2>1, ConcludeSound
  <2>2. CASE k.step # 5
    <3>1. n.step \in 1 .. 5
      BY <1>3, <1>4, <2>2
    <3> QED
      BY <1>3, <1>4, <1>5, <2>2, <3>1 DEF Sound, Shape
  <2> QED
    BY <2>1, <2>2
<1> HIDE DEF m
<1> QED
  BY <1>1, <1>2, <1>3, <1>6, OneCall

\* A call that only has other transactions to go on with.
LEMMA TodoSound ==
    ASSUME NEW k \in CallStates, Sound(k), k.pc = "writing", NEW todo \in Seq(Tasks), todo # <<>>
    PROVE  LET n == [k EXCEPT !.todo = todo]
           IN  Sound(n) /\ n.pc = "writing" /\ n.todo = todo
<1> DEFINE n == [k EXCEPT !.todo = todo]
<1>1. n \in CallStates
  BY TodoType
<1>2. /\ n.pc = k.pc /\ n.todo = todo /\ n.goal = k.goal /\ n.at = k.at /\ n.req = k.req
      /\ n.fix = k.fix
  BY DEF CallStates
<1> HIDE DEF n
<1>3. About(n) /\ ~Getting(n)
  BY <1>2 DEF Sound, Shape, About, Getting
<1> QED
  BY <1>1, <1>2, <1>3 DEF Sound, Shape, n

\* An element leaves every transaction where it was.
LEMMA EffectKeeps ==
    ASSUME NEW c \in Clients, txn \in [Clients -> Transactions], NEW t \in Tasks, NEW e,
           Effect(c, t, e)
    PROVE  /\ txn'[c].pc = txn[c].pc /\ txn'[c].op = txn[c].op
           /\ \A d \in Clients \ {c} : txn'[d] = txn[d]
<1>1. ASSUME NEW v, NEW doomed, Writes(c, v, doomed)
      PROVE  /\ txn'[c].pc = txn[c].pc /\ txn'[c].op = txn[c].op
             /\ \A d \in Clients \ {c} : txn'[d] = txn[d]
  BY <1>1 DEF Writes, Transactions
<1>2. t.op \in TaskOps
  BY DEF Tasks
<1> QED
  BY <1>1, <1>2 DEF Effect, TaskOps, Ops, BulkOps, SingleOps

LEMMA ProcessSound ==
    ASSUME ServiceBase, NEW c \in Clients, Process(c)
    PROVE  CallsSound'
<1>1. CallsSound /\ txn \in [Clients -> Transactions]
  BY DEF ServiceBase, IInv, TypeOK
<1> DEFINE k == call[c]
           t == Head(k.todo)
<1>2. txn[c].pc = "active" /\ txn[c].op = t.op /\ k.pc = "writing"
  BY <1>1 DEF CallsSound, Linked, Process
<1>3. t \in Tasks /\ k \in CallStates /\ k.todo # <<>> /\ Sound(k)
  BY <1>1, <1>2, HeadType DEF CallsSound
<1>4. PICK e \in t.elems : Effect(c, t, e) /\ Continues(c, [k EXCEPT !.todo[1].elems = @ \ {e}])
  BY DEF Process
<1> DEFINE n == [k EXCEPT !.todo[1].elems = @ \ {e}]
<1> HIDE DEF k
<1>5. /\ n \in CallStates /\ n.todo # <<>> /\ Head(n.todo).op = t.op
      /\ n = [k EXCEPT !.todo = n.todo]
  BY <1>3, ElementDone
<1>6. call' = [call EXCEPT ![c] = n]
  BY <1>4 DEF Continues
<1> HIDE DEF n
<1>7. n.todo \in Seq(Tasks)
  BY <1>5 DEF CallStates
<1> DEFINE todo == n.todo
<1>8. n = [k EXCEPT !.todo = todo] /\ todo \in Seq(Tasks) /\ todo # <<>>
  BY <1>5, <1>7
<1> HIDE DEF todo
<1>9. Sound(n) /\ n.pc = "writing"
  BY <1>2, <1>3, <1>8, TodoSound
<1>10. /\ txn'[c].pc = txn[c].pc /\ txn'[c].op = txn[c].op
       /\ \A d \in Clients \ {c} : txn'[d] = txn[d]
  BY <1>1, <1>3, <1>4, EffectKeeps
<1> QED
  BY <1>1, <1>2, <1>5, <1>6, <1>9, <1>10, OneCall

LEMMA SubmitSound ==
    ASSUME ServiceBase, NEW c \in Clients, Submit(c)
    PROVE  CallsSound'
<1>1. CallsSound /\ txn \in [Clients -> Transactions] /\ call \in [Clients -> CallStates]
  BY DEF ServiceBase, IInv, TypeOK, CallsSound
<1>2. /\ call[c].pc = "writing" /\ Sound(call[c]) /\ call' = [call EXCEPT ![c] = call[c]]
  BY <1>1 DEF Submit, CallsSound
<1>3. txn'[c].pc = "waiting" /\ \A d \in Clients \ {c} : txn'[d] = txn[d]
  BY <1>1 DEF Submit, Begin, Transactions
<1> QED
  BY <1>1, <1>2, <1>3, OneCall

LEMMA AcquireSound ==
    ASSUME ServiceBase, NEW c \in Clients, Acquire(c)
    PROVE  CallsSound'
<1>1. CallsSound /\ txn \in [Clients -> Transactions] /\ call \in [Clients -> CallStates]
  BY DEF ServiceBase, IInv, TypeOK, CallsSound
<1>2. call[c].pc = "writing" /\ Sound(call[c]) /\ call' = [call EXCEPT ![c] = call[c]]
  BY <1>1 DEF Acquire, CallsSound, Linked
<1>3. txn'[c].op = Head(call[c].todo).op /\ \A d \in Clients \ {c} : txn'[d] = txn[d]
  BY <1>1 DEF Acquire, Transactions
<1> QED
  BY <1>1, <1>2, <1>3, OneCall

LEMMA FailSound ==
    ASSUME ServiceBase, NEW c \in Clients, FailTransaction(c)
    PROVE  CallsSound'
<1>1. CallsSound /\ txn \in [Clients -> Transactions] /\ call[c] \in CallStates
  BY DEF ServiceBase, IInv, TypeOK, CallsSound
<1> DEFINE n == Fails(call[c])
<1>2. Sound(n) /\ call' = [call EXCEPT ![c] = n]
  BY <1>1, FailsSound DEF FailTransaction, Continues
<1> HIDE DEF n
<1>3. txn'[c].pc = "idle" /\ \A d \in Clients \ {c} : txn'[d] = txn[d]
  BY <1>1 DEF FailTransaction, Rollback, Idle
<1> QED
  BY <1>1, <1>2, <1>3, OneCall

\* A call that sees rows change.
LEMMA MovedSound ==
    ASSUME NEW k, Sound(k), NEW ids \in SUBSET Ids
    PROVE  LET n == [k EXCEPT !.moved = @ \cup ids]
           IN  Sound(n) /\ n.pc = k.pc /\ n.todo = k.todo
<1> DEFINE n == [k EXCEPT !.moved = @ \cup ids]
<1>1. k \in CallStates
  BY DEF Sound
<1>2. /\ n \in CallStates /\ n.pc = k.pc /\ n.todo = k.todo /\ n.goal = k.goal /\ n.at = k.at
      /\ n.req = k.req /\ n.fix = k.fix /\ n.step = k.step
  BY <1>1 DEF CallStates
<1> HIDE DEF n
<1>3. Shape(n)
  BY <1>2 DEF Sound, Shape, About, Getting
<1> QED
  BY <1>2, <1>3 DEF Sound, n

\* What a call goes on with after a commit.
AfterCommit(k) == LET n == [k EXCEPT !.todo = Tail(@)]
                  IN  IF n.todo = <<>> THEN Succeeds(n) ELSE n

LEMMA AfterCommitSound ==
    ASSUME NEW k, Sound(k), k.pc = "writing"
    PROVE  Sound(AfterCommit(k))
<1>1. k \in CallStates /\ k.todo \in Seq(Tasks) /\ k.todo # <<>>
  BY DEF Sound, Shape, CallStates
<1> DEFINE todo == Tail(k.todo)
           n == [k EXCEPT !.todo = todo]
<1>2. todo \in Seq(Tasks)
  BY <1>1
<1> HIDE DEF todo
<1>3. n \in CallStates /\ n.todo = todo
  BY <1>1, <1>2, TodoType DEF CallStates
<1>4. AfterCommit(k) = IF n.todo = <<>> THEN Succeeds(n) ELSE n
  BY DEF AfterCommit, todo
<1>5. n.todo # <<>> => Sound(n)
  BY <1>1, <1>2, <1>3, TodoSound
<1> HIDE DEF n
<1> QED
  BY <1>3, <1>4, <1>5, SucceedsSound

LEMMA CommitSound ==
    ASSUME ServiceBase, NEW c \in Clients, CommitTransaction(c)
    PROVE  CallsSound'
<1>1. CallsSound /\ txn \in [Clients -> Transactions] /\ call \in [Clients -> CallStates]
  BY DEF ServiceBase, IInv, TypeOK, CallsSound
<1>2. call[c].pc = "writing" /\ Sound(call[c])
  BY <1>1 DEF CommitTransaction, CallsSound, Linked
<1> DEFINE n == AfterCommit(call[c])
           ids == {i \in Ids : db'.rows[i] # db.rows[i]}
<1>3. Sound(n)
  BY <1>2, AfterCommitSound
<1>4. call' = [d \in Clients |->
                 IF d = c THEN n
                 ELSE IF call[d].pc \notin {"reading", "writing"} THEN call[d]
                 ELSE [call[d] EXCEPT !.moved = @ \cup ids]]
  BY DEF CommitTransaction, Moves, AfterCommit
<1> HIDE DEF n
<1>5. ids \in SUBSET Ids
  OBVIOUS
<1> HIDE DEF ids
<1>6. txn'[c].pc = "idle" /\ \A d \in Clients \ {c} : txn'[d] = txn[d]
  BY <1>1 DEF CommitTransaction, Commit, Idle
<1>7. ASSUME NEW d \in Clients
      PROVE  Sound(call'[d]) /\ (d # c => call'[d].pc = call[d].pc /\ call'[d].todo = call[d].todo)
  <2>1. Sound(call[d])
    BY <1>1 DEF CallsSound
  <2> QED
    BY <1>3, <1>4, <1>5, <2>1, MovedSound
<1>8. \A d \in Clients : Linked(d)'
  BY <1>1, <1>6, <1>7 DEF CallsSound, Linked
<1>9. call' \in [Clients -> CallStates]
  BY <1>4, <1>7 DEF Sound
<1> QED
  BY <1>7, <1>8, <1>9 DEF CallsSound

-----------------------------------------------------------------------------
(* The record service over the catalogue. *)

\* The catalogue the service finds, and nothing under way.
LEMMA ServiceInitBase == ServiceInit => ServiceBase
<1> SUFFICES ASSUME ServiceInit PROVE ServiceBase
  OBVIOUS
<1>1. Good(db) /\ db \in Tables
  BY ServiceAssumption DEF ServiceInit, Good
<1>2. TypeOK
  BY <1>1, IdleType DEF ServiceInit, TypeOK, Transactions, Idle, Ops, BulkOps, SingleOps
<1>3. TxnInv
  BY DEF ServiceInit, TxnInv, Idle
<1>4. RightsInv
  BY DEF ServiceInit, RightsInv, Idle
<1>5. Ready.pc = "ready"
  BY DEF Ready
<1>6. Sound(Ready)
  BY <1>5, ReadyType DEF Sound, Shape
<1>7. CallsSound
  <2>1. call \in [Clients -> CallStates] /\ \A c \in Clients : Sound(call[c])
    BY <1>6, ReadyType DEF ServiceInit
  <2>2. \A c \in Clients : Linked(c)
    BY DEF ServiceInit, Linked, Idle
  <2> QED
    BY <2>1, <2>2 DEF CallsSound
<1> QED
  BY <1>1, <1>2, <1>3, <1>4, <1>7 DEF ServiceBase, IInv

\* Every step of the service keeps the catalogue, the transactions' rights and the
\* calls sound.
LEMMA ServiceNextBase ==
    ASSUME ServiceBase, [ServiceNext]_serviceVars
    PROVE  ServiceBase'
<1>1. IInv' /\ RightsInv'
  BY ServiceIsStoreStep, NextInv, NextRights DEF ServiceBase
<1>2. CASE UNCHANGED serviceVars
  <2>1. UNCHANGED <<txn, call>> /\ CallsSound
    BY <1>2 DEF serviceVars, ServiceBase
  <2>2. CallsSound'
    BY <2>1 DEF CallsSound, Linked
  <2> QED
    BY <1>1, <2>2 DEF ServiceBase
<1>3. CASE ServiceNext
  <2>1. PICK c \in Clients : Request(c) \/ Acquire(c) \/ ServiceStep(c)
    BY <1>3 DEF ServiceNext
  <2>2. CallsSound'
    BY <2>1, RequestSound, ReadSound, AcquireSound, SubmitSound, ProcessSound, CommitSound, FailSound
       DEF ServiceStep
  <2> QED
    BY <1>1, <2>2 DEF ServiceBase
<1> QED
  BY <1>2, <1>3

\* Whatever calls the record service and the scope repair make, and whatever
\* transactions they string together, the catalogue's invariant, the rights of every
\* open transaction and the shape of every call hold.
THEOREM ServiceInvariance == ServiceSpec => []ServiceBase
BY ServiceInitBase, ServiceNextBase, PTL DEF ServiceSpec

\* Under the record service too no SHA-256 gets a second row and no alias dangles.
THEOREM ServiceKeepsCatalogue == ServiceSpec => [](TypeOK /\ UniqueContent /\ AliasTargetsExist)
<1>1. ServiceBase => TypeOK /\ UniqueContent /\ AliasTargetsExist
  BY DEF ServiceBase, IInv, Good, UniqueContent, AliasTargetsExist
<1> QED
  BY <1>1, ServiceInvariance, PTL

\* Under the record service too ids and contents keep their rows: the transactions
\* UpdateRecord, BulkOverwriteObjects and the collapse of duplicates submit never
\* move an id or change a SHA-256.
THEOREM ServiceKeepsContent == ServiceSpec => ContentImmutable /\ IdentityStable
<1>1. ServiceBase /\ [ServiceNext]_serviceVars => [ContentKept /\ IdentityKept]_vars
  BY ServiceIsStoreStep, StepKeepsContent, StepKeepsIdentity DEF ServiceBase
<1> QED
  BY <1>1, ServiceInvariance, PTL DEF ServiceSpec, ContentImmutable, IdentityStable

\* Under the record service too every change to grants, rows, locations and read
\* policies was one the committing session had the right to make: a decision taken
\* on records that were read outside the transaction is never all there is.
THEOREM ServiceChangesByRight ==
    ServiceSpec => GrantsAuthorized /\ SharedContentProtected /\ PrivateContentKept
<1>1. ServiceBase /\ [ServiceNext]_serviceVars =>
        [GrantsChangeByRight /\ SharedGoesByRight /\ JoinNeedsRead /\ PrivateStaysPrivate]_vars
  BY ServiceIsStoreStep, StepGrants, StepShared, StepPrivate DEF ServiceBase
<1> QED
  BY <1>1, ServiceInvariance, PTL
     DEF ServiceSpec, GrantsAuthorized, SharedContentProtected, PrivateContentKept

-----------------------------------------------------------------------------
(* What a read may return. *)

\* A call keeps the request it was made for.
LEMMA RequestKept ==
    ASSUME NEW k \in CallStates
    PROVE  /\ \A ok : Ended(k, ok).req = k.req
           /\ \A goal, at, sha : Reads(k, goal, at, sha).req = k.req
           /\ \A todo : Submits(k, todo).req = k.req
           /\ NextFix(k).req = k.req
           /\ Fixed(k).req = k.req
           /\ Fails(k).req = k.req
           /\ Succeeds(k).req = k.req
<1>1. ASSUME NEW n \in CallStates
      PROVE  /\ \A ok : Ended(n, ok).req = n.req
             /\ \A goal, at, sha : Reads(n, goal, at, sha).req = n.req
             /\ \A todo : Submits(n, todo).req = n.req
             /\ NextFix(n).req = n.req
  <2>1. \A ok : Ended(n, ok).req = n.req
    BY DEF Ended, Ready
  <2>2. \A goal, at, sha : Reads(n, goal, at, sha).req = n.req
    BY DEF Reads, CallStates
  <2>3. \A todo : Submits(n, todo).req = n.req
    BY DEF Submits, CallStates
  <2> QED
    BY <2>1, <2>2, <2>3 DEF NextFix
<1> DEFINE n == [k EXCEPT !.fix[k.at] = NoRow, !.todo = <<>>]
           m == [k EXCEPT !.todo = <<>>]
<1>2. n \in CallStates /\ m \in CallStates
  <2> DEFINE fix == [k.fix EXCEPT ![k.at] = NoRow]
  <2>1. fix \in ReadRows
    BY StruckType DEF CallStates
  <2>2. n = [k EXCEPT !.fix = fix, !.todo = <<>>]
    BY DEF CallStates
  <2> HIDE DEF fix
  <2> QED
    BY <2>1, <2>2, NoTasks, ClearedType, TodoType
<1>3. n.req = k.req /\ m.req = k.req
  BY DEF CallStates
<1>4. Fixed(k) = NextFix(n)
  BY DEF Fixed
<1>5. k.req.op = "repair" /\ k.goal = "group" => Succeeds(k) = Reads(m, "audit", NoId, NoSHA)
  BY DEF Succeeds
<1> HIDE DEF n, m
<1>6. Fixed(k).req = k.req
  BY <1>1, <1>2, <1>3, <1>4
<1>7. Fails(k).req = k.req
  BY <1>1, <1>6 DEF Fails
<1>8. Succeeds(k).req = k.req
  <2>1. CASE k.req.op = "repair" /\ k.goal = "group"
    BY <1>1, <1>2, <1>3, <1>5, <2>1
  <2>2. CASE k.req.op = "repair" /\ k.goal \in {"object", "family"}
    BY <1>6, <2>2 DEF Succeeds
  <2>3. CASE ~(k.req.op = "repair" /\ k.goal \in {"object", "family", "group"})
    BY <1>1, <2>3 DEF Succeeds
  <2> QED
    BY <2>1, <2>2, <2>3
<1> QED
  BY <1>1, <1>6, <1>7, <1>8

\* A statement fills in one column of the rows found so far.
LEMMA FetchColumn ==
    ASSUME db \in Tables, NEW k \in CallStates, NEW table \in {"meths", "res", "policy", "sha"},
           NEW i \in Ids
    PROVE  LET row == Fetch(k, table)[i]
           IN  /\ row = NoRow <=> k.seen[i] = NoRow
               /\ k.seen[i] # NoRow =>
                    /\ row[table] = Stored(i)[table]
                    /\ \A col \in {"sha", "size", "res", "meths", "policy"} \ {table} :
                         row[col] = k.seen[i][col]
<1>1. k.seen[i] \in Row \cup {NoRow} /\ Stored(i) \in Row
  BY StoredType DEF CallStates, ReadRows
<1>2. Fetch(k, table)[i] = IF k.seen[i] = NoRow THEN NoRow
                           ELSE [k.seen[i] EXCEPT ![table] = Stored(i)[table]]
  BY DEF Fetch
<1>3. k.seen[i] # NoRow => [k.seen[i] EXCEPT ![table] = Stored(i)[table]] \in Row
  BY <1>1, ColumnType
<1> QED
  BY <1>1, <1>2, <1>3, StoreAssumption DEF Row

\* What a read that no catalogue allowed so far has seen of a row: neither its grants
\* nor its policy open it.  Once the grants are read and there are none, the row has a
\* written policy or is gone, and stays so until the policy is read.
Denied(k, i) ==
    /\ k.step > (IF k.goal = "object" THEN 3 ELSE 4) =>
         /\ ~CanReadContent(k.req.session, k.seen[i].res)
         /\ k.seen[i].res = {} => db.rows[i] = NoRow \/ db.rows[i].policy # "none"
    /\ k.step > (IF k.goal = "object" THEN 4 ELSE 5) => ~IsPublic(k.seen[i])

Refuses(k) ==
    Getting(k) =>
      /\ k.pc = "reading" /\ ~k.allowed => \A i \in Found(k) : Denied(k, i)
      /\ k.pc = "done" /\ k.ok => k.allowed

ReadInv == ServiceBase /\ \A c \in Clients : Refuses(call[c])

\* A statement that opens nothing keeps every row denied.
LEMMA ReadRefuses ==
    ASSUME db \in Tables, NEW k \in CallStates, k.step \in 1 .. 5, k.pc = "reading", Refuses(k)
    PROVE  Refuses(AfterRead(k))
<1> DEFINE n == AfterRead(k)
           table == Order(k.goal)[k.step]
<1>1. /\ n \in CallStates /\ n.pc = "reading" /\ n.req = k.req /\ n.goal = k.goal
      /\ n.step = k.step + 1 /\ n.seen = Fetch(k, table)
      /\ n.allowed <=> k.allowed \/ \E i \in Found(n) : Opens(k.req.session, i)
  BY AfterReadType
<1> HIDE DEF n
<1> SUFFICES ASSUME Getting(k), ~n.allowed, NEW i \in Found(n)
             PROVE  Denied(n, i)
  BY <1>1 DEF Refuses, Getting, n
<1>2. ~k.allowed /\ ~Opens(k.req.session, i) /\ i \in Ids /\ n.seen[i] # NoRow
  BY <1>1 DEF Found
<1>3. CASE k.step = 1
  BY <1>1, <1>3 DEF Denied
<1>4. CASE k.step # 1
  <2>1. table \in {"meths", "res", "policy", "sha"}
    BY <1>4, OrderType
  <2>2. /\ table = "res" <=> k.step = IF k.goal = "object" THEN 3 ELSE 4
        /\ table = "policy" <=> k.step = IF k.goal = "object" THEN 4 ELSE 5
    BY <1>4 DEF Order, ObjectTables, BulkTables
  <2> HIDE DEF table
  <2>3. /\ k.seen[i] # NoRow /\ n.seen[i][table] = Stored(i)[table]
        /\ \A col \in {"sha", "size", "res", "meths", "policy"} \ {table} :
             n.seen[i][col] = k.seen[i][col]
    BY <1>1, <1>2, <2>1, FetchColumn
  <2>4. Denied(k, i)
    BY <1>2, <2>3 DEF Refuses, Found
  <2>5. /\ db.rows[i] # NoRow /\ Stored(i) = db.rows[i] /\ ~Open(db.rows[i])
        /\ ~CanReadContent(k.req.session, db.rows[i].res)
    BY <1>2, EffectiveIsOpen DEF Opens, Stored
  <2>6. CASE table = "res"
    <3>1. n.seen[i].res = db.rows[i].res
      BY <2>3, <2>5, <2>6
    <3> QED
      BY <1>1, <2>2, <2>5, <2>6, <3>1 DEF Denied, Open
  <2>7. CASE table = "policy"
    <3>1. n.seen[i].policy = db.rows[i].policy /\ n.seen[i].res = k.seen[i].res
      BY <2>3, <2>5, <2>7
    <3> QED
      BY <1>1, <2>2, <2>4, <2>5, <2>7, <3>1 DEF Denied, Open, IsPublic
  <2>8. CASE table \notin {"res", "policy"}
    <3>1. n.seen[i].policy = k.seen[i].policy /\ n.seen[i].res = k.seen[i].res
      BY <2>3, <2>8
    <3> QED
      BY <1>1, <2>2, <2>4, <2>8, <3>1 DEF Denied, IsPublic
  <2> QED
    BY <2>6, <2>7, <2>8
<1> QED
  BY <1>3, <1>4

\* Rows none of which gives access do not give it together.
LEMMA DeniedView ==
    ASSUME NEW seen, NEW s, NEW ids, ids # {},
           \A i \in ids : ~CanReadContent(s, seen[i].res) /\ ~IsPublic(seen[i])
    PROVE  ~HasObjectMethod(s, "read", CollapseCanonicalGroup(seen, ids))
<1> DEFINE view == CollapseCanonicalGroup(seen, ids)
           res  == UNION {seen[i].res : i \in ids}
<1>1. /\ view.res = res
      /\ view.policy = IF \E i \in ids : seen[i].policy # "none" THEN "private" ELSE "none"
  BY DEF CollapseCanonicalGroup
<1>2. s \notin Unenforced
  BY DEF CanReadContent
<1> HIDE DEF view
<1>3. res = {} => view.policy = "private"
  BY <1>1 DEF IsPublic
<1>4. ~IsPublic(view)
  BY <1>1, <1>3 DEF IsPublic
<1>5. res # {} => ~HasObjectMethodAccess(s, "read", res)
  <2> SUFFICES ASSUME res # {}, HasObjectMethodAccess(s, "read", res)
               PROVE  FALSE
    OBVIOUS
  <2>1. s \notin Anonymous
    BY <1>2 DEF HasObjectMethodAccess
  <2>2. PICK i \in ids : \E r \in seen[i].res :
          IF \A x \in Resources : Privileges[s][x] = {} THEN r \in Authz[s] ELSE "read" \in Privileges[s][r]
    BY <1>2 DEF HasObjectMethodAccess, CheckAccess
  <2>3. CanReadContent(s, seen[i].res)
    BY <2>1, <2>2 DEF CanReadContent, HasObjectMethodAccess, CheckAccess
  <2> QED
    BY <2>3
<1> QED
  BY <1>1, <1>3, <1>4, <1>5 DEF HasObjectMethod, view

\* The rows whose merged record is the content that is checked.
Merges(k, ids) ==
    /\ ids \in SUBSET Found(k) /\ ids # {}
    /\ \/ k.goal = "object" /\ ids = Found(k) /\ \E i \in ids : k.seen[i].sha = NoSHA
       \/ k.goal = "family" /\ \A i \in ids : k.seen[i].sha = k.sha

\* The transaction of an update of the merged record.
UpdateTasks(k, ids) ==
    <<Transaction("replace",
        {Elem(k.at, MergeRecordUpdate(CollapseCanonicalGroup(k.seen, ids), UpdateOf(k), k.at))}, {})>>

\* What a read leads to.
LEMMA CheckCases ==
    ASSUME NEW k \in CallStates, NEW ids, ids # {} => Merges(k, ids)
    PROVE  \/ ContentAndCheckAccess(k, ids) = Fails(k)
           \/ /\ Merges(k, ids) /\ Getting(k)
              /\ HasObjectMethod(k.req.session, "read", CollapseCanonicalGroup(k.seen, ids))
              /\ ContentAndCheckAccess(k, ids) = Ended(k, TRUE)
           \/ /\ Merges(k, ids) /\ ~Getting(k)
              /\ ContentAndCheckAccess(k, ids) = Submits(k, UpdateTasks(k, ids))
<1> DEFINE view == CollapseCanonicalGroup(k.seen, ids)
<1>1. Getting(k) => \/ ContentAndCheckAccess(k, ids) = Fails(k)
                    \/ /\ ids # {} /\ HasObjectMethod(k.req.session, "read", view)
                       /\ ContentAndCheckAccess(k, ids) = Ended(k, TRUE)
  BY DEF ContentAndCheckAccess, Getting
<1>2. ~Getting(k) => \/ ContentAndCheckAccess(k, ids) = Fails(k)
                     \/ ids # {} /\ ContentAndCheckAccess(k, ids) = Updated(k, view)
  BY DEF ContentAndCheckAccess, Getting
<1>3. Updated(k, view) = Fails(k) \/ Updated(k, view) = Submits(k, UpdateTasks(k, ids))
  BY UpdatedCases DEF UpdateTasks
<1> QED
  BY <1>1, <1>2, <1>3

LEMMA ConcludeCases ==
    ASSUME NEW k \in CallStates, k.goal # "none"
    PROVE  \/ Conclude(k) = Fails(k)
           \/ /\ k.goal = "object"
              /\ \E i \in Found(k) : /\ k.seen[i].sha # NoSHA
                                     /\ Conclude(k) = Reads(k, "family", k.at, k.seen[i].sha)
           \/ /\ Getting(k) /\ Conclude(k) = Ended(k, TRUE)
              /\ \E ids : /\ Merges(k, ids)
                          /\ HasObjectMethod(k.req.session, "read", CollapseCanonicalGroup(k.seen, ids))
           \/ /\ ~Getting(k)
              /\ \E ids : Merges(k, ids) /\ Conclude(k) = Submits(k, UpdateTasks(k, ids))
           \/ k.goal = "group" /\ Conclude(k) = Succeeds(k)
           \/ k.goal = "group" /\ Conclude(k) = Submits(k, CollapseTasks(k)) /\ Duplicates(k) # {}
           \/ k.goal = "audit" /\ Conclude(k) = Audited(k)
<1>1. CASE k.goal = "object"
  <2>1. CASE Found(k) = {}
    BY <1>1, <2>1 DEF Conclude
  <2>2. CASE Found(k) # {}
    <3> DEFINE i == CHOOSE i \in Found(k) : TRUE
    <3>1. i \in Found(k)
      BY <2>2
    <3>2. Conclude(k) = IF k.seen[i].sha = NoSHA THEN ContentAndCheckAccess(k, Found(k))
                        ELSE Reads(k, "family", k.at, k.seen[i].sha)
      BY <1>1, <2>2 DEF Conclude
    <3> HIDE DEF i
    <3>3. CASE k.seen[i].sha # NoSHA
      BY <1>1, <3>1, <3>2, <3>3
    <3>4. CASE k.seen[i].sha = NoSHA
      <4>1. Merges(k, Found(k))
        BY <1>1, <3>1, <3>4 DEF Merges
      <4> QED
        BY <3>2, <3>4, <4>1, CheckCases
    <3> QED
      BY <3>3, <3>4
  <2> QED
    BY <2>1, <2>2
<1>2. CASE k.goal = "family"
  <2> DEFINE ids == {i \in Found(k) : k.seen[i].sha = k.sha}
  <2>1. Conclude(k) = ContentAndCheckAccess(k, ids)
    BY <1>2 DEF Conclude
  <2>2. ids # {} => Merges(k, ids)
    BY <1>2 DEF Merges
  <2> HIDE DEF ids
  <2> QED
    BY <2>1, <2>2, CheckCases
<1>3. CASE k.goal = "group"
  BY <1>3, CollapsedCases DEF Conclude
<1>4. CASE k.goal = "audit"
  BY <1>4 DEF Conclude
<1>5. k.goal \in {"none", "object", "family", "group", "audit"}
  BY DEF CallStates
<1> QED
  BY <1>1, <1>2, <1>3, <1>4, <1>5

LEMMA AuditedRequest ==
    ASSUME NEW k \in CallStates
    PROVE  Audited(k).req = k.req
<1> DEFINE fix == [i \in Ids |->
                     IF /\ i \in Found(k)
                        /\ k.seen[i].sha # NoSHA /\ k.seen[i].res = k.req.targets
                        /\ HasObjectMethod(k.req.session, "read", k.seen[i])
                        /\ k.seen[i].meths \notin {{}, {TargetURL}}
                       THEN k.seen[i] ELSE NoRow]
           n   == [k EXCEPT !.fix = fix]
<1>1. fix \in ReadRows
  BY DEF CallStates, ReadRows
<1>2. Audited(k) = NextFix(n)
  BY DEF Audited
<1> HIDE DEF fix
<1>3. n \in CallStates /\ n.req = k.req
  BY <1>1 DEF CallStates
<1> HIDE DEF n
<1> QED
  BY <1>2, <1>3, RequestKept

\* A call that begins to read has seen nothing; one that fails returns nothing.
LEMMA FreshRefuses ==
    ASSUME NEW k \in CallStates
    PROVE  /\ \A goal, at, sha : Refuses(Reads(k, goal, at, sha))
           /\ Getting(k) => Refuses(Fails(k))
           /\ \A todo : Refuses(Submits(k, todo))
<1>1. ASSUME NEW goal, NEW at, NEW sha
      PROVE  Refuses(Reads(k, goal, at, sha))
  <2>1. Reads(k, goal, at, sha).pc = "reading" /\ Reads(k, goal, at, sha).seen = NoRead
    BY DEF Reads, CallStates
  <2>2. Found(Reads(k, goal, at, sha)) = {}
    BY <2>1 DEF Found, NoRead
  <2> QED
    BY <2>1, <2>2 DEF Refuses
<1>2. Getting(k) => Fails(k) = Ended(k, FALSE) /\ Ended(k, FALSE).pc = "done" /\ Ended(k, FALSE).ok = FALSE
  BY EndedSound DEF Fails, Getting
<1>3. Getting(k) => Refuses(Fails(k))
  BY <1>2 DEF Refuses
<1>4. ASSUME NEW todo PROVE Refuses(Submits(k, todo))
  <2>1. Submits(k, todo).pc = "writing"
    BY DEF Submits, CallStates
  <2> QED
    BY <2>1 DEF Refuses
<1> QED
  BY <1>1, <1>3, <1>4

\* The read returns the record only if it was allowed at some statement.
LEMMA ConcludeRefuses ==
    ASSUME NEW k \in CallStates, k.pc = "reading", k.step = 6, k.goal # "none", About(k), Refuses(k)
    PROVE  Refuses(Conclude(k))
<1>1. CASE ~Getting(k)
  <2>1. Conclude(k).req = k.req
    <3>1. CASE \E i \in Found(k) : Conclude(k) = Reads(k, "family", k.at, k.seen[i].sha)
      BY <3>1, RequestKept
    <3>2. CASE \E ids : Conclude(k) = Submits(k, UpdateTasks(k, ids))
      BY <3>2, RequestKept
    <3>3. CASE Conclude(k) \in {Fails(k), Succeeds(k), Submits(k, CollapseTasks(k)), Audited(k)}
      BY <3>3, RequestKept, AuditedRequest
    <3> QED
      BY <1>1, <3>1, <3>2, <3>3, ConcludeCases
  <2> QED
    BY <1>1, <2>1 DEF Refuses, Getting
<1>2. CASE Getting(k)
  <2>1. k.goal \notin {"group", "audit"}
    BY <1>2 DEF About, Getting
  <2>2. ASSUME NEW ids, Merges(k, ids),
               HasObjectMethod(k.req.session, "read", CollapseCanonicalGroup(k.seen, ids))
        PROVE  k.allowed
    <3> SUFFICES ASSUME ~k.allowed PROVE FALSE
      OBVIOUS
    <3>1. \A i \in ids : ~CanReadContent(k.req.session, k.seen[i].res) /\ ~IsPublic(k.seen[i])
      BY <1>2, <2>2 DEF Merges, Refuses, Denied
    <3>2. ids # {}
      BY <2>2 DEF Merges
    <3> QED
      BY <2>2, <3>1, <3>2, DeniedView
  <2>3. Ended(k, TRUE).allowed = k.allowed /\ Ended(k, TRUE).pc = "done"
    BY EndedSound
  <2>4. k.allowed => Refuses(Ended(k, TRUE))
    BY <2>3 DEF Refuses
  <2> QED
    BY <1>2, <2>1, <2>2, <2>4, ConcludeCases, FreshRefuses
<1> QED
  BY <1>1, <1>2

\* Steps that change the catalogue keep a denied row denied.
LEMMA DeniedKept ==
    ASSUME IInv, RightsInv, [StoreStep]_vars, NEW k, NEW i \in Ids, Denied(k, i), NEW n,
           n.step = k.step, n.goal = k.goal, n.req = k.req, n.seen = k.seen
    PROVE  Denied(n, i)'
<1>1. db.rows[i] = NoRow \/ db.rows[i].policy # "none" =>
        db'.rows[i] = NoRow \/ db'.rows[i].policy # "none"
  BY StepRights DEF Entitled, OpensByRight
<1> QED
  BY <1>1 DEF Denied

\* The other calls: what a call has read is as good after a step of another as before.
LEMMA RefusesKept ==
    ASSUME IInv, RightsInv, [StoreStep]_vars, NEW k, Refuses(k), NEW n, n.pc = k.pc, n.ok = k.ok,
           n.allowed = k.allowed, n.step = k.step, n.goal = k.goal, n.req = k.req, n.seen = k.seen
    PROVE  Refuses(n)'
<1>1. Found(n) = Found(k) /\ Getting(n) = Getting(k) /\ Found(k) \subseteq Ids
  BY DEF Found, Getting
<1>2. ASSUME NEW i \in Ids, Denied(k, i) PROVE Denied(n, i)'
  BY <1>2, DeniedKept
<1> QED
  BY <1>1, <1>2 DEF Refuses, Found, Getting

\* One call changes and the catalogue does not.
LEMMA OneRefuses ==
    ASSUME ReadInv, NEW c \in Clients, NEW k, call' = [call EXCEPT ![c] = k], Refuses(k), UNCHANGED db
    PROVE  \A d \in Clients : Refuses(call[d])'
<1>1. call \in [Clients -> CallStates] /\ \A d \in Clients : Refuses(call[d])
  BY DEF ReadInv, ServiceBase, CallsSound
<1>2. \A d \in Clients : Refuses(call'[d])
  BY <1>1
<1>3. \A d \in Clients : Refuses(call[d])' <=> Refuses(call'[d])
  BY DEF Refuses, Getting, Found, Denied
<1> QED
  BY <1>2, <1>3

LEMMA RequestRefuses ==
    ASSUME ReadInv, NEW c \in Clients, Request(c)
    PROVE  \A d \in Clients : Refuses(call[d])'
<1>1. PICK q \in Requests :
        LET k == [Ready EXCEPT !.req = q]
        IN  Continues(c, CASE q.op \in {"get", "update"} -> Reads(k, "object", q.id, NoSHA)
                        [] q.op = "getBySHA" -> Reads(k, "family", NoId, q.obj.sha)
                        [] q.op = "repair"   -> Reads(k, "group", NoId, NoSHA)
                        [] OTHER             -> Planned(k, Plan(db, q)))
  BY DEF Request
<1> DEFINE k == [Ready EXCEPT !.req = q]
           n == CASE q.op \in {"get", "update"} -> Reads(k, "object", q.id, NoSHA)
                  [] q.op = "getBySHA" -> Reads(k, "family", NoId, q.obj.sha)
                  [] q.op = "repair"   -> Reads(k, "group", NoId, NoSHA)
                  [] OTHER             -> Planned(k, Plan(db, q))
<1>2. call' = [call EXCEPT ![c] = n] /\ UNCHANGED db
  BY <1>1 DEF Continues, Request, vars
<1>3. k \in CallStates /\ k.req = q
  BY ReadyType DEF CallStates
<1> HIDE DEF k
<1>4. Refuses(n)
  <2>1. CASE q.op \in {"get", "update"}
    BY <1>3, <2>1, FreshRefuses
  <2>2. CASE q.op = "getBySHA"
    BY <1>3, <2>2, FreshRefuses
  <2>3. CASE q.op = "repair"
    BY <1>3, <2>3, FreshRefuses
  <2>4. CASE q.op \notin {"get", "update", "getBySHA", "repair"}
    <3>1. n = Planned(k, Plan(db, q))
      BY <2>4
    <3>2. Ended(k, TRUE).req = q /\ Ended(k, FALSE).req = q /\ Submits(k, Plan(db, q)).req = q
      BY <1>3, RequestKept
    <3>3. n.req = q
      BY <3>1, <3>2 DEF Planned
    <3> QED
      BY <2>4, <3>3 DEF Refuses, Getting
  <2> QED
    BY <2>1, <2>2, <2>3, <2>4
<1> HIDE DEF n
<1> QED
  BY <1>2, <1>4, OneRefuses

LEMMA ReadStepRefuses ==
    ASSUME ReadInv, NEW c \in Clients, Read(c)
    PROVE  \A d \in Clients : Refuses(call[d])'
<1> DEFINE k == call[c]
           n == AfterRead(k)
           m == IF k.step = 5 THEN Conclude(n) ELSE n
<1>1. CallsSound /\ db \in Tables /\ Refuses(k)
  BY DEF ReadInv, ServiceBase, IInv, TypeOK
<1>2. k.pc = "reading" /\ call' = [call EXCEPT ![c] = m] /\ UNCHANGED db
  BY ReadStep
<1>3. k \in CallStates /\ k.step \in 1 .. 5 /\ k.goal # "none" /\ About(k)
  BY <1>1, <1>2 DEF CallsSound, Sound, Shape
<1> HIDE DEF k
<1>4. /\ n \in CallStates /\ n.pc = "reading" /\ n.goal = k.goal /\ n.step = k.step + 1
      /\ n.req = k.req /\ n.at = k.at /\ n.fix = k.fix
  BY <1>1, <1>2, <1>3, AfterReadType DEF k
<1>5. About(n) /\ Refuses(n)
  BY <1>1, <1>2, <1>3, <1>4, ReadRefuses DEF About, Getting
<1> HIDE DEF n
<1>6. Refuses(m)
  BY <1>3, <1>4, <1>5, ConcludeRefuses
<1> HIDE DEF m
<1> QED
  BY <1>2, <1>6, OneRefuses

\* A call that writes returns no record.
LEMMA WritingRefuses ==
    ASSUME CallsSound, NEW c \in Clients, call[c].pc = "writing"
    PROVE  ~Getting(Fails(call[c])) /\ ~Getting(AfterCommit(call[c]))
<1>1. call[c] \in CallStates /\ ~Getting(call[c]) /\ Tail(call[c].todo) \in Seq(Tasks)
  BY HeadType
<1> DEFINE k == call[c]
           todo == Tail(k.todo)
           n == [k EXCEPT !.todo = todo]
<1>2. n.req = k.req
  BY <1>1 DEF CallStates
<1> HIDE DEF k, todo
<1>3. n \in CallStates
  BY <1>1, TodoType DEF k, todo
<1>4. AfterCommit(k) = IF n.todo = <<>> THEN Succeeds(n) ELSE n
  BY DEF AfterCommit, todo
<1> HIDE DEF n
<1>5. AfterCommit(k).req = k.req
  BY <1>2, <1>3, <1>4, RequestKept
<1>6. Fails(k).req = k.req
  BY <1>1, RequestKept DEF k
<1> QED
  BY <1>1, <1>5, <1>6 DEF Getting, k

LEMMA CommitRefuses ==
    ASSUME ReadInv, NEW c \in Clients, CommitTransaction(c), [StoreStep]_vars
    PROVE  \A d \in Clients : Refuses(call[d])'
<1>1. /\ CallsSound /\ IInv /\ RightsInv /\ call \in [Clients -> CallStates]
      /\ \A d \in Clients : Refuses(call[d])
  BY DEF ReadInv, ServiceBase, CallsSound
<1>2. call[c].pc = "writing"
  BY <1>1 DEF CommitTransaction, CallsSound, Linked
<1>3. call'[c] = AfterCommit(call[c])
  BY DEF CommitTransaction, Moves, AfterCommit
<1>4. ~Getting(call'[c])
  BY <1>1, <1>2, <1>3, WritingRefuses
<1>5. Refuses(call[c])'
  BY <1>4 DEF Refuses, Getting
<1> SUFFICES ASSUME NEW d \in Clients, d # c PROVE Refuses(call[d])'
  BY <1>5
<1>6. PICK k : k = call[d]
  OBVIOUS
<1>7. PICK n : n = call'[d]
  OBVIOUS
<1>8. k \in CallStates /\ Refuses(k)
  BY <1>1, <1>6
<1>9. \E ids : n \in {k, [k EXCEPT !.moved = @ \cup ids]}
  BY <1>6, <1>7 DEF CommitTransaction, Moves
<1>10. /\ n.pc = k.pc /\ n.ok = k.ok /\ n.allowed = k.allowed /\ n.step = k.step /\ n.goal = k.goal
       /\ n.req = k.req /\ n.seen = k.seen
  BY <1>8, <1>9 DEF CallStates
<1>11. Refuses(n)'
  BY <1>1, <1>8, <1>10, RefusesKept
<1> QED
  BY <1>7, <1>11 DEF Refuses, Getting, Found, Denied

\* Every step keeps the reads refused that no catalogue allowed.
LEMMA ServiceNextReads ==
    ASSUME ReadInv, [ServiceNext]_serviceVars
    PROVE  ReadInv'
<1>1. ServiceBase' /\ [StoreStep]_vars /\ CallsSound /\ call \in [Clients -> CallStates]
  BY ServiceNextBase, ServiceIsStoreStep DEF ReadInv, ServiceBase, CallsSound
<1>2. ASSUME UNCHANGED <<db, call>>
      PROVE  \A d \in Clients : Refuses(call[d])'
  BY <1>2 DEF ReadInv, Refuses, Getting, Found, Denied
<1>3. ASSUME NEW c \in Clients, Process(c)
      PROVE  \A d \in Clients : Refuses(call[d])'
  <2>1. call[c].pc = "writing"
    BY <1>1, <1>3 DEF Process, CallsSound, Linked
  <2>2. PICK e : Continues(c, [call[c] EXCEPT !.todo[1].elems = @ \ {e}])
    BY <1>3 DEF Process
  <2> DEFINE n == [call[c] EXCEPT !.todo[1].elems = @ \ {e}]
  <2>3. n.pc = "writing"
    BY <1>1, <2>1 DEF CallStates
  <2>4. call' = [call EXCEPT ![c] = n] /\ UNCHANGED db
    BY <1>3, <2>2 DEF Continues, Process, Element
  <2> HIDE DEF n
  <2>5. Refuses(n)
    BY <2>3 DEF Refuses
  <2> QED
    BY <2>4, <2>5, OneRefuses
<1>4. ASSUME NEW c \in Clients, FailTransaction(c)
      PROVE  \A d \in Clients : Refuses(call[d])'
  <2> DEFINE n == Fails(call[c])
  <2>1. call' = [call EXCEPT ![c] = n] /\ UNCHANGED db /\ call[c].pc = "writing"
    BY <1>4 DEF FailTransaction, Continues, Rollback
  <2>2. Refuses(n)
    BY <1>1, <2>1, WritingRefuses DEF Refuses
  <2> HIDE DEF n
  <2> QED
    BY <2>1, <2>2, OneRefuses
<1>5. \A d \in Clients : Refuses(call[d])'
  <2>1. CASE UNCHANGED serviceVars
    BY <1>2, <2>1 DEF serviceVars
  <2>2. CASE ServiceNext
    <3>1. PICK c \in Clients : Request(c) \/ Acquire(c) \/ ServiceStep(c)
      BY <2>2 DEF ServiceNext
    <3>2. CASE Acquire(c) \/ Submit(c)
      BY <1>2, <3>2 DEF Acquire, Submit, Begin
    <3>3. CASE Request(c) \/ Read(c)
      BY <3>3, RequestRefuses, ReadStepRefuses
    <3>4. CASE CommitTransaction(c)
      BY <1>1, <3>4, CommitRefuses
    <3> QED
      BY <1>3, <1>4, <3>1, <3>2, <3>3, <3>4 DEF ServiceStep
  <2> QED
    BY <2>1, <2>2
<1> QED
  BY <1>1, <1>5 DEF ReadInv

\* A record is returned only if the catalogue gave the session access at one of the
\* statements the read was made of, however many calls change grants and policies
\* while it goes from table to table.
THEOREM ReadsAlwaysAuthorized == ServiceSpec => []ReadsAuthorized
<1>1. ServiceInit => ReadInv
  <2>1. ServiceInit => \A c \in Clients : call[c].pc = "ready"
    BY DEF ServiceInit, Ready
  <2>2. ServiceInit => \A c \in Clients : Refuses(call[c])
    BY <2>1 DEF Refuses
  <2> QED
    BY <2>2, ServiceInitBase DEF ReadInv
<1>2. ReadInv => ReadsAuthorized
  BY DEF ReadInv, Refuses, Getting, ReadsAuthorized
<1> QED
  BY <1>1, <1>2, ServiceNextReads, PTL DEF ServiceSpec

-----------------------------------------------------------------------------
(* What a call has read, as long as no other call changed a row since. *)

\* The columns that have been read by the step a call is at.
ReadColumns(k) == {Order(k.goal)[n] : n \in 2 .. (k.step - 1)}

\* The rows found are there with the columns read; a read of one record found the row
\* its id names, a read of one content rows of that content, which is the record's.
SeenFresh(k) ==
    /\ \A i \in Found(k) : /\ db.rows[i] # NoRow
                           /\ \A col \in ReadColumns(k) : k.seen[i][col] = db.rows[i][col]
    /\ k.goal = "object" => Found(k) \subseteq {Resolve(db, k.at)}
    /\ k.goal = "family" =>
         /\ Resolve(db, k.at) # NoId /\ k.sha # NoSHA
         /\ db.rows[Resolve(db, k.at)].sha = k.sha
         /\ Found(k) \subseteq Owners(db, k.sha)

\* The record obj that is written over the row old omits what the update omits, or
\* says what the row already says.
Faithful(k, obj, old) ==
    /\ k.req.op = "repair" \/ k.req.obj.res = Nil => obj.res \in {Nil, old.res}
    /\ k.req.op # "repair" /\ k.req.obj.meths = Nil => obj.meths \in {Nil, old.meths}
    /\ obj.public <=> IsPublic(old)
    /\ old.sha # NoSHA => obj.sha \in {NoSHA, old.sha}

\* A collapse begins with a registration of content that has several rows; an update is
\* one replacement, faithful unless the transaction refuses it.
Prepared(k) ==
    LET t   == Head(k.todo)
        row == Resolve(db, k.at)
    IN  /\ k.goal = "group" =>
             /\ t.op = "register"
             /\ \A e \in t.elems : /\ e.obj.sha # NoSHA
                                   /\ \E i, j \in Owners(db, e.obj.sha) : i # j
        /\ k.goal # "group" => Tail(k.todo) = <<>>
        /\ t.op = "replace" <=> k.goal \in {"object", "family"}
        /\ t.op = "replace" =>
             /\ row # NoId
             /\ \A e, f \in t.elems : e = f
             /\ \A e \in t.elems :
                  /\ e.obj.id = k.at
                  /\ EnsureNoLegacyDuplicate(db, row) => Faithful(k, e.obj, db.rows[row])

\* The records a repair has left to fix are there, with the grants it has read.
FixFresh(k) ==
    \A i \in Ids : k.fix[i] # NoRow => db.rows[i] # NoRow /\ k.fix[i].res = db.rows[i].res

Fresh(k) ==
    k.moved = {} /\ ~Getting(k) /\ k.pc \in {"reading", "writing"} =>
      /\ FixFresh(k)
      /\ k.pc = "reading" => SeenFresh(k)
      /\ k.pc = "writing" => Prepared(k)

\* What an update may do to a row.
KeptRow(k, old, new) ==
    /\ k.req.op = "repair" \/ k.req.obj.res = Nil => new.res = old.res
    /\ k.req.op # "repair" /\ k.req.obj.meths = Nil => new.meths = old.meths
    /\ IsPublic(new) <=> IsPublic(old)
    /\ new.sha = old.sha \/ old.sha = NoSHA

\* What the transaction of such a call has done so far: nothing if it collapses
\* duplicates; if it updates, to one row, what an update may do.
Written(c) ==
    LET k   == call[c]
        row == Resolve(db, k.at)
    IN  /\ txn[c].pc # "active" => txn[c].n = 0
        /\ txn[c].n = 0 => txn[c].writes = NoWrites
        /\ txn[c].pc = "active" /\ k.moved = {} =>
             /\ k.goal = "group" => txn[c].n = 0
             /\ txn[c].op = "replace" /\ txn[c].n # 0 =>
                  /\ Head(k.todo).elems = {}
                  /\ \A i \in Ids \ {row} : View(c).rows[i] = db.rows[i]
                  /\ KeptRow(k, db.rows[row], View(c).rows[row])

FreshInv == ServiceBase /\ \A c \in Clients : Fresh(call[c]) /\ Written(c)

\* What other calls do leaves it fresh unless they change a row: an id that names a row
\* goes on naming it.
LEMMA FreshKept ==
    ASSUME NEW k, Sound(k), Fresh(k), db'.rows = db.rows,
           \A i \in Ids : Resolve(db, i) # NoId => Resolve(db', i) = Resolve(db, i),
           NEW n, n.moved = {} => k.moved = {}, n.req = k.req, n.pc = k.pc, n.fix = k.fix,
           n.goal = k.goal, n.step = k.step, n.seen = k.seen, n.at = k.at, n.sha = k.sha,
           n.todo = k.todo
    PROVE  Fresh(n)'
<1> SUFFICES ASSUME n.moved = {}, ~Getting(n), n.pc \in {"reading", "writing"}
             PROVE  /\ FixFresh(n)'
                    /\ n.pc = "reading" => SeenFresh(n)'
                    /\ n.pc = "writing" => Prepared(n)'
  BY DEF Fresh, Getting
<1>1. /\ FixFresh(k) /\ ~Getting(k) /\ About(k)
      /\ k.pc = "reading" => SeenFresh(k)
      /\ k.pc = "writing" => Prepared(k)
  BY DEF Fresh, Getting, Sound, Shape
<1>2. k.goal \in {"object", "family"} => k.at \in Ids
  BY <1>1 DEF About
<1>3. FixFresh(n)'
  BY <1>1 DEF FixFresh
<1>4. Found(n) = Found(k) /\ ReadColumns(n) = ReadColumns(k) /\ Found(k) \subseteq Ids /\ NoId \notin Ids
  BY StoreAssumption DEF Found, ReadColumns
<1>5. \A sha : Owners(db', sha) = Owners(db, sha)
  BY DEF Owners
<1>6. ASSUME n.pc = "reading" PROVE SeenFresh(n)'
  <2>1. SeenFresh(k)
    BY <1>1, <1>6
  <2>2. \A i \in Found(n) : /\ db'.rows[i] # NoRow
                            /\ \A col \in ReadColumns(n) : n.seen[i][col] = db'.rows[i][col]
    BY <1>4, <2>1 DEF SeenFresh
  <2>3. n.goal = "object" => Found(n) \subseteq {Resolve(db', n.at)}
    BY <1>2, <1>4, <2>1 DEF SeenFresh
  <2>4. n.goal = "family" =>
         /\ Resolve(db', n.at) # NoId /\ n.sha # NoSHA
         /\ db'.rows[Resolve(db', n.at)].sha = n.sha
         /\ Found(n) \subseteq Owners(db', n.sha)
    BY <1>2, <1>4, <1>5, <2>1 DEF SeenFresh
  <2> QED
    BY <2>2, <2>3, <2>4 DEF SeenFresh, Found, ReadColumns
<1>7. ASSUME n.pc = "writing" PROVE Prepared(n)'
  <2>1. Prepared(k)
    BY <1>1, <1>7
  <2> DEFINE t == Head(k.todo)
             row == Resolve(db, k.at)
  <2>2. /\ n.goal = "group" =>
             /\ t.op = "register"
             /\ \A e \in t.elems : /\ e.obj.sha # NoSHA
                                   /\ \E i, j \in Owners(db', e.obj.sha) : i # j
        /\ n.goal # "group" => Tail(k.todo) = <<>>
        /\ t.op = "replace" <=> n.goal \in {"object", "family"}
    BY <1>5, <2>1 DEF Prepared
  <2>3. t.op = "replace" =>
             /\ row # NoId
             /\ \A e, f \in t.elems : e = f
             /\ \A e \in t.elems :
                  /\ e.obj.id = k.at
                  /\ EnsureNoLegacyDuplicate(db, row) => Faithful(k, e.obj, db.rows[row])
    BY <2>1 DEF Prepared
  <2>4. t.op = "replace" => Resolve(db', k.at) = row
    BY <1>2, <2>2, <2>3
  <2>5. EnsureNoLegacyDuplicate(db', row) <=> EnsureNoLegacyDuplicate(db, row)
    BY DEF EnsureNoLegacyDuplicate, Owners, ShaOf
  <2>6. \A obj : Faithful(n, obj, db'.rows[row]) <=> Faithful(k, obj, db.rows[row])
    BY DEF Faithful
  <2> HIDE DEF t, row
  <2>7. t.op = "replace" =>
             /\ Resolve(db', n.at) # NoId
             /\ \A e, f \in t.elems : e = f
             /\ \A e \in t.elems :
                  /\ e.obj.id = n.at
                  /\ EnsureNoLegacyDuplicate(db', Resolve(db', n.at)) =>
                       Faithful(n, e.obj, db'.rows[Resolve(db', n.at)])
    BY <2>3, <2>4, <2>5, <2>6
  <2> QED
    BY <2>2, <2>7 DEF Prepared, t
<1> QED
  BY <1>3, <1>6, <1>7

\* A call that begins to read has seen nothing yet.
LEMMA ReadsFresh ==
    ASSUME NEW k \in CallStates, k.moved = {} /\ ~Getting(k) => FixFresh(k), NEW at, NEW sha,
           NEW goal, goal = "family" =>
             (k.moved = {} /\ ~Getting(k) =>
                /\ Resolve(db, at) # NoId /\ sha # NoSHA
                /\ db.rows[Resolve(db, at)].sha = sha)
    PROVE  Fresh(Reads(k, goal, at, sha))
<1> DEFINE n == Reads(k, goal, at, sha)
<1>1. /\ n.pc = "reading" /\ n.seen = NoRead /\ n.step = 1 /\ n.goal = goal /\ n.at = at
      /\ n.sha = sha /\ n.fix = k.fix /\ n.moved = k.moved /\ n.req = k.req
  BY DEF Reads, CallStates
<1> HIDE DEF n
<1>2. Found(n) = {}
  BY <1>1 DEF Found, NoRead
<1>3. n.moved = {} /\ ~Getting(n) => FixFresh(n) /\ SeenFresh(n)
  BY <1>1, <1>2 DEF Getting, FixFresh, SeenFresh
<1> QED
  BY <1>1, <1>3 DEF Fresh, n

LEMMA EndedFresh ==
    ASSUME NEW k, NEW ok
    PROVE  Fresh(Ended(k, ok))
<1>1. Ended(k, ok).pc = "done"
  BY DEF Ended, Ready
<1> QED
  BY <1>1 DEF Fresh

LEMMA NextFixFresh ==
    ASSUME NEW k \in CallStates, k.moved = {} /\ ~Getting(k) => FixFresh(k)
    PROVE  Fresh(NextFix(k))
<1>1. \A at : Fresh(Reads(k, "object", at, NoSHA))
  BY ReadsFresh
<1> QED
  BY <1>1, EndedFresh DEF NextFix

\* The record that was fixed, or could not be, is left; the rest is as it was.
LEMMA FixedFresh ==
    ASSUME NEW k \in CallStates,
           k.moved = {} /\ ~Getting(k) =>
             \A i \in Ids \ {k.at} : k.fix[i] # NoRow => db.rows[i] # NoRow /\ k.fix[i].res = db.rows[i].res
    PROVE  Fresh(Fixed(k))
<1> DEFINE fix == [k.fix EXCEPT ![k.at] = NoRow]
           n == [k EXCEPT !.fix = fix, !.todo = <<>>]
<1>1. fix \in ReadRows
  BY StruckType DEF CallStates
<1>2. Fixed(k) = NextFix(n)
  BY DEF Fixed, CallStates
<1>3. \A i \in Ids : fix[i] = IF i = k.at THEN NoRow ELSE k.fix[i]
  BY DEF CallStates, ReadRows
<1> HIDE DEF fix
<1>4. n \in CallStates /\ n.fix = fix /\ n.moved = k.moved /\ n.req = k.req
  BY <1>1, NoTasks, ClearedType DEF CallStates
<1> HIDE DEF n
<1>5. n.moved = {} /\ ~Getting(n) => FixFresh(n)
  BY <1>3, <1>4 DEF FixFresh, Getting
<1> QED
  BY <1>2, <1>4, <1>5, NextFixFresh

LEMMA FailsFresh ==
    ASSUME NEW k \in CallStates, k.moved = {} /\ ~Getting(k) => FixFresh(k)
    PROVE  Fresh(Fails(k))
<1>1. Fresh(Fixed(k))
  BY FixedFresh DEF FixFresh
<1> QED
  BY <1>1, EndedFresh DEF Fails

LEMMA SucceedsFresh ==
    ASSUME NEW k \in CallStates,
           k.moved = {} /\ ~Getting(k) => IF k.goal = "group" THEN FixFresh(k) ELSE
             \A i \in Ids \ {k.at} : k.fix[i] # NoRow => db.rows[i] # NoRow /\ k.fix[i].res = db.rows[i].res
    PROVE  Fresh(Succeeds(k))
<1>1. CASE k.req.op = "repair" /\ k.goal = "group"
  <2> DEFINE n == [k EXCEPT !.todo = <<>>]
  <2>1. n \in CallStates
    BY NoTasks, TodoType
  <2>2. n.req = k.req /\ n.fix = k.fix /\ n.moved = k.moved
    BY DEF CallStates
  <2>3. Succeeds(k) = Reads(n, "audit", NoId, NoSHA)
    BY <1>1 DEF Succeeds
  <2> HIDE DEF n
  <2>4. n.moved = {} /\ ~Getting(n) => FixFresh(n)
    BY <1>1, <2>2 DEF FixFresh, Getting
  <2> QED
    BY <2>1, <2>3, <2>4, ReadsFresh
<1>2. CASE k.req.op = "repair" /\ k.goal \in {"object", "family"}
  <2>1. Fresh(Fixed(k))
    BY <1>2, FixedFresh
  <2> QED
    BY <1>2, <2>1 DEF Succeeds
<1>3. CASE ~(k.req.op = "repair" /\ k.goal \in {"object", "family", "group"})
  BY <1>3, EndedFresh DEF Succeeds
<1> QED
  BY <1>1, <1>2, <1>3

\* The columns read after one more statement.
LEMMA ColumnsRead ==
    ASSUME NEW k, NEW n, k.step \in 1 .. 5, n.step = k.step + 1, n.goal = k.goal
    PROVE  IF k.step = 1 THEN ReadColumns(n) = {}
           ELSE ReadColumns(n) = ReadColumns(k) \cup {Order(k.goal)[k.step]}
<1>1. n.step - 1 = k.step
  OBVIOUS
<1>2. k.step # 1 => 2 .. (n.step - 1) = (2 .. (k.step - 1)) \cup {k.step}
  BY <1>1
<1>3. k.step = 1 => 2 .. (n.step - 1) = {}
  BY <1>1
<1> QED
  BY <1>2, <1>3 DEF ReadColumns

LEMMA AllColumnsRead ==
    ASSUME NEW k, k.step = 6
    PROVE  {"meths", "res", "policy", "sha"} \subseteq ReadColumns(k)
<1>1. {2, 3, 4, 5} \subseteq 2 .. (k.step - 1)
  OBVIOUS
<1>2. ReadColumns(k) = {Order(k.goal)[n] : n \in 2 .. (k.step - 1)}
  BY DEF ReadColumns
<1>3. {Order(k.goal)[2], Order(k.goal)[3], Order(k.goal)[4], Order(k.goal)[5]} \subseteq ReadColumns(k)
  BY <1>1, <1>2
<1>4. {"meths", "res", "policy", "sha"} \subseteq
        {Order(k.goal)[2], Order(k.goal)[3], Order(k.goal)[4], Order(k.goal)[5]}
  BY DEF Order, ObjectTables, BulkTables
<1> QED
  BY <1>3, <1>4

\* One more statement reads what is there.
LEMMA ReadKeepsFresh ==
    ASSUME Good(db), NEW k, Sound(k), k.pc = "reading", Fresh(k)
    PROVE  Fresh(AfterRead(k))
<1> DEFINE n == AfterRead(k)
           table == Order(k.goal)[k.step]
<1>1. k \in CallStates /\ k.step \in 1 .. 5 /\ db \in Tables /\ About(k)
  BY DEF Sound, Shape, Good
<1>2. /\ n.pc = "reading" /\ n.req = k.req /\ n.goal = k.goal /\ n.at = k.at /\ n.sha = k.sha
      /\ n.step = k.step + 1 /\ n.seen = Fetch(k, table) /\ n.fix = k.fix /\ n.moved = k.moved
  BY <1>1, AfterReadType
<1> HIDE DEF n
<1> SUFFICES ASSUME k.moved = {}, ~Getting(k)
             PROVE  FixFresh(n) /\ SeenFresh(n)
  BY <1>2 DEF Fresh, Getting, n
<1>3. FixFresh(k) /\ SeenFresh(k) /\ FixFresh(n)
  BY <1>2 DEF Fresh, FixFresh
<1>4. k.goal = "object" => k.at \in Ids
  BY <1>1 DEF About
<1>5. CASE k.step = 1
  <2>1. table = "rows"
    BY <1>1, <1>5, OrderType
  <2>2. Found(n) \subseteq Target(k) /\ Found(n) \subseteq Ids
    BY <1>2, <2>1 DEF Found, Fetch
  <2>3. \A i \in Found(n) : db.rows[i] # NoRow
    <3>1. CASE k.goal = "object"
      <4>1. Found(n) \subseteq {Resolve(db, k.at)} /\ (Resolve(db, k.at) # NoId => db.rows[Resolve(db, k.at)] # NoRow)
        BY <1>4, <2>2, <3>1, ResolveRow, StoreAssumption DEF Target, Good
      <4> QED
        BY <2>2, <4>1, StoreAssumption
    <3>2. CASE k.goal # "object"
      BY <2>2, <3>2 DEF Target, Owners, ResourcesOf
    <3> QED
      BY <3>1, <3>2
  <2>4. ReadColumns(n) = {}
    BY <1>1, <1>2, <1>5, ColumnsRead
  <2>5. k.goal = "object" => Found(n) \subseteq {Resolve(db, k.at)}
    BY <2>2 DEF Target
  <2>6. k.goal = "family" => Found(n) \subseteq Owners(db, k.sha)
    BY <2>2 DEF Target
  <2> QED
    BY <1>2, <1>3, <2>3, <2>4, <2>5, <2>6 DEF SeenFresh
<1>6. CASE k.step # 1
  <2>1. table \in {"meths", "res", "policy", "sha"}
    BY <1>1, <1>6, OrderType
  <2>2. ReadColumns(n) = ReadColumns(k) \cup {table}
    BY <1>1, <1>2, <1>6, ColumnsRead
  <2>3. ReadColumns(k) \subseteq {"meths", "res", "policy", "sha"}
    BY <1>1 DEF ReadColumns, Order, ObjectTables, BulkTables
  <2> HIDE DEF table
  <2>4. Found(n) = Found(k)
    BY <1>1, <1>2, <2>1, FetchColumn DEF Found
  <2>5. ASSUME NEW i \in Found(n)
        PROVE  /\ db.rows[i] # NoRow
               /\ \A col \in ReadColumns(n) : n.seen[i][col] = db.rows[i][col]
    <3>1. /\ db.rows[i] # NoRow /\ Stored(i) = db.rows[i]
          /\ \A col \in ReadColumns(k) : k.seen[i][col] = db.rows[i][col]
      BY <1>3, <2>4 DEF SeenFresh, Stored
    <3>2. i \in Ids /\ k.seen[i] # NoRow
      BY <2>4 DEF Found
    <3>3. /\ n.seen[i][table] = Stored(i)[table]
          /\ \A col \in {"sha", "size", "res", "meths", "policy"} \ {table} :
               n.seen[i][col] = k.seen[i][col]
      BY <1>1, <1>2, <2>1, <3>2, FetchColumn
    <3> QED
      BY <2>2, <2>3, <3>1, <3>3
  <2> QED
    BY <1>2, <1>3, <2>4, <2>5 DEF SeenFresh
<1> QED
  BY <1>5, <1>6

\* The merged record of one row is that row, with its policy made explicit.
LEMMA SingleView ==
    ASSUME NEW seen, NEW i
    PROVE  LET view == CollapseCanonicalGroup(seen, {i})
           IN  /\ view.sha = seen[i].sha /\ view.res = seen[i].res /\ view.meths = seen[i].meths
               /\ IsPublic(view) <=> IsPublic(seen[i])
<1> DEFINE some == CHOOSE x \in {i} : \A j \in {i} : seen[j].size # 0 => seen[x].size # 0
           view == CollapseCanonicalGroup(seen, {i})
           res  == UNION {seen[x].res : x \in {i}}
           meths == UNION {seen[x].meths : x \in {i}}
           policy == IF IsPublic(seen[i]) THEN "public"
                     ELSE IF seen[i].policy # "none" THEN "private" ELSE "none"
<1>1. some = i
  OBVIOUS
<1>2. view.sha = seen[some].sha /\ view.res = res /\ view.meths = meths /\ view.policy = policy
  BY DEF CollapseCanonicalGroup
<1>3. res = seen[i].res /\ meths = seen[i].meths
  OBVIOUS
<1> HIDE DEF view, res, meths, some
<1>4. IsPublic(view) <=> IsPublic(seen[i])
  BY <1>2, <1>3 DEF IsPublic
<1> QED
  BY <1>1, <1>2, <1>3, <1>4 DEF view

\* The merged record of rows of one content has its SHA-256.
LEMMA MergedSHA ==
    ASSUME NEW seen, NEW ids, ids # {}, NEW sha, \A i \in ids : seen[i].sha = sha
    PROVE  CollapseCanonicalGroup(seen, ids).sha = sha
<1> DEFINE some == CHOOSE i \in ids : \A j \in ids : seen[j].size # 0 => seen[i].size # 0
<1>1. \E i \in ids : \A j \in ids : seen[j].size # 0 => seen[i].size # 0
  OBVIOUS
<1>2. some \in ids
  BY <1>1
<1>3. CollapseCanonicalGroup(seen, ids).sha = seen[some].sha
  BY DEF CollapseCanonicalGroup
<1> QED
  BY <1>2, <1>3

\* The update that is submitted is faithful to the row, or will be refused because the
\* content has other rows.
LEMMA UpdateFresh ==
    ASSUME Good(db), NEW k \in CallStates, k.step = 6, About(k), NEW ids, Merges(k, ids),
           k.moved = {} /\ ~Getting(k) => FixFresh(k) /\ SeenFresh(k)
    PROVE  Fresh(Submits(k, UpdateTasks(k, ids)))
<1> DEFINE view == CollapseCanonicalGroup(k.seen, ids)
           obj  == MergeRecordUpdate(view, UpdateOf(k), k.at)
           elem == Elem(k.at, obj)
           task == Transaction("replace", {elem}, {})
           todo == <<task>>
           n    == Submits(k, todo)
           row  == Resolve(db, k.at)
           old  == db.rows[row]
<1>1. /\ n.pc = "writing" /\ n.goal = k.goal /\ n.at = k.at /\ n.req = k.req /\ n.fix = k.fix
      /\ n.moved = k.moved /\ n.todo = todo
  BY DEF Submits, CallStates
<1>2. /\ Head(todo) = task /\ Tail(todo) = <<>> /\ task.op = "replace" /\ task.elems = {elem}
      /\ elem.obj = obj /\ UpdateTasks(k, ids) = todo
  BY DEF Transaction, Elem, UpdateTasks
<1> SUFFICES ASSUME k.moved = {}, ~Getting(k)
             PROVE  Fresh(n)
  BY <1>1, <1>2 DEF Fresh, Getting
<1>3. FixFresh(k) /\ SeenFresh(k) /\ k.goal \in {"object", "family"} /\ ids # {} /\ ids \subseteq Found(k)
  BY DEF Merges
<1>4. Found(k) \subseteq Ids /\ NoId \notin Ids /\ k.at \in Ids
  BY <1>3, StoreAssumption DEF Found, About
<1>5. row # NoId /\ (k.goal = "object" => ids = {row})
  BY <1>3, <1>4 DEF SeenFresh
<1>6. EnsureNoLegacyDuplicate(db, row) => ids = {row}
  <2>1. CASE k.goal = "object"
    BY <1>5, <2>1
  <2>2. CASE k.goal = "family"
    <3>1. row # NoId /\ k.sha # NoSHA /\ old.sha = k.sha /\ ids \subseteq Owners(db, k.sha)
      BY <1>3, <2>2 DEF SeenFresh
    <3>2. \A i \in ids : db.rows[i] # NoRow
      BY <1>3 DEF SeenFresh
    <3>3. EnsureNoLegacyDuplicate(db, row) /\ db.rows[row] # NoRow => ids = {row}
      BY <1>3, <3>1 DEF EnsureNoLegacyDuplicate, ShaOf
    <3>4. db.rows[row] # NoRow
      BY <1>4, <3>1, ResolveRow, StoreAssumption DEF Good
    <3> QED
      BY <3>3, <3>4
  <2> QED
    BY <1>3, <2>1, <2>2
<1>7. k.req.op = "repair" => k.fix[k.at] # NoRow /\ row = k.at /\ k.fix[k.at].res = old.res
  BY <1>3, <1>4 DEF About, FixFresh, Resolve
<1>8. UpdateOf(k) \in Record /\ view \in Row
  <2>1. k.seen \in ReadRows /\ \A i \in ids : k.seen[i] # NoRow
    BY <1>3 DEF CallStates, Found
  <2> QED
    BY <1>3, <1>4, <2>1, UpdateType, CollapseType
<1>9. /\ obj.id = k.at
      /\ obj.sha = IF view.sha = NoSHA THEN UpdateOf(k).sha ELSE view.sha
      /\ obj.res = IF UpdateOf(k).res = Nil THEN Given(view.res) ELSE UpdateOf(k).res
      /\ obj.meths = IF UpdateOf(k).meths = Nil THEN Given(view.meths) ELSE UpdateOf(k).meths
      /\ obj.public = IsPublic(view)
  BY <1>4, <1>8, MergeType
<1>10. ASSUME ids = {row} PROVE Faithful(n, obj, old)
  <2>1. /\ k.seen[row].meths = old.meths /\ k.seen[row].res = old.res
        /\ k.seen[row].policy = old.policy /\ k.seen[row].sha = old.sha
    BY <1>3, <1>10, AllColumnsRead DEF SeenFresh
  <2>2. /\ view.sha = old.sha /\ view.res = old.res /\ view.meths = old.meths
        /\ IsPublic(view) <=> IsPublic(old)
    <3>1. /\ view.sha = k.seen[row].sha /\ view.res = k.seen[row].res
          /\ view.meths = k.seen[row].meths
          /\ IsPublic(view) <=> IsPublic(k.seen[row])
      BY <1>10, SingleView
    <3>2. IsPublic(k.seen[row]) <=> IsPublic(old)
      BY <2>1 DEF IsPublic
    <3> QED
      BY <2>1, <3>1, <3>2
  <2>3. k.req.op # "repair" => UpdateOf(k) = k.req.obj
    BY DEF UpdateOf
  <2>4. k.req.op = "repair" => UpdateOf(k).res = Given(old.res)
    <3> SUFFICES ASSUME k.req.op = "repair" PROVE UpdateOf(k).res = Given(old.res)
      OBVIOUS
    <3>1. k.fix[k.at] \in Row
      BY <1>4, <1>7 DEF CallStates, ReadRows
    <3>2. UpdateOf(k).res = Given(k.fix[k.at].res)
      BY <3>1, FixType DEF UpdateOf
    <3> QED
      BY <1>7, <3>2
  <2> HIDE DEF obj, view, old
  <2>5. k.req.op = "repair" \/ k.req.obj.res = Nil => obj.res \in {Nil, old.res}
    BY <1>9, <2>2, <2>3, <2>4 DEF Given
  <2>6. k.req.op # "repair" /\ k.req.obj.meths = Nil => obj.meths \in {Nil, old.meths}
    BY <1>9, <2>2, <2>3 DEF Given
  <2>7. obj.public <=> IsPublic(old)
    BY <1>9, <2>2
  <2>8. old.sha # NoSHA => obj.sha \in {NoSHA, old.sha}
    BY <1>9, <2>2
  <2> QED
    BY <1>1, <2>5, <2>6, <2>7, <2>8 DEF Faithful
<1> HIDE DEF n, todo, task, elem, obj, row
<1>11. Prepared(n)
  BY <1>1, <1>2, <1>3, <1>5, <1>6, <1>9, <1>10 DEF Prepared, row
<1>12. FixFresh(n)
  BY <1>1, <1>3 DEF FixFresh
<1> QED
  BY <1>1, <1>11, <1>12 DEF Fresh

\* The collapse begins with content that has several rows.
LEMMA CollapseFresh ==
    ASSUME NEW k \in CallStates, k.step = 6, k.goal = "group",
           k.moved = {} /\ ~Getting(k) => FixFresh(k) /\ SeenFresh(k)
    PROVE  Fresh(Submits(k, CollapseTasks(k)))
<1> DEFINE todo == CollapseTasks(k)
           elems == {MergedElem(k, Survivor(k, i), i) : i \in Duplicates(k)}
           n == Submits(k, todo)
<1>1. Head(todo).op = "register" /\ Head(todo).elems = elems
  BY CollapseTasksType DEF Transaction
<1> HIDE DEF todo, elems
<1>2. /\ n.pc = "writing" /\ n.goal = k.goal /\ n.req = k.req /\ n.fix = k.fix
      /\ n.moved = k.moved /\ n.todo = todo
  BY DEF Submits, CallStates
<1> HIDE DEF n
<1> SUFFICES ASSUME k.moved = {}, ~Getting(k)
             PROVE  Fresh(n)
  BY <1>2 DEF Fresh, Getting, n, todo
<1>3. ASSUME NEW e \in elems
      PROVE  e.obj.sha # NoSHA /\ \E i, j \in Owners(db, e.obj.sha) : i # j
  <2>1. PICK i \in Duplicates(k) : e = MergedElem(k, Survivor(k, i), i)
    BY <1>3 DEF elems
  <2> DEFINE ids == Group(k, i)
             view == CollapseCanonicalGroup(k.seen, ids)
  <2>2. /\ i \in Found(k) /\ i \in Ids /\ i \in ids /\ k.seen[i].sha # NoSHA /\ ids # {i} /\ ids \subseteq Found(k)
        /\ \A j \in ids : k.seen[j].sha = k.seen[i].sha
    BY DEF Duplicates, Found, Group
  <2>3. view.sha = k.seen[i].sha
    BY <2>2, MergedSHA
  <2>4. view \in Row /\ Survivor(k, i) \in Ids
    BY <2>2, MergedElemType
  <2>5. e.obj = MergeRecordUpdate(view, NoObject, Survivor(k, i))
    BY <2>1 DEF MergedElem, Elem
  <2> HIDE DEF view
  <2>6. e.obj.sha = k.seen[i].sha
    BY <2>2, <2>3, <2>4, <2>5, MergeType, NoObjectType
  <2>7. \A j \in ids : j \in Owners(db, k.seen[i].sha)
    <3>1. \A j \in Found(k) : db.rows[j] # NoRow /\ k.seen[j].sha = db.rows[j].sha /\ j \in Ids
      BY AllColumnsRead DEF SeenFresh, Found
    <3> QED
      BY <2>2, <3>1 DEF Owners
  <2> QED
    BY <2>2, <2>6, <2>7
<1>4. Prepared(n)
  BY <1>1, <1>2, <1>3 DEF Prepared
<1>5. FixFresh(n)
  BY <1>2 DEF FixFresh
<1> QED
  BY <1>2, <1>4, <1>5 DEF Fresh

\* The audit keeps what it read.
LEMMA AuditFresh ==
    ASSUME NEW k \in CallStates, k.step = 6,
           k.moved = {} /\ ~Getting(k) => FixFresh(k) /\ SeenFresh(k)
    PROVE  Fresh(Audited(k))
<1> DEFINE fix == [i \in Ids |->
                     IF /\ i \in Found(k)
                        /\ k.seen[i].sha # NoSHA /\ k.seen[i].res = k.req.targets
                        /\ HasObjectMethod(k.req.session, "read", k.seen[i])
                        /\ k.seen[i].meths \notin {{}, {TargetURL}}
                       THEN k.seen[i] ELSE NoRow]
           n   == [k EXCEPT !.fix = fix]
<1>1. fix \in ReadRows
  BY DEF CallStates, ReadRows
<1>2. Audited(k) = NextFix(n)
  BY DEF Audited
<1>3. \A i \in Ids : fix[i] # NoRow => i \in Found(k) /\ fix[i] = k.seen[i]
  OBVIOUS
<1> HIDE DEF fix
<1>4. n \in CallStates /\ n.req = k.req /\ n.fix = fix /\ n.moved = k.moved
  BY <1>1 DEF CallStates
<1> HIDE DEF n
<1>5. n.moved = {} /\ ~Getting(n) => FixFresh(n)
  <2> SUFFICES ASSUME k.moved = {}, ~Getting(k), NEW i \in Ids, fix[i] # NoRow
               PROVE  db.rows[i] # NoRow /\ fix[i].res = db.rows[i].res
    BY <1>4 DEF FixFresh, Getting
  <2> QED
    BY <1>3, AllColumnsRead DEF SeenFresh
<1> QED
  BY <1>2, <1>4, <1>5, NextFixFresh

\* Whatever a read leads to is fresh.
LEMMA ConcludeFresh ==
    ASSUME Good(db), NEW k \in CallStates, k.pc = "reading", k.step = 6, k.goal # "none", About(k), Fresh(k)
    PROVE  Fresh(Conclude(k))
<1>1. k.moved = {} /\ ~Getting(k) => FixFresh(k) /\ SeenFresh(k)
  BY DEF Fresh
<1>2. ASSUME k.goal = "object", NEW i \in Found(k), k.seen[i].sha # NoSHA
      PROVE  Fresh(Reads(k, "family", k.at, k.seen[i].sha))
  <2>1. k.moved = {} /\ ~Getting(k) =>
          /\ Resolve(db, k.at) # NoId
          /\ db.rows[Resolve(db, k.at)].sha = k.seen[i].sha
    <3>1. i \in Ids /\ NoId \notin Ids
      BY StoreAssumption DEF Found
    <3> QED
      BY <1>1, <1>2, <3>1, AllColumnsRead DEF SeenFresh
  <2> QED
    BY <1>1, <1>2, <2>1, ReadsFresh
<1>3. Fresh(Fails(k))
  BY <1>1, FailsFresh
<1>4. k.goal = "group" => Fresh(Succeeds(k)) /\ Fresh(Submits(k, CollapseTasks(k)))
  BY <1>1, SucceedsFresh, CollapseFresh
<1>5. Fresh(Audited(k)) /\ Fresh(Ended(k, TRUE))
  BY <1>1, AuditFresh, EndedFresh
<1>6. \A ids : Merges(k, ids) => Fresh(Submits(k, UpdateTasks(k, ids)))
  BY <1>1, UpdateFresh
<1> QED
  BY <1>2, <1>3, <1>4, <1>5, <1>6, ConcludeCases

-----------------------------------------------------------------------------
(* Every step keeps fresh what it should. *)

\* A transaction that has written nothing sees the committed tables.
LEMMA NothingWritten ==
    ASSUME db \in Tables, NEW c, txn[c].writes = NoWrites
    PROVE  View(c) = db
<1>1. View(c) = [rows |-> [i \in Ids |-> db.rows[i]], alias |-> [i \in Ids |-> db.alias[i]]]
  BY DEF View, NoWrites
<1> QED
  BY <1>1 DEF Tables

LEMMA IdleWritten ==
    ASSUME NEW c, txn'[c].n = 0, txn'[c].writes = NoWrites
    PROVE  Written(c)'
<1>1. NoWrites' = NoWrites
  BY DEF NoWrites
<1> QED
  BY <1>1 DEF Written

\* One call and its transaction change and the catalogue does not.
LEMMA OneFresh ==
    ASSUME FreshInv, NEW c \in Clients, NEW k, call' = [call EXCEPT ![c] = k], Fresh(k), UNCHANGED db,
           \A d \in Clients \ {c} : txn'[d] = txn[d], Written(c)'
    PROVE  \A d \in Clients : Fresh(call[d])' /\ Written(d)'
<1>1. call \in [Clients -> CallStates] /\ \A d \in Clients : Fresh(call[d]) /\ Written(d)
  BY DEF FreshInv, ServiceBase, CallsSound
<1>2. \A d \in Clients : Fresh(call'[d])
  BY <1>1
<1>3. ASSUME NEW n PROVE Fresh(n)' <=> Fresh(n)
  <2>1. FixFresh(n)' <=> FixFresh(n)
    BY DEF FixFresh
  <2>2. SeenFresh(n)' <=> SeenFresh(n)
    BY DEF SeenFresh, Found, ReadColumns
  <2>3. Prepared(n)' <=> Prepared(n)
    BY DEF Prepared, Faithful
  <2> QED
    BY <2>1, <2>2, <2>3 DEF Fresh, Getting
<1>4. ASSUME NEW d \in Clients PROVE Fresh(call[d])'
  <2>1. PICK n : n = call'[d]
    OBVIOUS
  <2>2. Fresh(n)'
    BY <1>2, <1>3, <2>1
  <2> QED
    BY <2>1, <2>2 DEF Fresh, Getting, FixFresh, SeenFresh, Prepared, Found, ReadColumns, Faithful
<1>5. ASSUME NEW d \in Clients \ {c} PROVE Written(d)'
  <2>1. txn'[d] = txn[d] /\ call'[d] = call[d] /\ Written(d)
    BY <1>1
  <2>2. View(d)' = View(d) /\ Resolve(db, call[d].at)' = Resolve(db, call[d].at)
    BY <2>1 DEF View, Resolve
  <2> QED
    BY <2>1, <2>2 DEF Written, KeptRow, NoWrites
<1> QED
  BY <1>4, <1>5

LEMMA QuietFresh ==
    ASSUME FreshInv, NEW c \in Clients, NEW k, call' = [call EXCEPT ![c] = k], Fresh(k), UNCHANGED <<db, txn>>,
           txn[c].pc # "active"
    PROVE  \A d \in Clients : Fresh(call[d])' /\ Written(d)'
<1>1. Written(c)
  BY DEF FreshInv
<1>2. Written(c)'
  BY <1>1, IdleWritten DEF Written
<1> QED
  BY <1>2, OneFresh

\* The plans of the other calls are one transaction, and never a replacement.
LEMMA PlanSingle ==
    ASSUME NEW v, NEW q, q.op \in ServiceOps \ {"get", "getBySHA", "update", "repair"},
           Plan(v, q) # Refused, Plan(v, q) # <<>>
    PROVE  Tail(Plan(v, q)) = <<>> /\ Head(Plan(v, q)).op # "replace"
<1> DEFINE Single(plan) == \E op, elems, targets : op # "replace" /\ plan = <<Transaction(op, elems, targets)>>
<1>0. SUFFICES Single(Plan(v, q))
  <2>1. ASSUME NEW op, NEW elems, NEW targets, op # "replace", Plan(v, q) = <<Transaction(op, elems, targets)>>
        PROVE  Tail(Plan(v, q)) = <<>> /\ Head(Plan(v, q)).op # "replace"
    BY <2>1 DEF Transaction
  <2> QED
    BY <2>1
<1>1. \A op, elems, targets : op # "replace" => Single(<<Transaction(op, elems, targets)>>)
  BY Zenon
<1>2. \A op, elems, targets :
        op # "replace" => Filtered(op, elems, targets) = <<>> \/ Single(Filtered(op, elems, targets))
  BY <1>1 DEF Filtered
<1> HIDE DEF Single
<1> USE DEF When, Plan
<1>3. CASE q.op = "register"
  BY <1>1, <1>3 DEF RegisterPlan
<1>4. CASE q.op = "overwrite"
  BY <1>1, <1>4 DEF OverwritePlan
<1>5. CASE q.op \in {"methods", "bulkMethods"}
  BY <1>1, <1>5 DEF UpdateMethodsPlan
<1>6. CASE q.op = "removeGrant"
  BY <1>1, <1>6 DEF RemoveGrantPlan
<1>7. CASE q.op = "createAlias"
  BY <1>1, <1>7 DEF CreateAliasPlan
<1>8. CASE q.op = "delete"
  BY <1>1, <1>8 DEF DeletePlan
<1>9. CASE q.op = "bulkDelete"
  BY <1>2, <1>9 DEF BulkDeletePlan
<1>10. CASE q.op = "deleteByChecksums"
  BY <1>2, <1>10 DEF DeleteByChecksumsPlan
<1>11. CASE q.op = "deleteByScope"
  BY <1>2, <1>11 DEF DeleteByScopePlan
<1> QED
  BY <1>3, <1>4, <1>5, <1>6, <1>7, <1>8, <1>9, <1>10, <1>11 DEF ServiceOps

LEMMA RequestFresh ==
    ASSUME FreshInv, NEW c \in Clients, Request(c)
    PROVE  \A d \in Clients : Fresh(call[d])' /\ Written(d)'
<1>0. CallsSound /\ db \in Tables
  BY DEF FreshInv, ServiceBase, IInv, TypeOK
<1>1. PICK q \in Requests :
        LET k == [Ready EXCEPT !.req = q]
        IN  Continues(c, CASE q.op \in {"get", "update"} -> Reads(k, "object", q.id, NoSHA)
                        [] q.op = "getBySHA" -> Reads(k, "family", NoId, q.obj.sha)
                        [] q.op = "repair"   -> Reads(k, "group", NoId, NoSHA)
                        [] OTHER             -> Planned(k, Plan(db, q)))
  BY DEF Request
<1> DEFINE k == [Ready EXCEPT !.req = q]
           plan == Plan(db, q)
           n == CASE q.op \in {"get", "update"} -> Reads(k, "object", q.id, NoSHA)
                  [] q.op = "getBySHA" -> Reads(k, "family", NoId, q.obj.sha)
                  [] q.op = "repair"   -> Reads(k, "group", NoId, NoSHA)
                  [] OTHER             -> Planned(k, plan)
<1>2. call' = [call EXCEPT ![c] = n] /\ UNCHANGED <<db, txn>> /\ txn[c].pc # "active"
  BY <1>0, <1>1 DEF Continues, Request, vars, CallsSound, Linked
<1>3. k \in CallStates /\ k.req = q /\ k.fix = NoRead /\ k.goal = "none"
  BY ReadyType DEF CallStates, Ready
<1>4. FixFresh(k)
  BY <1>3 DEF FixFresh, NoRead
<1> HIDE DEF k
<1>5. Fresh(n)
  <2>1. CASE q.op \in {"get", "update"}
    BY <1>3, <1>4, <2>1, ReadsFresh
  <2>2. CASE q.op = "getBySHA"
    BY <1>3, <1>4, <2>2, ReadsFresh DEF Getting
  <2>3. CASE q.op = "repair"
    BY <1>3, <1>4, <2>3, ReadsFresh
  <2>4. CASE q.op \notin {"get", "update", "getBySHA", "repair"}
    <3>1. n = Planned(k, plan)
      BY <2>4
    <3>2. CASE plan = Refused \/ plan = <<>>
      BY <3>1, <3>2, EndedFresh DEF Planned
    <3>3. CASE plan # Refused /\ plan # <<>>
      <4>1. n = Submits(k, plan)
        BY <3>1, <3>3 DEF Planned
      <4>2. Tail(plan) = <<>> /\ Head(plan).op # "replace"
        BY <2>4, <3>3, PlanSingle, RequestType
      <4> HIDE DEF plan
      <4>3. /\ n.pc = "writing" /\ n.goal = "none" /\ n.fix = NoRead /\ n.todo = plan
        BY <1>3, <4>1 DEF Submits, CallStates
      <4> HIDE DEF n
      <4>4. FixFresh(n)
        BY <4>3 DEF FixFresh, NoRead
      <4> QED
        BY <4>2, <4>3, <4>4 DEF Fresh, Prepared
    <3> QED
      BY <3>2, <3>3
  <2> QED
    BY <2>1, <2>2, <2>3, <2>4
<1> HIDE DEF n
<1> QED
  BY <1>2, <1>5, QuietFresh

LEMMA ReadFresh ==
    ASSUME FreshInv, NEW c \in Clients, Read(c)
    PROVE  \A d \in Clients : Fresh(call[d])' /\ Written(d)'
<1> DEFINE k == call[c]
           n == AfterRead(k)
           m == IF k.step = 5 THEN Conclude(n) ELSE n
<1>1. CallsSound /\ db \in Tables /\ Good(db) /\ Fresh(k)
  BY DEF FreshInv, ServiceBase, IInv, TypeOK
<1>2. k.pc = "reading" /\ call' = [call EXCEPT ![c] = m] /\ UNCHANGED <<db, txn>>
  BY ReadStep
<1>3. /\ k \in CallStates /\ k.step \in 1 .. 5 /\ k.goal # "none" /\ About(k) /\ Sound(k)
      /\ txn[c].pc # "active"
  BY <1>1, <1>2 DEF CallsSound, Sound, Shape, Linked
<1> HIDE DEF k
<1>4. /\ n \in CallStates /\ n.pc = "reading" /\ n.goal = k.goal /\ n.step = k.step + 1
      /\ n.req = k.req /\ n.at = k.at /\ n.fix = k.fix
  BY <1>1, <1>2, <1>3, AfterReadType DEF k
<1>5. About(n) /\ Fresh(n)
  BY <1>1, <1>2, <1>3, <1>4, ReadKeepsFresh DEF About, Getting
<1> HIDE DEF n
<1>6. Fresh(m)
  BY <1>1, <1>3, <1>4, <1>5, ConcludeFresh
<1> HIDE DEF m
<1> QED
  BY <1>2, <1>3, <1>6, QuietFresh

LEMMA SubmitFresh ==
    ASSUME FreshInv, NEW c \in Clients, Submit(c) \/ Acquire(c)
    PROVE  \A d \in Clients : Fresh(call[d])' /\ Written(d)'
<1>1. /\ txn \in [Clients -> Transactions] /\ call \in [Clients -> CallStates]
      /\ Fresh(call[c]) /\ Written(c)
  BY DEF FreshInv, ServiceBase, IInv, TypeOK, CallsSound
<1>2. UNCHANGED <<db, call>> /\ call' = [call EXCEPT ![c] = call[c]] /\ txn[c].pc # "active"
  BY <1>1 DEF Submit, Acquire, Begin
<1>3. /\ txn'[c].n = txn[c].n /\ txn'[c].writes = txn[c].writes
      /\ \A d \in Clients \ {c} : txn'[d] = txn[d]
  BY <1>1 DEF Submit, Acquire, Begin, Transactions
<1>4. Written(c)'
  BY <1>1, <1>2, <1>3, IdleWritten DEF Written
<1> QED
  BY <1>1, <1>2, <1>3, <1>4, OneFresh

LEMMA FailFresh ==
    ASSUME FreshInv, NEW c \in Clients, FailTransaction(c)
    PROVE  \A d \in Clients : Fresh(call[d])' /\ Written(d)'
<1>1. /\ txn \in [Clients -> Transactions] /\ call[c] \in CallStates /\ Fresh(call[c])
  BY DEF FreshInv, ServiceBase, IInv, TypeOK, CallsSound
<1> DEFINE n == Fails(call[c])
<1>2. call' = [call EXCEPT ![c] = n] /\ UNCHANGED db /\ call[c].pc = "writing"
  BY DEF FailTransaction, Rollback, Continues
<1>3. Fresh(n)
  BY <1>1, <1>2, FailsFresh DEF Fresh
<1> HIDE DEF n
<1>4. txn'[c].n = 0 /\ txn'[c].writes = NoWrites /\ \A d \in Clients \ {c} : txn'[d] = txn[d]
  BY <1>1 DEF FailTransaction, Rollback, Idle
<1>5. Written(c)'
  BY <1>4, IdleWritten
<1> QED
  BY <1>2, <1>3, <1>4, <1>5, OneFresh

\* A faithful replacement does to the row what an update may do.
LEMMA ReplacedKept ==
    ASSUME NEW v \in Tables, NEW k, NEW obj, NEW row, row = Resolve(v, obj.id), v.rows[row] # NoRow,
           Faithful(k, obj, v.rows[row])
    PROVE  KeptRow(k, v.rows[row], ReplacedRow(v, obj))
<1> DEFINE old == v.rows[row]
           new == ReplacedRow(v, obj)
           public == PublicRead(v, row, old.res = {}) \/ obj.public
<1>1. /\ new.sha = IF obj.sha = NoSHA THEN old.sha ELSE obj.sha
      /\ new.res = IF obj.res = Nil THEN old.res ELSE obj.res
      /\ new.meths = IF obj.meths = Nil THEN old.meths ELSE obj.meths
      /\ new.policy = SetPublicRead(old.policy, public)
  BY DEF ReplacedRow
<1>2. PublicRead(v, row, old.res = {}) <=> old.policy = "public" \/ (old.policy = "none" /\ old.res = {})
  BY DEF PublicRead
<1>3. public <=> IsPublic(old)
  BY <1>2 DEF Faithful, IsPublic
<1> HIDE DEF new, public
<1>4. IsPublic(new) <=> IsPublic(old)
  <2>1. CASE IsPublic(old)
    BY <1>1, <1>3, <2>1 DEF SetPublicRead, IsPublic
  <2>2. CASE ~IsPublic(old)
    <3>1. old.policy # "public" /\ ~public
      BY <1>3, <2>2 DEF IsPublic
    <3>2. new.policy = "private"
      BY <1>1, <3>1 DEF SetPublicRead
    <3> QED
      BY <2>2, <3>2 DEF IsPublic
  <2> QED
    BY <2>1, <2>2
<1>5. KeptRow(k, old, new)
  BY <1>1, <1>4 DEF Faithful, KeptRow
<1> QED
  BY <1>5 DEF new

\* One element of a transaction.
LEMMA EffectWritten ==
    ASSUME FreshInv, NEW c \in Clients, Process(c), NEW t, t = Head(call[c].todo),
           NEW e \in t.elems, Effect(c, t, e), call[c].moved = {}
    PROVE  /\ call[c].goal # "group"
           /\ t.op = "replace" =>
                /\ t.elems \ {e} = {}
                /\ LET row == Resolve(db, call[c].at)
                   IN  /\ \A i \in Ids \ {row} : View(c)'.rows[i] = db.rows[i]
                       /\ KeptRow(call[c], db.rows[row], View(c)'.rows[row])
<1> DEFINE k == call[c]
           row == Resolve(db, k.at)
<1>1. CallsSound /\ TypeOK /\ Good(db) /\ Fresh(k) /\ Written(c)
  BY DEF FreshInv, ServiceBase, IInv
<1>2. txn[c].pc = "active" /\ txn[c].op = t.op /\ k.pc = "writing" /\ UNCHANGED db
  BY <1>1 DEF CallsSound, Linked, Process, Element
<1>3. t \in Tasks /\ k \in CallStates /\ ~Getting(k) /\ About(k)
  BY <1>1, <1>2, HeadType
<1>4. Prepared(k)
  BY <1>1, <1>2, <1>3 DEF Fresh
<1>5. txn[c].n = 0 => View(c) = db
  BY <1>1, NothingWritten DEF Written, TypeOK
<1>6. k.goal # "group"
  <2> SUFFICES ASSUME k.goal = "group" PROVE FALSE
    OBVIOUS
  <2>1. /\ t.op = "register" /\ View(c) = db /\ e.obj.sha # NoSHA
        /\ \E i, j \in Owners(db, e.obj.sha) : i # j
    BY <1>1, <1>2, <1>4, <1>5 DEF Prepared, Written
  <2>2. RegisterOK(db, txn[c].session, e.obj)
    BY <2>1 DEF Effect
  <2> QED
    BY <2>1, <2>2 DEF RegisterOK, IdentityOK
<1>7. ASSUME t.op = "replace"
      PROVE  /\ t.elems \ {e} = {}
             /\ \A i \in Ids \ {row} : View(c)'.rows[i] = db.rows[i]
             /\ KeptRow(k, db.rows[row], View(c)'.rows[row])
  <2>1. /\ row # NoId /\ e.obj.id = k.at /\ t.elems \ {e} = {}
        /\ EnsureNoLegacyDuplicate(db, row) => Faithful(k, e.obj, db.rows[row])
        /\ k.goal \in {"object", "family"}
    BY <1>4, <1>7 DEF Prepared
  <2>2. View(c) = db
    BY <1>1, <1>2, <1>5, <1>7 DEF Written
  <2>3. ReplaceOK(db, txn[c].session, e.obj) /\ Writes(c, Replaced(db, e.obj), {})
    BY <1>7, <2>2 DEF Effect
  <2>4. e.obj \in Record /\ k.at \in Ids
    BY <1>3, <2>1 DEF Tasks, Elements, About
  <2>5. Replaced(db, e.obj) \in Tables
    BY <1>1, <2>3, <2>4, ReplacedGood DEF Good
  <2>6. View(c)' = Replaced(db, e.obj)
    BY <1>1, <1>2, <2>3, <2>5, ViewAfterWrites
  <2>7. EnsureNoLegacyDuplicate(db, row) /\ db.rows[row] # NoRow
    BY <2>1, <2>3 DEF ReplaceOK
  <2>8. KeptRow(k, db.rows[row], ReplacedRow(db, e.obj))
    BY <1>1, <2>1, <2>7, ReplacedKept DEF TypeOK
  <2>9. Replaced(db, e.obj).rows = [db.rows EXCEPT ![row] = ReplacedRow(db, e.obj)]
    BY <2>1 DEF Replaced
  <2>10. row \in Ids /\ db.rows \in [Ids -> Row \cup {NoRow}]
    BY <1>1, <2>1, <2>4, ResolveRow DEF Good, Tables
  <2> HIDE DEF row, k
  <2> QED
    BY <2>1, <2>6, <2>8, <2>9, <2>10
<1> QED
  BY <1>6, <1>7

LEMMA EffectCounts ==
    ASSUME NEW c \in Clients, txn \in [Clients -> Transactions], NEW t \in Tasks, NEW e,
           Effect(c, t, e)
    PROVE  txn'[c].n = txn[c].n + 1 /\ txn'[c].n # 0
<1>1. ASSUME NEW v, NEW doomed, Writes(c, v, doomed)
      PROVE  txn'[c].n = txn[c].n + 1
  BY <1>1 DEF Writes, Transactions
<1>2. t.op \in TaskOps
  BY DEF Tasks
<1>3. txn[c].n \in Nat
  BY StoreAssumption DEF Transactions
<1>4. txn'[c].n = txn[c].n + 1
  BY <1>1, <1>2 DEF Effect, TaskOps, Ops, BulkOps, SingleOps
<1> QED
  BY <1>3, <1>4

LEMMA EmptyTasks ==
    ASSUME NEW s \in Seq(Tasks)
    PROVE  s = <<>> <=> Len(s) = 0
OBVIOUS

LEMMA ElementTail ==
    ASSUME NEW k \in CallStates, k.todo # <<>>, NEW e, Tail(k.todo) = <<>>
    PROVE  Tail([k EXCEPT !.todo[1].elems = @ \ {e}].todo) = <<>>
<1> DEFINE t == [k.todo[1] EXCEPT !.elems = @ \ {e}]
           s == [k.todo EXCEPT ![1] = t]
           n == [k EXCEPT !.todo[1].elems = @ \ {e}]
<1>1. k.todo \in Seq(Tasks) /\ n.todo = s
  BY DEF CallStates
<1>2. n \in CallStates
  BY ElementDone
<1> HIDE DEF n
<1>3. s \in Seq(Tasks)
  BY <1>1, <1>2 DEF CallStates
<1>4. Len(k.todo) = 1
  <2>1. Len(k.todo) \in Nat /\ Len(k.todo) # 0 /\ Len(Tail(k.todo)) = Len(k.todo) - 1
    BY <1>1
  <2>2. Len(Tail(k.todo)) = 0
    BY NoTasks, EmptyTasks
  <2> QED
    BY <2>1, <2>2
<1>5. DOMAIN s = DOMAIN k.todo /\ DOMAIN k.todo = 1 .. 1
  BY <1>1, <1>4
<1> HIDE DEF s
<1>6. Len(s) = 1
  BY <1>3, <1>5
<1>7. Tail(s) = <<>>
  <2>1. Tail(s) \in Seq(Tasks) /\ Len(Tail(s)) = 0
    BY <1>3, <1>6
  <2> QED
    BY <2>1, EmptyTasks
<1> QED
  BY <1>1, <1>7 DEF n

LEMMA ProcessFresh ==
    ASSUME FreshInv, NEW c \in Clients, Process(c)
    PROVE  \A d \in Clients : Fresh(call[d])' /\ Written(d)'
<1> DEFINE k == call[c]
           t == Head(k.todo)
           row == Resolve(db, k.at)
<1>1. CallsSound /\ TypeOK /\ Good(db) /\ Fresh(k) /\ Written(c)
  BY DEF FreshInv, ServiceBase, IInv
<1>2. txn[c].pc = "active" /\ txn[c].op = t.op /\ k.pc = "writing" /\ UNCHANGED db
  BY <1>1 DEF CallsSound, Linked, Process, Element
<1>3. t \in Tasks /\ k \in CallStates /\ k.todo # <<>> /\ ~Getting(k) /\ txn \in [Clients -> Transactions]
  BY <1>1, <1>2, HeadType DEF TypeOK
<1>4. PICK e \in t.elems : Effect(c, t, e) /\ Continues(c, [k EXCEPT !.todo[1].elems = @ \ {e}])
  BY DEF Process
<1> DEFINE n == [k EXCEPT !.todo[1].elems = @ \ {e}]
<1>5. /\ n.pc = k.pc /\ n.goal = k.goal /\ n.at = k.at /\ n.req = k.req /\ n.fix = k.fix /\ n.moved = k.moved
  BY <1>3 DEF CallStates
<1>6. /\ Head(n.todo).op = t.op /\ Head(n.todo).elems = t.elems \ {e}
      /\ Tail(k.todo) = <<>> => Tail(n.todo) = <<>>
  BY <1>3, ElementDone, ElementTail
<1>7. call' = [call EXCEPT ![c] = n] /\ call \in [Clients -> CallStates]
  BY <1>1, <1>4 DEF Continues, CallsSound
<1>8. k.moved = {} =>
        /\ k.goal # "group"
        /\ t.op = "replace" =>
             /\ t.elems \ {e} = {}
             /\ \A i \in Ids \ {row} : View(c)'.rows[i] = db.rows[i]
             /\ KeptRow(k, db.rows[row], View(c)'.rows[row])
  BY <1>4, EffectWritten
<1> HIDE DEF n
<1>9. Fresh(n)
  <2> SUFFICES ASSUME k.moved = {} PROVE FixFresh(n) /\ Prepared(n)
    BY <1>2, <1>5 DEF Fresh
  <2>1. FixFresh(k) /\ Prepared(k)
    BY <1>1, <1>2, <1>3 DEF Fresh
  <2>2. FixFresh(n)
    BY <1>5, <2>1 DEF FixFresh
  <2>3. Prepared(n)
    BY <1>5, <1>6, <1>8, <2>1 DEF Prepared
  <2> QED
    BY <2>2, <2>3
<1>10. /\ txn'[c].pc = "active" /\ txn'[c].op = t.op /\ txn'[c].n # 0
       /\ \A d \in Clients \ {c} : txn'[d] = txn[d]
  BY <1>2, <1>3, <1>4, EffectKeeps, EffectCounts
<1>11. Written(c)'
  <2>1. call'[c] = n /\ Resolve(db', n.at) = row
    BY <1>2, <1>5, <1>7
  <2>2. k.moved = {} /\ t.op = "replace" =>
             /\ Head(n.todo).elems = {}
             /\ \A i \in Ids \ {row} : View(c)'.rows[i] = db'.rows[i]
             /\ KeptRow(n, db'.rows[row], View(c)'.rows[row])
    BY <1>2, <1>5, <1>6, <1>8 DEF KeptRow
  <2> HIDE DEF row, t, k
  <2> QED
    BY <1>5, <1>8, <1>10, <2>1, <2>2 DEF Written, KeptRow
<1> QED
  BY <1>2, <1>7, <1>9, <1>10, <1>11, OneFresh

\* What a finished transaction leaves of a call.
LEMMA FixedIs ==
    ASSUME NEW k \in CallStates
    PROVE  LET n == Fixed(k)
           IN  \/ n.pc = "done"
               \/ /\ n.pc = "reading" /\ n.goal = "object" /\ Found(n) = {} /\ n.moved = k.moved
                  /\ \A i \in Ids : n.fix[i] = IF i = k.at THEN NoRow ELSE k.fix[i]
<1> DEFINE fix == [k.fix EXCEPT ![k.at] = NoRow]
           m == [k EXCEPT !.fix = fix, !.todo = <<>>]
<1>1. fix \in ReadRows
  BY StruckType DEF CallStates
<1>2. Fixed(k) = NextFix(m)
  BY DEF Fixed, CallStates
<1>3. \A i \in Ids : fix[i] = IF i = k.at THEN NoRow ELSE k.fix[i]
  BY DEF CallStates, ReadRows
<1> HIDE DEF fix
<1>4. m \in CallStates /\ m.fix = fix /\ m.moved = k.moved
  BY <1>1, NoTasks, ClearedType DEF CallStates
<1> HIDE DEF m
<1>5. ASSUME NEW at
      PROVE  LET n == Reads(m, "object", at, NoSHA)
             IN  n.pc = "reading" /\ n.goal = "object" /\ Found(n) = {} /\ n.moved = k.moved /\ n.fix = fix
  <2> DEFINE n == Reads(m, "object", at, NoSHA)
  <2>1. n.pc = "reading" /\ n.goal = "object" /\ n.seen = NoRead /\ n.moved = k.moved /\ n.fix = fix
    BY <1>4 DEF Reads, CallStates
  <2> HIDE DEF n
  <2> QED
    BY <2>1 DEF Found, NoRead, n
<1>6. Ended(m, TRUE).pc = "done"
  BY <1>4, EndedSound
<1> DEFINE left == {i \in Ids : m.fix[i] # NoRow}
<1>7. CASE left = {}
  BY <1>2, <1>6, <1>7 DEF NextFix
<1>8. CASE left # {}
  <2>1. Fixed(k) = Reads(m, "object", Oldest(left), NoSHA)
    BY <1>2, <1>8 DEF NextFix
  <2> QED
    BY <1>3, <1>5, <2>1
<1> QED
  BY <1>7, <1>8

\* A call that saw rows change does not forget it.
LEMMA MovedKept ==
    ASSUME NEW k \in CallStates
    PROVE  Succeeds(k).pc = "done" \/ Succeeds(k).moved = k.moved
<1>1. CASE k.req.op = "repair" /\ k.goal = "group"
  <2> DEFINE m == [k EXCEPT !.todo = <<>>]
  <2>1. m \in CallStates /\ m.moved = k.moved
    BY NoTasks, TodoType DEF CallStates
  <2>2. Succeeds(k) = Reads(m, "audit", NoId, NoSHA)
    BY <1>1 DEF Succeeds
  <2> HIDE DEF m
  <2> QED
    BY <2>1, <2>2 DEF Reads, CallStates
<1>2. CASE k.req.op = "repair" /\ k.goal \in {"object", "family"}
  BY <1>2, FixedIs DEF Succeeds
<1>3. CASE ~(k.req.op = "repair" /\ k.goal \in {"object", "family", "group"})
  BY <1>3, EndedSound DEF Succeeds
<1> QED
  BY <1>1, <1>2, <1>3

\* The rows after a commit that deletes none are those the transaction saw.
LEMMA CommittedRows ==
    ASSUME ServiceBase, NEW c \in Clients, Commit(c), txn[c].op \notin Deletions
    PROVE  \A i \in Ids : db'.rows[i] = View(c).rows[i]
<1>1. txn[c].doomed = {}
  BY DEF ServiceBase, RightsInv, Rightful, Commit
<1> QED
  BY <1>1 DEF Commit, WithoutRows

\* A call whose transaction commits goes on with what it has read of the other rows.
LEMMA OwnFresh ==
    ASSUME FreshInv, NEW c \in Clients, CommitTransaction(c)
    PROVE  Fresh(call[c])'
<1>1. ServiceBase /\ CallsSound /\ IInv /\ Fresh(call[c]) /\ Written(c)
  BY DEF FreshInv, ServiceBase
<1>2. /\ txn[c].pc = "active" /\ Commit(c) /\ txn[c].n # 0
      /\ call[c].pc = "writing" /\ txn[c].op = Head(call[c].todo).op
  <2>1. txn[c].pc = "active" /\ Commit(c) /\ txn[c].n > 0
    BY DEF CommitTransaction, Commit
  <2>2. call[c].pc = "writing" /\ txn[c].op = Head(call[c].todo).op
    BY <1>1, <2>1 DEF CallsSound, Linked
  <2> QED
    BY <2>1, <2>2
<1>3. call'[c] = AfterCommit(call[c])
  BY DEF CommitTransaction, Moves, AfterCommit
<1>4. PICK k : k = call[c]
  OBVIOUS
<1>5. PICK n : n = AfterCommit(k)
  OBVIOUS
<1>6. k \in CallStates /\ About(k) /\ ~Getting(k) /\ Tail(k.todo) \in Seq(Tasks)
  BY <1>1, <1>2, <1>4, HeadType
<1> DEFINE todo == Tail(k.todo)
           m == [k EXCEPT !.todo = todo]
<1> HIDE DEF todo
<1>7. /\ m \in CallStates /\ m.moved = k.moved /\ m.fix = k.fix /\ m.at = k.at /\ m.goal = k.goal
      /\ m.req = k.req /\ m.todo = todo
  BY <1>6, TodoType DEF todo, CallStates
<1>8. n = IF m.todo = <<>> THEN Succeeds(m) ELSE m
  BY <1>5 DEF AfterCommit, todo
<1> HIDE DEF m
<1>9. n.pc = "done" \/ n.moved = k.moved
  BY <1>7, <1>8, MovedKept
<1>10. CASE k.moved # {}
  <2>1. ~(n.moved = {} /\ n.pc \in {"reading", "writing"})
    BY <1>9, <1>10
  <2> QED
    BY <1>3, <1>4, <1>5, <2>1 DEF Fresh
<1>11. CASE k.moved = {}
  <2>1. FixFresh(k) /\ Prepared(k)
    BY <1>1, <1>2, <1>4, <1>6, <1>11 DEF Fresh
  <2>2. k.goal # "group"
    BY <1>1, <1>2, <1>4, <1>11 DEF Written
  <2>3. n = Succeeds(m)
    BY <1>7, <1>8, <2>1, <2>2 DEF Prepared, todo
  <2>4. CASE ~(k.req.op = "repair" /\ k.goal \in {"object", "family"})
    <3>1. n = Ended(m, TRUE)
      BY <1>7, <2>2, <2>3, <2>4 DEF Succeeds
    <3>2. n.pc = "done"
      BY <1>7, <3>1, EndedSound
    <3> QED
      BY <1>3, <1>4, <1>5, <3>2 DEF Fresh
  <2>5. CASE k.req.op = "repair" /\ k.goal \in {"object", "family"}
    <3>1. n = Fixed(m)
      BY <1>7, <2>3, <2>5 DEF Succeeds
    <3>2. \/ n.pc = "done"
          \/ /\ n.pc = "reading" /\ n.goal = "object" /\ Found(n) = {}
             /\ \A i \in Ids : n.fix[i] = IF i = k.at THEN NoRow ELSE k.fix[i]
      BY <1>7, <3>1, FixedIs
    <3>3. k.at \in Ids /\ k.fix[k.at] # NoRow
      BY <1>6, <2>5 DEF About
    <3>4. Resolve(db, k.at) = k.at
      BY <2>1, <3>3 DEF FixFresh, Resolve
    <3>5. txn[c].op = "replace"
      BY <1>2, <1>4, <2>1, <2>5 DEF Prepared
    <3>6. \A i \in Ids \ {k.at} : db'.rows[i] = db.rows[i]
      <4>1. \A i \in Ids \ {k.at} : View(c).rows[i] = db.rows[i]
        BY <1>1, <1>2, <1>4, <1>11, <3>4, <3>5 DEF Written
      <4> QED
        BY <1>1, <1>2, <3>5, <4>1, CommittedRows DEF Deletions
    <3>7. n.pc = "reading" => FixFresh(n)' /\ SeenFresh(n)'
      <4> SUFFICES ASSUME n.pc = "reading" PROVE FixFresh(n)' /\ SeenFresh(n)'
        OBVIOUS
      <4>1. FixFresh(n)'
        BY <2>1, <3>2, <3>6 DEF FixFresh
      <4>2. SeenFresh(n)'
        BY <3>2 DEF SeenFresh, Found
      <4> QED
        BY <4>1, <4>2
    <3>8. n.pc \in {"done", "reading"}
      BY <3>2
    <3>9. Fresh(n)'
      BY <3>7, <3>8 DEF Fresh
    <3> QED
      BY <1>3, <1>4, <1>5, <3>9
         DEF Fresh, Getting, FixFresh, SeenFresh, Prepared, Found, ReadColumns, Faithful
  <2> QED
    BY <2>4, <2>5
<1> QED
  BY <1>10, <1>11

\* The other calls under way have seen rows change, or no row has.
LEMMA CommitFresh ==
    ASSUME FreshInv, NEW c \in Clients, CommitTransaction(c), [StoreStep]_vars
    PROVE  \A d \in Clients : Fresh(call[d])' /\ Written(d)'
<1>1. /\ ServiceBase /\ CallsSound /\ IInv /\ TypeOK /\ Good(db) /\ call \in [Clients -> CallStates]
      /\ txn \in [Clients -> Transactions] /\ db \in Tables /\ db' \in Tables
      /\ \A d \in Clients : Fresh(call[d]) /\ Written(d)
  <2>1. IInv'
    BY NextInv DEF FreshInv, ServiceBase
  <2> QED
    BY <2>1 DEF FreshInv, ServiceBase, IInv, TypeOK, CallsSound
<1>2. txn[c].pc = "active" /\ Commit(c)
  BY DEF CommitTransaction
<1>3. txn'[c] = Idle /\ \A d \in Clients \ {c} : txn'[d] = txn[d]
  BY <1>1, <1>2 DEF Commit
<1>4. \A d \in Clients \ {c} : txn[d].pc # "active"
  BY <1>1, <1>2 DEF IInv, TxnInv
<1>5. \A d \in Clients : txn'[d].n = 0 /\ txn'[d].writes = NoWrites
  BY <1>1, <1>3, <1>4 DEF Written, Idle
<1>6. \A d \in Clients : Written(d)'
  BY <1>5, IdleWritten
<1> SUFFICES ASSUME NEW d \in Clients, d # c PROVE Fresh(call[d])'
  BY <1>6, OwnFresh
<1>7. PICK k : k = call[d]
  OBVIOUS
<1>8. PICK n : n = call'[d]
  OBVIOUS
<1> DEFINE ids == {i \in Ids : db'.rows[i] # db.rows[i]}
<1>9. Sound(k) /\ k \in CallStates /\ Fresh(k)
  BY <1>1, <1>7 DEF CallsSound
<1>10. n = IF k.pc \notin {"reading", "writing"} THEN k ELSE [k EXCEPT !.moved = @ \cup ids]
  BY <1>7, <1>8 DEF CommitTransaction, Moves
<1> HIDE DEF ids
<1>11. /\ n.req = k.req /\ n.pc = k.pc /\ n.fix = k.fix /\ n.goal = k.goal /\ n.step = k.step
       /\ n.seen = k.seen /\ n.at = k.at /\ n.sha = k.sha /\ n.todo = k.todo
       /\ k.pc \in {"reading", "writing"} => n.moved = k.moved \cup ids
  BY <1>9, <1>10 DEF CallStates
<1>12. CASE ~(n.moved = {} /\ n.pc \in {"reading", "writing"})
  BY <1>8, <1>12 DEF Fresh
<1>13. CASE n.moved = {} /\ n.pc \in {"reading", "writing"}
  <2>1. ids = {} /\ k.moved = {}
    BY <1>11, <1>13
  <2>2. db'.rows = db.rows
    BY <1>1, <2>1 DEF ids, Tables
  <2>3. last'.op # "deleteAlias"
    <3>1. call[c].pc = "writing" /\ txn[c].op = Head(call[c].todo).op
      BY <1>1, <1>2 DEF CallsSound, Linked
    <3>2. Head(call[c].todo).op \in TaskOps
      BY <1>1, <3>1, HeadType DEF Tasks
    <3> QED
      BY <1>2, <3>1, <3>2 DEF Commit, TaskOps
  <2>4. \A i \in Ids : Resolve(db, i) # NoId => Resolve(db', i) = Resolve(db, i)
    <3> SUFFICES ASSUME NEW i \in Ids, Resolve(db, i) # NoId PROVE Resolve(db', i) = Resolve(db, i)
      OBVIOUS
    <3>1. Resolve(db, i) \in Ids /\ db.rows[Resolve(db, i)] # NoRow
      BY <1>1, ResolveRow, StoreAssumption DEF Good
    <3> QED
      BY <1>1, <2>2, <2>3, <3>1, StepKeepsIdentity DEF IdentityKept
  <2>5. Fresh(n)'
    BY <1>9, <1>11, <2>1, <2>2, <2>4, FreshKept
  <2> QED
    BY <1>8, <2>5 DEF Fresh, Getting, FixFresh, SeenFresh, Prepared, Found, ReadColumns, Faithful
<1> QED
  BY <1>12, <1>13

\* Every step keeps what the calls have read fresh, and the updates faithful.
LEMMA ServiceNextFresh ==
    ASSUME FreshInv, [ServiceNext]_serviceVars
    PROVE  FreshInv'
<1>1. ServiceBase' /\ [StoreStep]_vars
  BY ServiceNextBase, ServiceIsStoreStep DEF FreshInv
<1>2. ASSUME UNCHANGED serviceVars
      PROVE  \A d \in Clients : Fresh(call[d])' /\ Written(d)'
  <2> SUFFICES ASSUME NEW d \in Clients PROVE Fresh(call[d])' /\ Written(d)'
    OBVIOUS
  <2>1. UNCHANGED <<db, txn, call>> /\ Fresh(call[d]) /\ Written(d)
    BY <1>2 DEF FreshInv, serviceVars
  <2>2. FixFresh(call[d])' <=> FixFresh(call[d])
    BY <2>1 DEF FixFresh
  <2>3. SeenFresh(call[d])' <=> SeenFresh(call[d])
    BY <2>1 DEF SeenFresh, Found, ReadColumns
  <2>4. Prepared(call[d])' <=> Prepared(call[d])
    BY <2>1 DEF Prepared, Faithful
  <2>5. Fresh(call[d])'
    BY <2>1, <2>2, <2>3, <2>4 DEF Fresh, Getting
  <2>6. View(d)' = View(d) /\ Resolve(db, call[d].at)' = Resolve(db, call[d].at)
    BY <2>1 DEF View, Resolve
  <2>7. Written(d)'
    BY <2>1, <2>6 DEF Written, KeptRow, NoWrites
  <2> QED
    BY <2>5, <2>7
<1>3. ASSUME NEW c \in Clients, Request(c) \/ Acquire(c) \/ ServiceStep(c)
      PROVE  \A d \in Clients : Fresh(call[d])' /\ Written(d)'
  BY <1>1, <1>3, RequestFresh, ReadFresh, SubmitFresh, ProcessFresh, CommitFresh, FailFresh
     DEF ServiceStep
<1> QED
  BY <1>1, <1>2, <1>3 DEF ServiceNext, FreshInv

LEMMA ServiceInitFresh == ServiceInit => FreshInv
<1> SUFFICES ASSUME ServiceInit, NEW c \in Clients PROVE Fresh(call[c]) /\ Written(c)
  BY ServiceInitBase DEF FreshInv
<1>1. call[c].pc = "ready" /\ txn[c].pc = "idle" /\ txn[c].n = 0 /\ txn[c].writes = NoWrites
  BY DEF ServiceInit, Ready, Idle
<1> QED
  BY <1>1 DEF Fresh, Written

\* A step in which a client gives the lock back and the catalogue changes is its commit.
LEMMA ChangedByCommit ==
    ASSUME FreshInv, [ServiceNext]_serviceVars, NEW c \in Clients, lock = c, db' # db
    PROVE  /\ Commit(c) /\ txn[c].pc = "active" /\ txn[c].n # 0 /\ Written(c)
           /\ txn[c].op = Head(call[c].todo).op
<1>1. ServiceBase /\ [StoreStep]_vars /\ IInv /\ CallsSound /\ Written(c)
  BY ServiceIsStoreStep DEF FreshInv, ServiceBase
<1>2. PICK d \in Clients : Commit(d)
  BY <1>1, OnlyCommits
<1>3. txn[d].pc = "active" /\ txn[d].n > 0 /\ lock = d
  BY <1>1, <1>2 DEF IInv, TxnInv, Commit
<1> QED
  BY <1>1, <1>2, <1>3 DEF CallsSound, Linked

\* A committed update has written the row its transaction saw.
LEMMA StepKeepsOmitted ==
    ASSUME FreshInv, [ServiceNext]_serviceVars
    PROVE  OmittedKept
<1> SUFFICES ASSUME NEW c \in Clients, Replaces(c), call[c].moved = {}
             PROVE  LET row == Resolve(db, call[c].at)
                    IN  KeptRow(call[c], db.rows[row], db'.rows[row])
  BY DEF OmittedKept, KeptRow
<1> DEFINE k == call[c]
           row == Resolve(db, k.at)
<1>1. /\ Commit(c) /\ txn[c].pc = "active" /\ txn[c].n # 0 /\ Written(c)
      /\ txn[c].op = "replace" /\ k.pc = "writing"
  BY ChangedByCommit DEF Replaces
<1>2. ServiceBase /\ CallsSound /\ Good(db) /\ db \in Tables /\ Fresh(k)
  BY DEF FreshInv, ServiceBase, IInv, TypeOK
<1>3. About(k) /\ ~Getting(k)
  BY <1>1, <1>2, HeadType
<1>4. Prepared(k)
  BY <1>1, <1>2, <1>3 DEF Fresh
<1>5. k.at \in Ids /\ row # NoId
  BY <1>1, <1>3, <1>4, ChangedByCommit DEF Prepared, About, Replaces
<1>6. row \in Ids
  BY <1>2, <1>5, ResolveRow DEF Good
<1>7. db'.rows[row] = View(c).rows[row]
  BY <1>1, <1>2, <1>6, CommittedRows DEF Deletions
<1>8. KeptRow(k, db.rows[row], View(c).rows[row])
  BY <1>1 DEF Written
<1> QED
  BY <1>7, <1>8

LEMMA StepCollapsesNothing ==
    ASSUME FreshInv, [ServiceNext]_serviceVars
    PROVE  CollapseMoved
BY ChangedByCommit DEF CollapseMoved, Written

\* Fields that an update omits keep their values: the merge with what was read, the
\* checks of the transaction and the write together change grants, locations, public
\* access and the SHA-256 only as the update says, unless another call changed a row
\* between the reads and the transaction.  A repair changes locations alone.
THEOREM OmittedAlwaysKept == ServiceSpec => OmittedFieldsKept
<1>1. FreshInv /\ [ServiceNext]_serviceVars => FreshInv'
  BY ServiceNextFresh
<1>2. FreshInv /\ [ServiceNext]_serviceVars => OmittedKept
  BY StepKeepsOmitted
<1> QED
  BY <1>1, <1>2, ServiceInitFresh, PTL DEF ServiceSpec, OmittedFieldsKept

\* A repair's collapse of duplicates commits nothing as long as they are there:
\* its registrations are refused, and nothing is written before they go through.
THEOREM CollapseChangesNothing == ServiceSpec => CollapseNeedsNoDuplicates
<1>1. FreshInv /\ [ServiceNext]_serviceVars => FreshInv'
  BY ServiceNextFresh
<1>2. FreshInv /\ [ServiceNext]_serviceVars => CollapseMoved
  BY StepCollapsesNothing
<1> QED
  BY <1>1, <1>2, ServiceInitFresh, PTL DEF ServiceSpec, CollapseNeedsNoDuplicates
=============================================================================
