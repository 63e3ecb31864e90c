--------------------------- MODULE RecordService ---------------------------
(***************************************************************************)
(* The record service (internal/objects/records) and scope repair          *)
(* (internal/objects/scoperepair) over the content catalogue.  A service   *)
(* call reads records outside any transaction, table by table, decides on  *)
(* what it read, and then runs one or several catalogue transactions, each *)
(* of which waits for the content-write lock and checks again.  Other      *)
(* calls commit in between.                                                *)
(*                                                                         *)
(* The transactions are those of module ContentStore.  A read whose result *)
(* reaches a caller or is written back (GetObject, UpdateRecord, the       *)
(* collapse of duplicates, the audit) is taken one table at a time; a read *)
(* that only decides whether a transaction is tried is one step, because   *)
(* that transaction makes the decisive check again.  A catalogue call that *)
(* filters with an authorization-aware query or after the fact selects the *)
(* same records, so one form stands for both.                              *)
(***************************************************************************)
EXTENDS ContentStore, Sequences, FiniteSets

CONSTANTS
    Catalogues,  \* the catalogues the calls may find
    Requests,    \* the service calls that may be made
    TargetURL    \* the location a repair settles on (storage probes included)

Seqs == INSTANCE SequencesExt

ServiceOps ==
    {"get", "getBySHA", "update", "register", "overwrite", "methods", "bulkMethods", "removeGrant",
     "createAlias", "delete", "bulkDelete", "deleteByChecksums", "deleteByScope", "repair"}

\* An update of access methods lists them; a slice that is nil is an empty list.
ASSUME ServiceAssumption ==
    /\ Requests # {}
    /\ Requests \subseteq [op : ServiceOps, session : Sessions, id : Ids, obj : Record,
                           targets : SUBSET Resources]
    /\ \A q \in Requests : q.op \in {"methods", "bulkMethods"} => q.obj.meths # Nil
    /\ \A v \in Catalogues : v \in Tables /\ OneOwner(v) /\ TargetsExist(v)
    /\ TargetURL \in Methods
    /\ IsFiniteSet(Ids)

VARIABLE call    \* call[c]: the service call client c runs

serviceVars == <<db, txn, lock, last, call>>

-----------------------------------------------------------------------------
(* Records as they are read. *)

Unread == [sha |-> NoSHA, size |-> 0, res |-> {}, meths |-> {}, policy |-> "none"]

NoRead == [i \in Ids |-> NoRow]

\* The tables in the order they are read for one record and for several.
ObjectTables == <<"rows", "meths", "res", "policy", "sha">>
BulkTables   == <<"rows", "meths", "sha", "res", "policy">>

Order(goal) == IF goal = "object" THEN ObjectTables ELSE BulkTables

Stored(i) == IF db.rows[i] = NoRow THEN Unread ELSE db.rows[i]

\* PublicRead: the policy row, or the absence of grants when there is none.
IsPublic(row) == row.policy = "public" \/ (row.policy = "none" /\ row.res = {})

\* Mutant: a record without grants is readable whatever its policy says.
GrantlessIsReadable(s, method, row) ==
    (method = "read" /\ IsPublic(row)) \/ HasObjectMethodAccess(s, method, row.res)

\* Public content is readable; a record whose policy is known and that has no
\* grants left is not; otherwise one granting resource is enough.
HasObjectMethod(s, method, row) ==
    \/ method = "read" /\ IsPublic(row)
    \/ /\ ~(method = "read" /\ row.policy # "none" /\ row.res = {})
       /\ HasObjectMethodAccess(s, method, row.res)

\* Every granting resource must allow the method.
RequireAllObjectMethod(s, method, row) == HasMethodAccess(s, method, row.res)

\* The merged record of the rows that hold the same content.
CollapseCanonicalGroup(seen, ids) ==
    LET some == CHOOSE i \in ids : \A j \in ids : seen[j].size # 0 => seen[i].size # 0
    IN  [sha    |-> seen[some].sha,
         size   |-> seen[some].size,
         res    |-> UNION {seen[i].res : i \in ids},
         meths  |-> UNION {seen[i].meths : i \in ids},
         policy |-> IF \E i \in ids : IsPublic(seen[i]) THEN "public"
                    ELSE IF \E i \in ids : seen[i].policy # "none" THEN "private"
                    ELSE "none"]

\* Rows are ordered by creation; the oldest gives the merged record its id.
Oldest(ids) == CHOOSE i \in ids : TRUE

Given(values) == IF values = {} THEN Nil ELSE values

\* Mutant: grants that the update omits are cleared.
GrantsCleared(existing, update, id) ==
    [update EXCEPT !.id = id, !.sha = IF existing.sha = NoSHA THEN @ ELSE existing.sha,
                   !.size = existing.size, !.res = IF @ = Nil THEN {} ELSE @,
                   !.meths = IF @ = Nil THEN Given(existing.meths) ELSE @,
                   !.public = IsPublic(existing)]

\* What an update omits is taken from the record as it was read.
MergeRecordUpdate(existing, update, id) ==
    [update EXCEPT !.id = id, !.sha = IF existing.sha = NoSHA THEN @ ELSE existing.sha,
                   !.size = existing.size,
                   !.res = IF @ = Nil THEN Given(existing.res) ELSE @,
                   !.meths = IF @ = Nil THEN Given(existing.meths) ELSE @,
                   !.public = IsPublic(existing)]

-----------------------------------------------------------------------------
(* Calls. *)

NoObject == [id |-> Oldest(Ids), sha |-> NoSHA, size |-> 0, res |-> Nil, meths |-> Nil,
             aliases |-> {}, public |-> FALSE]

\* An element of a transaction: an id and the record it comes with.
Elem(id, obj) == [id |-> id, obj |-> obj]

\* A transaction a call submits and the elements still to process.
Transaction(op, elems, targets) == [op |-> op, elems |-> elems, targets |-> targets]

Ready == [pc |-> "ready", req |-> CHOOSE q \in Requests : TRUE, goal |-> "none", at |-> NoId,
          sha |-> NoSHA, step |-> 0, seen |-> NoRead, fix |-> NoRead, todo |-> <<>>,
          ok |-> FALSE, allowed |-> FALSE, moved |-> {}]

Ended(k, ok) ==
    [Ready EXCEPT !.pc = "done", !.req = k.req, !.goal = k.goal, !.ok = ok,
                  !.allowed = k.allowed]

Reads(k, goal, at, sha) ==
    [k EXCEPT !.pc = "reading", !.goal = goal, !.at = at, !.sha = sha, !.seen = NoRead,
              !.step = 1, !.allowed = FALSE]

Submits(k, transactions) ==
    [k EXCEPT !.pc = "writing", !.todo = transactions, !.seen = NoRead, !.step = 0]

\* A repair goes through the records it can fix, skipping those that fail.
NextFix(k) ==
    LET left == {i \in Ids : k.fix[i] # NoRow}
    IN  IF left = {} THEN Ended(k, TRUE)
        ELSE Reads(k, "object", Oldest(left), NoSHA)

Fixed(k) == NextFix([k EXCEPT !.fix[k.at] = NoRow, !.todo = <<>>])

Fails(k) == IF k.req.op = "repair" /\ k.goal \in {"object", "family"} THEN Fixed(k)
            ELSE Ended(k, FALSE)

\* Apply audits once the collapse has gone through.
Succeeds(k) ==
    CASE k.req.op = "repair" /\ k.goal = "group" -> Reads([k EXCEPT !.todo = <<>>], "audit", NoId, NoSHA)
      [] k.req.op = "repair" /\ k.goal \in {"object", "family"} -> Fixed(k)
      [] OTHER -> Ended(k, TRUE)

-----------------------------------------------------------------------------
(* Reading. *)

\* The rows a read is about.
Target(k) ==
    CASE k.goal = "object" -> {Resolve(db, k.at)} \ {NoId}
      [] k.goal = "family" -> Owners(db, k.sha)
      [] OTHER -> {i \in Ids : ResourcesOf(db, i) \cap k.req.targets # {}}

\* One statement: the main rows, or one column of the rows found by then.
Fetch(k, table) ==
    IF table = "rows"
      THEN [i \in Ids |-> IF i \in Target(k) THEN [Unread EXCEPT !.size = Stored(i).size] ELSE NoRow]
      ELSE [i \in Ids |-> IF k.seen[i] = NoRow THEN NoRow
                          ELSE [k.seen[i] EXCEPT ![table] = Stored(i)[table]]]

Found(k) == {i \in Ids : k.seen[i] # NoRow}

\* The record that was read is replaced by itself with the fields of the update.
WritesBack(k, existing, update) ==
    Submits(k, <<Transaction("replace", {Elem(k.at, MergeRecordUpdate(existing, update, k.at))}, {})>>)

\* UpdateRecord: the size and the SHA-256 stay.
UpdateRecord(k, existing) ==
    LET update == k.req.obj
    IN  IF \/ update.size \notin {0, existing.size}
           \/ update.sha # NoSHA /\ existing.sha # NoSHA /\ update.sha # existing.sha
          THEN Fails(k)
          ELSE WritesBack(k, existing, update)

\* A repair's fix, the record it audited with the location it settles on, is merged
\* the same way.  Nothing is compared: the record keeps the SHA-256 it has by now.
RepairRecord(k, existing) ==
    WritesBack(k, existing, [NoObject EXCEPT !.sha = k.fix[k.at].sha, !.res = Given(k.fix[k.at].res),
                                           !.meths = {TargetURL}])

Updated(k, existing) ==
    IF k.req.op = "repair" THEN RepairRecord(k, existing) ELSE UpdateRecord(k, existing)

\* The prepared view of the content and the check on it.
ContentAndCheckAccess(k, ids) ==
    LET view   == CollapseCanonicalGroup(k.seen, ids)
        method == IF k.req.op \in {"get", "getBySHA"} THEN "read" ELSE "update"
    IN  IF ids = {} \/ ~HasObjectMethod(k.req.session, method, view) THEN Fails(k)
        ELSE IF method = "read" THEN Ended(k, TRUE)
        ELSE Updated(k, view)

\* The records that hold the same content in the same project.
Group(k, i) == {j \in Found(k) : k.seen[j].sha = k.seen[i].sha /\ k.seen[j].res = k.seen[i].res}

\* The records of one project alone that are not the only ones of their content.
Duplicates(k) ==
    {i \in Found(k) : /\ k.seen[i].sha # NoSHA /\ Cardinality(k.seen[i].res) = 1
                      /\ Group(k, i) # {i}}

\* CollapseProjectChecksumDuplicates: register the merged records, make the other
\* ids their aliases, delete the other rows, in transactions one after the other.
Collapsed(k) ==
    LET survivor(i) == Oldest(Group(k, i))
        element(id, i) ==
            Elem(id, MergeRecordUpdate(CollapseCanonicalGroup(k.seen, Group(k, i)), NoObject, survivor(i)))
        others == {i \in Duplicates(k) : i # survivor(i)}
        order  == Seqs!SetToSeq(others)
    IN  IF \E i \in Found(k) : ~HasObjectMethod(k.req.session, "update", k.seen[i])
          THEN Fails(k)
        ELSE IF Duplicates(k) = {} THEN Succeeds(k)
        ELSE Submits(k, <<Transaction("register", {element(survivor(i), i) : i \in Duplicates(k)}, {})>>
                        \o [n \in DOMAIN order |->
                              Transaction("createAlias", {element(order[n], order[n])}, {})]
                        \o <<Transaction("bulkDelete", {element(i, i) : i \in others}, {})>>)

\* The audit: readable records of the project alone whose locations are not the
\* target one can be fixed.
Audited(k) ==
    NextFix([k EXCEPT !.fix =
      [i \in Ids |->
         IF /\ i \in Found(k)
            /\ k.seen[i].sha # NoSHA /\ k.seen[i].res = k.req.targets
            /\ HasObjectMethod(k.req.session, "read", k.seen[i])
            /\ k.seen[i].meths \notin {{}, {TargetURL}}
           THEN k.seen[i] ELSE NoRow]])

\* What follows once the last table is read.
Conclude(k) ==
    CASE k.goal = "object" ->
           IF Found(k) = {} THEN Fails(k)
           ELSE LET sha == k.seen[CHOOSE i \in Found(k) : TRUE].sha
                IN  IF sha = NoSHA THEN ContentAndCheckAccess(k, Found(k))
                    ELSE Reads(k, "family", k.at, sha)
      [] k.goal = "family" -> ContentAndCheckAccess(k, {i \in Found(k) : k.seen[i].sha = k.sha})
      [] k.goal = "group"  -> Collapsed(k)
      [] k.goal = "audit"  -> Audited(k)

-----------------------------------------------------------------------------
(* The calls that decide on one read: the transactions a request leads to, or   *)
(* none when it is refused.  v is the catalogue as it was read.                 *)

RowOf(v, id) == IF Resolve(v, id) = NoId THEN NoRow ELSE v.rows[Resolve(v, id)]

Refused == <<Transaction("refused", {}, {})>>

\* The transaction over what is left of the elements; without any, nothing to do.
Filtered(op, elems, targets) == IF elems = {} THEN <<>> ELSE <<Transaction(op, elems, targets)>>

When(cond, transactions) == IF cond THEN transactions ELSE Refused

RegisterPlan(v, q) ==
    When(/\ \A i \in Owners(v, q.obj.sha) :
              q.obj.sha # NoSHA => HasObjectMethod(q.session, "read", v.rows[i])
         /\ HasObjectMethodAccess(q.session, "create", ObjectResources(q.obj)),
         <<Transaction("register", {Elem(q.obj.id, q.obj)}, {})>>)

\* BulkOverwriteObjects for one candidate: the target is the row of that id or the
\* only row of the project with that SHA-256, and is then registered.
OverwritePlan(v, q) ==
    LET obj     == q.obj
        bySHA   == {i \in Owners(v, obj.sha) : obj.sha # NoSHA /\ q.targets \subseteq v.rows[i].res}
        byId    == v.rows[obj.id] # NoRow
        target  == IF ~byId /\ bySHA # {} THEN Oldest(bySHA) ELSE obj.id
        matched == v.rows[target] # NoRow
        may(verb, resources) == HasObjectMethodAccess(q.session, verb, resources)
    IN  When(/\ q.targets \subseteq ObjectResources(obj)
             /\ v.alias[obj.id] \in {NoId, obj.id}
             /\ IF byId THEN q.targets \subseteq v.rows[obj.id].res ELSE Cardinality(bySHA) < 2
             /\ IF matched
                  THEN /\ may("update", q.targets) /\ may("update", ObjectResources(obj))
                       /\ RequireAllObjectMethod(q.session, "update", v.rows[target])
                  ELSE may("create", q.targets) /\ may("create", ObjectResources(obj)),
             <<Transaction("register", {Elem(target, [obj EXCEPT !.id = target])}, {})>>)

UpdateMethodsPlan(v, q) ==
    LET row == IF q.op = "bulkMethods" THEN v.rows[q.id] ELSE RowOf(v, q.id)
    IN  When(row # NoRow /\ RequireAllObjectMethod(q.session, "update", row),
             <<Transaction(q.op, {Elem(q.id, q.obj)}, {})>>)

RemoveGrantPlan(v, q) ==
    LET row == RowOf(v, q.id)
    IN  When(row # NoRow /\ HasObjectMethod(q.session, "update", row) /\ q.targets \subseteq row.res,
             <<Transaction("removeGrant", {Elem(q.id, q.obj)}, q.targets)>>)

CreateAliasPlan(v, q) ==
    LET row == RowOf(v, q.obj.id)
    IN  When(row # NoRow /\ HasObjectMethod(q.session, "update", row),
             <<Transaction("createAlias", {Elem(q.id, q.obj)}, {})>>)

DeletePlan(v, q) ==
    LET row == RowOf(v, q.id)
    IN  When(row # NoRow /\ RequireAllObjectMethod(q.session, "delete", row),
             <<Transaction("delete", {Elem(q.id, q.obj)}, {})>>)

\* An alias is a conflict; unknown ids and rows the session may not delete are skipped.
BulkDeletePlan(v, q) ==
    LET row == v.rows[q.id]
    IN  When(row # NoRow \/ v.alias[q.id] = NoId,
             Filtered("bulkDelete",
                      {e \in {Elem(q.id, q.obj)} :
                         row # NoRow /\ RequireAllObjectMethod(q.session, "delete", row)}, {}))

DeleteByChecksumsPlan(v, q) ==
    Filtered("bulkDelete",
             {Elem(i, q.obj) : i \in {i \in Owners(v, q.obj.sha) :
                RequireAllObjectMethod(q.session, "delete", v.rows[i])}}, {})

DeleteByScopePlan(v, q) ==
    When(HasObjectMethodAccess(q.session, "delete", q.targets),
         Filtered("removeGrantBulk",
                  {Elem(i, q.obj) : i \in {i \in Ids :
                     /\ ResourcesOf(v, i) \cap q.targets # {}
                     /\ HasObjectMethod(q.session, "delete", v.rows[i])}}, q.targets))

Plan(v, q) ==
    CASE q.op = "register"                   -> RegisterPlan(v, q)
      [] q.op = "overwrite"                  -> OverwritePlan(v, q)
      [] q.op \in {"methods", "bulkMethods"} -> UpdateMethodsPlan(v, q)
      [] q.op = "removeGrant"                -> RemoveGrantPlan(v, q)
      [] q.op = "createAlias"                -> CreateAliasPlan(v, q)
      [] q.op = "delete"                     -> DeletePlan(v, q)
      [] q.op = "bulkDelete"                 -> BulkDeletePlan(v, q)
      [] q.op = "deleteByChecksums"          -> DeleteByChecksumsPlan(v, q)
      [] q.op = "deleteByScope"              -> DeleteByScopePlan(v, q)

Planned(k, plan) ==
    IF plan = Refused THEN Ended(k, FALSE)
    ELSE IF plan = <<>> THEN Ended(k, TRUE)
    ELSE Submits(k, plan)

-----------------------------------------------------------------------------
(* Steps. *)

\* Whether a row of the read gives the session access as the catalogue stands: it is
\* public, or one of its grants allows it.  One that has been deleted since the
\* first statement counts as giving it.
Opens(s, i) ==
    db.rows[i] = NoRow \/ EffectivePublic(db, i) \/ CanReadContent(s, db.rows[i].res)

Continues(c, k) == call' = [call EXCEPT ![c] = k]

\* A request arrives.  Reads come first; the other calls decide on one read.
Request(c) ==
    /\ call[c].pc = "ready"
    /\ \E q \in Requests :
         LET k == [Ready EXCEPT !.req = q]
         IN  Continues(c, CASE q.op \in {"get", "update"} -> Reads(k, "object", q.id, NoSHA)
                         [] q.op = "getBySHA" -> Reads(k, "family", NoId, q.obj.sha)
                         [] q.op = "repair"   -> Reads(k, "group", NoId, NoSHA)
                         [] OTHER             -> Planned(k, Plan(db, q)))
    /\ UNCHANGED vars

\* One SELECT outside any transaction.
Read(c) ==
    /\ call[c].pc = "reading"
    /\ LET k == call[c]
           r == [k EXCEPT !.seen = Fetch(k, Order(k.goal)[k.step]), !.step = @ + 1]
           n == [r EXCEPT !.allowed = @ \/ \E i \in Found(r) : Opens(k.req.session, i)]
       IN  Continues(c, IF k.step = Len(Order(k.goal)) THEN Conclude(n) ELSE n)
    /\ UNCHANGED vars

Submit(c) ==
    /\ call[c].pc = "writing"
    /\ Begin(c)
    /\ UNCHANGED call

\* The lock is granted: ContentStore's Lock for the call's own operation and session.
Acquire(c) ==
    /\ txn[c].pc = "waiting"
    /\ LockFree(c)
    /\ lock' = c
    /\ LET t == Head(call[c].todo)
       IN  txn' = [txn EXCEPT ![c].pc = "active", ![c].op = t.op,
                              ![c].session = call[c].req.session, ![c].targets = t.targets]
    /\ UNCHANGED <<db, last, call>>

\* What one element does to the transaction's view, if its checks pass.
Effect(c, t, e) ==
    LET v == View(c)
        s == txn[c].session
    IN  CASE t.op = "register" ->
               RegisterOK(v, s, e.obj) /\ Writes(c, Registered(v, e.obj), {})
          [] t.op = "replace" ->
               ReplaceOK(v, s, e.obj) /\ Writes(c, Replaced(v, e.obj), {})
          [] t.op = "delete" ->
               DeleteOK(v, s, e.id) /\ Writes(c, v, {Resolve(v, e.id)})
          [] t.op = "bulkDelete" ->
               BulkDeleteOK(v, s, e.id) /\ Writes(c, v, {Resolve(v, e.id)} \ {NoId})
          [] t.op = "createAlias" ->
               /\ CreateAliasOK(v, s, e.id, e.obj.id)
               /\ Writes(c, [v EXCEPT !.alias = InsertAliases(@, {e.id}, e.obj.id)], {})
          [] t.op \in {"methods", "bulkMethods"} ->
               UpdateMethodsOK(v, s, e.id) /\ Writes(c, WithMethods(v, e.id, e.obj.meths), {})
          [] t.op = "removeGrant" ->
               \E r \in t.targets : RemoveGrantOK(v, s, e.id, r) /\ Writes(c, WithoutGrant(v, e.id, r), {})
          [] t.op = "removeGrantBulk" ->
               IF Resolve(v, e.id) = NoId THEN Writes(c, v, {})
               ELSE /\ EnsureNoLegacyDuplicate(v, Resolve(v, e.id))
                    /\ Writes(c, WithoutGrants(v, s, e.id, t.targets), {})

\* The transaction processes one more element.
Process(c) ==
    /\ txn[c].pc = "active"
    /\ LET t == Head(call[c].todo)
       IN  /\ Element(c, t.op)
           /\ \E e \in t.elems :
                /\ Effect(c, t, e)
                /\ Continues(c, [call[c] EXCEPT !.todo[1].elems = @ \ {e}])

\* The other calls that are under way see the rows change.
Moves(c, k) ==
    call' = [d \in Clients |->
               IF d = c THEN k
               ELSE IF call[d].pc \notin {"reading", "writing"} THEN call[d]
               ELSE [call[d] EXCEPT !.moved = @ \cup {i \in Ids : db'.rows[i] # db.rows[i]}]]

CommitTransaction(c) ==
    /\ txn[c].pc = "active"
    /\ Head(call[c].todo).elems = {}
    /\ Commit(c)
    /\ LET k == [call[c] EXCEPT !.todo = Tail(@)]
       IN  Moves(c, IF k.todo = <<>> THEN Succeeds(k) ELSE k)

\* An element is refused, or the database or the connection fails.
FailTransaction(c) ==
    /\ call[c].pc = "writing"
    /\ Rollback(c)
    /\ Continues(c, Fails(call[c]))

ServiceInit ==
    /\ db \in Catalogues
    /\ txn = [c \in Clients |-> Idle]
    /\ lock = NoId
    /\ last = [op |-> "delete", session |-> Idle.session]
    /\ call = [c \in Clients |-> Ready]

ServiceStep(c) ==
    Read(c) \/ Submit(c) \/ Process(c) \/ CommitTransaction(c) \/ FailTransaction(c)

ServiceNext == \E c \in Clients : Request(c) \/ Acquire(c) \/ ServiceStep(c)

ServiceSpec == ServiceInit /\ [][ServiceNext]_serviceVars

\* Of the calls under way one always goes on, and the database grants the lock when
\* it is free; requests need not arrive, and giving up on the lock is not forced.
Running(c) == Acquire(c) \/ (txn[c].pc # "waiting" /\ ServiceStep(c))

FairService == ServiceSpec /\ WF_<<call, txn>>(\E c \in Clients : Running(c))

-----------------------------------------------------------------------------
(* Properties. *)

\* GetObject returns a record only if one of the rows it is merged from was readable
\* for the session in the catalogue that some statement of the read saw: hydrating
\* rows table by table while other calls change grants and policy never combines
\* into an access no catalogue would have given.  A row deleted during the read is
\* the exception: its grants and policy are then missing and it counts as an
\* unscoped record.
ReadsAuthorized ==
    \A c \in Clients :
      call[c].pc = "done" /\ call[c].ok /\ call[c].req.op \in {"get", "getBySHA"} => call[c].allowed

\* The commit of the update client c works on (UpdateRecord, or a repair's fix).
Replaces(c) ==
    /\ lock = c /\ lock' # c /\ db' # db
    /\ call[c].pc = "writing" /\ Head(call[c].todo).op = "replace"

OmittedKept ==
    \A c \in Clients :
      Replaces(c) /\ call[c].moved = {} =>
        LET k   == call[c]
            row == Resolve(db, k.at)
            old == db.rows[row]
            new == db'.rows[row]
        IN  /\ k.req.op = "repair" \/ k.req.obj.res = Nil => new.res = old.res
            /\ k.req.op # "repair" /\ k.req.obj.meths = Nil => new.meths = old.meths
            /\ IsPublic(new) <=> IsPublic(old)
            /\ new.sha = old.sha \/ old.sha = NoSHA

\* Fields an update omits keep their values, unless another call changed a row
\* between the update's reads and its transaction (then the values that were
\* read are written back): grants and public access only change when the update
\* names them, locations likewise, and a repair changes locations alone.
OmittedFieldsKept == [][OmittedKept]_serviceVars

CollapseMoved ==
    \A c \in Clients :
      (/\ lock = c /\ lock' # c /\ db' # db
       /\ call[c].req.op = "repair" /\ call[c].goal = "group")
      => call[c].moved # {}

\* A repair's collapse changes nothing as long as the duplicates it was called for
\* are there: registerContentTx refuses content with several rows.  It only
\* commits when another call has removed the duplicates after they were read.
CollapseNeedsNoDuplicates == [][CollapseMoved]_serviceVars

Busy(c) == call[c].pc \in {"reading", "writing"}

\* Every service call ends: none leaves the content-write lock behind for the others
\* to wait on, and a repair goes through its records once.
EveryServiceCallEnds == (\E c \in Clients : Busy(c)) ~> (\A c \in Clients : ~Busy(c))

=============================================================================
