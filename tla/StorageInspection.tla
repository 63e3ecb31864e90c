-------------------------- MODULE StorageInspection --------------------------
(***************************************************************************)
(* Inspection of a project's S3 storage: the bucket inventory, the         *)
(* validation of recorded locations against it, the probe of single        *)
(* objects, and the deletion of objects by URL                             *)
(* (internal/projects/storage over internal/storage/s3).                   *)
(*                                                                         *)
(* Objects come and go while a request reads pages, the provider may       *)
(* refuse a call, answer a malformed page, or end a listing early, and     *)
(* all requests of the process share the permits of one limiter.           *)
(*                                                                         *)
(* Keys are numbered in the order S3 lists them.  An object is its size:   *)
(* a rewritten object has another one, so that it stands for ETag and      *)
(* modification time in page fingerprints as well.                         *)
(***************************************************************************)
EXTENDS Integers, FiniteSets, Sequences, FiniteSetsExt

CONSTANTS
    Requests,         \* concurrent requests
    N,                \* keys 1..N of the bucket
    Sizes,            \* sizes an object may have
    InProject,        \* keys under the prefix of the project's scope
    Starting,         \* Starting[k]: keys whose name starts with that of k
    DirOf,            \* DirOf[k]: the directory of k
    InDir,            \* InDir[d]: keys whose name starts with the name of d
    PageSize,         \* listPageSize
    PageAttempts,     \* defaultListPageMaxAttempts
    HeadAttempts,     \* defaultHeadMaxAttempts
    ExactAttempts,    \* defaultExactProbeMaxAttempts
    TerminalReplays,  \* defaultInventoryTerminalReplays
    Threshold,        \* listCoalesceThreshold
    FallbackLimit,    \* listFallbackObjectLimit
    Permits,          \* capacity of the probe limiter
    MaxChanges,       \* bound: writes and deletions by others (w.changes)
    MaxFaults,        \* bound: refused or malformed answers
    MaxShort,         \* bound: listings the provider ends early
    Workloads         \* the requests and the bucket a behaviour starts with

Keys == 1..N

\* An object that is not there, and the size nobody knows or expects.
Absent == -1
Unknown == -2

\* A location that is asked about: a key, or 0 for one that is refused at once,
\* and the size it should have.
Targets == [key : 0..N, expect : Int]

\* A request: a bulk probe names locations, a deletion keys.
Asked(kinds, items) ==
    [kind : kinds, scoped : BOOLEAN, mode : {"items", "summary", "exists"}, heads : BOOLEAN,
     targets : SUBSET Targets, items : items]

ASSUME InspectionAssumption ==
    /\ N \in Nat \ {0} /\ Sizes \subseteq Nat /\ 0 \in Sizes
    /\ InProject \subseteq Keys
    /\ Starting \in [Keys -> SUBSET Keys]
    /\ \A k \in Keys : k \in Starting[k] /\ k \in InDir[DirOf[k]] /\ InDir[DirOf[k]] \subseteq Keys
    /\ {PageSize, PageAttempts, HeadAttempts, ExactAttempts, Permits}
          \subseteq Nat \ {0}
    /\ TerminalReplays \in Nat /\ TerminalReplays >= 2
    /\ {MaxChanges, MaxFaults, MaxShort} \subseteq Nat
    \* The code retries an early end this often and no more.
    /\ MaxShort < ExactAttempts /\ MaxShort < TerminalReplays
    /\ \A w \in Workloads :
         /\ w.changes \in 0..MaxChanges
         /\ w.store \in [Keys -> Sizes \cup {Absent}]
         /\ \A r \in Requests :
              IF w.asks[r].kind = "probe"
                THEN w.asks[r] \in Asked({"probe"}, Seq(Targets)) /\ Len(w.asks[r].items) <= N
                ELSE w.asks[r] \in Asked({"none", "inspect", "validate", "delete"}, Seq(0..N))

VARIABLES
    store,    \* the bucket: size of every key, or Absent
    permits,  \* free permits of probeLimiter
    request,  \* what every request asks for, its stage and its answer
    job,      \* job[r][j]: the provider calls of request r
    budget,   \* what is left of the three bounds
    seen      \* history: states of each key while the request ran

vars == <<store, permits, request, job, budget, seen>>

------------------------------------------------------------------------------
(***************************************************************************)
(* The listing and HEAD jobs of a request.  Job 0 is the inventory of a    *)
(* prefix; job k is the exact listing or the HEAD of key k, and in a bulk  *)
(* probe the HEAD of the k-th item.                                        *)
(***************************************************************************)
NoItems == [k \in Keys |-> Absent]
Found(items) == {k \in Keys : items[k] # Absent}

NoPage == [objects |-> {}, truncated |-> TRUE]

NoJob == [st |-> "none", op |-> "list", under |-> {}, one |-> FALSE, key |-> 0,
          token |-> 0, items |-> NoItems, tries |-> 1, round |-> 1,
          first |-> NoPage, replays |-> 0, out |-> "none"]

NoJobs == [j \in 0..N |-> NoJob]

Listing(under, one, key) ==
    [NoJob EXCEPT !.st = "wait", !.under = under, !.one = one, !.key = key]

Head1(key) == [NoJob EXCEPT !.st = "wait", !.op = "head", !.key = key]

Replaying(b) == b.first # NoPage

Smallest(n, S) == {k \in S : Cardinality({x \in S : x < k}) < n}

\* Keys ListObjectsV2 still has to return after the continuation token.
Rest(b) == {k \in b.under : store[k] # Absent /\ k > b.token}

PageOf(keys, truncated) ==
    [objects |-> {<<k, store[k]>> : k \in keys}, truncated |-> truncated]

TruePage(b) ==
    LET keys == Smallest(IF b.one THEN 1 ELSE PageSize, Rest(b))
    IN  PageOf(keys, keys # Rest(b))

\* A listing the provider ends early: the last page lacks its tail.
ShortPages(b) ==
    {PageOf(Smallest(n, Rest(b)), FALSE) :
        n \in 0..(Cardinality(TruePage(b).objects) - 1)}

\* appendListPageObjects: the first entry of a key stays.
Append1(items, page) ==
    [k \in Keys |->
        IF items[k] = Absent /\ \E o \in page.objects : o[1] = k
        THEN (CHOOSE o \in page.objects : o[1] = k)[2]
        ELSE items[k]]

\* Mutant: a probe that misses its key is believed at once.
ConcludeOnce(b) == [b EXCEPT !.st = "over", !.out = "ok"]

\* listPagesWithExactProbeRetry: a probe of one key that misses it lists
\* again, from the start, until its attempts are used up.
Conclude(b) ==
    IF b.key # 0 /\ b.items[b.key] = Absent /\ b.round < ExactAttempts
    THEN [Listing(b.under, b.one, b.key) EXCEPT !.round = b.round + 1]
    ELSE [b EXCEPT !.st = "over", !.out = "ok"]

\* listPageFingerprint: the objects and the truncated flag, not the token.
SamePage(page, other) == page = other

\* Mutant: the replayed page is not compared with the first.
ReplayedUnread(b, page) ==
    IF b.replays + 2 = TerminalReplays
    THEN Conclude(b)
    ELSE [b EXCEPT !.st = "wait", !.tries = 1, !.replays = @ + 1]

\* replayTerminalPage
Replayed(b, page) ==
    IF ~SamePage(page, b.first)
    THEN [b EXCEPT !.st = "over", !.out = "incomplete"]
    ELSE IF b.replays + 2 = TerminalReplays
         THEN Conclude(b)
         ELSE [b EXCEPT !.st = "wait", !.tries = 1, !.replays = @ + 1]

\* listPages, one page further.
Listed(b, page) ==
    LET c == [b EXCEPT !.items = Append1(@, page), !.tries = 1]
    IN  CASE page.truncated ->
                [c EXCEPT !.st = "wait",
                          !.token = Max({o[1] : o \in page.objects})]
          [] ~page.truncated /\ b.one -> Conclude(c)
          [] OTHER -> [c EXCEPT !.st = "wait", !.first = page]

AfterPage(b, page) == IF Replaying(b) THEN Replayed(b, page) ELSE Listed(b, page)

\* isRetryableListPageError: transient errors and malformed pages.
Retries(b, transient) ==
    transient /\ b.tries < (IF b.op = "head" THEN HeadAttempts ELSE PageAttempts)

\* What Inventory makes of a listing that failed.
FailedAs(b) == IF Replaying(b) \/ Found(b.items) # {} THEN "incomplete" ELSE "error"

AfterError(b, transient) ==
    IF Retries(b, transient)
    THEN [b EXCEPT !.st = "wait", !.tries = @ + 1]
    ELSE [b EXCEPT !.st = "over", !.out = FailedAs(b)]

AfterHead(b) ==
    IF store[b.key] = Absent
    THEN [b EXCEPT !.st = "over", !.out = "missing"]
    ELSE [b EXCEPT !.st = "over", !.out = "ok",
                   !.items = [@ EXCEPT ![b.key] = store[b.key]]]

------------------------------------------------------------------------------
(***************************************************************************)
(* The answers.  A verdict is what a caller is told of one location.       *)
(***************************************************************************)
Verdict(key, expect, status, size, check) ==
    [key |-> key, expect |-> expect, status |-> status, size |-> size,
     check |-> check]

\* validationErrorStatus
Unchecked(expect) == IF expect = Unknown THEN "not_requested" ELSE "unverifiable"

\* validateInventory and validateProbe, of the size
Compared(expect, size) ==
    CASE expect = Unknown -> "not_requested"
      [] expect = size    -> "matched"
      [] OTHER            -> "mismatched"

Judged(t, b) ==
    CASE b.out \in {"ok", "missing"} /\ b.items[t.key] = Absent ->
            Verdict(t.key, t.expect, "not_found", Unknown, Unchecked(t.expect))
      [] b.out = "ok" /\ b.items[t.key] # Absent ->
            Verdict(t.key, t.expect, "present", b.items[t.key],
                    Compared(t.expect, b.items[t.key]))
      [] OTHER ->
            Verdict(t.key, t.expect, "error", Unknown, Unchecked(t.expect))

\* probeOne served from the request's cache compares the size again, with
\* zero for a probe that found nothing or failed.
FromCache(v) ==
    [v EXCEPT !.check = Compared(v.expect, IF v.status = "present" THEN v.size ELSE 0)]

\* A location that is refused before any call: not an S3 URL, no credential,
\* a bucket the caller may not see.
RefusedVerdict(t) == Verdict(0, t.expect, "refused", Unknown, Unchecked(t.expect))

Answer(q, listing, items, verdicts) ==
    [q EXCEPT !.stage = "done", !.listing = listing, !.items = items,
              !.verdicts = verdicts]

KeysOf(targets) == {t.key : t \in targets} \ {0}

\* groupValidationTargets, the groups runCoalescedValidation is called for
Dense(targets) ==
    {d \in {DirOf[k] : k \in KeysOf(targets)} :
        Cardinality({k \in KeysOf(targets) : DirOf[k] = d}) >= Threshold}

------------------------------------------------------------------------------
Idle(w) ==
    [ask |-> w, stage |-> "idle", groups |-> {}, dir |-> "", matched |-> NoItems,
     listing |-> "none", items |-> NoItems, verdicts |-> {}, cached |-> {}]

Init ==
    \E w \in Workloads :
        /\ store = w.store
        /\ permits = Permits
        /\ request = [r \in Requests |-> Idle(w.asks[r])]
        /\ job = [r \in Requests |-> NoJobs]
        /\ budget = [changes |-> w.changes, faults |-> MaxFaults, short |-> MaxShort]
        /\ seen = [r \in Requests |-> [k \in Keys |-> {}]]

Active(r) == request[r].stage \notin {"idle", "done"}

\* The bucket changes under the requests that are running.
Change(k, v) ==
    /\ store' = [store EXCEPT ![k] = v]
    /\ seen' = [r \in Requests |->
                   IF Active(r) THEN [seen[r] EXCEPT ![k] = @ \cup {v}] ELSE seen[r]]

\* Somebody else writes or deletes an object.
Others(k, v) ==
    /\ budget.changes > 0 /\ store[k] # v
    /\ \E r \in Requests : Active(r)
    /\ budget' = [budget EXCEPT !.changes = @ - 1]
    /\ Change(k, v)
    /\ UNCHANGED <<permits, request, job>>

\* The scope of the project is granted, configured and on an S3 bucket.
resolveScope(a) == a.scoped

targetAllowed(k) == k \in InProject

\* The stage and the jobs of request r after a step that calls nobody.
Advance(r, q, jobs) ==
    /\ request' = [request EXCEPT ![r] = q]
    /\ job' = [job EXCEPT ![r] = jobs]
    /\ UNCHANGED <<store, permits, budget>>

\* runExactValidation starts a listing for every key still unresolved.
ExactJobs(q) ==
    [j \in 0..N |-> IF j \in KeysOf(q.ask.targets) \ Found(q.matched)
                    THEN Listing(Starting[j], TRUE, j) ELSE NoJob]

\* ValidateInventoryObjects between two of its parts: the next dense group,
\* or the exact listings.
Validation(r, q) ==
    \/ \E d \in q.groups :
          Advance(r, [q EXCEPT !.stage = "group", !.groups = @ \ {d}, !.dir = d],
                  [NoJobs EXCEPT ![0] = Listing(InDir[d], FALSE, 0)])
    \/ /\ q.groups = {}
       /\ Advance(r, [q EXCEPT !.stage = "exact"], ExactJobs(q))

Begin(r) ==
    LET q == request[r]
        a == q.ask
    IN  /\ q.stage = "idle" /\ a.kind # "none"
        /\ seen' = [seen EXCEPT ![r] = [k \in Keys |-> {store[k]}]]
        /\ \/ /\ a.kind = "inspect" /\ resolveScope(a)
              /\ Advance(r, [q EXCEPT !.stage = "list"],
                         [NoJobs EXCEPT ![0] = Listing(InProject, a.mode = "exists", 0)])
           \/ /\ a.kind = "inspect" /\ ~resolveScope(a)
              /\ Advance(r, Answer(q, "failed", NoItems, {}), NoJobs)
           \/ /\ a.kind = "validate"
              /\ Validation(r, [q EXCEPT !.groups = Dense(a.targets)])
           \/ /\ a.kind = "probe"
              /\ Advance(r, [q EXCEPT !.stage = "probe"], NoJobs)
           \/ /\ a.kind = "delete" /\ resolveScope(a)
              /\ Advance(r, [q EXCEPT !.stage = "delete"], NoJobs)
           \/ /\ a.kind = "delete" /\ ~resolveScope(a)
              /\ Advance(r, Answer(q, "none", NoItems,
                            {Verdict(k, Unknown, "error", Unknown, "not_requested") :
                                k \in {a.items[i] : i \in DOMAIN a.items}}), NoJobs)

------------------------------------------------------------------------------
(***************************************************************************)
(* Calls to the provider.  Every attempt takes a permit for its call only. *)
(***************************************************************************)
acquireProbe(r, j) ==
    /\ job[r][j].st = "wait" /\ permits > 0
    /\ permits' = permits - 1
    /\ job' = [job EXCEPT ![r][j].st = "call"]
    /\ UNCHANGED <<store, request, budget, seen>>

Release(r, j, b, cost) ==
    /\ permits' = permits + 1
    /\ job' = [job EXCEPT ![r][j] = b]
    /\ budget' = cost
    /\ UNCHANGED <<store, request, seen>>

ListPage(r, j) ==
    /\ job[r][j].st = "call" /\ job[r][j].op = "list"
    /\ Release(r, j, AfterPage(job[r][j], TruePage(job[r][j])), budget)

ListEndsEarly(r, j) ==
    /\ job[r][j].st = "call" /\ job[r][j].op = "list" /\ budget.short > 0
    /\ \E page \in ShortPages(job[r][j]) :
          Release(r, j, AfterPage(job[r][j], page), [budget EXCEPT !.short = @ - 1])

HeadObject(r, j) ==
    /\ job[r][j].st = "call" /\ job[r][j].op = "head"
    /\ Release(r, j, AfterHead(job[r][j]), budget)

\* Mutant: an error returns without giving the permit back.
FailsWithPermit(r, j) ==
    /\ job[r][j].st = "call" /\ budget.faults > 0
    /\ \E transient \in BOOLEAN :
          job' = [job EXCEPT ![r][j] = AfterError(job[r][j], transient)]
    /\ budget' = [budget EXCEPT !.faults = @ - 1]
    /\ UNCHANGED <<store, permits, request, seen>>

CallFails(r, j) ==
    /\ job[r][j].st = "call" /\ budget.faults > 0
    /\ \E transient \in BOOLEAN :
          Release(r, j, AfterError(job[r][j], transient), [budget EXCEPT !.faults = @ - 1])

Settled(r) == \A j \in 0..N : job[r][j].st \in {"none", "over"}

------------------------------------------------------------------------------
(***************************************************************************)
(* InspectProjectStorage, once its listing is over.                        *)
(***************************************************************************)
InspectProjectStorage(r) ==
    LET q == request[r]
        b == job[r][0]
    IN  /\ q.stage = "list" /\ b.st = "over"
        /\ UNCHANGED seen
        /\ \/ /\ b.out = "ok" /\ q.ask.heads /\ Found(b.items) # {}
              /\ Advance(r, [q EXCEPT !.stage = "heads", !.items = b.items],
                         [j \in 0..N |-> IF j \in Found(b.items) THEN Head1(j) ELSE NoJob])
           \/ /\ b.out = "ok" /\ ~(q.ask.heads /\ Found(b.items) # {})
              /\ Advance(r, Answer(q, "complete", b.items, {}), NoJobs)
           \/ /\ b.out = "incomplete" /\ Found(b.items) # {}
              /\ Advance(r, Answer(q, "partial", b.items, {}), NoJobs)
           \/ /\ b.out = "error" \/ (b.out = "incomplete" /\ Found(b.items) = {})
              /\ Advance(r, Answer(q, "failed", NoItems, {}), NoJobs)

\* enrichInventoryHeads: one HEAD that fails drops the whole result.
enrichInventoryHeads(r) ==
    LET q == request[r]
        good == \A j \in 1..N : job[r][j].st = "over" => job[r][j].out = "ok"
    IN  /\ q.stage = "heads" /\ Settled(r)
        /\ Advance(r, IF good THEN Answer(q, "complete", q.items, {})
                              ELSE Answer(q, "failed", NoItems, {}), NoJobs)
        /\ UNCHANGED seen

(***************************************************************************)
(* ValidateInventoryObjects.  The inventory of a dense directory only adds *)
(* evidence that a key is there; a miss is left to the exact listing.      *)
(***************************************************************************)
runCoalescedValidation(r) ==
    LET q == request[r]
        b == job[r][0]
        usable == b.out = "ok" /\ Cardinality(Found(b.items)) <= FallbackLimit
    IN  /\ q.stage = "group" /\ b.st = "over"
        /\ Validation(r, [q EXCEPT !.matched =
                [k \in Keys |-> IF usable /\ k \in KeysOf(q.ask.targets) /\ DirOf[k] = q.dir
                                THEN b.items[k] ELSE q.matched[k]]])
        /\ UNCHANGED seen

\* Matched keys come from the coalesced listing, the others from their own.
Evidence(r, k) ==
    IF request[r].matched[k] # Absent
    THEN [NoJob EXCEPT !.out = "ok", !.items = request[r].matched]
    ELSE job[r][k]

ValidateInventoryObjects(r) ==
    LET q == request[r] IN
    /\ q.stage = "exact" /\ Settled(r)
    /\ Advance(r, Answer(q, "none", NoItems,
                  {IF t.key = 0 THEN RefusedVerdict(t) ELSE Judged(t, Evidence(r, t.key)) :
                      t \in q.ask.targets}), NoJobs)
    /\ UNCHANGED seen

(***************************************************************************)
(* ProbeObjects.  A worker takes an item: it answers a repeated one from   *)
(* the request's cache if the first is already over, or calls HEAD.        *)
(***************************************************************************)
Repeats(r, i) ==
    {n \in DOMAIN request[r].ask.items \ {i} :
        /\ request[r].ask.items[n] = request[r].ask.items[i]
        /\ job[r][n].st = "over"}

probeOne(r, i) ==
    LET q == request[r]
        t == q.ask.items[i]
    IN  /\ q.stage = "probe" /\ i \in DOMAIN q.ask.items /\ job[r][i].st = "none"
        /\ UNCHANGED seen
        /\ \/ /\ Repeats(r, i) # {}
              /\ Advance(r, [q EXCEPT !.cached = @ \cup {i}],
                         [job[r] EXCEPT ![i] = job[r][CHOOSE n \in Repeats(r, i) : TRUE]])
           \/ /\ Repeats(r, i) = {}
              /\ Advance(r, q, [job[r] EXCEPT ![i] =
                     IF t.key = 0 THEN [NoJob EXCEPT !.st = "over", !.out = "error"]
                                  ELSE Head1(t.key)])

ProbeVerdict(r, i) ==
    LET t == request[r].ask.items[i]
        v == IF t.key = 0 THEN RefusedVerdict(t) ELSE Judged(t, job[r][i])
    IN  IF i \in request[r].cached THEN FromCache(v) ELSE v

ProbeObjects(r) ==
    LET q == request[r] IN
    /\ q.stage = "probe"
    /\ \A i \in DOMAIN q.ask.items : job[r][i].st = "over"
    /\ Advance(r, Answer(q, "none", NoItems,
                         {ProbeVerdict(r, i) : i \in DOMAIN q.ask.items}), NoJobs)
    /\ UNCHANGED seen

(***************************************************************************)
(* DeleteProjectObjects: one URL after the other.  The call takes no       *)
(* permit and is not repeated; one that fails may have been carried out.   *)
(***************************************************************************)
parseDeleteURL(k) == IF k = 0 THEN "invalid" ELSE "valid"

\* The bucket and the key of a URL; the location itself, whatever the scope.
physicalTarget(k) == {k} \ {0}

\* Delete of the S3 backend: an object that is not there is deleted, too.
DeleteObject(k, failed) == Change(k, Absent) \/ (failed /\ UNCHANGED <<store, seen>>)

\* One call to the provider for the target; a URL of the project has one.
DeleteExact(k, failed) == \E t \in physicalTarget(k) : DeleteObject(t, failed)

DeleteNext(r) ==
    LET q == request[r]
        k == Head(q.ask.items)
        Says(status) ==
            request' = [request EXCEPT ![r] =
                [q EXCEPT !.ask.items = Tail(@),
                          !.verdicts = @ \cup {Verdict(k, Unknown, status, Unknown, "not_requested")}]]
    IN  /\ q.stage = "delete" /\ q.ask.items # <<>>
        /\ UNCHANGED <<permits, job>>
        /\ \/ /\ parseDeleteURL(k) = "invalid" /\ Says("invalid")
              /\ UNCHANGED <<store, seen, budget>>
           \/ /\ parseDeleteURL(k) = "valid" /\ ~targetAllowed(k) /\ Says("forbidden")
              /\ UNCHANGED <<store, seen, budget>>
           \/ /\ targetAllowed(k) /\ Says("deleted")
              /\ DeleteExact(k, FALSE)
              /\ UNCHANGED budget
           \/ /\ targetAllowed(k) /\ budget.faults > 0 /\ Says("error")
              /\ budget' = [budget EXCEPT !.faults = @ - 1]
              /\ DeleteExact(k, TRUE)

DeleteProjectObjects(r) ==
    /\ request[r].stage = "delete" /\ request[r].ask.items = <<>>
    /\ request' = [request EXCEPT ![r].stage = "done"]
    /\ UNCHANGED <<store, permits, job, budget, seen>>

------------------------------------------------------------------------------
Step(r) ==
    \/ \E j \in 0..N : \/ acquireProbe(r, j) \/ ListPage(r, j) \/ ListEndsEarly(r, j)
                       \/ HeadObject(r, j) \/ CallFails(r, j)
    \/ \E i \in 1..N : probeOne(r, i)
    \/ InspectProjectStorage(r) \/ enrichInventoryHeads(r)
    \/ runCoalescedValidation(r) \/ ValidateInventoryObjects(r)
    \/ ProbeObjects(r) \/ DeleteNext(r) \/ DeleteProjectObjects(r)

Next ==
    \/ \E r \in Requests : Begin(r) \/ Step(r)
    \/ \E k \in Keys, v \in Sizes \cup {Absent} : Others(k, v)

Spec == Init /\ [][Next]_vars

\* A request that has begun is carried on by its goroutines.
FairSpec == Spec /\ \A r \in Requests : WF_vars(Step(r))

------------------------------------------------------------------------------
Jobs ==
    [st : {"none", "wait", "call", "over"}, op : {"list", "head"},
     under : SUBSET Keys, one : BOOLEAN, key : 0..N, token : 0..N,
     items : [Keys -> Sizes \cup {Absent}], tries : Nat, round : 1..ExactAttempts,
     first : [objects : SUBSET (Keys \X Sizes), truncated : BOOLEAN],
     replays : 0..TerminalReplays,
     out : {"none", "ok", "incomplete", "error", "missing"}]

\* Type invariant of the model's state.
TypeOK ==
    /\ store \in [Keys -> Sizes \cup {Absent}]
    /\ permits \in 0..Permits
    /\ \A r \in Requests, j \in 0..N : job[r][j] \in Jobs
    /\ budget \in [changes : 0..MaxChanges, faults : 0..MaxFaults, short : 0..MaxShort]
    /\ seen \in [Requests -> [Keys -> SUBSET (Sizes \cup {Absent})]]

(***************************************************************************)
(* What callers are told of a location was true at some moment of their    *)
(* request: found with that size, not found, deleted, size as expected or  *)
(* not.  A page that ends early, objects that come and go between pages,   *)
(* and a neighbour whose name begins like the key must not turn into a     *)
(* false verdict (list_validation.go, probe.go, deletion.go).              *)
(* A repeated item of a bulk probe is left out when the first one found    *)
(* nothing: probeOne then compares the expected size with zero.            *)
(***************************************************************************)
VerdictsTrue ==
    \A r \in Requests : request[r].stage = "done" =>
        \A v \in request[r].verdicts :
            LET was == seen[r][v.key] IN
            /\ v.status = "present" => v.size \in was
            /\ v.status \in {"not_found", "deleted"} => Absent \in was
            /\ v.status = "present" /\ v.check = "matched" => v.expect \in was
            /\ v.status = "present" /\ v.check = "mismatched" =>
                  \E s \in was \ {Absent} : s # v.expect

(***************************************************************************)
(* An inventory called complete names every object of the project that was *)
(* there throughout the request, and no inventory names one that never     *)
(* was (inventory_complete of InspectProjectStorage).  The mode "exists"   *)
(* is left out of the first part: it lists with MaxKeys 1, which neither   *)
(* replays the last page nor repeats a miss.                               *)
(***************************************************************************)
CompleteMeansAll ==
    \A r \in Requests : request[r].stage = "done" /\ request[r].ask.kind = "inspect" =>
        LET q == request[r] IN
        /\ \A k \in Found(q.items) : q.items[k] \in seen[r][k] /\ k \in InProject
        /\ q.listing = "complete" /\ q.ask.mode # "exists" =>
              \A k \in InProject : Absent \in seen[r][k] \/ k \in Found(q.items)

(***************************************************************************)
(* Every inspection ends, whatever the provider refuses and however the    *)
(* requests compete for the permits of the limiter (limiter.go): a permit  *)
(* kept across an error would stop all inspections of the process.         *)
(***************************************************************************)
InspectionsEnd == \A r \in Requests : Active(r) ~> (request[r].stage = "done")

\* An inspection tells the truth: about single locations and about whole projects.
InspectionTruthful == VerdictsTrue /\ CompleteMeansAll
==============================================================================
