------------------------- MODULE TransferAttribution -------------------------
(***************************************************************************)
(* Issuing access URLs and accounting for them.  A URL is signed, the      *)
(* download is counted where the route counts downloads, an access_issued  *)
(* event is recorded with the grant it belongs to, and only then is the    *)
(* URL given to the caller.                                                *)
(*                                                                         *)
(* Recording is a transaction of two statements: the event, under an id    *)
(* computed from its contents and the request id, ON CONFLICT DO NOTHING,  *)
(* and for an event that is new the grant, issue_count + 1.  A server that *)
(* starts fills in the grants of events recorded before grants existed.    *)
(***************************************************************************)
EXTENDS Naturals, FiniteSets, Sequences

CONSTANTS
    Callers,    \* concurrent requests
    Asks,       \* what a request may ask: its request id, items and form
    Old,        \* events an older server may have recorded
    MaxAsks,    \* bound: requests of a behaviour
    MaxFaults   \* bound: failed calls and crashes

VARIABLES
    up,           \* the server has started and accepts requests
    attribution,  \* transfer_attribution_event
    grants,       \* access_grant: issue_count, 0 without a row
    counted,      \* object_usage_event: downloads by object id
    issue,        \* issue[p]: the request p handles
    spent,        \* requests and faults so far
    returned,     \* history: events of the URLs callers were given
    fetched       \* history: URLs given by the routes that count, by counted id

issueVars == <<up, attribution, grants, counted, issue, spent, returned, fetched>>

\* usage.EventID and usage.GrantID of one item of a request: the grant knows
\* neither the request nor the direction.
EventID(req, item) ==
    [req |-> req, obj |-> item.obj, loc |-> item.loc, dir |-> item.dir, range |-> item.range]
GrantID(e) == <<e.obj, e.loc>>

Items == UNION {{a.items[i] : i \in DOMAIN a.items} : a \in Asks}
Events == Old \cup {EventID(a.req, item) : a \in Asks, item \in Items}
Grants == {GrantID(e) : e \in Events}

\* A request names its items; the database an older server left is finite.
ASSUME AttributionAssumption ==
    /\ IsFiniteSet(Old)
    /\ \A a \in Asks : a.items \in Seq(Items) /\ a.items # <<>> /\ a.bulk \in BOOLEAN

\* The id a download is counted under: the record's, and for Git LFS the oid
\* of the request; uploads, parts and DRS access URLs are not counted.
Tallies == {"id", "oid"}
Counters == {item.obj : item \in Items} \X Tallies

IssuedFor(g) == Cardinality({e \in attribution : GrantID(e) = g})

IdleIssue == [pc |-> "idle", ask |-> [req |-> "", items |-> <<>>, bulk |-> FALSE],
         at |-> 1, fresh |-> FALSE, urls |-> {}]

\* A database as an older server left it: the grants are missing or right.
IssueInit ==
    /\ up = FALSE
    /\ attribution \in SUBSET Old
    /\ grants \in {f \in [Grants -> 0..Cardinality(Old)] :
                      \A g \in Grants : f[g] \in {0, IssuedFor(g)}}
    /\ counted = [c \in Counters |-> 0]
    /\ issue = [p \in Callers |-> IdleIssue]
    /\ spent = [asks |-> 0, faults |-> 0]
    /\ returned = {}
    /\ fetched = [c \in Counters |-> 0]

\* Mutant: the counts are added to the rows that are there.
BackfillAdds(g) == grants[g] + IssuedFor(g)

\* INSERT INTO access_grant ... ON CONFLICT (access_grant_id) DO NOTHING
Backfilled(g) == IF grants[g] = 0 THEN IssuedFor(g) ELSE grants[g]

\* The schema initialization of a starting server.
backfillAccessGrants ==
    /\ ~up
    /\ up' = TRUE
    /\ grants' = [g \in Grants |-> Backfilled(g)]
    /\ UNCHANGED <<attribution, counted, issue, spent, returned, fetched>>

Item(p) == issue[p].ask.items[issue[p].at]
Event(p) == EventID(issue[p].ask.req, Item(p))
Counter(p) == <<Item(p).obj, Item(p).tally>>

\* A request arrives, possibly one that was sent before.
Issue(p, ask) ==
    /\ up /\ issue[p].pc = "idle" /\ spent.asks < MaxAsks
    /\ issue' = [issue EXCEPT ![p] = [IdleIssue EXCEPT !.pc = "sign", !.ask = ask]]
    /\ spent' = [spent EXCEPT !.asks = @ + 1]
    /\ UNCHANGED <<up, attribution, grants, counted, returned, fetched>>

SignObjectURL(p) ==
    /\ issue[p].pc = "sign"
    /\ issue' = [issue EXCEPT ![p].pc = IF Counter(p) \in Counters THEN "count" ELSE "insert"]
    /\ UNCHANGED <<up, attribution, grants, counted, spent, returned, fetched>>

RecordFileDownload(p) ==
    /\ issue[p].pc = "count"
    /\ counted' = [counted EXCEPT ![Counter(p)] = @ + 1]
    /\ issue' = [issue EXCEPT ![p].pc = "insert"]
    /\ UNCHANGED <<up, attribution, grants, spent, returned, fetched>>

\* Calls whose transaction has inserted its event, and those that hold its grant.
Inserted(p) == issue[p].pc \in {"upsert", "commit"}
Holds(p) == issue[p].pc = "commit" /\ issue[p].fresh

\* The insertion waits for an open transaction with the same event.
InsertEvent(p) ==
    /\ issue[p].pc = "insert"
    /\ \A q \in Callers \ {p} : Inserted(q) /\ issue[q].fresh => Event(q) # Event(p)
    /\ LET fresh == Event(p) \notin attribution
       IN  issue' = [issue EXCEPT ![p].pc = IF fresh THEN "upsert" ELSE "commit",
                                ![p].fresh = fresh]
    /\ UNCHANGED <<up, attribution, grants, counted, spent, returned, fetched>>

UpsertAccessGrant(p) ==
    /\ issue[p].pc = "upsert"
    /\ \A q \in Callers \ {p} : Holds(q) => GrantID(Event(q)) # GrantID(Event(p))
    /\ issue' = [issue EXCEPT ![p].pc = "commit"]
    /\ UNCHANGED <<up, attribution, grants, counted, spent, returned, fetched>>

\* The item after this one, or the answer.
Onward(c) == [c EXCEPT !.pc = IF c.at = Len(c.ask.items) THEN "reply" ELSE "sign",
                       !.at = IF c.at = Len(c.ask.items) THEN c.at ELSE c.at + 1,
                       !.fresh = FALSE]

\* Commit, and the signed URL joins the answer.
RecordTransferAttributionEvents(p) ==
    /\ issue[p].pc = "commit"
    /\ attribution' = attribution \cup {Event(p)}
    /\ grants' = IF issue[p].fresh THEN [grants EXCEPT ![GrantID(Event(p))] = @ + 1] ELSE grants
    /\ issue' = [issue EXCEPT ![p] = Onward([@ EXCEPT !.urls = issue[p].urls \cup {issue[p].at}])]
    /\ UNCHANGED <<up, counted, spent, returned, fetched>>

\* Mutant: an event that cannot be recorded does not keep the URL back.
AnswersAnyway(c) ==
    IF c.ask.bulk THEN Onward([c EXCEPT !.urls = @ \cup {c.at}]) ELSE IdleIssue

\* An item that fails: a bulk request goes on without it, another one ends.
WithoutItem(c) == IF c.ask.bulk THEN Onward(c) ELSE IdleIssue

\* Signing or a statement fails; the transaction rolls back.
ItemFails(p) ==
    /\ issue[p].pc \notin {"idle", "reply"} /\ spent.faults < MaxFaults
    /\ issue' = [issue EXCEPT ![p] = WithoutItem(@)]
    /\ spent' = [spent EXCEPT !.faults = @ + 1]
    /\ UNCHANGED <<up, attribution, grants, counted, returned, fetched>>

Reply(p) ==
    /\ issue[p].pc = "reply"
    /\ LET given == issue[p].urls
           items == issue[p].ask.items
       IN  /\ returned' = returned \cup {EventID(issue[p].ask.req, items[i]) : i \in given}
           /\ fetched' = [c \in Counters |->
                 fetched[c] + Cardinality({i \in given : <<items[i].obj, items[i].tally>> = c})]
    /\ issue' = [issue EXCEPT ![p] = IdleIssue]
    /\ UNCHANGED <<up, attribution, grants, counted, spent>>

\* The process ends: open transactions roll back, nobody gets an answer.
Crash ==
    /\ up /\ spent.faults < MaxFaults
    /\ up' = FALSE
    /\ issue' = [p \in Callers |-> IdleIssue]
    /\ spent' = [spent EXCEPT !.faults = @ + 1]
    /\ UNCHANGED <<attribution, grants, counted, returned, fetched>>

IssueNext ==
    \/ backfillAccessGrants \/ Crash
    \/ \E p \in Callers :
         \/ \E ask \in Asks : Issue(p, ask)
         \/ SignObjectURL(p) \/ RecordFileDownload(p) \/ InsertEvent(p)
         \/ UpsertAccessGrant(p) \/ RecordTransferAttributionEvents(p)
         \/ ItemFails(p) \/ Reply(p)

IssueSpec == IssueInit /\ [][IssueNext]_issueVars

------------------------------------------------------------------------------
(* Properties. *)

\* While the server runs, the issue_count of every grant is the number of its
\* recorded events: repeated requests, racing transactions of one event or of
\* one grant, failures and the backfill of every start count nothing twice and
\* leave nothing out (transfer_events.go).
GrantsCountEvents == up => \A g \in Grants : grants[g] = IssuedFor(g)

\* Nobody holds an access URL that is not on record: its event is stored, and
\* the routes that count downloads have counted it (download.go, preparation.go;
\* docs/access-grants-transfer-metrics.md:9).
IssuedAreRecorded ==
    /\ returned \subseteq attribution
    /\ \A c \in Counters : fetched[c] <= counted[c]

\* Every URL that was issued is counted, and counted once.
AttributionExact == GrantsCountEvents /\ IssuedAreRecorded
==============================================================================
