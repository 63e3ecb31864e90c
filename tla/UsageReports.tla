---------------------------- MODULE UsageReports ----------------------------
(***************************************************************************)
(* The reports of /index/v1/metrics over the catalogue: files with their   *)
(* counters, in pages and summed up, and transfers, summed up and broken   *)
(* down; and the provider events that are matched to access grants when    *)
(* they come in.  A session reads a report of one scope, of all scopes it  *)
(* may read, or of everything; each report selects its rows by its own     *)
(* query.  A client asks for the summary first and then for the details,   *)
(* while others download, delete records and obtain URLs.                  *)
(*                                                                         *)
(* Times are numbers, 0 is never.  The counters are those after the flush  *)
(* that every report starts with (UsageLedger).                            *)
(***************************************************************************)
EXTENDS CatalogueReads

CONSTANTS
    Sqlite,         \* whether the store is SQLite
    Gen3,           \* the sessions of gen3 mode; the others are of local mode
    Tallies,        \* object_usage at the start
    Ledgers,        \* transfer_attribution_event at the start
    Issues,         \* attribution events that may be added
    GrantTables,    \* access_grant at the start
    Asked,          \* reports that clients ask for
    Batches,        \* provider events that come in together
    PageLen,        \* files of a page
    DefaultCutoff,  \* 730 days before now
    MaxRows,        \* rows of a breakdown (1000)
    Before, After,  \* an event's window around the issue of its grant (24 h, 15 min)
    MaxIngests      \* bound: batches of provider events

VARIABLES
    tally,      \* object_usage
    ledger,     \* transfer_attribution_event
    issued,     \* access_grant
    provider,   \* provider_transfer_event by id
    ingests,    \* batches so far
    report      \* the report being made for a client

reportVars == <<tally, ledger, issued, provider, ingests, report>>

Never == [ups |-> 0, downs |-> 0, last |-> 0]

-----------------------------------------------------------------------------
(* The rows of the file reports. *)

\* Never downloaded, or not since.
usageMatchesInactiveFilter(i, cutoff) == cutoff = 0 \/ tally[i].last < cutoff

ReportOrder(ids) ==
    SetToSortSeq(ids, LAMBDA a, b : \/ tally[a].last < tally[b].last
                                    \/ tally[a].last = tally[b].last /\ a < b)

Exactly(resources) == {i \in Live : row(i).res \cap resources # {}}

PageOfFiles(ids, cutoff, offset) ==
    Window(ReportOrder({i \in ids : usageMatchesInactiveFilter(i, cutoff)}), offset, PageLen)

listScopedFileUsagePage(resources, cutoff, offset) == PageOfFiles(Exactly(resources), cutoff, offset)

StoreFileUsage(cutoff, offset) == PageOfFiles(Live, cutoff, offset)

GetFileUsage(id) == {id} \cap Live
ListFileUsageByObjectIDs(ids) == ids \cap Live

SumOf(ids, cutoff) ==
    [files |-> Cardinality(ids),
     ups |-> MapThenSumSet(LAMBDA i : tally[i].ups, ids),
     downs |-> MapThenSumSet(LAMBDA i : tally[i].downs, ids),
     inactive |-> IF cutoff = 0 THEN 0
                  ELSE Cardinality({i \in ids : usageMatchesInactiveFilter(i, cutoff)})]

getScopedFileUsageSummary(resources, cutoff) == SumOf(Exactly(resources), cutoff)

\* SQLite binds values by position, and the cutoff, bound last, stands first in
\* the text: it is compared with the grants in place of a resource, and the first
\* resource with the times of download, which it precedes as text.
sqliteScopedFileUsageSummary(resources, cutoff) ==
    LET first == IF "op" \in resources THEN "op" ELSE CHOOSE r \in resources : TRUE
        ids   == Exactly(resources \ {first})
    IN  IF cutoff = 0 THEN SumOf(Exactly(resources), 0)
        ELSE [SumOf(ids, 0) EXCEPT !.inactive = Cardinality({i \in ids : tally[i].last = 0})]

ScopedSummary(resources, cutoff) ==
    IF Sqlite THEN sqliteScopedFileUsageSummary(resources, cutoff)
    ELSE getScopedFileUsageSummary(resources, cutoff)

StoreFileUsageSummary(cutoff) == SumOf(Live, IF cutoff = 0 THEN DefaultCutoff ELSE cutoff)

GetProjectRecordSummaryByScope(scope) == Cardinality(Exactly({scope}))

-----------------------------------------------------------------------------
(* The rows of the transfer reports. *)

\* An organization's events are those of its projects too.
EventInScope(e, scope) == IF scope = "o" THEN e.scope \in ScopeResources("o") ELSE e.scope = scope

transferAttributionWhere(q) ==
    {e \in ledger : /\ q.scope # "" => EventInScope(e, q.scope)
                    /\ q.dir # "all" => e.dir = q.dir}

\* Mutant: an organization stands for itself only.
ExactResourceClause(e, resources) == e.scope \in resources

TransferResourceClause(e, resources) == \E r \in resources : EventInScope(e, r)

transferAttributionWhereByResources(q, resources) ==
    {e \in transferAttributionWhere(q) : TransferResourceClause(e, resources)}

Bytes(events) == MapThenSumSet(LAMBDA e : e.bytes, events)
Going(events, dir) == {e \in events : e.dir = dir}

TransferSummary(events) ==
    [count |-> Cardinality(events),
     down |-> Cardinality(Going(events, "download")), up |-> Cardinality(Going(events, "upload")),
     bytes |-> Bytes(events), downBytes |-> Bytes(Going(events, "download")),
     upBytes |-> Bytes(Going(events, "upload"))]

transferAttributionGroupKey(e, groupBy) ==
    CASE groupBy = "user" -> e.user
      [] groupBy = "provider" -> e.place
      [] groupBy = "object" -> e.sha
      [] groupBy = "scope" -> e.scope

BreakdownRow(key, group) ==
    [key |-> key, count |-> Cardinality(group), bytes |-> Bytes(group),
     downBytes |-> Bytes(Going(group, "download")), upBytes |-> Bytes(Going(group, "upload"))]

\* The groups with the latest transfers.
TransferBreakdown(events, groupBy) ==
    LET key(e)   == transferAttributionGroupKey(e, groupBy)
        group(k) == {e \in events : key(e) = k}
        latest(k) == Max({e.time : e \in group(k)})
        keys     == SetToSortSeq({key(e) : e \in events}, LAMBDA j, k : latest(j) > latest(k))
    IN  [n \in 1..Min({MaxRows, Len(keys)}) |-> BreakdownRow(keys[n], group(keys[n]))]

-----------------------------------------------------------------------------
(* What a session may ask for. *)

\* An organization takes the place of its projects.
readableMetricsScopes(s) ==
    LET read == {r \in ScopeResources("o") : "read" \in Privileges[s][r]}
    IN  IF "o" \in read THEN {"o"} ELSE read

scopeQuery(scope, scopes) == [scope |-> scope, scopes |-> scopes]

\* No access, or the scope asked for with the scopes that stand for no scope.
checkAuth(s, scope) ==
    LET asked    == scopeQuery(scope, {})
        readable == readableMetricsScopes(s)
    IN  IF ~Enforced(s) \/ HasMethodAccess(s, "read", {"programs"}) THEN {asked}
        ELSE IF s \in Anonymous THEN {}
        ELSE IF scope # "" THEN {a \in {asked} : HasMethodAccess(s, "read", {scope})}
        ELSE IF readable = {} THEN {} ELSE {scopeQuery("", readable)}

-----------------------------------------------------------------------------
(* The usage service. *)

\* RowIds of the requested ones that the scopes hold for a reader, or all of them.
ListReadableObjectIDs(s, a, requested) ==
    IF a.scope # "" THEN requested \cap ServiceIDsByScope(s, a.scope, "read")
    ELSE IF a.scopes # {} THEN requested \cap UNION {ServiceIDsByScope(s, sc, "read") : sc \in a.scopes}
    ELSE requested

objectInScope(s, a, id) == id \in ListReadableObjectIDs(s, a, {id})

ListFileUsage(a, cutoff, offset) ==
    IF a.scope # "" THEN listScopedFileUsagePage({a.scope}, cutoff, offset)
    ELSE IF a.scopes # {} THEN listScopedFileUsagePage(a.scopes, cutoff, offset)
    ELSE StoreFileUsage(cutoff, offset)

GetFileUsageSummary(a, cutoff) ==
    IF a.scope # "" THEN ScopedSummary({a.scope}, cutoff)
    ELSE IF a.scopes # {} THEN ScopedSummary(a.scopes, cutoff)
    ELSE StoreFileUsageSummary(cutoff)

ReportedEvents(a, q) ==
    IF a.scope = "" /\ a.scopes # {} THEN transferAttributionWhereByResources(q, a.scopes)
    ELSE transferAttributionWhere(q)

GetTransferAttributionSummary(a, q) == TransferSummary(ReportedEvents(a, q))
GetTransferAttributionBreakdown(a, q) == TransferBreakdown(ReportedEvents(a, q), q.group)

-----------------------------------------------------------------------------
(* The handlers, one request at a time. *)

NoReport == [pc |-> "idle"]

ReportInit ==
    /\ tally \in Tallies /\ ledger \in Ledgers /\ issued \in GrantTables
    /\ provider = <<>> /\ ingests = 0 /\ report = NoReport

Started(q, s, a, pc) ==
    [pc |-> pc, q |-> q, session |-> s, access |-> a, summary |-> <<>>, records |-> 0,
     files |-> <<>>, rows |-> <<>>, moved |-> FALSE]

tables == <<tally, ledger, issued, provider, ingests>>

\* GET /metrics/summary; a single scope counts its records in another query.
GetMetricsSummary(q, s) ==
    /\ report = NoReport /\ q.kind = "files"
    /\ \E a \in checkAuth(s, q.scope) :
         report' = [Started(q, s, a, IF q.scope # "" THEN "records" ELSE "pages") EXCEPT
                      !.summary = GetFileUsageSummary(a, q.cutoff)]
    /\ UNCHANGED tables

CountRecords ==
    /\ report.pc = "records"
    /\ report' = [report EXCEPT !.pc = "pages", !.records = GetProjectRecordSummaryByScope(report.q.scope)]
    /\ UNCHANGED tables

\* GET /metrics/files from the offset reached, until a page is short.
ListMetricsFiles ==
    /\ report.pc = "pages"
    /\ LET page == ListFileUsage(report.access, report.q.cutoff, Len(report.files))
       IN  report' = [report EXCEPT !.files = @ \o page,
                                    !.pc = IF Len(page) < PageLen THEN "made" ELSE "pages"]
    /\ UNCHANGED tables

\* POST /metrics/files/bulk, which filters after the store has answered.
BulkMetricsFiles(q, s) ==
    /\ report = NoReport /\ q.kind = "bulk"
    /\ \E a \in checkAuth(s, q.scope) :
         LET found == ListFileUsageByObjectIDs(ListReadableObjectIDs(s, a, q.ids))
         IN  report' = [Started(q, s, a, "made") EXCEPT
                          !.files = SetToSortSeq({i \in found : usageMatchesInactiveFilter(i, q.cutoff)}, <)]
    /\ UNCHANGED tables

\* GET /metrics/files/{id}: the id within the scopes, or any for a global reader.
GetMetricsFile(q, s) ==
    /\ report = NoReport /\ q.kind = "file"
    /\ \E a \in checkAuth(s, q.scope) :
         /\ objectInScope(s, a, q.id) /\ GetFileUsage(q.id) # {}
         /\ report' = [Started(q, s, a, "made") EXCEPT !.files = <<q.id>>]
    /\ UNCHANGED tables

GetTransferSummary(q, s) ==
    /\ report = NoReport /\ q.kind = "transfers"
    /\ \E a \in checkAuth(s, q.scope) :
         report' = [Started(q, s, a, "breakdown") EXCEPT !.summary = GetTransferAttributionSummary(a, q)]
    /\ UNCHANGED tables

GetTransferBreakdown ==
    /\ report.pc = "breakdown"
    /\ report' = [report EXCEPT !.pc = "made",
                                !.rows = GetTransferAttributionBreakdown(report.access, report.q)]
    /\ UNCHANGED tables

Taken == report.pc = "made" /\ report' = NoReport /\ UNCHANGED tables

-----------------------------------------------------------------------------
(* Provider events. *)

\* In gen3 mode every event must lie where the session may create or update.  In
\* local mode nothing is checked, rights from a CSV file or not.
checkProviderMetricsIngestAuth(s, batch) ==
    \/ s \notin Gen3
    \/ \A e \in ToSet(batch) : /\ e.scope # ""
                               /\ \/ HasMethodAccess(s, "create", {e.scope})
                                  \/ HasMethodAccess(s, "update", {e.scope})

\* One event without id, provider or bucket, or with a status that is none, and
\* the whole batch is refused.
providerTransferPayloadToUsage(e) ==
    /\ e.id # "" /\ e.place # ""
    /\ e.status \in {"", "matched", "ambiguous", "unmatched"}

AccessGrantByID(id) == {g \in issued : g.id = id}

\* By the whole URL if the event has one, else by the end of it.
LocationFits(e, g) ==
    /\ g.place = e.place
    /\ e.url # <<>> => g.url = e.url
    /\ e.url = <<>> => IsSuffix(e.key, g.url)

AccessGrantCandidates(e) ==
    {g \in issued : LocationFits(e, g) /\ g.last <= e.time + After /\ g.last >= e.time - Before}

\* What the event leaves open is taken from the grant.
mergeAccessGrantIntoProviderEvent(e, g) ==
    [e EXCEPT !.grant = IF @ = "" THEN g.id ELSE @,
              !.url = IF @ = <<>> THEN g.url ELSE @,
              !.scope = IF @ = "" \/ (@ = "o" /\ g.scope \in Projects) THEN g.scope ELSE @,
              !.user = IF @ = "" THEN g.user ELSE @,
              !.status = "matched"]

\* Mutant: the latest of several grants is taken.
LatestCandidate(e) ==
    LET fits == AccessGrantCandidates(e)
        g    == CHOOSE g \in fits : \A o \in fits : o.last <= g.last
    IN  IF fits = {} THEN e ELSE mergeAccessGrantIntoProviderEvent(e, g)

\* Whatever status an event claims, it is unmatched until a grant is found.
reconcileProviderTransferEvent(claimed) ==
    LET e     == [claimed EXCEPT !.status = "unmatched"]
        named == AccessGrantByID(e.grant)
        fits  == AccessGrantCandidates(e)
    IN  IF named # {} THEN mergeAccessGrantIntoProviderEvent(e, CHOOSE g \in named : TRUE)
        ELSE IF Cardinality(fits) = 1 THEN mergeAccessGrantIntoProviderEvent(e, CHOOSE g \in fits : TRUE)
        ELSE IF fits = {} THEN e ELSE [e EXCEPT !.status = "ambiguous"]

\* An id that is known, from this batch or an earlier one, is left as it is.
Ingested(table, e, s) ==
    IF e.id \in DOMAIN table THEN table
    ELSE e.id :> [now |-> reconcileProviderTransferEvent(e), came |-> e, by |-> s, grants |-> issued] @@ table

RecordProviderTransferEvents(s, batch) ==
    /\ ingests < MaxIngests /\ report = NoReport
    /\ checkProviderMetricsIngestAuth(s, batch)
    /\ \A e \in ToSet(batch) : providerTransferPayloadToUsage(e)
    /\ provider' = FoldLeft(LAMBDA table, e : Ingested(table, e, s), provider, batch)
    /\ ingests' = ingests + 1
    /\ UNCHANGED <<tally, ledger, issued, report>>

-----------------------------------------------------------------------------
(* Others at work. *)

Meanwhile == /\ changes < MaxChanges /\ changes' = changes + 1
             /\ report' = [report EXCEPT !.moved = TRUE]
             /\ UNCHANGED <<provider, ingests, request, late>>

UnderWay == report.pc \notin {"idle", "made"}

RecordFileDownload(i) ==
    /\ UnderWay /\ i \in Live
    /\ tally' = [tally EXCEPT ![i].downs = @ + 1, ![i].last = 1 + Max({tally[j].last : j \in RowIds})]
    /\ UNCHANGED <<catalogue, ledger, issued>> /\ Meanwhile

\* The counters go with the record.
DeleteObject(i) ==
    /\ UnderWay /\ i \in Live
    /\ catalogue' = Without({i}) /\ tally' = [tally EXCEPT ![i] = Never]
    /\ UNCHANGED <<ledger, issued>> /\ Meanwhile

UpsertAccessGrant(e) ==
    LET known == AccessGrantByID(e.grant)
        last  == Max({e.time} \cup {g.last : g \in known})
        grant == [id |-> e.grant, place |-> e.place, url |-> e.url, scope |-> e.scope,
                  user |-> e.user, last |-> e.time]
    IN  IF known = {} THEN issued \cup {grant}
        ELSE (issued \ known) \cup {[g EXCEPT !.last = last] : g \in known}

\* A URL is issued: an event, and a grant that is new or was issued before.
RecordTransferAttributionEvent(e) ==
    /\ UnderWay \/ (report = NoReport /\ DOMAIN provider # {})
    /\ e \notin ledger /\ ledger' = ledger \cup {e}
    /\ issued' = UpsertAccessGrant(e)
    /\ changes < MaxChanges /\ changes' = changes + 1
    /\ report' = IF report = NoReport THEN report ELSE [report EXCEPT !.moved = TRUE]
    /\ UNCHANGED <<catalogue, tally, provider, ingests, request, late>>

Reporting ==
    /\ \/ \E q \in Asked, s \in Sessions :
            \/ GetMetricsSummary(q, s) \/ BulkMetricsFiles(q, s)
            \/ GetMetricsFile(q, s) \/ GetTransferSummary(q, s)
       \/ CountRecords \/ ListMetricsFiles \/ GetTransferBreakdown \/ Taken
    /\ UNCHANGED vars

Ingesting ==
    /\ \E s \in Sessions, batch \in Batches : RecordProviderTransferEvents(s, batch)
    /\ UNCHANGED vars

Issuing == \E e \in Issues : RecordTransferAttributionEvent(e)

ReportNext ==
    \/ Reporting \/ Ingesting \/ Issuing
    \/ \E i \in RowIds : RecordFileDownload(i) \/ DeleteObject(i)

ReportSpec == Init /\ ReportInit /\ [][ReportNext]_<<vars, reportVars>>

-----------------------------------------------------------------------------
Made(kind) == report.pc = "made" /\ report.q.kind = kind /\ ~report.moved

\* The files listed page by page are the files of the summary, each once: all of
\* them, or those it counts as inactive when the report asks for these; their
\* downloads add up, and a scope has as many records as files.
FilesAddUp ==
    Made("files") =>
      LET files == ToSet(report.files)
      IN  /\ Cardinality(files) = Len(report.files)
          /\ Len(report.files) =
                IF report.q.cutoff = 0 THEN report.summary.files ELSE report.summary.inactive
          /\ report.q.cutoff = 0 => MapThenSumSet(LAMBDA i : tally[i].downs, files) = report.summary.downs
          /\ report.q.scope # "" => report.records = report.summary.files

\* A breakdown that was not cut off adds up to the summary.
TransfersAddUp ==
    (Made("transfers") /\ Len(report.rows) < MaxRows) =>
      LET sum(f(_)) == MapThenSumSet(LAMBDA n : f(report.rows[n]), DOMAIN report.rows)
      IN  /\ sum(LAMBDA x : x.count) = report.summary.count
          /\ sum(LAMBDA x : x.bytes) = report.summary.bytes
          /\ sum(LAMBDA x : x.downBytes) = report.summary.downBytes
          /\ sum(LAMBDA x : x.upBytes) = report.summary.upBytes

ReadableOf(s) == {r \in ScopeResources("o") : "read" \in Privileges[s][r]}

\* The report without a scope is that of all scopes the session may ask for; for
\* files, if it may not ask for an organization and its projects both.
ScopesAddUp ==
    LET readable == ReadableOf(report.session)
        of(r)    == scopeQuery(r, {})
        events(r) == ReportedEvents(of(r), [report.q EXCEPT !.scope = r])
        files(r) == UNION {ToSet(ListFileUsage(of(r), 0, offset)) : offset \in 0..MaxId}
    IN  /\ (Made("transfers") /\ report.access.scopes # {}) =>
              report.summary.count = Cardinality(UNION {events(r) : r \in readable})
        /\ (Made("files") /\ report.access.scopes # {} /\ report.q.cutoff = 0
            /\ ("o" \in readable => readable = {"o"})) =>
              ToSet(report.files) = UNION {files(r) : r \in readable}

\* A restricted session sees the files of its scopes and public ones only, and a
\* file it finds in a list it also gets by its id.
FilesReadable ==
    (report.pc = "made" /\ Enforced(report.session) /\ ~HasMethodAccess(report.session, "read", {"programs"})) =>
      \A i \in ToSet(report.files) \cap Live :
        /\ row(i).res \cap ReadableOf(report.session) # {} \/ attachPublicRead(i)
        /\ Unduplicated => objectInScope(report.session, report.access, i)

\* The reports of one session agree: with each other, over scopes, and with what
\* the session may read.
ReportsAgree == FilesAddUp /\ TransfersAddUp /\ ScopesAddUp /\ FilesReadable

\* A provider event is taken for the use of a grant only if it says so itself or
\* if it can be no other: of the grants there were, that one alone fits its place
\* and its time, whatever status it claimed.  It keeps what it came with, and in gen3
\* mode it counts for a project, or organization, where whoever brought it may
\* write; a session of local mode may bring any event, even one whose rights are
\* enforced otherwise.
IngestedTruly ==
    \A id \in DOMAIN provider :
      LET e == provider[id].now  c == provider[id].came  s == provider[id].by
          near(g) == g.last <= c.time + After /\ g.last >= c.time - Before
          meant == IF \E g \in provider[id].grants : g.id = c.grant
                   THEN {g \in provider[id].grants : g.id = c.grant}
                   ELSE {g \in provider[id].grants : LocationFits(c, g) /\ near(g)}
          may(r) == HasMethodAccess(s, "create", {r}) \/ HasMethodAccess(s, "update", {r})
      IN  /\ (e.status = "matched") <=> (Cardinality(meant) = 1)
          /\ e.status = "matched" => \A g \in meant : e.url \in {g.url, c.url} /\ e.user \in {g.user, c.user}
          /\ c.user # "" => e.user = c.user
          /\ s \in Gen3 => may(e.scope) \/ may("o")

\* Usage is reported truthfully: the reports agree (usage/service.go:63-295) and
\* the provider events they rest on were attributed rightly (transfer_events.go:305).
ReportsTruthful == ReportsAgree /\ IngestedTruly
=============================================================================
