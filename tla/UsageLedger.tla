----------------------------- MODULE UsageLedger -----------------------------
(***************************************************************************)
(* Usage accounting: every upload and download appends a row to            *)
(* object_usage_event, and a flush moves the events of known records into  *)
(* the counters of object_usage.  The flush runs at the end of every       *)
(* registration and replacement, and before every usage report.            *)
(*                                                                         *)
(* A flush is three statements in one transaction: the ids with events,    *)
(* the INSERT ... SELECT SUM(...) ... ON CONFLICT that adds the sums, and  *)
(* the DELETE of the events.  Under PostgreSQL's READ COMMITTED each       *)
(* statement has its own snapshot, and the INSERT may wait for another     *)
(* transaction's row after it has taken its snapshot, so it is two steps   *)
(* here.  SQLite has one connection and an immediate writer lock: no other *)
(* statement runs while a transaction is open.                             *)
(*                                                                         *)
(* Event times are left out: they only choose the later of two timestamps. *)
(***************************************************************************)
EXTENDS Naturals, Database

CONSTANTS
    Objects,    \* record ids
    MaxEvents   \* bound: events recorded for one record and kind

ASSUME LedgerAssumption == Serial \in BOOLEAN /\ MaxEvents \in Nat

Kinds == {"upload", "download"}

VARIABLES
    rows,      \* the committed drs_object rows
    events,    \* events[o][k]: committed object_usage_event rows
    usage,     \* usage[o][k]: the committed counters of object_usage
    call,      \* call[p]: the call p runs, and its uncommitted writes
    recorded   \* history: the events recorded that record o must account for

vars == <<rows, events, usage, call, recorded>>

Zero == [k \in Kinds |-> 0]
None == [o \in Objects |-> Zero]
Plus(f, g) == [o \in Objects |-> [k \in Kinds |-> f[o][k] + g[o][k]]]
Minus(f, g) == [o \in Objects |-> [k \in Kinds |-> f[o][k] - g[o][k]]]
Only(f, ids) == [o \in Objects |-> IF o \in ids THEN f[o] ELSE Zero]

Idle == [pc |-> "idle", new |-> {}, ids |-> {}, sum |-> None, purged |-> None, floor |-> None]

Init ==
    /\ rows \in SUBSET Objects
    /\ events = None
    /\ usage = None
    /\ call = [p \in Calls |-> Idle]
    /\ recorded = None

\* SQLite runs a statement only when no transaction is open.
Connection == Serial => \A p \in Calls : call[p].pc \in {"idle", "read"}

\* RecordFileUpload and RecordFileDownload: the record need not exist.
RecordFileUsage(o, k) ==
    /\ Connection
    /\ recorded[o][k] < MaxEvents
    /\ events' = [events EXCEPT ![o][k] = @ + 1]
    /\ recorded' = [recorded EXCEPT ![o][k] = @ + 1]
    /\ UNCHANGED <<rows, usage, call>>

\* A registration or replacement of the records ids, up to its flush; the
\* content-write lock admits one.
RegisterObjects(p, ids) ==
    /\ Connection
    /\ call[p].pc = "idle"
    /\ \A q \in Calls : call[q].new = {}
    /\ call' = [call EXCEPT ![p].pc = "sum", ![p].new = ids, ![p].ids = ids]
    /\ UNCHANGED <<rows, events, usage, recorded>>

\* Mutant: records that only have downloads are not flushed.
IdsWithUploads(p) == {o \in rows : events[o]["upload"] # 0}

ExistingObjectIDsWithEvents(p) == {o \in rows : events[o] # Zero}

\* A usage report begins with a flush of every known record that has events.
FlushObjectUsageEvents(p) ==
    /\ Connection
    /\ call[p].pc = "idle"
    /\ LET ids == ExistingObjectIDsWithEvents(p)
       IN  call' = [call EXCEPT ![p].pc = IF ids = {} THEN "read" ELSE "sum",
                                ![p].ids = ids, ![p].floor = Only(recorded, rows)]
    /\ UNCHANGED <<rows, events, usage, recorded>>

\* The SELECT of the INSERT takes its snapshot.
SumEvents(p) ==
    /\ call[p].pc = "sum"
    /\ call' = [call EXCEPT ![p].pc = "apply",
                            ![p].sum = Only(events, call[p].ids \cap (rows \cup call[p].new))]
    /\ UNCHANGED <<rows, events, usage, recorded>>

Counted(p) == {o \in Objects : call[p].sum[o] # Zero}

\* The object_usage rows, and through the foreign key the drs_object rows, that
\* the transaction of p has locked.
Locked(p) == IF call[p].pc \in {"purge", "commit"} THEN Counted(p) ELSE {}

\* The upsert has its row locks; a counted record that is gone breaks the
\* foreign key, and the call can only roll back.
ApplySums(p) ==
    /\ call[p].pc = "apply"
    /\ \A q \in Calls \ {p} : Locked(q) \cap Counted(p) = {}
    /\ Counted(p) \subseteq rows \cup call[p].new
    /\ call' = [call EXCEPT ![p].pc = "purge"]
    /\ UNCHANGED <<rows, events, usage, recorded>>

\* Mutant: only one kind of event is deleted.
PurgeUploads(p) == [o \in Objects |-> [Only(events, call[p].ids)[o] EXCEPT !["download"] = 0]]

\* The events the DELETE removes: all it sees now, not the ones summed.
Purged(p) == Only(events, call[p].ids \cap (rows \cup call[p].new))

PurgeEvents(p) ==
    /\ call[p].pc = "purge"
    /\ \A q \in Calls \ {p}, o \in call[p].ids : call[q].purged[o] = Zero
    /\ call' = [call EXCEPT ![p].pc = "commit", ![p].purged = Purged(p)]
    /\ UNCHANGED <<rows, events, usage, recorded>>

\* Commit; a report goes on to read the counters.
CommitFlush(p) ==
    /\ call[p].pc = "commit"
    /\ rows' = rows \cup call[p].new
    /\ usage' = Plus(usage, call[p].sum)
    /\ events' = Minus(events, call[p].purged)
    /\ call' = [call EXCEPT ![p] = IF call[p].new # {} THEN Idle
                                   ELSE [Idle EXCEPT !.pc = "read", !.floor = call[p].floor]]
    /\ UNCHANGED recorded

\* An error, a cancelled request or a crash: the transaction rolls back.
RollbackFlush(p) ==
    /\ call[p].pc \notin {"idle", "read"}
    /\ call' = [call EXCEPT ![p] = Idle]
    /\ UNCHANGED <<rows, events, usage, recorded>>

\* GetFileUsage and the other reports read the counters outside the flush.
GetFileUsage(p) ==
    /\ call[p].pc = "read"
    /\ Connection
    /\ call' = [call EXCEPT ![p] = Idle]
    /\ UNCHANGED <<rows, events, usage, recorded>>

\* A deletion cascades to object_usage but not to object_usage_event: what is
\* left there counts for the next record under the same id.
DeleteObject(o) ==
    /\ Connection
    /\ o \in rows
    /\ \A p \in Calls : call[p].new = {} /\ o \notin Locked(p)
    /\ rows' = rows \ {o}
    /\ usage' = [usage EXCEPT ![o] = Zero]
    /\ recorded' = [recorded EXCEPT ![o] = events[o]]
    /\ call' = [p \in Calls |-> [call[p] EXCEPT !.floor[o] = Zero]]
    /\ UNCHANGED events

Next ==
    \/ \E o \in Objects, k \in Kinds : RecordFileUsage(o, k)
    \/ \E o \in Objects : DeleteObject(o)
    \/ \E p \in Calls :
         \/ \E ids \in (SUBSET Objects) \ {{}} : RegisterObjects(p, ids)
         \/ FlushObjectUsageEvents(p) \/ SumEvents(p) \/ ApplySums(p)
         \/ PurgeEvents(p) \/ CommitFlush(p) \/ RollbackFlush(p) \/ GetFileUsage(p)

Spec == Init /\ [][Next]_vars

-----------------------------------------------------------------------------
(* Properties. *)

\* A record's counters and its pending events together are exactly the uploads
\* and downloads recorded for it: no flush loses an event or counts it twice.
\* (internal/persistence/README.md:82, "object_usage stores upload and download
\* counters".)
UsageExact ==
    \A o \in rows, k \in Kinds : usage[o][k] + events[o][k] = recorded[o][k]

\* A usage report shows at least every event recorded before the report was asked
\* for, of every record that still exists: the flush that precedes the query
\* leaves none behind.
ReportsAreCurrent ==
    \A p \in Calls, o \in rows, k \in Kinds :
      call[p].pc = "read" => usage[o][k] >= call[p].floor[o][k]

=============================================================================
