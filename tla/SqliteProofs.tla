----------------------------- MODULE SqliteProofs -----------------------------
(***************************************************************************)
(* What the server keeps of transfers on SQLite's single connection, for   *)
(* every set of records, oids and concurrent calls and any number of       *)
(* events: UsageLedger counts every event once, and LfsVerify hands an     *)
(* entry out once and never loses a live one.  On PostgreSQL the runs      *)
(* usage_postgres and lfs_postgres show UsageExact and ConsumedOnce        *)
(* violated.                                                               *)
(***************************************************************************)
EXTENDS UsageLedger, LfsVerify, TLAPS

Counts == [Objects -> [Kinds -> Nat]]

CallStates ==
    [pc : {"idle", "sum", "apply", "purge", "commit", "read"},
     new : SUBSET Objects, ids : SUBSET Objects,
     sum : Counts, purged : Counts, floor : Counts]

\* The calls that have a transaction open.
Open(p) == call[p].pc \notin {"idle", "read"}

TypeInv ==
    /\ rows \subseteq Objects
    /\ events \in Counts /\ usage \in Counts /\ recorded \in Counts
    /\ call \in [Calls -> CallStates]

\* Exactness of records that are gone as well: the next record under the id
\* starts from the events that are left.
Balanced == \A o \in Objects, k \in Kinds : usage[o][k] + events[o][k] = recorded[o][k]

\* The single connection: at most one transaction is open, and only it has
\* records of its own.
OneOpen ==
    /\ \A p, q \in Calls : Open(p) /\ Open(q) => p = q
    /\ \A p \in Calls : ~Open(p) => call[p].new = {}

\* The events a flush sums are still there, all of them and no others, when it
\* deletes them, and so are the records.
SumIsCurrent ==
    \A p \in Calls :
      LET seen == Only(events, call[p].ids \cap (rows \cup call[p].new))
      IN  /\ Open(p) => call[p].ids \subseteq rows \cup call[p].new
          /\ call[p].pc \in {"apply", "purge", "commit"} => call[p].sum = seen
          /\ call[p].pc = "commit" => call[p].purged = seen

\* What a report has to show is in the counters, or in the events its flush moves
\* there; of records that are gone it has to show nothing.
FloorIsCovered ==
    \A p \in Calls, o \in Objects, k \in Kinds :
      /\ call[p].pc = "read" => usage[o][k] >= call[p].floor[o][k]
      /\ Open(p) /\ call[p].new = {} =>
           IF o \in call[p].ids THEN recorded[o][k] >= call[p].floor[o][k]
           ELSE usage[o][k] >= call[p].floor[o][k]

IInv == TypeInv /\ Balanced /\ OneOpen /\ SumIsCurrent /\ FloorIsCovered

-----------------------------------------------------------------------------
(* The sums and differences of counters. *)

LEMMA ZeroType == Zero \in [Kinds -> Nat] /\ None \in Counts
BY DEF Zero, None, Counts

\* The empty counters have no events of either kind.
LEMMA ZeroValue == \A k \in Kinds : Zero[k] = 0
BY DEF Zero

LEMMA OnlyType ==
    ASSUME NEW f \in Counts, NEW ids
    PROVE  Only(f, ids) \in Counts
BY ZeroType DEF Only, Counts

LEMMA OnlyValue ==
    ASSUME NEW f \in Counts, NEW ids, NEW o \in Objects, NEW k \in Kinds
    PROVE  Only(f, ids)[o][k] = IF o \in ids THEN f[o][k] ELSE 0
BY ZeroValue DEF Only, Counts

LEMMA PlusType ==
    ASSUME NEW f \in Counts, NEW g \in Counts
    PROVE  /\ Plus(f, g) \in Counts
           /\ \A o \in Objects, k \in Kinds : Plus(f, g)[o][k] = f[o][k] + g[o][k]
BY DEF Plus, Counts

LEMMA MinusType ==
    ASSUME NEW f \in Counts, NEW g \in Counts,
           \A o \in Objects, k \in Kinds : g[o][k] <= f[o][k]
    PROVE  /\ Minus(f, g) \in Counts
           /\ \A o \in Objects, k \in Kinds : Minus(f, g)[o][k] = f[o][k] - g[o][k]
BY DEF Minus, Counts

\* A record with events has a positive counter of one of the kinds.
LEMMA NoEvents ==
    ASSUME NEW f \in [Kinds -> Nat], f = Zero, NEW k \in Kinds
    PROVE  f[k] = 0
BY ZeroValue

LEMMA IdleType ==
    /\ Idle.pc = "idle" /\ Idle.new = {} /\ Idle.ids = {}
    /\ Idle \in CallStates
BY ZeroType DEF Idle, CallStates

-----------------------------------------------------------------------------
(* The invariant is inductive. *)

LEMMA InitInv == Init => IInv
<1> SUFFICES ASSUME Init PROVE IInv
  OBVIOUS
<1>1. TypeInv
  BY ZeroType, IdleType DEF Init, TypeInv, CallStates
<1>2. Balanced
  BY ZeroValue DEF Init, Balanced, None
<1>3. \A p \in Calls : call[p] = Idle
  BY DEF Init
<1>4. OneOpen /\ SumIsCurrent
  BY <1>3, IdleType DEF OneOpen, SumIsCurrent, Open
<1>5. FloorIsCovered
  BY <1>3, IdleType DEF FloorIsCovered, Open
<1> QED
  BY <1>1, <1>2, <1>4, <1>5 DEF IInv

\* A transaction that is the only one finds the connection free of others.
LEMMA RecordFileUsageInv ==
    ASSUME Serial, IInv, NEW o \in Objects, NEW k \in Kinds, RecordFileUsage(o, k)
    PROVE  IInv'
<1>1. \A p \in Calls : ~Open(p)
  BY DEF RecordFileUsage, Connection, Open
<1>2. /\ events' \in Counts /\ recorded' \in Counts
      /\ \A x \in Objects, y \in Kinds :
           /\ events'[x][y] = events[x][y] + (IF x = o /\ y = k THEN 1 ELSE 0)
           /\ recorded'[x][y] = recorded[x][y] + (IF x = o /\ y = k THEN 1 ELSE 0)
  BY DEF RecordFileUsage, IInv, TypeInv, CallStates, Counts
<1>3. TypeInv'
  BY <1>2 DEF RecordFileUsage, IInv, TypeInv, CallStates
<1>4. Balanced'
  BY <1>2 DEF RecordFileUsage, IInv, TypeInv, CallStates, Balanced, Counts
<1>5. OneOpen' /\ SumIsCurrent'
  BY <1>1 DEF RecordFileUsage, IInv, OneOpen, SumIsCurrent, Open
<1>6. FloorIsCovered'
  BY <1>1 DEF RecordFileUsage, IInv, FloorIsCovered, Open
<1> QED
  BY <1>3, <1>4, <1>5, <1>6 DEF IInv

LEMMA RegisterObjectsInv ==
    ASSUME Serial, IInv, NEW p \in Calls, NEW ids \in SUBSET Objects, ids # {},
           RegisterObjects(p, ids)
    PROVE  IInv'
<1>1. \A q \in Calls : ~Open(q)
  BY DEF RegisterObjects, Connection, Open
<1>2. /\ call' = [call EXCEPT ![p] = [@ EXCEPT !.pc = "sum", !.new = ids, !.ids = ids]]
      /\ UNCHANGED <<rows, events, usage, recorded>>
  BY DEF RegisterObjects, IInv, TypeInv, CallStates
<1>3. /\ call'[p].pc = "sum" /\ call'[p].new = ids /\ call'[p].ids = ids
      /\ \A q \in Calls \ {p} : call'[q] = call[q]
  BY <1>2 DEF IInv, TypeInv, CallStates
<1>4. TypeInv'
  BY <1>2 DEF IInv, TypeInv, CallStates
<1>5. Balanced'
  BY <1>2 DEF IInv, Balanced
<1>6. OneOpen' /\ SumIsCurrent'
  BY <1>1, <1>2, <1>3 DEF IInv, OneOpen, SumIsCurrent, Open
<1>7. FloorIsCovered'
  BY <1>1, <1>2, <1>3 DEF IInv, FloorIsCovered, Open
<1> QED
  BY <1>4, <1>5, <1>6, <1>7 DEF IInv

LEMMA FlushInv ==
    ASSUME Serial, IInv, NEW p \in Calls, FlushObjectUsageEvents(p)
    PROVE  IInv'
<1> DEFINE ids == ExistingObjectIDsWithEvents(p)
           floor == Only(recorded, rows)
<1>1. \A q \in Calls : ~Open(q)
  BY DEF FlushObjectUsageEvents, Connection, Open
<1>2. /\ call' = [call EXCEPT ![p] = [@ EXCEPT !.pc = IF ids = {} THEN "read" ELSE "sum",
                                              !.ids = ids, !.floor = floor]]
      /\ UNCHANGED <<rows, events, usage, recorded>>
  BY DEF FlushObjectUsageEvents, IInv, TypeInv, CallStates
<1>3. floor \in Counts /\ ids \subseteq rows
  BY OnlyType DEF IInv, TypeInv, CallStates, ExistingObjectIDsWithEvents
<1>4. TypeInv'
  <2> HIDE DEF ids, floor
  <2> QED BY <1>2, <1>3 DEF IInv, TypeInv, CallStates
<1>5. /\ call'[p].pc = (IF ids = {} THEN "read" ELSE "sum") /\ call'[p].new = {}
      /\ call'[p].ids = ids /\ call'[p].floor = floor
      /\ \A q \in Calls \ {p} : call'[q] = call[q]
  <2> HIDE DEF ids, floor
  <2> QED BY <1>1, <1>2 DEF IInv, TypeInv, CallStates, OneOpen
<1>6. \A o \in Objects, k \in Kinds :
        IF o \in ids THEN recorded[o][k] >= floor[o][k] ELSE usage[o][k] >= floor[o][k]
  <2> TAKE o \in Objects, k \in Kinds
  <2>1. floor[o][k] = IF o \in rows THEN recorded[o][k] ELSE 0
    BY OnlyValue DEF IInv, TypeInv, CallStates
  <2>2. o \in rows /\ o \notin ids => events[o][k] = 0
    BY <2>1, NoEvents DEF ExistingObjectIDsWithEvents, IInv, TypeInv, CallStates, Counts
  <2> HIDE DEF ids, floor
  <2> QED BY <2>1, <2>2 DEF IInv, TypeInv, CallStates, Balanced, Counts
<1>7. Balanced'
  BY <1>2 DEF IInv, Balanced
<1> HIDE DEF ids, floor
<1>8. OneOpen' /\ SumIsCurrent'
  BY <1>1, <1>2, <1>3, <1>5 DEF IInv, OneOpen, SumIsCurrent, Open
<1>9. FloorIsCovered'
  BY <1>1, <1>2, <1>5, <1>6 DEF IInv, FloorIsCovered, Open
<1> QED
  BY <1>4, <1>7, <1>8, <1>9 DEF IInv

\* The statements of an open flush: what the other calls do not see.
LEMMA SumEventsInv ==
    ASSUME Serial, IInv, NEW p \in Calls, SumEvents(p)
    PROVE  IInv'
<1> DEFINE sum == Only(events, call[p].ids \cap (rows \cup call[p].new))
<1>1. Open(p) /\ \A q \in Calls \ {p} : ~Open(q)
  BY DEF SumEvents, Open, IInv, OneOpen
<1>2. /\ call' = [call EXCEPT ![p] = [@ EXCEPT !.pc = "apply", !.sum = sum]]
      /\ UNCHANGED <<rows, events, usage, recorded>>
  BY DEF SumEvents, IInv, TypeInv, CallStates
<1>3. sum \in Counts
  BY OnlyType DEF IInv, TypeInv, CallStates
<1>4. call'[p] = [call[p] EXCEPT !.pc = "apply", !.sum = sum] /\ \A q \in Calls \ {p} : call'[q] = call[q]
  BY <1>2 DEF IInv, TypeInv, CallStates
<1>5. /\ call'[p].pc = "apply" /\ call'[p].sum = sum /\ call'[p].new = call[p].new
      /\ call'[p].ids = call[p].ids /\ call'[p].floor = call[p].floor
  <2> HIDE DEF sum
  <2> QED BY <1>4 DEF IInv, TypeInv, CallStates
<1>6. TypeInv'
  <2> HIDE DEF sum
  <2> QED BY <1>2, <1>3 DEF IInv, TypeInv, CallStates
<1>7. Balanced'
  BY <1>2 DEF IInv, Balanced
<1>8. OneOpen' /\ SumIsCurrent'
  <2>1. \A q \in Calls : /\ call'[q].new = call[q].new /\ call'[q].ids = call[q].ids
                         /\ Open(q)' = Open(q)
    BY <1>1, <1>4, <1>5 DEF Open
  <2>2. OneOpen'
    BY <2>1 DEF IInv, OneOpen
  <2>3. Only(events, call[p].ids \cap (rows \cup call[p].new))' = sum
    BY <1>2, <2>1
  <2>4. \A q \in Calls \ {p} : call'[q].pc \notin {"apply", "purge", "commit"}
    BY <1>1, <1>4 DEF Open
  <2>5. \A q \in Calls : Open(q)' => call'[q].ids \subseteq rows' \cup call'[q].new
    BY <1>2, <2>1 DEF IInv, SumIsCurrent
  <2> HIDE DEF sum
  <2> QED BY <1>5, <2>2, <2>3, <2>4, <2>5 DEF SumIsCurrent
<1>9. FloorIsCovered'
  <2> HIDE DEF sum
  <2> QED BY <1>1, <1>2, <1>4, <1>5 DEF IInv, FloorIsCovered, Open
<1> QED
  BY <1>6, <1>7, <1>8, <1>9 DEF IInv

LEMMA ApplySumsInv ==
    ASSUME Serial, IInv, NEW p \in Calls, ApplySums(p)
    PROVE  IInv'
<1>1. Open(p) /\ call[p].pc = "apply" /\ \A q \in Calls \ {p} : ~Open(q)
  BY DEF ApplySums, Open, IInv, OneOpen
<1>2. /\ call' = [call EXCEPT ![p] = [@ EXCEPT !.pc = "purge"]]
      /\ UNCHANGED <<rows, events, usage, recorded>>
  BY DEF ApplySums, IInv, TypeInv, CallStates
<1>3. /\ call'[p].pc = "purge" /\ call'[p].sum = call[p].sum /\ call'[p].new = call[p].new
      /\ call'[p].ids = call[p].ids /\ call'[p].floor = call[p].floor
      /\ \A q \in Calls \ {p} : call'[q] = call[q]
  BY <1>2 DEF IInv, TypeInv, CallStates
<1>4. TypeInv'
  BY <1>2 DEF IInv, TypeInv, CallStates
<1>5. Balanced'
  BY <1>2 DEF IInv, Balanced
<1>6. OneOpen' /\ SumIsCurrent'
  BY <1>1, <1>2, <1>3 DEF IInv, OneOpen, SumIsCurrent, Open
<1>7. FloorIsCovered'
  BY <1>1, <1>2, <1>3 DEF IInv, FloorIsCovered, Open
<1> QED
  BY <1>4, <1>5, <1>6, <1>7 DEF IInv

LEMMA PurgeEventsInv ==
    ASSUME Serial, IInv, NEW p \in Calls, PurgeEvents(p)
    PROVE  IInv'
<1>1. Open(p) /\ call[p].pc = "purge" /\ \A q \in Calls \ {p} : ~Open(q)
  BY DEF PurgeEvents, Open, IInv, OneOpen
<1>2. /\ call' = [call EXCEPT ![p] = [@ EXCEPT !.pc = "commit", !.purged = Purged(p)]]
      /\ UNCHANGED <<rows, events, usage, recorded>>
  BY DEF PurgeEvents, IInv, TypeInv, CallStates
<1>3. Purged(p) \in Counts
  BY OnlyType DEF IInv, TypeInv, CallStates, Purged
<1>4. /\ call'[p].pc = "commit" /\ call'[p].sum = call[p].sum /\ call'[p].new = call[p].new
      /\ call'[p].ids = call[p].ids /\ call'[p].floor = call[p].floor /\ call'[p].purged = Purged(p)
      /\ \A q \in Calls \ {p} : call'[q] = call[q]
  BY <1>2 DEF IInv, TypeInv, CallStates
<1>5. TypeInv'
  BY <1>2, <1>3 DEF IInv, TypeInv, CallStates
<1>6. Balanced'
  BY <1>2 DEF IInv, Balanced
<1>7. OneOpen' /\ SumIsCurrent'
  BY <1>1, <1>2, <1>4 DEF IInv, OneOpen, SumIsCurrent, Open, Purged
<1>8. FloorIsCovered'
  BY <1>1, <1>2, <1>4 DEF IInv, FloorIsCovered, Open
<1> QED
  BY <1>5, <1>6, <1>7, <1>8 DEF IInv

\* The commit moves what it deleted, neither more nor less, to the counters.
LEMMA CommitFlushInv ==
    ASSUME Serial, IInv, NEW p \in Calls, CommitFlush(p)
    PROVE  IInv'
<1> DEFINE seen == Only(events, call[p].ids \cap (rows \cup call[p].new))
           after == IF call[p].new # {} THEN Idle
                    ELSE [Idle EXCEPT !.pc = "read", !.floor = call[p].floor]
<1>1. Open(p) /\ call[p].pc = "commit" /\ \A q \in Calls \ {p} : ~Open(q)
  BY DEF CommitFlush, Open, IInv, OneOpen
<1>2. call[p].sum = seen /\ call[p].purged = seen
  BY <1>1 DEF IInv, SumIsCurrent
<1>3. seen \in Counts
  BY OnlyType DEF IInv, TypeInv, CallStates
<1>4. \A o \in Objects, k \in Kinds :
        seen[o][k] = IF o \in call[p].ids \cap (rows \cup call[p].new) THEN events[o][k] ELSE 0
  BY OnlyValue DEF IInv, TypeInv, CallStates
<1> HIDE DEF seen
<1>5. /\ usage' \in Counts /\ events' \in Counts
      /\ \A o \in Objects, k \in Kinds :
           usage'[o][k] = usage[o][k] + seen[o][k] /\ events'[o][k] = events[o][k] - seen[o][k]
  <2>1. \A o \in Objects, k \in Kinds : seen[o][k] <= events[o][k]
    <3>1. \A o \in Objects, k \in Kinds : events[o][k] \in Nat
      BY DEF IInv, TypeInv, Counts
    <3> QED BY <1>4, <3>1
  <2>2. usage' = Plus(usage, seen) /\ events' = Minus(events, seen)
    BY <1>2 DEF CommitFlush
  <2>3. usage \in Counts /\ events \in Counts
    BY DEF IInv, TypeInv, CallStates
  <2> QED BY <1>3, <2>1, <2>2, <2>3, PlusType, MinusType
<1>6. /\ call' = [call EXCEPT ![p] = after] /\ rows' = rows \cup call[p].new /\ recorded' = recorded
  BY DEF CommitFlush
<1>7. /\ after.new = {} /\ after.pc = (IF call[p].new # {} THEN "idle" ELSE "read")
      /\ call[p].new = {} => after.floor = call[p].floor
      /\ after \in CallStates
  BY IdleType DEF IInv, TypeInv, CallStates
<1> HIDE DEF after
<1>8. call'[p] = after /\ \A q \in Calls \ {p} : call'[q] = call[q]
  BY <1>6 DEF IInv, TypeInv, CallStates
<1>9. TypeInv'
  BY <1>5, <1>6, <1>7 DEF IInv, TypeInv, CallStates
<1>10. Balanced'
  BY <1>3, <1>5, <1>6 DEF IInv, TypeInv, CallStates, Balanced, Counts
<1>11. OneOpen' /\ SumIsCurrent'
  BY <1>1, <1>7, <1>8 DEF IInv, OneOpen, SumIsCurrent, Open
<1>12. FloorIsCovered'
  <2> SUFFICES ASSUME NEW q \in Calls, NEW o \in Objects, NEW k \in Kinds, call'[q].pc = "read"
               PROVE  usage'[o][k] >= call'[q].floor[o][k]
    BY <1>1, <1>7, <1>8 DEF FloorIsCovered, Open
  <2>1. /\ usage[o][k] \in Nat /\ events[o][k] \in Nat /\ seen[o][k] \in Nat
        /\ call[q].floor[o][k] \in Nat /\ usage[o][k] + events[o][k] = recorded[o][k]
        /\ usage'[o][k] = usage[o][k] + seen[o][k]
    BY <1>3, <1>5 DEF IInv, TypeInv, CallStates, Counts, Balanced
  <2>2. CASE q = p
    <3>1. call[p].new = {} /\ call'[q].floor = call[p].floor
      BY <1>7, <1>8, <2>2
    <3>2. IF o \in call[p].ids THEN recorded[o][k] >= call[p].floor[o][k]
          ELSE usage[o][k] >= call[p].floor[o][k]
      BY <1>1, <3>1 DEF IInv, FloorIsCovered
    <3>3. o \in call[p].ids => o \in rows
      BY <1>1, <3>1 DEF IInv, SumIsCurrent
    <3>4. o \in call[p].ids => seen[o][k] = events[o][k]
      BY <1>4, <3>1, <3>3
    <3> QED BY <2>1, <2>2, <3>1, <3>2, <3>4
  <2>3. CASE q # p
    <3>1. call'[q] = call[q] /\ call[q].pc = "read"
      BY <1>8, <2>3
    <3>2. usage[o][k] >= call[q].floor[o][k]
      BY <3>1 DEF IInv, FloorIsCovered
    <3> QED BY <2>1, <3>1, <3>2
  <2> QED BY <2>2, <2>3
<1> QED
  BY <1>9, <1>10, <1>11, <1>12 DEF IInv

\* A call that ends without committing leaves nothing of its flush.
LEMMA EndCallInv ==
    ASSUME Serial, IInv, NEW p \in Calls, call' = [call EXCEPT ![p] = Idle],
           UNCHANGED <<rows, events, usage, recorded>>
    PROVE  IInv'
<1>1. call'[p] = Idle /\ \A q \in Calls \ {p} : call'[q] = call[q]
  BY DEF IInv, TypeInv, CallStates
<1>2. TypeInv'
  BY IdleType DEF IInv, TypeInv, CallStates
<1>3. Balanced'
  BY DEF IInv, Balanced
<1>4. OneOpen' /\ SumIsCurrent'
  BY <1>1, IdleType DEF IInv, OneOpen, SumIsCurrent, Open
<1>5. FloorIsCovered'
  BY <1>1, IdleType DEF IInv, FloorIsCovered, Open
<1> QED
  BY <1>2, <1>3, <1>4, <1>5 DEF IInv

\* A deletion takes the counters with it, and what reports owe of the record.
LEMMA DeleteObjectInv ==
    ASSUME Serial, IInv, NEW x \in Objects, DeleteObject(x)
    PROVE  IInv'
<1>1. \A q \in Calls : ~Open(q) /\ call[q].new = {}
  BY DEF DeleteObject, Connection, Open
<1>2. /\ usage' = [usage EXCEPT ![x] = Zero] /\ recorded' = [recorded EXCEPT ![x] = events[x]]
      /\ rows' = rows \ {x} /\ events' = events
  BY DEF DeleteObject
<1>3. usage' \in Counts /\ recorded' \in Counts
  BY <1>2, ZeroType DEF IInv, TypeInv, CallStates, Counts
<1>4. \A q \in Calls : call'[q] = [call[q] EXCEPT !.floor = [@ EXCEPT ![x] = Zero]]
  BY DEF DeleteObject
<1>5. \A q \in Calls :
        /\ [call[q].floor EXCEPT ![x] = Zero] \in Counts
        /\ call'[q].pc = call[q].pc /\ call'[q].new = call[q].new
        /\ call'[q].floor = [call[q].floor EXCEPT ![x] = Zero]
        /\ call'[q] \in CallStates
  <2> SUFFICES ASSUME NEW q \in Calls
               PROVE  /\ [call[q].floor EXCEPT ![x] = Zero] \in Counts
                      /\ call'[q].pc = call[q].pc /\ call'[q].new = call[q].new
                      /\ call'[q].floor = [call[q].floor EXCEPT ![x] = Zero]
                      /\ call'[q] \in CallStates
    OBVIOUS
  <2> DEFINE floor == [call[q].floor EXCEPT ![x] = Zero]
  <2>1. call[q] \in CallStates
    BY DEF IInv, TypeInv
  <2>2. call[q].floor \in Counts
    BY <2>1 DEF CallStates
  <2>3. floor \in Counts
    BY <2>2, ZeroType DEF Counts
  <2>4. call'[q] = [call[q] EXCEPT !.floor = floor]
    BY <1>4
  <2> HIDE DEF floor
  <2>5. /\ call'[q].pc = call[q].pc /\ call'[q].new = call[q].new
        /\ call'[q].floor = floor /\ call'[q] \in CallStates
    BY <2>1, <2>3, <2>4 DEF CallStates
  <2> QED BY <2>3, <2>5 DEF floor
<1>6. TypeInv'
  <2>1. call' = [q \in Calls |-> call'[q]]
    BY DEF DeleteObject
  <2>2. call' \in [Calls -> CallStates]
    BY <1>5, <2>1
  <2> QED BY <1>2, <1>3, <2>2 DEF IInv, TypeInv
<1>7. Balanced'
  BY <1>2, ZeroValue DEF IInv, TypeInv, CallStates, Balanced, Counts
<1>8. OneOpen' /\ SumIsCurrent'
  BY <1>1, <1>5 DEF IInv, OneOpen, SumIsCurrent, Open
<1>9. FloorIsCovered'
  <2> SUFFICES ASSUME NEW q \in Calls, NEW o \in Objects, NEW k \in Kinds, call'[q].pc = "read"
               PROVE  usage'[o][k] >= call'[q].floor[o][k]
    BY <1>1, <1>5 DEF FloorIsCovered, Open
  <2>1. usage[o][k] >= call[q].floor[o][k]
    BY <1>5 DEF IInv, FloorIsCovered
  <2>2. call[q].floor \in Counts /\ usage \in Counts
    BY DEF IInv, TypeInv, CallStates
  <2>3. CASE o = x
    <3>1. usage'[o] = Zero /\ call'[q].floor[o] = Zero
      BY <1>2, <1>5, <2>2, <2>3 DEF Counts
    <3>2. Zero[k] = 0
      BY ZeroValue
    <3> QED BY <3>1, <3>2
  <2>4. CASE o # x
    BY <1>2, <1>5, <2>1, <2>2, <2>4 DEF Counts
  <2> QED BY <2>3, <2>4
<1> QED
  BY <1>6, <1>7, <1>8, <1>9 DEF IInv

LEMMA NextInv ==
    ASSUME Serial, IInv, [Next]_vars
    PROVE  IInv'
<1>1. CASE UNCHANGED vars
  BY <1>1 DEF vars, IInv, TypeInv, CallStates, Balanced, OneOpen, SumIsCurrent, FloorIsCovered, Open
<1>2. ASSUME NEW o \in Objects, NEW k \in Kinds, RecordFileUsage(o, k) PROVE IInv'
  BY <1>2, RecordFileUsageInv
<1>3. ASSUME NEW o \in Objects, DeleteObject(o) PROVE IInv'
  BY <1>3, DeleteObjectInv
<1>4. ASSUME NEW p \in Calls, NEW ids \in (SUBSET Objects) \ {{}}, RegisterObjects(p, ids) PROVE IInv'
  BY <1>4, RegisterObjectsInv
<1>5. ASSUME NEW p \in Calls, FlushObjectUsageEvents(p) PROVE IInv'
  BY <1>5, FlushInv
<1>6. ASSUME NEW p \in Calls, SumEvents(p) PROVE IInv'
  BY <1>6, SumEventsInv
<1>7. ASSUME NEW p \in Calls, ApplySums(p) PROVE IInv'
  BY <1>7, ApplySumsInv
<1>8. ASSUME NEW p \in Calls, PurgeEvents(p) PROVE IInv'
  BY <1>8, PurgeEventsInv
<1>9. ASSUME NEW p \in Calls, CommitFlush(p) PROVE IInv'
  BY <1>9, CommitFlushInv
<1>10. ASSUME NEW p \in Calls, RollbackFlush(p) PROVE IInv'
  BY <1>10, EndCallInv DEF RollbackFlush
<1>11. ASSUME NEW p \in Calls, GetFileUsage(p) PROVE IInv'
  BY <1>11, EndCallInv DEF GetFileUsage
<1> QED
  BY <1>1, <1>2, <1>3, <1>4, <1>5, <1>6, <1>7, <1>8, <1>9, <1>10, <1>11 DEF Next

-----------------------------------------------------------------------------
(* The theorems. *)

\* On the single connection the inductive invariant holds in every state.
THEOREM LedgerInvariance ==
    ASSUME Serial
    PROVE  Spec => []IInv
<1>1. Init => IInv
  BY InitInv
<1>2. IInv /\ [Next]_vars => IInv'
  BY NextInv
<1> QED
  BY <1>1, <1>2, PTL DEF Spec

\* No flush loses an event or counts it twice, however registrations, reports,
\* deletions and failures interleave on the single connection
\* (sqlite/usage_accounting.go).
THEOREM LedgerExact ==
    ASSUME Serial
    PROVE  Spec => []UsageExact
<1>1. IInv => UsageExact
  BY DEF IInv, TypeInv, CallStates, Balanced, UsageExact
<1> QED
  BY <1>1, LedgerInvariance, PTL

\* A report on the single connection shows every event recorded before it was
\* asked for.
THEOREM LedgerReports ==
    ASSUME Serial
    PROVE  Spec => []ReportsAreCurrent
<1>1. IInv => ReportsAreCurrent
  BY DEF IInv, TypeInv, CallStates, FloorIsCovered, ReportsAreCurrent
<1> QED
  BY <1>1, LedgerInvariance, PTL

-----------------------------------------------------------------------------
(* Metadata staging. *)

LfsCallStates == [pc : {"idle", "pop", "delete", "register", "count"},
               oid : Oids \cup {IdleVerify.oid}, stamp : Nat]

LfsTypeInv ==
    /\ pending \in [Oids -> [stamp : Nat, live : BOOLEAN]]
    /\ verify \in [Calls -> LfsCallStates]
    /\ \A p \in Calls : verify[p].pc # "idle" => verify[p].oid \in Oids
    /\ stamp \in 0 .. MaxStamp
    /\ takers \in [Oids -> [Stamps -> Nat]]

\* An entry that is in the table has been staged and handed to nobody.
Untaken ==
    \A o \in Oids : pending[o] # NoEntry =>
      /\ pending[o].stamp \in 1 .. stamp
      /\ takers[o][pending[o].stamp] = 0

\* The single connection: one pop at a time is between its two statements, and
\* the row it deletes holds the entry it has read.
PopAlone ==
    /\ \A p, q \in Calls : verify[p].pc = "delete" /\ verify[q].pc = "delete" => p = q
    /\ \A p \in Calls : verify[p].pc = "delete" =>
         /\ pending[verify[p].oid] # NoEntry
         /\ pending[verify[p].oid].stamp = verify[p].stamp

\* Entries not staged yet are in nobody's hands.
NotYetTaken == \A o \in Oids, s \in Stamps : s > stamp => takers[o][s] = 0

LfsIInv == LfsTypeInv /\ Untaken /\ PopAlone /\ NotYetTaken /\ ConsumedOnce

-----------------------------------------------------------------------------

LEMMA IdleFields == IdleVerify.pc = "idle" /\ IdleVerify.stamp = 0
BY DEF IdleVerify

LEMMA LfsIdleType == IdleVerify \in LfsCallStates
BY DEF IdleVerify, LfsCallStates

\* One call moves, the others stay where they are.
LEMMA Moved ==
    ASSUME LfsTypeInv, NEW p \in Calls, NEW c \in LfsCallStates, verify' = [verify EXCEPT ![p] = c]
    PROVE  /\ verify' \in [Calls -> LfsCallStates]
           /\ verify'[p] = c
           /\ \A q \in Calls \ {p} : verify'[q] = verify[q]
BY DEF LfsTypeInv

\* A pruned table holds entries of the table, all the live ones among them.
LEMMA PruneKeeps ==
    ASSUME LfsTypeInv, NEW o \in Oids
    PROVE  /\ PruneExpired(pending) \in [Oids -> [stamp : Nat, live : BOOLEAN]]
           /\ PruneExpired(pending)[o] \in {NoEntry, pending[o]}
           /\ pending[o].live => PruneExpired(pending)[o] = pending[o]
BY DEF LfsTypeInv, PruneExpired, NoEntry

LEMMA LfsInitInv == LfsInit => LfsIInv
BY LfsAssumption, LfsIdleType, IdleFields
   DEF LfsInit, LfsIInv, LfsTypeInv, Untaken, PopAlone, NotYetTaken, ConsumedOnce, NoEntry, Stamps

\* With the connection free no pop has read its entry.
LEMMA NobodyPops ==
    ASSUME Serial, LfsConnection
    PROVE  \A p \in Calls : verify[p].pc # "delete"
BY DEF LfsConnection

LEMMA SaveInv ==
    ASSUME Serial, LfsIInv, NEW oids \in SUBSET Oids, SavePendingMetadata(oids)
    PROVE  LfsIInv'
<1> USE LfsAssumption DEF LfsIInv, Stamps
<1>1. stamp \in Nat /\ stamp' = stamp + 1 /\ stamp' \in 1 .. MaxStamp
  BY DEF SavePendingMetadata, LfsTypeInv
<1>2. \A o \in Oids : pending'[o] = IF o \in oids THEN [stamp |-> stamp', live |-> TRUE]
                                    ELSE PruneExpired(pending)[o]
  BY DEF SavePendingMetadata
<1>3. LfsTypeInv'
  <2>1. ASSUME NEW o \in Oids PROVE pending'[o] \in [stamp : Nat, live : BOOLEAN]
    <3>1. CASE o \in oids
      <4>1. stamp' \in Nat
        BY <1>1
      <4>2. [stamp |-> stamp', live |-> TRUE] \in [stamp : Nat, live : BOOLEAN]
        BY <4>1
      <4> QED
        BY <1>2, <3>1, <4>2
    <3>2. CASE o \notin oids
      BY <1>2, <3>2, PruneKeeps
    <3> QED
      BY <3>1, <3>2
  <2> QED
    BY <1>1, <2>1 DEF SavePendingMetadata, LfsTypeInv
<1>4. Untaken'
  <2> SUFFICES ASSUME NEW o \in Oids, pending'[o] # NoEntry
               PROVE  pending'[o].stamp \in 1 .. stamp' /\ takers'[o][pending'[o].stamp] = 0
    BY DEF Untaken
  <2>1. takers' = takers
    BY DEF SavePendingMetadata
  <2>2. CASE o \in oids
    BY <1>1, <1>2, <2>1, <2>2 DEF NotYetTaken
  <2>3. CASE o \notin oids
    <3>1. pending'[o] = pending[o]
      BY <1>2, <2>3, PruneKeeps
    <3> QED
      BY <1>1, <2>1, <3>1 DEF Untaken
  <2> QED
    BY <2>2, <2>3
<1>5. PopAlone'
  BY NobodyPops DEF SavePendingMetadata, PopAlone
<1>6. NotYetTaken' /\ ConsumedOnce'
  BY <1>1 DEF SavePendingMetadata, NotYetTaken, ConsumedOnce, LfsTypeInv
<1> QED
  BY <1>3, <1>4, <1>5, <1>6

LEMMA GetInv ==
    ASSUME Serial, LfsIInv, GetPendingMetadata
    PROVE  LfsIInv'
<1> USE DEF LfsIInv
<1>1. LfsTypeInv'
  <2>1. PruneExpired(pending) \in [Oids -> [stamp : Nat, live : BOOLEAN]]
    BY DEF LfsTypeInv, PruneExpired, NoEntry
  <2> QED
    BY <2>1 DEF GetPendingMetadata, LfsTypeInv
<1>2. Untaken'
  BY PruneKeeps DEF GetPendingMetadata, Untaken
<1>3. PopAlone' /\ NotYetTaken' /\ ConsumedOnce'
  BY NobodyPops DEF GetPendingMetadata, PopAlone, NotYetTaken, ConsumedOnce
<1> QED
  BY <1>1, <1>2, <1>3

LEMMA ExpireInv ==
    ASSUME LfsIInv, NEW o \in Oids, Expire(o)
    PROVE  LfsIInv'
<1> USE DEF LfsIInv
<1>1. /\ pending'[o] = [stamp |-> pending[o].stamp, live |-> FALSE]
      /\ \A i \in Oids \ {o} : pending'[i] = pending[i]
      /\ pending[o] # NoEntry /\ pending[o].stamp # 0
  <2>1. pending[o] \in [stamp : Nat, live : BOOLEAN] /\ stamp \in Nat
    BY DEF LfsTypeInv
  <2>2. pending'[o] = [pending[o] EXCEPT !.live = FALSE]
    BY DEF Expire, LfsTypeInv
  <2>3. \A i \in Oids \ {o} : pending'[i] = pending[i]
    BY DEF Expire, LfsTypeInv
  <2>4. pending[o] # NoEntry /\ pending[o].stamp # 0
    BY <2>1 DEF Expire, Untaken
  <2> QED
    BY <2>1, <2>2, <2>3, <2>4
<1>2. LfsTypeInv'
  BY <1>1 DEF Expire, LfsTypeInv
<1>3. Untaken'
  BY <1>1 DEF Expire, Untaken
<1>4. \A p \in Calls : verify[p].pc = "delete" =>
         pending'[verify[p].oid] # NoEntry /\ pending'[verify[p].oid].stamp = verify[p].stamp
  <2> SUFFICES ASSUME NEW p \in Calls, verify[p].pc = "delete"
               PROVE  /\ pending'[verify[p].oid] # NoEntry
                      /\ pending'[verify[p].oid].stamp = verify[p].stamp
    OBVIOUS
  <2>1. verify[p].oid \in Oids
    BY DEF LfsTypeInv
  <2>2. CASE verify[p].oid = o
    BY <1>1, <2>2 DEF PopAlone, NoEntry
  <2>3. CASE verify[p].oid # o
    BY <1>1, <2>1, <2>3 DEF PopAlone
  <2> QED
    BY <2>2, <2>3
<1>5. PopAlone' /\ NotYetTaken' /\ ConsumedOnce'
  BY <1>4 DEF Expire, PopAlone, NotYetTaken, ConsumedOnce
<1> QED
  BY <1>2, <1>3, <1>5

LEMMA PopFetchInv ==
    ASSUME Serial, LfsIInv, NEW p \in Calls, PopFetch(p)
    PROVE  LfsIInv'
<1> USE DEF LfsIInv
<1> DEFINE entry == pending[verify[p].oid]
           fetched == [verify[p] EXCEPT !.pc = "delete", !.stamp = entry.stamp]
           next == IF entry # NoEntry /\ entry.live THEN fetched ELSE IdleVerify
<1>1. verify[p].oid \in Oids /\ verify[p] \in LfsCallStates /\ entry.stamp \in Nat
  BY DEF PopFetch, LfsTypeInv
<1>2. /\ fetched \in LfsCallStates
      /\ fetched.pc = "delete" /\ fetched.oid = verify[p].oid /\ fetched.stamp = entry.stamp
  <2> HIDE DEF entry
  <2> QED
    BY <1>1 DEF LfsCallStates
<1>3. next \in LfsCallStates /\ verify' = [verify EXCEPT ![p] = next]
  <2>1. verify' = [verify EXCEPT ![p] = next]
    BY DEF PopFetch
  <2> HIDE DEF fetched
  <2> QED
    BY <1>2, <2>1, LfsIdleType
<1>4. /\ verify' \in [Calls -> LfsCallStates]
      /\ verify'[p] = next
      /\ \A q \in Calls \ {p} : verify'[q] = verify[q]
  <2> HIDE DEF next
  <2> QED
    BY <1>3, Moved
<1>5. UNCHANGED <<pending, stamp, takers>>
  BY DEF PopFetch
<1> HIDE DEF fetched
<1>6. LfsTypeInv'
  <2>1. \A q \in Calls : verify'[q].pc # "idle" => verify'[q].oid \in Oids
    BY <1>1, <1>2, <1>4, IdleFields DEF LfsTypeInv
  <2> QED
    BY <1>4, <1>5, <2>1 DEF LfsTypeInv
<1>7. PopAlone'
  <2>1. \A q \in Calls \ {p} : verify'[q].pc # "delete"
    BY <1>4, NobodyPops DEF PopFetch
  <2>2. verify'[p].pc = "delete" =>
          /\ entry # NoEntry
          /\ verify'[p].oid = verify[p].oid /\ verify'[p].stamp = entry.stamp
    BY <1>2, <1>4, IdleFields
  <2> QED
    BY <1>5, <2>1, <2>2 DEF PopAlone
<1>8. Untaken' /\ NotYetTaken' /\ ConsumedOnce'
  BY <1>5 DEF Untaken, NotYetTaken, ConsumedOnce
<1> QED
  BY <1>6, <1>7, <1>8

LEMMA PopDeleteInv ==
    ASSUME LfsIInv, NEW p \in Calls, PopDelete(p)
    PROVE  LfsIInv'
<1> USE DEF LfsIInv
<1> DEFINE oid == verify[p].oid
           s == verify[p].stamp
<1>1. oid \in Oids /\ pending[oid] # NoEntry /\ pending[oid].stamp = s
  BY DEF PopDelete, LfsTypeInv, PopAlone
<1>2. s \in Stamps /\ s <= stamp /\ takers[oid][s] = 0
  BY LfsAssumption, <1>1, SMT DEF Untaken, LfsTypeInv, Stamps
<1>3. /\ takers' \in [Oids -> [Stamps -> Nat]]
      /\ takers'[oid][s] = 1
      /\ \A o \in Oids, i \in Stamps : o # oid \/ i # s => takers'[o][i] = takers[o][i]
  <2>1. takers' = [takers EXCEPT ![oid][s] = takers[oid][s] + 1]
    BY DEF PopDelete
  <2> HIDE DEF oid, s
  <2> QED
    BY <1>1, <1>2, <2>1 DEF LfsTypeInv
<1>4. /\ pending' \in [Oids -> [stamp : Nat, live : BOOLEAN]]
      /\ pending'[oid] = NoEntry
      /\ \A o \in Oids \ {oid} : pending'[o] \in {NoEntry, pending[o]}
  <2>1. pending' = [PruneExpired(pending) EXCEPT ![oid] = NoEntry]
    BY DEF PopDelete, WithoutEntry
  <2>2. PruneExpired(pending) \in [Oids -> [stamp : Nat, live : BOOLEAN]]
    BY DEF LfsTypeInv, PruneExpired, NoEntry
  <2>3. \A o \in Oids : PruneExpired(pending)[o] \in {NoEntry, pending[o]}
    BY PruneKeeps
  <2> HIDE DEF oid
  <2> QED
    BY <1>1, <2>1, <2>2, <2>3 DEF NoEntry
<1>5. /\ \A q \in Calls \ {p} : verify'[q] = verify[q]
      /\ verify' \in [Calls -> LfsCallStates]
      /\ verify'[p].pc = "register" /\ verify'[p].oid = oid
  <2>1. verify[p] \in LfsCallStates
    BY DEF LfsTypeInv
  <2>2. verify' = [verify EXCEPT ![p] = [verify[p] EXCEPT !.pc = "register"]]
    BY DEF PopDelete, LfsTypeInv
  <2> DEFINE c == [verify[p] EXCEPT !.pc = "register"]
  <2>3. c \in LfsCallStates /\ c.pc = "register" /\ c.oid = oid
    BY <2>1 DEF LfsCallStates
  <2>4. verify' = [verify EXCEPT ![p] = c]
    BY <2>2
  <2> HIDE DEF c
  <2> QED
    BY <2>3, <2>4, Moved
<1>6. \A q \in Calls : verify'[q].pc # "delete"
  BY <1>5 DEF PopAlone, PopDelete
<1>7. LfsTypeInv'
  <2>1. \A q \in Calls : verify'[q].pc # "idle" => verify'[q].oid \in Oids
    <3> HIDE DEF oid
    <3> QED
      BY <1>1, <1>5 DEF LfsTypeInv
  <2> QED
    BY <1>3, <1>4, <1>5, <2>1 DEF LfsTypeInv, PopDelete
<1>8. Untaken'
  <2> SUFFICES ASSUME NEW o \in Oids, pending'[o] # NoEntry
               PROVE  pending'[o].stamp \in 1 .. stamp' /\ takers'[o][pending'[o].stamp] = 0
    BY DEF Untaken
  <2>1. o # oid /\ pending'[o] = pending[o]
    BY <1>4
  <2>2. pending[o].stamp \in 1 .. stamp /\ takers[o][pending[o].stamp] = 0
    BY <2>1 DEF Untaken
  <2>3. pending[o].stamp \in Stamps /\ stamp' = stamp
    BY LfsAssumption, <2>2 DEF LfsTypeInv, Stamps, PopDelete
  <2> QED
    BY <1>3, <2>1, <2>2, <2>3
<1>9. NotYetTaken' /\ ConsumedOnce'
  <2>1. stamp' = stamp /\ stamp \in Nat
    BY DEF PopDelete, LfsTypeInv
  <2>2. NotYetTaken'
    BY <1>2, <1>3, <2>1 DEF NotYetTaken, Stamps
  <2>3. ConsumedOnce'
    BY <1>3 DEF ConsumedOnce, LfsTypeInv
  <2> QED
    BY <2>2, <2>3
<1> QED
  BY <1>6, <1>7, <1>8, <1>9 DEF PopAlone

\* The steps of a call that leave the staged entries alone.
LEMMA CallInv ==
    ASSUME LfsIInv, NEW p \in Calls,
           \/ \E oid \in Oids : Verify(p, oid)
           \/ RegisterCandidate(p)
           \/ RecordUpload(p)
           \/ Fail(p)
    PROVE  LfsIInv'
<1> USE DEF LfsIInv
<1> DEFINE Aside ==
      /\ UNCHANGED <<pending, stamp, takers>>
      /\ verify'[p].pc # "delete"
      /\ verify'[p].pc # "idle" => verify'[p].oid \in Oids
      /\ \A q \in Calls \ {p} : verify'[q] = verify[q]
      /\ verify' \in [Calls -> LfsCallStates]
<1>1. Aside
  <2>0. verify[p] \in LfsCallStates
    BY DEF LfsTypeInv
  <2>1. ASSUME NEW oid \in Oids, Verify(p, oid) PROVE Aside
    <3>1. PICK pc \in {"pop", "count"} :
             verify' = [verify EXCEPT ![p] = [pc |-> pc, oid |-> oid, stamp |-> 0]]
      BY <2>1 DEF Verify
    <3>2. [pc |-> pc, oid |-> oid, stamp |-> 0] \in LfsCallStates
      BY DEF LfsCallStates
    <3> DEFINE c == [pc |-> pc, oid |-> oid, stamp |-> 0]
    <3>3. c \in LfsCallStates /\ c.pc # "delete" /\ c.oid \in Oids
      BY <3>2
    <3>4. verify' = [verify EXCEPT ![p] = c]
      BY <3>1
    <3> HIDE DEF c
    <3> QED
      BY <2>1, <3>3, <3>4, Moved DEF Verify
  <2>2. CASE RegisterCandidate(p)
    <3>1. verify' = [verify EXCEPT ![p] = [verify[p] EXCEPT !.pc = "count"]]
      BY <2>2 DEF RegisterCandidate, LfsTypeInv
    <3>2. verify[p].oid \in Oids
      BY <2>2 DEF RegisterCandidate, LfsTypeInv
    <3> DEFINE c == [verify[p] EXCEPT !.pc = "count"]
    <3>3. c \in LfsCallStates /\ c.pc = "count" /\ c.oid \in Oids
      BY <2>0, <3>2 DEF LfsCallStates
    <3>4. verify' = [verify EXCEPT ![p] = c]
      BY <3>1
    <3> HIDE DEF c
    <3> QED
      BY <2>2, <3>3, <3>4, Moved DEF RegisterCandidate
  <2>3. CASE RecordUpload(p) \/ Fail(p)
    <3>1. verify' = [verify EXCEPT ![p] = IdleVerify] /\ UNCHANGED <<pending, stamp, takers>>
      BY <2>3 DEF RecordUpload, Fail
    <3> QED
      BY <3>1, IdleFields, LfsIdleType, Moved
  <2> HIDE DEF LfsIInv
  <2> QED
    BY <2>1, <2>2, <2>3
<1>2. LfsTypeInv'
  BY <1>1 DEF LfsTypeInv
<1>3. PopAlone'
  BY <1>1 DEF PopAlone
<1>4. Untaken' /\ NotYetTaken' /\ ConsumedOnce'
  BY <1>1 DEF Untaken, NotYetTaken, ConsumedOnce
<1> QED
  BY <1>2, <1>3, <1>4

LEMMA LfsNextInv ==
    ASSUME Serial
    PROVE  LfsIInv /\ [LfsNext]_lfsVars => LfsIInv'
<1> SUFFICES ASSUME LfsIInv, [LfsNext]_lfsVars PROVE LfsIInv'
  OBVIOUS
<1>1. ASSUME NEW oids \in SUBSET Oids, SavePendingMetadata(oids) PROVE LfsIInv'
  BY <1>1, SaveInv
<1>2. CASE GetPendingMetadata
  BY <1>2, GetInv
<1>3. ASSUME NEW o \in Oids, Expire(o) PROVE LfsIInv'
  BY <1>3, ExpireInv
<1>4. ASSUME NEW o \in Oids, DeleteLfsObject(o) PROVE LfsIInv'
  BY <1>4 DEF DeleteLfsObject, LfsIInv, LfsTypeInv, Untaken, PopAlone, NotYetTaken, ConsumedOnce
<1>5. ASSUME NEW p \in Calls, PopFetch(p) PROVE LfsIInv'
  BY <1>5, PopFetchInv
<1>6. ASSUME NEW p \in Calls, PopDelete(p) PROVE LfsIInv'
  BY <1>6, PopDeleteInv
<1>7. ASSUME NEW p \in Calls, \/ \E oid \in Oids : Verify(p, oid)
                              \/ RegisterCandidate(p) \/ RecordUpload(p) \/ Fail(p)
      PROVE  LfsIInv'
  BY <1>7, CallInv
<1>8. CASE UNCHANGED lfsVars
  BY <1>8 DEF lfsVars, LfsIInv, LfsTypeInv, Untaken, PopAlone, NotYetTaken, ConsumedOnce
<1> QED
  BY <1>1, <1>2, <1>3, <1>4, <1>5, <1>6, <1>7, <1>8 DEF LfsNext

\* Every reachable state on the single connection satisfies the invariant: a pop
\* runs alone between its statements and the table holds only untaken entries.
THEOREM StagingInvariance ==
    ASSUME Serial
    PROVE  LfsSpec => []LfsIInv
<1>1. LfsInit => LfsIInv
  BY LfsInitInv
<1>2. LfsIInv /\ [LfsNext]_lfsVars => LfsIInv'
  BY LfsNextInv
<1> QED
  BY <1>1, <1>2, PTL DEF LfsSpec

\* However many verifications of an oid run concurrently, and whatever is staged
\* again meanwhile, a staged entry is handed out once (PopPendingMetadata on
\* SQLite, persistence/sqlite/lfs.go).
THEOREM StagedConsumedOnce ==
    ASSUME Serial
    PROVE  LfsSpec => []ConsumedOnce
<1>1. LfsIInv => ConsumedOnce
  BY DEF LfsIInv
<1> QED
  BY <1>1, StagingInvariance, PTL

\* A live entry leaves the table only to the verification that consumed it, or
\* under a newer one: PopPendingMetadata deletes on the single connection the
\* entry it has read, and the pruning never takes a live one.
THEOREM StagedEntriesNotLost ==
    ASSUME Serial
    PROVE  LfsSpec => StagedNotLost
<1> DEFINE Kept(o) ==
      pending[o] # NoEntry /\ pending[o].live /\ pending'[o] # pending[o] =>
        \/ pending'[o] # NoEntry /\ pending'[o].stamp >= pending[o].stamp
        \/ takers'[o][pending[o].stamp] > takers[o][pending[o].stamp]
<1>1. LfsIInv /\ [LfsNext]_lfsVars => [\A o \in Oids : Kept(o)]_lfsVars
  <2> SUFFICES ASSUME LfsIInv, LfsNext, NEW o \in Oids PROVE Kept(o)
    OBVIOUS
  <2> SUFFICES ASSUME pending[o] # NoEntry, pending[o].live, pending'[o] # pending[o]
               PROVE  Kept(o)
    OBVIOUS
  <2>1. /\ pending[o].stamp \in 1 .. stamp /\ stamp \in 0 .. MaxStamp
        /\ pending[o].stamp \in Stamps /\ takers[o][pending[o].stamp] = 0
    BY LfsAssumption DEF LfsIInv, LfsTypeInv, Untaken, Stamps
  <2>2. PruneExpired(pending)[o] = pending[o]
    BY PruneKeeps DEF LfsIInv
  <2>3. ASSUME NEW oids \in SUBSET Oids, SavePendingMetadata(oids) PROVE Kept(o)
    <3>1. pending'[o] = [stamp |-> stamp + 1, live |-> TRUE]
      BY <2>2, <2>3 DEF SavePendingMetadata
    <3> QED
      BY <2>1, <3>1 DEF NoEntry
  <2>4. CASE GetPendingMetadata
    BY <2>2, <2>4 DEF GetPendingMetadata
  <2>5. ASSUME NEW i \in Oids, Expire(i) PROVE Kept(o)
    <3>1. pending'[o] = [stamp |-> pending[o].stamp, live |-> FALSE]
      BY <2>5 DEF Expire, LfsIInv, LfsTypeInv
    <3> QED
      BY <2>1, <3>1 DEF NoEntry
  <2>6. ASSUME NEW p \in Calls, PopDelete(p) PROVE Kept(o)
    <3>1. verify[p].oid \in Oids /\ verify[p].stamp = pending[verify[p].oid].stamp
      BY <2>6 DEF PopDelete, LfsIInv, LfsTypeInv, PopAlone
    <3>2. o = verify[p].oid
      BY <2>2, <2>6 DEF PopDelete, WithoutEntry, PruneExpired
    <3>3. takers'[o][pending[o].stamp] = takers[o][pending[o].stamp] + 1
      BY <2>1, <2>6, <3>1, <3>2 DEF PopDelete, LfsIInv, LfsTypeInv
    <3> QED
      BY <2>1, <3>3
  <2>7. CASE UNCHANGED pending
    BY <2>7
  <2> QED
    BY <2>3, <2>4, <2>5, <2>6, <2>7
    DEF LfsNext, Verify, PopFetch, RegisterCandidate, RecordUpload, Fail, DeleteLfsObject
<1> QED
  BY <1>1, StagingInvariance, PTL DEF LfsSpec, StagedNotLost
==============================================================================
