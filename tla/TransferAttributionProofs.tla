---------------------- MODULE TransferAttributionProofs ----------------------
(***************************************************************************)
(* Every URL that is issued is counted, and counted once, for every number *)
(* of concurrent requests, of items in a request, of faults and restarts.  *)
(*                                                                         *)
(* The downloads are compared by counting: what callers have been given,   *)
(* and what requests that are still open hold back, is on the counters.    *)
(***************************************************************************)
EXTENDS TransferAttribution, FiniteSetTheorems, TLAPS

Steps == {"idle", "sign", "count", "insert", "upsert", "commit", "reply"}

CallStates == [pc : Steps, ask : Asks \cup {IdleIssue.ask}, at : Nat \ {0},
               fresh : BOOLEAN, urls : SUBSET (Nat \ {0})]

\* A request is at one of its items and holds URLs of that and earlier ones.
Sound(c) ==
    c.pc # "idle" =>
      /\ c.ask \in Asks
      /\ c.at \in 1 .. Len(c.ask.items)
      /\ c.urls \subseteq 1 .. c.at
      /\ c.pc # "reply" => c.at \notin c.urls

TypeInv ==
    /\ up \in BOOLEAN
    /\ attribution \subseteq Events /\ IsFiniteSet(attribution)
    /\ grants \in [Grants -> Nat]
    /\ counted \in [Counters -> Nat] /\ fetched \in [Counters -> Nat]
    /\ issue \in [Callers -> CallStates]
    /\ \A p \in Callers : Sound(issue[p])

\* A server that is down handles nothing, and leaves grants that are missing
\* or right.
GrantsRight ==
    /\ ~up => \A p \in Callers : issue[p].pc = "idle"
    /\ \A g \in Grants : grants[g] = IssuedFor(g) \/ (~up /\ grants[g] = 0)

\* The transactions between insertion and commit: one that inserted its event is
\* the only one to have it, one that did not insert found it stored.
InsertedOnce ==
    /\ \A p \in Callers : issue[p].pc = "upsert" => issue[p].fresh
    /\ \A p \in Callers : Inserted(p) => (issue[p].fresh <=> Event(p) \notin attribution)
    /\ \A p, q \in Callers :
         /\ p # q
         /\ Inserted(p) /\ issue[p].fresh
         /\ Inserted(q) /\ issue[q].fresh
         => Event(p) # Event(q)

\* What a request is about to give out is on record.
HeldRecorded ==
    /\ returned \subseteq attribution
    /\ \A p \in Callers : issue[p].pc # "idle" =>
         \A i \in issue[p].urls : EventID(issue[p].ask.req, issue[p].ask.items[i]) \in attribution

\* The items of a request that have been counted and not been given out.
Waits(c, i) ==
    /\ c.pc # "idle"
    /\ i \in c.urls \/ (i = c.at /\ c.pc \in {"insert", "upsert", "commit"})
CountedAs(c, i) == <<c.ask.items[i].obj, c.ask.items[i].tally>>
Awaiting(k) ==
    {w \in Callers \X Nat : Waits(issue[w[1]], w[2]) /\ CountedAs(issue[w[1]], w[2]) = k}

\* The counters cover what was given out and what waits to be.
CountsCover ==
    \A k \in Counters :
      /\ IsFiniteSet(Awaiting(k))
      /\ fetched[k] + Cardinality(Awaiting(k)) <= counted[k]

IInv == TypeInv /\ GrantsRight /\ InsertedOnce /\ HeldRecorded /\ CountsCover

-----------------------------------------------------------------------------
(* The steps of a request. *)

LEMMA IdleFields ==
    IdleIssue.pc = "idle" /\ IdleIssue.at = 1 /\ ~IdleIssue.fresh /\ IdleIssue.urls = {}
BY DEF IdleIssue

LEMMA IdleType == IdleIssue \in CallStates /\ Sound(IdleIssue)
<1>1. IdleIssue \in CallStates
  BY DEF IdleIssue, CallStates, Steps
<1> QED
  BY <1>1, IdleFields DEF Sound

LEMMA Moved ==
    ASSUME TypeInv, NEW p \in Callers, NEW c \in CallStates, issue' = [issue EXCEPT ![p] = c]
    PROVE  /\ issue' \in [Callers -> CallStates]
           /\ issue'[p] = c
           /\ \A q \in Callers \ {p} : issue'[q] = issue[q]
BY DEF TypeInv

\* The items of a request, and the events they cause.
LEMMA ItemsOf ==
    ASSUME NEW a \in Asks, NEW i \in 1 .. Len(a.items)
    PROVE  /\ Len(a.items) \in Nat
           /\ a.items[i] \in Items
           /\ EventID(a.req, a.items[i]) \in Events
           /\ GrantID(EventID(a.req, a.items[i])) \in Grants
<1>1. a.items \in Seq(Items)
  BY AttributionAssumption
<1>2. Len(a.items) \in Nat /\ a.items[i] \in Items
  BY <1>1
<1>3. EventID(a.req, a.items[i]) \in Events
  BY <1>2 DEF Events
<1> QED
  BY <1>2, <1>3 DEF Grants

LEMMA OnwardSound ==
    ASSUME NEW c \in CallStates, c.ask \in Asks,
           c.at \in 1 .. Len(c.ask.items), c.urls \subseteq 1 .. c.at
    PROVE  /\ Onward(c) \in CallStates /\ Sound(Onward(c))
           /\ Onward(c).pc \in {"sign", "reply"}
           /\ Onward(c).ask = c.ask /\ Onward(c).urls = c.urls
<1>1. Len(c.ask.items) \in Nat
  BY ItemsOf
<1> DEFINE last == c.at = Len(c.ask.items)
<1>2. /\ Onward(c) \in CallStates
      /\ Onward(c).pc = IF last THEN "reply" ELSE "sign"
      /\ Onward(c).at = IF last THEN c.at ELSE c.at + 1
      /\ Onward(c).ask = c.ask /\ Onward(c).urls = c.urls
  <2> DEFINE at == IF last THEN c.at ELSE c.at + 1
             pc == IF last THEN "reply" ELSE "sign"
  <2>1. at \in Nat \ {0} /\ pc \in Steps
    BY <1>1 DEF Steps
  <2>2. Onward(c) = [c EXCEPT !.pc = pc, !.at = at, !.fresh = FALSE]
    BY DEF Onward
  <2> HIDE DEF at, pc
  <2>3. /\ Onward(c) \in CallStates /\ Onward(c).pc = pc /\ Onward(c).at = at
        /\ Onward(c).ask = c.ask /\ Onward(c).urls = c.urls
    BY <2>1, <2>2 DEF CallStates
  <2> QED
    BY <2>3 DEF at, pc
<1>3. Onward(c).at \in 1 .. Len(c.ask.items) /\ Onward(c).urls \subseteq 1 .. Onward(c).at
  BY <1>1, <1>2
<1>4. Onward(c).pc # "reply" => Onward(c).at \notin Onward(c).urls
  BY <1>1, <1>2
<1> QED
  BY <1>2, <1>3, <1>4 DEF Sound

\* A request that goes on without its item holds the URLs it held.
LEMMA WithoutItemSound ==
    ASSUME NEW c \in CallStates, Sound(c), c.pc # "idle"
    PROVE  /\ WithoutItem(c) \in CallStates /\ Sound(WithoutItem(c))
           /\ WithoutItem(c).pc \in {"idle", "sign", "reply"}
           /\ WithoutItem(c).pc # "idle" =>
                WithoutItem(c).ask = c.ask /\ WithoutItem(c).urls = c.urls
BY OnwardSound, IdleType, IdleFields DEF WithoutItem, Sound

\* One more event: only its grant has one more to count.
LEMMA OneMoreEvent ==
    ASSUME IsFiniteSet(attribution), NEW e, attribution' = attribution \cup {e}, NEW g
    PROVE  /\ IsFiniteSet(attribution')
           /\ IssuedFor(g) \in Nat
           /\ IssuedFor(g)' = IF GrantID(e) = g /\ e \notin attribution
                                THEN IssuedFor(g) + 1 ELSE IssuedFor(g)
<1> DEFINE S == {f \in attribution : GrantID(f) = g}
           T == {f \in attribution' : GrantID(f) = g}
<1>1. IsFiniteSet(S) /\ Cardinality(S) \in Nat
  <2>1. S \in SUBSET attribution
    OBVIOUS
  <2> HIDE DEF S
  <2> QED
    BY <2>1, FS_Subset, FS_CardinalityType
<1>2. IsFiniteSet(attribution')
  BY FS_AddElement
<1>3. CASE GrantID(e) = g
  <2>1. T = S \cup {e} /\ (e \in S <=> e \in attribution)
    BY <1>3
  <2> HIDE DEF S, T
  <2>2. Cardinality(T) = IF e \in S THEN Cardinality(S) ELSE Cardinality(S) + 1
    BY <1>1, <2>1, FS_AddElement
  <2> QED
    BY <1>1, <1>2, <1>3, <2>1, <2>2 DEF IssuedFor, S, T
<1>4. CASE GrantID(e) # g
  <2>1. T = S
    BY <1>4
  <2> QED
    BY <1>1, <1>2, <1>4, <2>1 DEF IssuedFor
<1> QED
  BY <1>3, <1>4

-----------------------------------------------------------------------------
(* The invariant is inductive. *)

\* Nothing waits in a server without requests.
LEMMA NothingWaits ==
    ASSUME \A p \in Callers : issue[p].pc = "idle", NEW k
    PROVE  Awaiting(k) = {} /\ IsFiniteSet(Awaiting(k)) /\ Cardinality(Awaiting(k)) = 0
<1>1. Awaiting(k) = {}
  BY DEF Awaiting, Waits
<1> QED
  BY <1>1, FS_EmptySet

LEMMA InitInv == IssueInit => IInv
<1> SUFFICES ASSUME IssueInit PROVE IInv
  OBVIOUS
<1>1. \A p \in Callers : issue[p].pc = "idle" /\ issue[p] \in CallStates /\ Sound(issue[p])
  BY IdleType, IdleFields DEF IssueInit
<1>2. attribution \subseteq Events /\ IsFiniteSet(attribution)
  BY AttributionAssumption, FS_Subset DEF IssueInit, Events
<1>3. Cardinality(Old) \in Nat
  BY AttributionAssumption, FS_CardinalityType
<1>4. TypeInv
  <2>1. grants \in [Grants -> Nat]
    BY <1>3 DEF IssueInit
  <2> QED
    BY <1>1, <1>2, <2>1, IdleType DEF IssueInit, TypeInv
<1>5. GrantsRight
  BY <1>1 DEF IssueInit, GrantsRight
<1>6. InsertedOnce /\ HeldRecorded
  BY <1>1 DEF IssueInit, InsertedOnce, HeldRecorded, Inserted
<1>7. CountsCover
  BY <1>1, NothingWaits DEF IssueInit, CountsCover
<1> QED
  BY <1>4, <1>5, <1>6, <1>7 DEF IInv

\* The server starts: the missing grants are filled in.
LEMMA BackfillInv ==
    ASSUME IInv, backfillAccessGrants
    PROVE  IInv'
<1> USE DEF IInv
<1>1. \A g \in Grants : IssuedFor(g) \in Nat
  <2> SUFFICES ASSUME NEW g \in Grants PROVE IssuedFor(g) \in Nat
    OBVIOUS
  <2> DEFINE S == {e \in attribution : GrantID(e) = g}
  <2>1. S \in SUBSET attribution /\ IsFiniteSet(attribution)
    BY DEF TypeInv
  <2> HIDE DEF S
  <2>2. Cardinality(S) \in Nat
    BY <2>1, FS_Subset, FS_CardinalityType
  <2> QED
    BY <2>2 DEF IssuedFor, S
<1>2. \A g \in Grants : grants'[g] = IssuedFor(g) /\ IssuedFor(g)' = IssuedFor(g)
  BY DEF backfillAccessGrants, Backfilled, GrantsRight, IssuedFor
<1>3. TypeInv'
  BY <1>1, <1>2 DEF backfillAccessGrants, TypeInv
<1>4. GrantsRight'
  BY <1>2 DEF backfillAccessGrants, GrantsRight
<1>5. InsertedOnce' /\ HeldRecorded'
  BY DEF backfillAccessGrants, InsertedOnce, HeldRecorded, Inserted, Event, Item
<1>6. CountsCover'
  BY DEF backfillAccessGrants, CountsCover, Awaiting
<1> QED
  BY <1>3, <1>4, <1>5, <1>6

LEMMA CrashInv ==
    ASSUME IInv, Crash
    PROVE  IInv'
<1> USE DEF IInv
<1>1. \A p \in Callers : issue'[p].pc = "idle" /\ issue'[p] \in CallStates /\ Sound(issue'[p])
  BY IdleType, IdleFields DEF Crash
<1>2. TypeInv'
  BY <1>1, IdleType DEF Crash, TypeInv
<1>3. GrantsRight'
  BY <1>1 DEF Crash, GrantsRight, IssuedFor
<1>4. InsertedOnce' /\ HeldRecorded'
  BY <1>1 DEF Crash, InsertedOnce, HeldRecorded, Inserted
<1>5. CountsCover'
  <2> SUFFICES ASSUME NEW k \in Counters
               PROVE  IsFiniteSet(Awaiting(k)') /\ fetched'[k] + Cardinality(Awaiting(k)') <= counted'[k]
    BY DEF CountsCover
  <2>1. Awaiting(k)' = {}
    BY <1>1 DEF Awaiting, Waits
  <2>2. IsFiniteSet(Awaiting(k)) /\ Cardinality(Awaiting(k)) \in Nat
    BY FS_CardinalityType DEF CountsCover
  <2> QED
    BY <2>1, <2>2, FS_EmptySet DEF Crash, CountsCover, TypeInv
<1> QED
  BY <1>2, <1>3, <1>4, <1>5

\* A request moves and what is stored stays: enough that it holds recorded URLs
\* only and that no item starts to wait.
LEMMA RequestMoves ==
    ASSUME IInv, up, NEW p \in Callers, NEW c \in CallStates, Sound(c),
           issue' = [issue EXCEPT ![p] = c],
           UNCHANGED <<up, attribution, grants, counted, returned, fetched>>,
           c.pc # "idle" =>
             \A i \in c.urls : EventID(c.ask.req, c.ask.items[i]) \in attribution,
           \A i \in Nat : Waits(c, i) /\ CountedAs(c, i) \in Counters =>
             Waits(issue[p], i) /\ CountedAs(issue[p], i) = CountedAs(c, i)
    PROVE  TypeInv' /\ GrantsRight' /\ HeldRecorded' /\ CountsCover'
<1> USE DEF IInv
<1>1. /\ issue' \in [Callers -> CallStates]
      /\ issue'[p] = c
      /\ \A q \in Callers \ {p} : issue'[q] = issue[q]
  BY Moved
<1>2. TypeInv'
  BY <1>1 DEF TypeInv
<1>3. GrantsRight'
  BY DEF GrantsRight, IssuedFor
<1>4. HeldRecorded'
  BY <1>1 DEF HeldRecorded
<1>5. CountsCover'
  <2> SUFFICES ASSUME NEW k \in Counters
               PROVE  IsFiniteSet(Awaiting(k)') /\ fetched'[k] + Cardinality(Awaiting(k)') <= counted'[k]
    BY DEF CountsCover
  <2>1. Awaiting(k)' \subseteq Awaiting(k)
    <3> SUFFICES ASSUME NEW q \in Callers, NEW i \in Nat, <<q, i>> \in Awaiting(k)'
                 PROVE  <<q, i>> \in Awaiting(k)
      BY DEF Awaiting
    <3>1. Waits(issue'[q], i) /\ CountedAs(issue'[q], i) = k
      BY DEF Awaiting
    <3>2. Waits(issue[q], i) /\ CountedAs(issue[q], i) = k
      BY <1>1, <3>1
    <3> QED
      BY <3>2 DEF Awaiting
  <2>2. IsFiniteSet(Awaiting(k)) /\ fetched[k] + Cardinality(Awaiting(k)) <= counted[k]
    BY DEF CountsCover
  <2>3. IsFiniteSet(Awaiting(k)') /\ Cardinality(Awaiting(k)') <= Cardinality(Awaiting(k))
    BY <2>1, <2>2, FS_Subset
  <2>4. Cardinality(Awaiting(k)') \in Nat /\ Cardinality(Awaiting(k)) \in Nat
    BY <2>2, <2>3, FS_CardinalityType
  <2> QED
    BY <2>2, <2>3, <2>4 DEF TypeInv
<1> QED
  BY <1>2, <1>3, <1>4, <1>5

\* A request outside the transaction leaves the others' insertions alone.
LEMMA RequestAtRest ==
    ASSUME IInv, NEW p \in Callers, NEW c \in CallStates, c.pc \notin {"upsert", "commit"},
           issue' = [issue EXCEPT ![p] = c], attribution' = attribution
    PROVE  InsertedOnce'
<1>1. /\ issue'[p] = c
      /\ \A q \in Callers \ {p} : issue'[q] = issue[q]
  BY Moved DEF IInv
<1> QED
  BY <1>1 DEF IInv, InsertedOnce, Inserted, Event, Item

\* A request is handled by a server that is up.
LEMMA BusyIsUp ==
    ASSUME IInv, NEW p \in Callers, issue[p].pc # "idle"
    PROVE  /\ up
           /\ issue[p] \in CallStates /\ issue[p].ask \in Asks
           /\ issue[p].at \in 1 .. Len(issue[p].ask.items) /\ issue[p].at \in Nat
           /\ issue[p].urls \subseteq 1 .. issue[p].at
           /\ issue[p].pc # "reply" => issue[p].at \notin issue[p].urls
           /\ \A i \in issue[p].urls :
                EventID(issue[p].ask.req, issue[p].ask.items[i]) \in attribution
<1>1. issue[p] \in CallStates /\ Sound(issue[p])
  BY DEF IInv, TypeInv
<1>2. issue[p].at \in Nat
  BY <1>1 DEF CallStates
<1> QED
  BY <1>1, <1>2 DEF IInv, GrantsRight, HeldRecorded, Sound

LEMMA IssueInv ==
    ASSUME IInv, NEW p \in Callers, NEW ask \in Asks, Issue(p, ask)
    PROVE  IInv'
<1> DEFINE c == [IdleIssue EXCEPT !.pc = "sign", !.ask = ask]
<1>1. /\ c \in CallStates
      /\ c.pc = "sign" /\ c.ask = ask /\ c.at = 1 /\ c.urls = {}
  BY IdleType, IdleFields DEF CallStates, Steps
<1>2. 1 \in 1 .. Len(ask.items)
  <2>1. ask.items \in Seq(Items) /\ ask.items # <<>>
    BY AttributionAssumption
  <2> DEFINE items == ask.items
  <2> HIDE DEF items
  <2>2. items \in Seq(Items) /\ items # <<>> => 1 \in 1 .. Len(items)
    OBVIOUS
  <2> QED
    BY <2>1, <2>2 DEF items
<1>3. issue' = [issue EXCEPT ![p] = c] /\ UNCHANGED <<up, attribution, grants, counted, returned, fetched>>
  BY DEF Issue
<1> HIDE DEF c
<1>4. Sound(c) /\ \A i \in Nat : ~Waits(c, i)
  BY <1>1, <1>2 DEF Sound, Waits
<1>5. TypeInv' /\ GrantsRight' /\ HeldRecorded' /\ CountsCover'
  BY <1>1, <1>3, <1>4, RequestMoves DEF Issue
<1>6. InsertedOnce'
  BY <1>1, <1>3, RequestAtRest
<1> QED
  BY <1>5, <1>6 DEF IInv

LEMMA SignInv ==
    ASSUME IInv, NEW p \in Callers, SignObjectURL(p)
    PROVE  IInv'
<1>0. PICK pc \in {"count", "insert"} :
        /\ issue' = [issue EXCEPT ![p].pc = pc]
        /\ pc = "insert" => Counter(p) \notin Counters
  BY DEF SignObjectURL
<1> DEFINE c == [issue[p] EXCEPT !.pc = pc]
<1>1. issue[p].pc = "sign"
  BY DEF SignObjectURL
<1>2. /\ c \in CallStates
      /\ c.pc = pc /\ c.ask = issue[p].ask /\ c.at = issue[p].at /\ c.urls = issue[p].urls
  BY <1>1, BusyIsUp DEF CallStates, Steps
<1>3. issue' = [issue EXCEPT ![p] = c] /\ UNCHANGED <<up, attribution, grants, counted, returned, fetched>>
  BY <1>0 DEF SignObjectURL, IInv, TypeInv
<1> HIDE DEF c
<1>4. Sound(c)
  BY <1>1, <1>2, BusyIsUp DEF Sound
<1>5. \A i \in Nat : Waits(c, i) /\ CountedAs(c, i) \in Counters =>
             Waits(issue[p], i) /\ CountedAs(issue[p], i) = CountedAs(c, i)
  BY <1>0, <1>1, <1>2 DEF Waits, CountedAs, Counter, Item
<1>6. TypeInv' /\ GrantsRight' /\ HeldRecorded' /\ CountsCover'
  BY <1>1, <1>2, <1>3, <1>4, <1>5, BusyIsUp, RequestMoves
<1>7. InsertedOnce'
  BY <1>2, <1>3, RequestAtRest
<1> QED
  BY <1>6, <1>7 DEF IInv

LEMMA ItemFailsInv ==
    ASSUME IInv, NEW p \in Callers, ItemFails(p)
    PROVE  IInv'
<1> DEFINE c == WithoutItem(issue[p])
<1>1. issue[p].pc # "idle" /\ issue[p] \in CallStates /\ Sound(issue[p])
  BY DEF ItemFails, IInv, TypeInv
<1>2. /\ c \in CallStates /\ Sound(c)
      /\ c.pc \in {"idle", "sign", "reply"}
      /\ c.pc # "idle" => c.ask = issue[p].ask /\ c.urls = issue[p].urls
  BY <1>1, WithoutItemSound
<1>3. issue' = [issue EXCEPT ![p] = c] /\ UNCHANGED <<up, attribution, grants, counted, returned, fetched>>
  BY DEF ItemFails
<1> HIDE DEF c
<1>4. \A i \in Nat : Waits(c, i) =>
             Waits(issue[p], i) /\ CountedAs(issue[p], i) = CountedAs(c, i)
  BY <1>1, <1>2 DEF Waits, CountedAs
<1>5. c.pc # "idle" => \A i \in c.urls : EventID(c.ask.req, c.ask.items[i]) \in attribution
  BY <1>1, <1>2, BusyIsUp
<1>6. TypeInv' /\ GrantsRight' /\ HeldRecorded' /\ CountsCover'
  BY <1>1, <1>2, <1>3, <1>4, <1>5, BusyIsUp, RequestMoves
<1>7. InsertedOnce'
  BY <1>2, <1>3, RequestAtRest
<1> QED
  BY <1>6, <1>7 DEF IInv

\* A transaction inserts its event, or finds it stored.
LEMMA InsertEventInv ==
    ASSUME IInv, NEW p \in Callers, InsertEvent(p)
    PROVE  IInv'
<1> DEFINE fresh == Event(p) \notin attribution
<1>0. PICK pc \in {"upsert", "commit"} :
        /\ issue' = [issue EXCEPT ![p].pc = pc, ![p].fresh = fresh]
        /\ pc = "upsert" <=> fresh
  BY DEF InsertEvent
<1> DEFINE c == [issue[p] EXCEPT !.pc = pc, !.fresh = fresh]
<1>1. issue[p].pc = "insert" /\ fresh \in BOOLEAN
  BY DEF InsertEvent
<1>2. /\ c \in CallStates
      /\ c.pc = pc /\ c.ask = issue[p].ask /\ c.at = issue[p].at /\ c.urls = issue[p].urls
      /\ c.fresh = fresh
  <2> HIDE DEF fresh
  <2> QED
    BY <1>1, BusyIsUp DEF CallStates, Steps
<1>3. issue' = [issue EXCEPT ![p] = c] /\ UNCHANGED <<up, attribution, grants, counted, returned, fetched>>
  <2> HIDE DEF fresh
  <2> QED
    BY <1>0 DEF InsertEvent, IInv, TypeInv
<1>4. \A q \in Callers \ {p} : Inserted(q) /\ issue[q].fresh => Event(q) # Event(p)
  BY DEF InsertEvent
<1> HIDE DEF c
<1>5. Sound(c)
  BY <1>1, <1>2, BusyIsUp DEF Sound
<1>6. \A i \in Nat : Waits(c, i) =>
             Waits(issue[p], i) /\ CountedAs(issue[p], i) = CountedAs(c, i)
  BY <1>1, <1>2 DEF Waits, CountedAs
<1>7. TypeInv' /\ GrantsRight' /\ HeldRecorded' /\ CountsCover'
  BY <1>1, <1>2, <1>3, <1>5, <1>6, BusyIsUp, RequestMoves
<1>8. InsertedOnce'
  <2>1. issue'[p] = c /\ \A q \in Callers \ {p} : issue'[q] = issue[q]
    BY <1>2, <1>3, Moved DEF IInv
  <2>2. Event(p)' = Event(p) /\ \A q \in Callers \ {p} : Event(q)' = Event(q)
    BY <1>2, <2>1 DEF Event, Item
  <2>3. \A q \in Callers \ {p} : Inserted(q)' = Inserted(q)
    BY <2>1 DEF Inserted
  <2>4. /\ issue'[p].pc = "upsert" => issue'[p].fresh
        /\ issue'[p].fresh <=> Event(p)' \notin attribution'
    BY <1>0, <1>2, <1>3, <2>1, <2>2
  <2>5. \A q \in Callers \ {p} :
          /\ issue'[q].pc = "upsert" => issue'[q].fresh
          /\ Inserted(q)' => (issue'[q].fresh <=> Event(q)' \notin attribution')
    BY <1>3, <2>1, <2>2, <2>3 DEF IInv, InsertedOnce
  <2>6. \A q \in Callers \ {p} : Inserted(q)' /\ issue'[q].fresh => Event(q)' # Event(p)'
    BY <1>4, <2>1, <2>2, <2>3
  <2>7. \A q, r \in Callers \ {p} :
          /\ q # r
          /\ Inserted(q)' /\ issue'[q].fresh
          /\ Inserted(r)' /\ issue'[r].fresh
          => Event(q)' # Event(r)'
    BY <2>1, <2>2, <2>3 DEF IInv, InsertedOnce
  <2> QED
    BY <2>4, <2>5, <2>6, <2>7 DEF InsertedOnce
<1> QED
  BY <1>7, <1>8 DEF IInv

LEMMA UpsertInv ==
    ASSUME IInv, NEW p \in Callers, UpsertAccessGrant(p)
    PROVE  IInv'
<1> DEFINE c == [issue[p] EXCEPT !.pc = "commit"]
<1>1. issue[p].pc = "upsert"
  BY DEF UpsertAccessGrant
<1>2. /\ c \in CallStates
      /\ c.pc = "commit" /\ c.ask = issue[p].ask /\ c.at = issue[p].at /\ c.urls = issue[p].urls
      /\ c.fresh = issue[p].fresh
  BY <1>1, BusyIsUp DEF CallStates, Steps
<1>3. issue' = [issue EXCEPT ![p] = c] /\ UNCHANGED <<up, attribution, grants, counted, returned, fetched>>
  BY DEF UpsertAccessGrant, IInv, TypeInv
<1> HIDE DEF c
<1>4. Sound(c)
  BY <1>1, <1>2, BusyIsUp DEF Sound
<1>5. \A i \in Nat : Waits(c, i) =>
             Waits(issue[p], i) /\ CountedAs(issue[p], i) = CountedAs(c, i)
  BY <1>1, <1>2 DEF Waits, CountedAs
<1>6. TypeInv' /\ GrantsRight' /\ HeldRecorded' /\ CountsCover'
  BY <1>1, <1>2, <1>3, <1>4, <1>5, BusyIsUp, RequestMoves
<1>7. InsertedOnce'
  <2>1. issue'[p] = c /\ \A q \in Callers \ {p} : issue'[q] = issue[q]
    BY <1>2, <1>3, Moved DEF IInv
  <2>2. \A q \in Callers : /\ issue'[q].ask = issue[q].ask /\ issue'[q].at = issue[q].at
                           /\ issue'[q].fresh = issue[q].fresh
                           /\ issue'[q].pc = "upsert" => issue[q].pc = "upsert"
                           /\ issue'[q].pc \in {"upsert", "commit"} => issue[q].pc \in {"upsert", "commit"}
    BY <1>1, <1>2, <2>1
  <2> QED
    BY <1>3, <2>2 DEF IInv, InsertedOnce, Inserted, Event, Item
<1> QED
  BY <1>6, <1>7 DEF IInv

\* The download is counted: its item starts to wait.
LEMMA RecordDownloadInv ==
    ASSUME IInv, NEW p \in Callers, RecordFileDownload(p)
    PROVE  IInv'
<1> DEFINE c == [issue[p] EXCEPT !.pc = "insert"]
<1>1. issue[p].pc = "count"
  BY DEF RecordFileDownload
<1>2. /\ c \in CallStates
      /\ c.pc = "insert" /\ c.ask = issue[p].ask /\ c.at = issue[p].at /\ c.urls = issue[p].urls
  BY <1>1, BusyIsUp DEF CallStates, Steps
<1>3. issue' = [issue EXCEPT ![p] = c] /\ UNCHANGED <<up, attribution, grants, returned, fetched>>
  BY DEF RecordFileDownload, IInv, TypeInv
<1> HIDE DEF c
<1>4. /\ issue' \in [Callers -> CallStates]
      /\ issue'[p] = c /\ \A q \in Callers \ {p} : issue'[q] = issue[q]
  BY <1>2, <1>3, Moved DEF IInv
<1>5. /\ counted' \in [Counters -> Nat]
      /\ \A k \in Counters : counted'[k] = IF k = Counter(p) THEN counted[k] + 1 ELSE counted[k]
  <2> DEFINE k == Counter(p)
  <2>1. counted' = [counted EXCEPT ![k] = counted[k] + 1] /\ counted \in [Counters -> Nat]
    BY DEF RecordFileDownload, IInv, TypeInv
  <2> HIDE DEF k
  <2>2. \A d \in Counters : counted'[d] = IF d = k THEN counted[d] + 1 ELSE counted[d]
    BY <2>1
  <2>3. \A d \in Counters : counted'[d] \in Nat
    BY <2>1, <2>2
  <2>4. counted' = [d \in Counters |-> counted'[d]]
    BY <2>1
  <2> QED
    BY <2>2, <2>3, <2>4 DEF k
<1>6. TypeInv'
  <2>1. Sound(c)
    BY <1>1, <1>2, BusyIsUp DEF Sound
  <2> QED
    BY <1>3, <1>4, <1>5, <2>1 DEF IInv, TypeInv
<1>7. GrantsRight'
  BY <1>1, <1>3, BusyIsUp DEF IInv, GrantsRight, IssuedFor
<1>8. HeldRecorded'
  BY <1>1, <1>2, <1>3, <1>4, BusyIsUp DEF IInv, HeldRecorded
<1>9. InsertedOnce'
  BY <1>2, <1>3, RequestAtRest
<1>10. CountsCover'
  <2> SUFFICES ASSUME NEW k \in Counters
               PROVE  IsFiniteSet(Awaiting(k)') /\ fetched'[k] + Cardinality(Awaiting(k)') <= counted'[k]
    BY DEF CountsCover
  <2>0. IsFiniteSet(Awaiting(k)) /\ fetched[k] + Cardinality(Awaiting(k)) <= counted[k]
    BY DEF CountsCover, IInv
  <2>00. Cardinality(Awaiting(k)) \in Nat /\ fetched[k] \in Nat /\ counted[k] \in Nat
    BY <2>0, FS_CardinalityType DEF IInv, TypeInv
  <2>1. \A i \in Nat : Waits(c, i) <=> Waits(issue[p], i) \/ i = issue[p].at
    BY <1>1, <1>2 DEF Waits
  <2>2. \A i \in Nat : CountedAs(c, i) = CountedAs(issue[p], i)
    BY <1>2 DEF CountedAs
  <2>3. CountedAs(issue[p], issue[p].at) = Counter(p) /\ issue[p].at \in Nat
    BY <1>1, BusyIsUp DEF CountedAs, Counter, Item
  <2>4. CASE k = Counter(p)
    <3>1. Awaiting(k)' = Awaiting(k) \cup {<<p, issue[p].at>>}
      <4>1. ASSUME NEW q \in Callers, NEW i \in Nat
            PROVE  <<q, i>> \in Awaiting(k)' <=> <<q, i>> \in Awaiting(k) \cup {<<p, issue[p].at>>}
        <5>1. CASE q = p
          BY <1>4, <2>1, <2>2, <2>3, <2>4, <5>1 DEF Awaiting
        <5>2. CASE q # p
          BY <1>4, <5>2 DEF Awaiting
        <5> QED
          BY <5>1, <5>2
      <4>2. Awaiting(k)' \subseteq Callers \X Nat /\ Awaiting(k) \subseteq Callers \X Nat
        BY DEF Awaiting
      <4> QED
        BY <2>3, <4>1, <4>2
    <3>2. /\ IsFiniteSet(Awaiting(k)') /\ Cardinality(Awaiting(k)') \in Nat
          /\ Cardinality(Awaiting(k)') <= Cardinality(Awaiting(k)) + 1
      <4> DEFINE A == Awaiting(k)
                 w == <<p, issue[p].at>>
      <4>1. IsFiniteSet(A) /\ Cardinality(A) \in Nat
        BY <2>0, <2>00
      <4> HIDE DEF A, w
      <4>2. /\ IsFiniteSet(A \cup {w}) /\ Cardinality(A \cup {w}) \in Nat
            /\ Cardinality(A \cup {w}) <= Cardinality(A) + 1
        <5>1. IsFiniteSet(A \cup {w})
          BY <4>1, FS_AddElement
        <5>2. Cardinality(A \cup {w}) = IF w \in A THEN Cardinality(A) ELSE Cardinality(A) + 1
          BY <4>1, FS_AddElement
        <5> QED
          BY <4>1, <5>1, <5>2
      <4> QED
        BY <3>1, <4>2 DEF A, w
    <3> QED
      BY <1>3, <1>5, <2>0, <2>00, <2>4, <3>2
  <2>5. CASE k # Counter(p)
    <3>1. Awaiting(k)' = Awaiting(k)
      BY <1>4, <2>1, <2>2, <2>3, <2>5 DEF Awaiting
    <3> QED
      BY <1>3, <1>5, <2>0, <2>5, <3>1
  <2> QED
    BY <2>4, <2>5
<1> QED
  BY <1>6, <1>7, <1>8, <1>9, <1>10 DEF IInv

\* The commit: a fresh event is stored with its grant counted, and the URL is
\* held for the answer.
LEMMA CommitInv ==
    ASSUME IInv, NEW p \in Callers, RecordTransferAttributionEvents(p)
    PROVE  IInv'
<1> DEFINE b == [issue[p] EXCEPT !.urls = issue[p].urls \cup {issue[p].at}]
           c == Onward(b)
<1>1. issue[p].pc = "commit"
  BY DEF RecordTransferAttributionEvents
<1>2. /\ b \in CallStates /\ b.ask = issue[p].ask /\ b.at = issue[p].at
      /\ b.urls = issue[p].urls \cup {issue[p].at}
  BY <1>1, BusyIsUp DEF CallStates
<1>3. /\ c \in CallStates /\ Sound(c) /\ c.pc \in {"sign", "reply"}
      /\ c.ask = issue[p].ask /\ c.urls = issue[p].urls \cup {issue[p].at}
  <2>1. b.ask \in Asks /\ b.at \in 1 .. Len(b.ask.items) /\ b.urls \subseteq 1 .. b.at
    <3> HIDE DEF b
    <3> QED
      BY <1>1, <1>2, BusyIsUp
  <2> HIDE DEF b
  <2> QED
    BY <1>2, <2>1, OnwardSound
<1>4. /\ issue' = [issue EXCEPT ![p] = c]
      /\ attribution' = attribution \cup {Event(p)}
      /\ grants' = IF issue[p].fresh THEN [grants EXCEPT ![GrantID(Event(p))] = @ + 1] ELSE grants
      /\ UNCHANGED <<up, counted, spent, returned, fetched>>
  BY DEF RecordTransferAttributionEvents
<1> HIDE DEF c
<1>5. /\ issue' \in [Callers -> CallStates]
      /\ issue'[p] = c /\ \A q \in Callers \ {p} : issue'[q] = issue[q]
  BY <1>3, <1>4, Moved DEF IInv
<1>6. /\ Event(p) \in Events /\ GrantID(Event(p)) \in Grants
      /\ Event(p) = EventID(issue[p].ask.req, issue[p].ask.items[issue[p].at])
  BY <1>1, BusyIsUp, ItemsOf DEF Event, Item
<1>7. issue[p].fresh <=> Event(p) \notin attribution
  BY <1>1 DEF IInv, InsertedOnce, Inserted
<1>8. IsFiniteSet(attribution') /\ \A g \in Grants :
        /\ IssuedFor(g) \in Nat /\ grants[g] = IssuedFor(g)
        /\ IssuedFor(g)' = IF g = GrantID(Event(p)) /\ issue[p].fresh
                             THEN IssuedFor(g) + 1 ELSE IssuedFor(g)
  <2>1. up /\ IsFiniteSet(attribution)
    BY <1>1, BusyIsUp DEF IInv, TypeInv
  <2>2. IsFiniteSet(attribution')
    BY <1>4, <2>1, OneMoreEvent
  <2>3. ASSUME NEW g \in Grants
        PROVE  /\ IssuedFor(g) \in Nat
               /\ IssuedFor(g)' = IF GrantID(Event(p)) = g /\ Event(p) \notin attribution
                                    THEN IssuedFor(g) + 1 ELSE IssuedFor(g)
    BY <1>4, <2>1, OneMoreEvent
  <2> QED
    BY <1>7, <2>1, <2>2, <2>3 DEF IInv, GrantsRight
<1>9. grants' \in [Grants -> Nat] /\ \A g \in Grants : grants'[g] = IssuedFor(g)'
  <2> DEFINE d == GrantID(Event(p))
  <2>1. /\ grants \in [Grants -> Nat] /\ d \in Grants
        /\ grants' = IF issue[p].fresh THEN [grants EXCEPT ![d] = grants[d] + 1] ELSE grants
    BY <1>4, <1>6 DEF IInv, TypeInv
  <2>2. \A g \in Grants : IssuedFor(g)' = IF g = d /\ issue[p].fresh
                             THEN grants[g] + 1 ELSE grants[g]
    BY <1>8
  <2> HIDE DEF d
  <2> QED
    BY <2>1, <2>2
<1>10. TypeInv'
  <2>1. \A q \in Callers : Sound(issue'[q])
    BY <1>3, <1>5 DEF IInv, TypeInv
  <2> QED
    BY <1>4, <1>5, <1>6, <1>8, <1>9, <2>1 DEF IInv, TypeInv
<1>11. GrantsRight'
  BY <1>1, <1>4, <1>9, BusyIsUp DEF GrantsRight
<1>12. HeldRecorded'
  <2>1. attribution \subseteq attribution' /\ returned' \subseteq attribution'
    BY <1>4 DEF IInv, HeldRecorded
  <2>2. \A i \in c.urls : EventID(c.ask.req, c.ask.items[i]) \in attribution'
    BY <1>1, <1>3, <1>4, <1>6, BusyIsUp
  <2>3. ASSUME NEW q \in Callers \ {p}, issue'[q].pc # "idle"
        PROVE  \A i \in issue'[q].urls : EventID(issue'[q].ask.req, issue'[q].ask.items[i]) \in attribution'
    BY <1>5, <2>1, <2>3, BusyIsUp
  <2> QED
    BY <1>5, <2>1, <2>2, <2>3 DEF HeldRecorded
<1>13. InsertedOnce'
  <2>1. ~Inserted(p)'
    BY <1>3, <1>5 DEF Inserted
  <2>2. \A q \in Callers \ {p} : /\ Inserted(q)' = Inserted(q) /\ Event(q)' = Event(q)
                               /\ issue'[q] = issue[q]
    BY <1>5 DEF Inserted, Event, Item
  <2>3. \A q \in Callers \ {p} : Inserted(q) =>
          (issue[q].fresh <=> Event(q) \notin attribution \cup {Event(p)})
    BY <1>1, <1>7 DEF IInv, InsertedOnce, Inserted
  <2>4. issue'[p].pc # "upsert"
    BY <1>3, <1>5
  <2> QED
    BY <1>4, <2>1, <2>2, <2>3, <2>4 DEF IInv, InsertedOnce
<1>14. CountsCover'
  <2> SUFFICES ASSUME NEW k \in Counters PROVE Awaiting(k)' = Awaiting(k)
    BY <1>4 DEF IInv, CountsCover
  <2>1. \A i \in Nat : /\ Waits(c, i) <=> Waits(issue[p], i)
                       /\ CountedAs(c, i) = CountedAs(issue[p], i)
    BY <1>1, <1>3 DEF Waits, CountedAs
  <2>2. ASSUME NEW q \in Callers, NEW i \in Nat
        PROVE  <<q, i>> \in Awaiting(k)' <=> <<q, i>> \in Awaiting(k)
    BY <1>5, <2>1 DEF Awaiting
  <2>3. Awaiting(k)' \subseteq Callers \X Nat /\ Awaiting(k) \subseteq Callers \X Nat
    BY DEF Awaiting
  <2> QED
    BY <2>2, <2>3
<1> QED
  BY <1>10, <1>11, <1>12, <1>13, <1>14 DEF IInv

\* The answer: what the request held has been given out.
LEMMA ReplyInv ==
    ASSUME IInv, NEW p \in Callers, Reply(p)
    PROVE  IInv'
<1>1. issue[p].pc = "reply"
  BY DEF Reply
<1>2. issue' = [issue EXCEPT ![p] = IdleIssue] /\ UNCHANGED <<up, attribution, grants, counted>>
  BY DEF Reply
<1>3. /\ issue' \in [Callers -> CallStates]
      /\ issue'[p] = IdleIssue /\ \A q \in Callers \ {p} : issue'[q] = issue[q]
  BY <1>2, Moved, IdleType DEF IInv
<1> DEFINE Given(k) == {i \in issue[p].urls : CountedAs(issue[p], i) = k}
<1>4. fetched' = [k \in Counters |-> fetched[k] + Cardinality(Given(k))]
  BY DEF Reply, CountedAs
<1>5. ASSUME NEW k \in Counters
      PROVE  /\ IsFiniteSet(Awaiting(k)') /\ Cardinality(Awaiting(k)') \in Nat
             /\ Cardinality(Given(k)) \in Nat
             /\ Cardinality(Awaiting(k)) = Cardinality(Awaiting(k)') + Cardinality(Given(k))
  <2> DEFINE A == Awaiting(k)
             B == Awaiting(k)'
             G == Given(k)
  <2>1. IsFiniteSet(A)
    BY DEF IInv, CountsCover
  <2>2. IsFiniteSet(G)
    <3>1. G \in SUBSET (1 .. issue[p].at) /\ issue[p].at \in Int
      BY <1>1, BusyIsUp
    <3> HIDE DEF G
    <3>2. IsFiniteSet(1 .. issue[p].at)
      BY <3>1, FS_Interval
    <3> QED
      BY <3>1, <3>2, FS_Subset
  <2>3. B \subseteq A /\ A = B \cup ({p} \X G) /\ B \cap ({p} \X G) = {}
    <3>1. \A i : i \in issue[p].urls => i \in Nat
      BY <1>1, BusyIsUp
    <3>2. ASSUME NEW q \in Callers, NEW i \in Nat
          PROVE  /\ <<q, i>> \in B <=> q # p /\ <<q, i>> \in A
                 /\ <<p, i>> \in A <=> i \in G
      <4>1. <<p, i>> \in A <=> i \in G
        BY <1>1 DEF Awaiting, Waits
      <4>2. <<q, i>> \in B <=> q # p /\ <<q, i>> \in A
        BY <1>3, IdleFields DEF Awaiting, Waits
      <4> QED
        BY <4>1, <4>2
    <3>3. A \subseteq Callers \X Nat /\ B \subseteq Callers \X Nat /\ G \subseteq Nat
      BY <3>1 DEF Awaiting
    <3> HIDE DEF A, B, G
    <3>4. ASSUME NEW w \in B PROVE w \in A
      <4>1. PICK q \in Callers, i \in Nat : w = <<q, i>>
        BY <3>3
      <4> QED
        BY <3>2, <4>1
    <3>5. ASSUME NEW w \in {p} \X G PROVE w \in A
      <4>1. PICK i \in G : w = <<p, i>>
        OBVIOUS
      <4>2. i \in Nat
        BY <3>3
      <4> QED
        BY <3>2, <4>1, <4>2
    <3>6. ASSUME NEW w \in A PROVE w \in B \cup ({p} \X G)
      <4>1. PICK q \in Callers, i \in Nat : w = <<q, i>>
        BY <3>3
      <4> QED
        BY <3>2, <4>1
    <3>7. ASSUME NEW w \in B PROVE w \notin {p} \X G
      <4>1. PICK q \in Callers, i \in Nat : w = <<q, i>>
        BY <3>3
      <4> QED
        BY <3>2, <4>1
    <3> QED
      BY <3>4, <3>5, <3>6, <3>7
  <2> HIDE DEF A, B, G
  <2>4. IsFiniteSet(B) /\ Cardinality(B) \in Nat /\ Cardinality(G) \in Nat
    BY <2>1, <2>2, <2>3, FS_Subset, FS_CardinalityType
  <2>5. IsFiniteSet({p} \X G) /\ Cardinality({p} \X G) = Cardinality(G)
    <3>1. IsFiniteSet({p}) /\ Cardinality({p}) = 1
      BY FS_Singleton
    <3>2. IsFiniteSet({p} \X G) /\ Cardinality({p} \X G) = Cardinality({p}) * Cardinality(G)
      BY <2>2, <3>1, FS_Product
    <3> QED
      BY <2>4, <3>1, <3>2
  <2>6. Cardinality(A) = Cardinality(B) + Cardinality(G)
    <3>1. Cardinality(B \cup ({p} \X G)) =
            Cardinality(B) + Cardinality({p} \X G) - Cardinality(B \cap ({p} \X G))
      BY <2>4, <2>5, FS_Union
    <3>2. Cardinality(B \cap ({p} \X G)) = 0
      BY <2>3, FS_EmptySet
    <3>3. Cardinality(A) = Cardinality(B \cup ({p} \X G))
      BY <2>3
    <3> QED
      BY <2>4, <2>5, <3>1, <3>2, <3>3
  <2> QED
    BY <2>4, <2>6 DEF A, B, G
<1> HIDE DEF Given
<1>6. TypeInv'
  <2>1. fetched' \in [Counters -> Nat]
    BY <1>4, <1>5 DEF IInv, TypeInv
  <2> QED
    BY <1>2, <1>3, <2>1, IdleType DEF IInv, TypeInv
<1>7. GrantsRight'
  BY <1>1, <1>2, BusyIsUp DEF IInv, GrantsRight, IssuedFor
<1>8. InsertedOnce'
  BY <1>2, IdleType, IdleFields, RequestAtRest
<1>9. HeldRecorded'
  <2>1. returned' \subseteq attribution
    BY <1>1, BusyIsUp DEF Reply, IInv, HeldRecorded
  <2> QED
    BY <1>2, <1>3, <2>1, IdleFields DEF IInv, HeldRecorded
<1>10. CountsCover'
  BY <1>2, <1>4, <1>5 DEF IInv, TypeInv, CountsCover
<1> QED
  BY <1>6, <1>7, <1>8, <1>9, <1>10 DEF IInv

LEMMA NextInv ==
    IInv /\ [IssueNext]_issueVars => IInv'
<1> SUFFICES ASSUME IInv, [IssueNext]_issueVars PROVE IInv'
  OBVIOUS
<1>1. CASE backfillAccessGrants \/ Crash
  BY <1>1, BackfillInv, CrashInv
<1>2. ASSUME NEW p \in Callers, NEW ask \in Asks, Issue(p, ask) PROVE IInv'
  BY <1>2, IssueInv
<1>3. ASSUME NEW p \in Callers, SignObjectURL(p) \/ RecordFileDownload(p) \/ InsertEvent(p)
      PROVE  IInv'
  BY <1>3, SignInv, RecordDownloadInv, InsertEventInv
<1>4. ASSUME NEW p \in Callers, UpsertAccessGrant(p) \/ RecordTransferAttributionEvents(p)
      PROVE  IInv'
  BY <1>4, UpsertInv, CommitInv
<1>5. ASSUME NEW p \in Callers, ItemFails(p) \/ Reply(p) PROVE IInv'
  BY <1>5, ItemFailsInv, ReplyInv
<1>6. CASE UNCHANGED issueVars
  BY <1>6 DEF issueVars, IInv, TypeInv, GrantsRight, InsertedOnce, HeldRecorded, CountsCover,
              IssuedFor, Inserted, Event, Item, Awaiting
<1> QED
  BY <1>1, <1>2, <1>3, <1>4, <1>5, <1>6 DEF IssueNext

\* Every reachable state satisfies the invariant: open transactions have inserted
\* different events, and the counters cover what open requests hold back.
THEOREM AttributionInvariance ==
    IssueSpec => []IInv
<1>1. IssueInit => IInv
  BY InitInv
<1>2. IInv /\ [IssueNext]_issueVars => IInv'
  BY NextInv
<1> QED
  BY <1>1, <1>2, PTL DEF IssueSpec

\* The issue_count of every grant is the number of its recorded events, and no
\* URL is out that is not recorded and counted (transfer_events.go, download.go,
\* preparation.go), for any number of requests, items, faults and restarts.
THEOREM AttributionIsExact ==
    IssueSpec => []AttributionExact
<1>1. IInv => AttributionExact
  <2> SUFFICES ASSUME IInv PROVE AttributionExact
    OBVIOUS
  <2>1. GrantsCountEvents
    BY DEF IInv, GrantsRight, GrantsCountEvents
  <2>2. \A k \in Counters : fetched[k] <= counted[k]
    <3> SUFFICES ASSUME NEW k \in Counters PROVE fetched[k] <= counted[k]
      OBVIOUS
    <3>1. Cardinality(Awaiting(k)) \in Nat /\ fetched[k] + Cardinality(Awaiting(k)) <= counted[k]
      BY FS_CardinalityType DEF IInv, CountsCover
    <3> QED
      BY <3>1 DEF IInv, TypeInv
  <2> QED
    BY <2>1, <2>2 DEF AttributionExact, IssuedAreRecorded, IInv, HeldRecorded
<1> QED
  BY <1>1, AttributionInvariance, PTL
==============================================================================
