----------------------- MODULE StorageInspectionProofs -----------------------
(***************************************************************************)
(* An inspection tells the truth, for buckets, projects, pages and numbers *)
(* of requests of every size, and for as many early ends of listings as    *)
(* the code withstands.                                                    *)
(*                                                                         *)
(* A listing knows every key up to its continuation token that has been    *)
(* there since the request began.  What it may miss, it misses because the *)
(* provider ended the listing early, and that costs one early end for each *)
(* replay of the last page and for each round of a probe.                  *)
(***************************************************************************)
EXTENDS StorageInspection, FiniteSetTheorems, WellFoundedInduction, TLAPS

Values == Sizes \cup {Absent}
Items == [Keys -> Values]
Dirs == {DirOf[k] : k \in Keys}
Pages == [objects : SUBSET (Keys \X Sizes), truncated : BOOLEAN]

JobStates ==
    [st : {"none", "wait", "call", "over"}, op : {"list", "head"}, under : SUBSET Keys,
     one : BOOLEAN, key : 0..N, token : 0..N, items : Items, tries : Nat, round : Nat,
     first : Pages, replays : Nat, out : {"none", "ok", "incomplete", "error", "missing"}]

AskStates ==
    Asked({"probe"}, Seq(Targets)) \cup Asked({"none", "inspect", "validate", "delete"}, Seq(0..N))

Verdicts ==
    [key : 0..N, expect : Int,
     status : {"present", "not_found", "error", "refused", "invalid", "forbidden", "deleted"},
     size : Int, check : {"not_requested", "unverifiable", "matched", "mismatched"}]

Stages == {"idle", "list", "heads", "group", "exact", "probe", "delete", "done"}

RequestStates ==
    [ask : AskStates, stage : Stages, groups : SUBSET Dirs, dir : Dirs \cup {""}, matched : Items,
     listing : {"none", "complete", "partial", "failed"}, items : Items,
     verdicts : SUBSET Verdicts, cached : SUBSET Nat]

Histories == [Keys -> SUBSET Values]

TypeInv ==
    /\ store \in Items
    /\ request \in [Requests -> RequestStates]
    /\ job \in [Requests -> [0..N -> JobStates]]
    /\ budget \in [changes : Int, faults : Int, short : 0..MaxShort]
    /\ seen \in [Requests -> Histories]

\* What was found was there, and every key of a set was found or was missing.
ItemsSeen(items, s) == \A k \in Keys : items[k] # Absent => items[k] \in s[k]
Whole(items, keys, s) == \A k \in keys : items[k] # Absent \/ Absent \in s[k]

Inventoried(items, s) == \A k \in Keys : items[k] # Absent => items[k] \in s[k] /\ k \in InProject

\* A listing after a short last page, and a probe after a round that missed its key.
ReplayOK(b, s, short) ==
    /\ ~Replaying(b) => b.replays = 0
    /\ Replaying(b) =>
         /\ ~b.one /\ b.key = 0 /\ ~b.first.truncated
         /\ \A o \in b.first.objects : b.items[o[1]] # Absent
         /\ Whole(b.items, b.under, s) \/ b.replays + 1 <= MaxShort - short

RoundOK(b, s, short) ==
    (b.op = "list" /\ b.key # 0) =>
      /\ b.one /\ b.key \in b.under
      /\ Absent \in s[b.key] \/ b.round - 1 <= MaxShort - short

\* The call b of a request that has seen s.
JobOK(b, s, short) ==
    /\ ItemsSeen(b.items, s)
    /\ b.op = "list" => \A k \in Keys : b.items[k] # Absent => k \in b.under
    /\ (b.op = "list" /\ b.st \in {"wait", "call"}) => Whole(b.items, {k \in b.under : k <= b.token}, s)
    /\ b.st \in {"wait", "call"} => b.out = "none"
    /\ b.op = "head" => b.key # 0
    /\ ReplayOK(b, s, short)
    /\ RoundOK(b, s, short)
    /\ (b.out = "ok" /\ b.key # 0) => Whole(b.items, {b.key}, s)
    /\ (b.out = "ok" /\ b.op = "list" /\ b.key = 0 /\ ~b.one) => Whole(b.items, b.under, s)
    /\ b.out = "missing" => b.key # 0 /\ Absent \in s[b.key]

\* What a caller is told of one location.
VerdictOK(v, s) ==
    LET was == s[v.key] IN
    /\ v.status \in {"present", "not_found", "deleted"} => v.key \in Keys
    /\ v.status = "present" => v.size \in was
    /\ v.status \in {"not_found", "deleted"} => Absent \in was
    /\ v.status = "present" /\ v.check = "matched" => v.expect \in was
    /\ v.status = "present" /\ v.check = "mismatched" =>
          \E x \in was \ {Absent} : x # v.expect

\* The request q with the calls jobs.
RequestOK(q, jobs, s) ==
    /\ q.stage \in {"idle", "delete", "done"} => \A j \in 0..N : jobs[j].st = "none"
    /\ ItemsSeen(q.matched, s)
    /\ q.stage = "idle" => q.verdicts = {} /\ q.matched = NoItems
    /\ q.ask.kind = "probe" => Len(q.ask.items) <= N
    /\ q.stage \in {"list", "heads"} => q.ask.kind = "inspect"
    /\ q.stage \in {"group", "exact"} => q.ask.kind = "validate"
    /\ q.stage \in {"probe", "delete"} => q.ask.kind = q.stage
    /\ q.stage = "list" =>
         jobs[0].op = "list" /\ jobs[0].key = 0 /\ jobs[0].under = InProject
           /\ jobs[0].one = (q.ask.mode = "exists")
    /\ q.stage = "heads" =>
         Inventoried(q.items, s) /\ (q.ask.mode # "exists" => Whole(q.items, InProject, s))
    /\ q.stage = "exact" =>
         \A k \in KeysOf(q.ask.targets) : q.matched[k] # Absent \/ jobs[k].key = k
    /\ q.stage = "probe" =>
         \A i \in DOMAIN q.ask.items :
           jobs[i].st # "none" /\ q.ask.items[i].key # 0 => jobs[i].key = q.ask.items[i].key
    /\ q.stage \in {"delete", "done"} => \A v \in q.verdicts : VerdictOK(v, s)
    /\ (q.stage = "done" /\ q.ask.kind = "inspect") =>
         /\ Inventoried(q.items, s)
         /\ q.listing = "complete" /\ q.ask.mode # "exists" => Whole(q.items, InProject, s)

Current(r) == Active(r) => \A k \in Keys : store[k] \in seen[r][k]

IInv ==
    /\ TypeInv
    /\ \A r \in Requests :
         /\ Current(r)
         /\ RequestOK(request[r], job[r], seen[r])
         /\ \A j \in 0..N : JobOK(job[r][j], seen[r], budget.short)

------------------------------------------------------------------------------
\* Pages of a listing: the first keys of what is left, with their sizes.

LEMMA Least1 ==
    ASSUME NEW S \in SUBSET Nat, S # {}
    PROVE  \E x \in S : \A y \in S : x <= y
<1>1. PICK x \in S : \A y \in S : ~(<<y, x>> \in OpToRel(<, Nat))
      BY NatLessThanWellFounded, WFMin, Zenon
<1>2. \A y \in S : ~(y < x)
      BY <1>1 DEF OpToRel
<1>. QED BY <1>2

LEMMA Greatest ==
    ASSUME NEW S \in SUBSET Keys, S # {}
    PROVE  Max(S) \in S /\ \A y \in S : y <= Max(S)
<1>. DEFINE T == {N - x : x \in S}
<1>1. N \in Nat
      BY InspectionAssumption
<1>2. \A x \in S : N - x \in Nat
      BY <1>1 DEF Keys
<1>3. T \in SUBSET Nat /\ T # {}
      BY <1>2
<1>4. PICK t \in T : \A y \in T : t <= y
      BY <1>3, Least1
<1>5. PICK x \in S : t = N - x
      BY <1>4
<1>6. \A y \in S : y \in Int
      BY DEF Keys
<1>7. ASSUME NEW y \in S
      PROVE  y <= x
  <2>1. N - y \in T
        OBVIOUS
  <2>2. N - x <= N - y
        BY <1>4, <1>5, <2>1
  <2>3. x \in Int /\ y \in Int
        BY <1>6
  <2>. QED BY <1>1, <2>2, <2>3
<1>. QED BY <1>7 DEF Max

LEMMA SmallestOK ==
    ASSUME NEW S \in SUBSET Keys, NEW n \in Nat
    PROVE  /\ Smallest(n, S) \subseteq S
           /\ \A k \in Smallest(n, S), y \in S : y < k => y \in Smallest(n, S)
           /\ n > 0 /\ S # {} => Smallest(n, S) # {}
<1>1. N \in Nat
      BY InspectionAssumption
<1>2. IsFiniteSet(S)
  <2>1. IsFiniteSet(1..N)
        BY <1>1, FS_Interval
  <2>. QED BY <2>1, FS_Subset DEF Keys
<1>3. ASSUME NEW k \in Smallest(n, S), NEW y \in S, y < k
      PROVE  y \in Smallest(n, S)
  <2>. DEFINE below(z) == {x \in S : x < z}
  <2>1. k \in S /\ Cardinality(below(k)) < n
        BY <1>3 DEF Smallest
  <2>2. below(y) \subseteq below(k)
    <3>1. y \in Int /\ k \in Int /\ \A x \in S : x \in Int
          BY <2>1 DEF Keys
    <3>2. \A x \in S : x < y => x < k
          BY <1>3, <3>1
    <3>. QED BY <3>2
  <2>3. IsFiniteSet(below(k))
        BY <1>2, FS_Subset
  <2>4. IsFiniteSet(below(y)) /\ Cardinality(below(y)) <= Cardinality(below(k))
        BY <2>2, <2>3, FS_Subset
  <2>5. Cardinality(below(y)) \in Nat /\ Cardinality(below(k)) \in Nat
        BY <2>3, <2>4, FS_CardinalityType
  <2>6. Cardinality(below(y)) < n
        BY <2>1, <2>4, <2>5
  <2>. QED BY <2>6 DEF Smallest
<1>4. ASSUME n > 0, S # {}
      PROVE  Smallest(n, S) # {}
  <2>1. S \in SUBSET Nat
        BY DEF Keys
  <2>2. PICK x \in S : \A y \in S : x <= y
        BY <1>4, <2>1, Least1
  <2>3. {y \in S : y < x} = {}
    <3>1. \A y \in S : y \in Int /\ x <= y
          BY <2>1, <2>2
    <3>2. \A y \in S : ~(y < x)
          BY <2>1, <3>1
    <3>. QED BY <3>2
  <2>4. Cardinality({y \in S : y < x}) = 0
        BY <2>3, FS_EmptySet
  <2>. QED BY <1>4, <2>2, <2>4 DEF Smallest
<1>. QED BY <1>3, <1>4 DEF Smallest

\* What a page holds: keys of the rest with their sizes, and a page that is
\* called truncated at least one, and none that leaves out an earlier one.
ObjectsOf(K) == {<<k, store[k]>> : k \in K}

GoodPage(b, page) ==
    \E K \in SUBSET Rest(b) :
        /\ page.objects = ObjectsOf(K)
        /\ page.truncated =>
             K # {} /\ \A k \in K, y \in Rest(b) : y < k => y \in K

\* The last page holds everything that is left.
FullPage(b, page) == ~page.truncated => page.objects = ObjectsOf(Rest(b))

LEMMA RestOK ==
    ASSUME store \in Items, NEW b \in JobStates
    PROVE  Rest(b) \subseteq Keys /\ \A k \in Rest(b) : store[k] \in Sizes /\ k \in b.under
BY DEF Rest, JobStates, Items, Values

LEMMA PageTyped ==
    ASSUME store \in Items, NEW b \in JobStates, NEW K \in SUBSET Rest(b), NEW t \in BOOLEAN
    PROVE  PageOf(K, t) \in Pages
<1>1. ObjectsOf(K) \subseteq Keys \X Sizes
      BY RestOK DEF ObjectsOf
<1>. QED BY <1>1 DEF PageOf, ObjectsOf, Pages

LEMMA TruePageOK ==
    ASSUME store \in Items, NEW b \in JobStates
    PROVE  TruePage(b) \in Pages /\ GoodPage(b, TruePage(b)) /\ FullPage(b, TruePage(b))
<1>. DEFINE n == IF b.one THEN 1 ELSE PageSize
            keys == Smallest(n, Rest(b))
            page == TruePage(b)
            t == keys # Rest(b)
<1>1. n \in Nat /\ n > 0
      BY InspectionAssumption DEF JobStates
<1>2. Rest(b) \in SUBSET Keys
      BY RestOK
<1>3. page = PageOf(keys, t)
      BY DEF TruePage
<1>. HIDE DEF n
<1>4. /\ keys \subseteq Rest(b)
      /\ \A k \in keys, y \in Rest(b) : y < k => y \in keys
      /\ Rest(b) # {} => keys # {}
      BY <1>1, <1>2, SmallestOK
<1>. HIDE DEF keys
<1>5. t \in BOOLEAN
      OBVIOUS
<1>6. page \in Pages
      BY <1>3, <1>4, <1>5, PageTyped
<1>7. page.objects = ObjectsOf(keys) /\ page.truncated = t
      BY <1>3 DEF PageOf, ObjectsOf
<1>8. t => keys # {}
      BY <1>4
<1>. HIDE DEF page
<1>9. GoodPage(b, page)
      BY <1>4, <1>7, <1>8 DEF GoodPage
<1>10. FullPage(b, page)
      BY <1>7 DEF FullPage
<1>. QED BY <1>6, <1>9, <1>10 DEF page

LEMMA ShortPageOK ==
    ASSUME store \in Items, NEW b \in JobStates, NEW page \in ShortPages(b)
    PROVE  page \in Pages /\ GoodPage(b, page)
<1>1. PICK n \in 0..(Cardinality(TruePage(b).objects) - 1) :
          page = PageOf(Smallest(n, Rest(b)), FALSE)
      BY DEF ShortPages
<1>2. n \in Nat
      OBVIOUS
<1>3. Rest(b) \in SUBSET Keys
      BY RestOK
<1>4. Smallest(n, Rest(b)) \in SUBSET Rest(b)
      BY <1>2, <1>3, SmallestOK
<1>5. page \in Pages
      BY <1>1, <1>4, PageTyped
<1>6. page.objects = ObjectsOf(Smallest(n, Rest(b))) /\ ~page.truncated
      BY <1>1 DEF PageOf, ObjectsOf
<1>7. GoodPage(b, page)
      BY <1>4, <1>6 DEF GoodPage
<1>. QED BY <1>5, <1>7

LEMMA AppendOK ==
    ASSUME store \in Items, NEW items \in Items, NEW K \in SUBSET Keys, NEW page,
           \A k \in K : store[k] # Absent, page.objects = ObjectsOf(K)
    PROVE  /\ Append1(items, page) \in Items
           /\ \A k \in Keys : Append1(items, page)[k] =
                IF items[k] = Absent /\ k \in K THEN store[k] ELSE items[k]
<1>1. \A k \in Keys : (\E o \in page.objects : o[1] = k) <=> k \in K
  <2>1. ASSUME NEW k \in K
        PROVE  \E o \in page.objects : o[1] = k
    <3>1. <<k, store[k]>> \in page.objects
          BY DEF ObjectsOf
    <3>2. <<k, store[k]>>[1] = k
          OBVIOUS
    <3>. QED BY <3>1, <3>2
  <2>2. ASSUME NEW o \in page.objects
        PROVE  o[1] \in K
    <3>1. PICK k \in K : o = <<k, store[k]>>
          BY DEF ObjectsOf
    <3>. QED BY <3>1
  <2>. QED BY <2>1, <2>2
<1>3. ASSUME NEW k \in K
      PROVE  (CHOOSE o \in page.objects : o[1] = k)[2] = store[k]
  <2>. DEFINE c == CHOOSE o \in page.objects : o[1] = k
  <2>1. c \in page.objects /\ c[1] = k
        BY <1>1
  <2>. HIDE DEF c
  <2>2. PICK j \in K : c = <<j, store[j]>>
        BY <2>1 DEF ObjectsOf
  <2>3. c[1] = j /\ c[2] = store[j]
        BY <2>2
  <2>4. c[2] = store[k]
        BY <2>1, <2>3
  <2>. QED BY <2>4 DEF c
<1>4. \A k \in Keys : Append1(items, page)[k] =
                IF items[k] = Absent /\ k \in K THEN store[k] ELSE items[k]
      BY <1>1, <1>3 DEF Append1
<1>5. \A k \in Keys : Append1(items, page)[k] \in Values
      BY <1>4 DEF Items
<1>6. Append1(items, page) = [k \in Keys |-> Append1(items, page)[k]]
      BY DEF Append1
<1>. QED BY <1>4, <1>5, <1>6 DEF Items

------------------------------------------------------------------------------
\* The calls of a request.

\* What a call goes on with whatever happens to it.
Kept(b, c) ==
    /\ c.op = b.op /\ c.key = b.key /\ c.under = b.under /\ c.one = b.one
    /\ c.st # "none"

\* The call c follows the call b.
Follows(b, c, s, short) == c \in JobStates /\ JobOK(c, s, short) /\ Kept(b, c)

LEMMA Numbers ==
    /\ N \in Nat /\ MaxShort \in Nat /\ ExactAttempts \in Nat /\ TerminalReplays \in Nat
    /\ MaxShort < ExactAttempts /\ MaxShort < TerminalReplays
    /\ Keys = 1..N /\ 0 \notin Keys /\ 0 \in 0..N /\ Keys \subseteq 0..N
BY InspectionAssumption DEF Keys

LEMMA SizesOK == Absent \notin Sizes /\ Sizes \subseteq Int /\ Absent \in Int
BY InspectionAssumption DEF Absent

LEMMA NoItemsOK == NoItems \in Items /\ \A k \in Keys : NoItems[k] = Absent
BY DEF NoItems, Items, Values

LEMMA NoJobTyped ==
    /\ NoJob \in JobStates
    /\ NoJob.st = "none" /\ NoJob.op = "list" /\ NoJob.key = 0 /\ ~NoJob.one
    /\ NoJob.items = NoItems /\ NoJob.out = "none" /\ ~Replaying(NoJob) /\ NoJob.token = 0
    /\ NoJob.round = 1 /\ NoJob.replays = 0
<1>1. NoPage \in Pages
      BY DEF NoPage, Pages
<1>2. NoJob \in JobStates
      BY <1>1, Numbers, NoItemsOK DEF NoJob, JobStates
<1>. QED BY <1>2 DEF NoJob, Replaying

LEMMA NoJobOK ==
    ASSUME NEW s \in Histories, NEW short \in 0..MaxShort
    PROVE  JobOK(NoJob, s, short)
BY NoJobTyped, NoItemsOK DEF JobOK, ItemsSeen, ReplayOK, RoundOK, Whole

\* A listing that has not begun.
Fresh(b, under, one, key) ==
    /\ b.st = "wait" /\ b.op = "list" /\ b.under = under /\ b.one = one /\ b.key = key
    /\ b.token = 0 /\ b.items = NoItems /\ b.out = "none" /\ b.round = 1 /\ b.first = NoPage
    /\ b.replays = 0

LEMMA ListingTyped ==
    ASSUME NEW under \in SUBSET Keys, NEW one \in BOOLEAN, NEW key \in 0..N
    PROVE  /\ Listing(under, one, key) \in JobStates
           /\ Fresh(Listing(under, one, key), under, one, key)
<1>1. NoPage \in Pages
      BY DEF NoPage, Pages
<1>2. Listing(under, one, key) \in JobStates
      BY <1>1, Numbers, NoItemsOK DEF Listing, NoJob, JobStates
<1>. QED BY <1>2 DEF Listing, NoJob, Fresh

LEMMA ListingOK ==
    ASSUME NEW s \in Histories, NEW short \in 0..MaxShort,
           NEW under \in SUBSET Keys, NEW one \in BOOLEAN, NEW key \in 0..N,
           key # 0 => one /\ key \in under
    PROVE  JobOK(Listing(under, one, key), s, short)
<1>. DEFINE b == Listing(under, one, key)
<1>0. Fresh(b, under, one, key)
      BY ListingTyped
<1>. HIDE DEF b
<1>1. /\ b.st = "wait" /\ b.op = "list" /\ b.under = under /\ b.one = one /\ b.key = key
      /\ b.token = 0 /\ b.items = NoItems /\ b.out = "none" /\ b.round = 1 /\ b.first = NoPage
      /\ b.replays = 0
      BY <1>0 DEF Fresh
<1>2. \A k \in b.under : ~(k <= b.token)
  <2>1. \A k \in Keys : k \in Int /\ k > 0
        BY Numbers
  <2>2. \A k \in Keys : ~(k <= 0)
        BY <2>1
  <2>. QED BY <1>1, <2>2
<1>3. RoundOK(b, s, short)
      BY <1>1, Numbers DEF RoundOK
<1>4. ReplayOK(b, s, short)
      BY <1>1 DEF ReplayOK, Replaying
<1>5. JobOK(b, s, short)
      BY <1>1, <1>2, <1>3, <1>4, NoItemsOK DEF JobOK, ItemsSeen, Whole
<1>. QED BY <1>5 DEF b

LEMMA HeadOK ==
    ASSUME NEW s \in Histories, NEW short \in 0..MaxShort, NEW key \in Keys
    PROVE  /\ Head1(key) \in JobStates /\ JobOK(Head1(key), s, short)
           /\ Head1(key).st = "wait" /\ Head1(key).key = key
<1>. DEFINE b == Head1(key)
<1>1. NoPage \in Pages
      BY DEF NoPage, Pages
<1>2. b \in JobStates
      BY <1>1, Numbers, NoItemsOK DEF Head1, NoJob, JobStates
<1>3. /\ b.st = "wait" /\ b.op = "head" /\ b.key = key /\ b.first = NoPage
      /\ b.items = NoItems /\ b.out = "none" /\ b.replays = 0
      BY DEF Head1, NoJob
<1>. HIDE DEF b
<1>4. key # 0
      BY Numbers
<1>5. JobOK(b, s, short)
      BY <1>3, <1>4, NoItemsOK DEF JobOK, ItemsSeen, ReplayOK, RoundOK, Replaying
<1>. QED BY <1>2, <1>3, <1>5 DEF b

\* What holds of a call goes on to hold while the history grows and the
\* provider ends more listings early.
LEMMA JobKept ==
    ASSUME NEW b \in JobStates, NEW s \in Histories, NEW s2 \in Histories,
           NEW short \in 0..MaxShort, NEW short2 \in 0..MaxShort,
           \A k \in Keys : s[k] \subseteq s2[k], short2 <= short, JobOK(b, s, short)
    PROVE  JobOK(b, s2, short2)
<1>1. \A keys \in SUBSET Keys : Whole(b.items, keys, s) => Whole(b.items, keys, s2)
      BY DEF Whole
<1>2. b.under \in SUBSET Keys /\ {k \in b.under : k <= b.token} \in SUBSET Keys
      BY DEF JobStates
<1>3. ItemsSeen(b.items, s2)
      BY DEF JobOK, ItemsSeen
<1>4. \A x \in Int : x <= MaxShort - short => x <= MaxShort - short2
      BY Numbers
<1>5. ReplayOK(b, s2, short2)
  <2>1. b.replays + 1 \in Int
        BY DEF JobStates
  <2>. QED BY <1>1, <1>2, <1>4, <2>1 DEF JobOK, ReplayOK
<1>6. b.key # 0 => b.key \in Keys
      BY Numbers DEF JobStates
<1>7. RoundOK(b, s2, short2)
  <2>1. b.round - 1 \in Int
        BY DEF JobStates
  <2>. QED BY <1>4, <1>6, <2>1 DEF JobOK, RoundOK
<1>8. b.key # 0 => {b.key} \in SUBSET Keys
      BY <1>6
<1>9. (b.out = "ok" /\ b.key # 0) => Whole(b.items, {b.key}, s2)
      BY <1>1, <1>8 DEF JobOK
<1>10. b.out = "missing" => b.key # 0 /\ Absent \in s2[b.key]
      BY <1>6 DEF JobOK
<1>. QED BY <1>1, <1>2, <1>3, <1>5, <1>7, <1>9, <1>10 DEF JobOK

\* A listing that has read its last page: a miss that is told is a miss.
LEMMA ConcludeOK ==
    ASSUME NEW b \in JobStates, NEW s \in Histories, NEW short \in 0..MaxShort,
           b.op = "list",
           ItemsSeen(b.items, s),
           \A k \in Keys : b.items[k] # Absent => k \in b.under,
           ReplayOK(b, s, short), RoundOK(b, s, short),
           b.key = 0 /\ ~b.one => Whole(b.items, b.under, s),
           b.key # 0 /\ b.items[b.key] = Absent =>
              Absent \in s[b.key] \/ b.round <= MaxShort - short
    PROVE  Follows(b, Conclude(b), s, short)
<1>. DEFINE again == b.key # 0 /\ b.items[b.key] = Absent /\ b.round < ExactAttempts
<1>0. /\ b.under \in SUBSET Keys /\ b.one \in BOOLEAN /\ b.key \in 0..N /\ b.round \in Nat
      BY DEF JobStates
<1>1. CASE again
  <2>. DEFINE L == Listing(b.under, b.one, b.key)
              c == [L EXCEPT !.round = b.round + 1]
  <2>1. L \in JobStates /\ Fresh(L, b.under, b.one, b.key)
        BY <1>0, ListingTyped
  <2>2. Conclude(b) = c
        BY <1>1 DEF Conclude
  <2>. HIDE DEF L
  <2>3. c \in JobStates
    <3>1. b.round + 1 \in Nat
          BY <1>0
    <3>. QED BY <2>1, <3>1 DEF JobStates
  <2>4. /\ c.st = "wait" /\ c.op = "list" /\ c.under = b.under /\ c.one = b.one /\ c.key = b.key
        /\ c.token = 0 /\ c.items = NoItems /\ c.out = "none" /\ c.round = b.round + 1
        /\ c.first = NoPage /\ c.replays = 0
        BY <2>1 DEF Fresh, JobStates
  <2>. HIDE DEF c
  <2>5. \A k \in c.under : ~(k <= c.token)
    <3>1. \A k \in Keys : k \in Int /\ k > 0
          BY Numbers
    <3>2. \A k \in Keys : ~(k <= 0)
          BY <3>1
    <3>. QED BY <1>0, <2>4, <3>2
  <2>6. RoundOK(c, s, short)
    <3>1. b.one /\ b.key \in b.under
          BY <1>1 DEF RoundOK
    <3>2. Absent \in s[b.key] \/ b.round <= MaxShort - short
          BY <1>1
    <3>3. (b.round + 1) - 1 = b.round
          BY <1>0
    <3>. QED BY <2>4, <3>1, <3>2, <3>3 DEF RoundOK
  <2>7. ReplayOK(c, s, short)
        BY <2>4 DEF ReplayOK, Replaying
  <2>8. JobOK(c, s, short)
        BY <2>4, <2>5, <2>6, <2>7, NoItemsOK DEF JobOK, ItemsSeen, Whole
  <2>9. Kept(b, c)
        BY <2>4 DEF Kept
  <2>. QED BY <2>2, <2>3, <2>8, <2>9 DEF Follows
<1>2. CASE ~again
  <2>. DEFINE c == [b EXCEPT !.st = "over", !.out = "ok"]
  <2>1. Conclude(b) = c
        BY <1>2 DEF Conclude
  <2>2. c \in JobStates
        BY DEF JobStates
  <2>3. /\ c.st = "over" /\ c.out = "ok" /\ c.op = "list" /\ c.key = b.key /\ c.under = b.under
        /\ c.one = b.one /\ c.items = b.items /\ c.first = b.first /\ c.replays = b.replays
        /\ c.round = b.round
        BY DEF JobStates
  <2>. HIDE DEF c
  <2>4. ReplayOK(c, s, short)
        BY <2>3 DEF ReplayOK, Replaying
  <2>5. RoundOK(c, s, short)
        BY <2>3 DEF RoundOK
  <2>6. ASSUME b.key # 0, b.items[b.key] = Absent
        PROVE  Absent \in s[b.key]
    <3>1. ~(b.round < ExactAttempts)
          BY <1>2, <2>6
    <3>2. ~(b.round <= MaxShort - short)
          BY <1>0, <3>1, Numbers
    <3>. QED BY <2>6, <3>2
  <2>7. b.key # 0 => Whole(c.items, {c.key}, s)
        BY <2>3, <2>6 DEF Whole
  <2>8. JobOK(c, s, short)
        BY <2>3, <2>4, <2>5, <2>7 DEF JobOK
  <2>9. Kept(b, c)
        BY <2>3 DEF Kept
  <2>. QED BY <2>1, <2>2, <2>8, <2>9 DEF Follows
<1>. QED BY <1>1, <1>2

\* An attempt that failed.
LEMMA AfterErrorOK ==
    ASSUME NEW b \in JobStates, NEW s \in Histories, NEW short \in 0..MaxShort,
           b.st = "call", JobOK(b, s, short), NEW transient \in BOOLEAN
    PROVE  Follows(b, AfterError(b, transient), s, short)
<1>. DEFINE c == AfterError(b, transient)
<1>1. b.tries + 1 \in Nat
      BY DEF JobStates
<1>2. FailedAs(b) \in {"incomplete", "error"}
      BY DEF FailedAs
<1>3. c \in JobStates
      BY <1>1, <1>2 DEF AfterError, JobStates
<1>4. /\ c.op = b.op /\ c.key = b.key /\ c.under = b.under /\ c.token = b.token
      /\ c.one = b.one /\ c.items = b.items /\ c.first = b.first /\ c.replays = b.replays
      /\ c.round = b.round
      /\ (c.st = "wait" /\ c.out = b.out) \/ (c.st = "over" /\ c.out \in {"incomplete", "error"})
      BY <1>2 DEF AfterError, JobStates
<1>. HIDE DEF c
<1>5. ReplayOK(c, s, short) /\ RoundOK(c, s, short)
      BY <1>4 DEF JobOK, ReplayOK, RoundOK, Replaying
<1>6. JobOK(c, s, short)
      BY <1>4, <1>5 DEF JobOK
<1>7. Kept(b, c)
      BY <1>4 DEF Kept
<1>8. Follows(b, c, s, short)
      BY <1>3, <1>6, <1>7 DEF Follows
<1>. QED BY <1>8 DEF c

\* A HEAD that was answered.
LEMMA AfterHeadOK ==
    ASSUME store \in Items, NEW b \in JobStates, NEW s \in Histories, NEW short \in 0..MaxShort,
           b.st = "call", b.op = "head", JobOK(b, s, short),
           \A k \in Keys : store[k] \in s[k]
    PROVE  Follows(b, AfterHead(b), s, short)
<1>. DEFINE c == AfterHead(b)
<1>1. b.key \in Keys /\ b.key # 0
      BY Numbers DEF JobOK, JobStates
<1>2. b.items \in Items /\ store[b.key] \in Values
      BY <1>1 DEF JobStates, Items
<1>3. CASE store[b.key] = Absent
  <2>1. c \in JobStates
        BY <1>3 DEF AfterHead, JobStates
  <2>2. /\ c.op = b.op /\ c.key = b.key /\ c.under = b.under /\ c.one = b.one
        /\ c.items = b.items /\ c.first = b.first /\ c.replays = b.replays
        /\ c.st = "over" /\ c.out = "missing"
        BY <1>3 DEF AfterHead, JobStates
  <2>. HIDE DEF c
  <2>3. ReplayOK(c, s, short) /\ RoundOK(c, s, short)
        BY <2>2 DEF JobOK, ReplayOK, RoundOK, Replaying
  <2>4. Absent \in s[b.key]
        BY <1>1, <1>3
  <2>5. JobOK(c, s, short)
        BY <1>1, <2>2, <2>3, <2>4 DEF JobOK
  <2>6. Follows(b, c, s, short)
        BY <2>1, <2>2, <2>5 DEF Follows, Kept
  <2>. QED BY <2>6 DEF c
<1>4. CASE store[b.key] # Absent
  <2>. DEFINE items == [b.items EXCEPT ![b.key] = store[b.key]]
  <2>1. items \in Items
        BY <1>1, <1>2 DEF Items
  <2>2. \A k \in Keys : items[k] = IF k = b.key THEN store[b.key] ELSE b.items[k]
        BY <1>1, <1>2 DEF Items
  <2>3. c = [b EXCEPT !.st = "over", !.out = "ok", !.items = items]
        BY <1>4 DEF AfterHead
  <2>. HIDE DEF c, items
  <2>4. c \in JobStates
        BY <2>1, <2>3 DEF JobStates
  <2>5. /\ c.op = b.op /\ c.key = b.key /\ c.under = b.under /\ c.one = b.one
        /\ c.items = items /\ c.first = b.first /\ c.replays = b.replays
        /\ c.st = "over" /\ c.out = "ok"
        BY <2>3 DEF JobStates
  <2>6. ItemsSeen(items, s)
        BY <2>2 DEF JobOK, ItemsSeen
  <2>7. Whole(items, {b.key}, s)
        BY <1>1, <1>4, <2>2 DEF Whole
  <2>8. RoundOK(c, s, short)
        BY <2>5 DEF RoundOK
  <2>9. ReplayOK(c, s, short)
    <3>1. ASSUME Replaying(b)
          PROVE  FALSE
          BY <1>1, <3>1 DEF JobOK, ReplayOK
    <3>2. ~Replaying(c)
          BY <2>5, <3>1 DEF Replaying
    <3>3. b.replays = 0
          BY <3>1 DEF JobOK, ReplayOK
    <3>. QED BY <2>5, <3>2, <3>3 DEF ReplayOK
  <2>10. JobOK(c, s, short)
        BY <1>1, <2>5, <2>6, <2>7, <2>8, <2>9 DEF JobOK
  <2>11. Follows(b, c, s, short)
        BY <2>4, <2>5, <2>10 DEF Follows, Kept
  <2>. QED BY <2>11 DEF c
<1>. QED BY <1>3, <1>4

\* The page a call has read, and what it costs when the provider ended the
\* listing early.
PageRead(b, page, short, short2) ==
    /\ GoodPage(b, page)
    /\ (short2 = short /\ FullPage(b, page)) \/ short2 = short - 1

\* What a listing knows after a page.
LEMMA Appended ==
    ASSUME store \in Items, NEW b \in JobStates, NEW s \in Histories, NEW short \in 0..MaxShort,
           b.st = "call", b.op = "list", JobOK(b, s, short),
           \A k \in Keys : store[k] \in s[k],
           NEW page \in Pages, NEW K \in SUBSET Rest(b), page.objects = ObjectsOf(K)
    PROVE  /\ Append1(b.items, page) \in Items
           /\ ItemsSeen(Append1(b.items, page), s)
           /\ \A k \in Keys : Append1(b.items, page)[k] # Absent => k \in b.under
           /\ \A k \in Keys : b.items[k] # Absent => Append1(b.items, page)[k] # Absent
           /\ \A k \in K : Append1(b.items, page)[k] # Absent
           /\ \A o \in page.objects : Append1(b.items, page)[o[1]] # Absent
           /\ K = Rest(b) => Whole(Append1(b.items, page), b.under, s)
<1>. DEFINE items == Append1(b.items, page)
<1>0. b.items \in Items /\ b.under \in SUBSET Keys /\ b.token \in Int
      BY Numbers DEF JobStates
<1>1. K \in SUBSET Keys /\ \A k \in K : store[k] # Absent /\ k \in b.under
  <2>1. \A k \in Rest(b) : k \in Keys /\ store[k] \in Sizes /\ k \in b.under
        BY RestOK
  <2>. QED BY <2>1, SizesOK
<1>2. /\ items \in Items
      /\ \A k \in Keys : items[k] = IF b.items[k] = Absent /\ k \in K THEN store[k] ELSE b.items[k]
      BY <1>0, <1>1, AppendOK
<1>. HIDE DEF items
<1>3. ItemsSeen(items, s)
      BY <1>2 DEF JobOK, ItemsSeen
<1>4. \A k \in Keys : items[k] # Absent => k \in b.under
      BY <1>1, <1>2 DEF JobOK
<1>5. \A k \in Keys : b.items[k] # Absent => items[k] # Absent
      BY <1>2
<1>6. \A k \in K : items[k] # Absent
      BY <1>1, <1>2
<1>7. \A o \in page.objects : items[o[1]] # Absent
  <2>1. \A o \in page.objects : o[1] \in K
    <3>1. SUFFICES ASSUME NEW o \in page.objects
                   PROVE  o[1] \in K
          OBVIOUS
    <3>2. PICK k \in K : o = <<k, store[k]>>
          BY DEF ObjectsOf
    <3>. QED BY <3>2
  <2>. QED BY <1>6, <2>1
<1>8. ASSUME K = Rest(b), NEW k \in b.under
      PROVE  items[k] # Absent \/ Absent \in s[k]
  <2>1. k \in Keys /\ k \in Int
        BY <1>0, Numbers
  <2>2. CASE k <= b.token
    <3>1. b.items[k] # Absent \/ Absent \in s[k]
          BY <2>2 DEF JobOK, Whole
    <3>. QED BY <1>5, <2>1, <3>1
  <2>3. CASE k > b.token /\ store[k] # Absent
    <3>1. k \in K
          BY <1>8, <2>3 DEF Rest
    <3>. QED BY <1>6, <3>1
  <2>4. CASE store[k] = Absent
        BY <2>1, <2>4
  <2>. QED BY <1>0, <2>1, <2>2, <2>3, <2>4
<1>9. K = Rest(b) => Whole(items, b.under, s)
      BY <1>8 DEF Whole
<1>. QED BY <1>2, <1>3, <1>4, <1>5, <1>6, <1>7, <1>9 DEF items

\* A page that is called full holds all keys that are left.
LEMMA FullKeys ==
    ASSUME NEW b \in JobStates, NEW page \in Pages, NEW K \in SUBSET Rest(b),
           page.objects = ObjectsOf(K), FullPage(b, page), ~page.truncated
    PROVE  K = Rest(b)
<1>1. ObjectsOf(K) = ObjectsOf(Rest(b))
      BY DEF FullPage
<1>2. ASSUME NEW k \in Rest(b)
      PROVE  k \in K
  <2>1. <<k, store[k]>> \in ObjectsOf(K)
        BY <1>1 DEF ObjectsOf
  <2>2. PICK j \in K : <<k, store[k]>> = <<j, store[j]>>
        BY <2>1 DEF ObjectsOf
  <2>. QED BY <2>2
<1>. QED BY <1>2

LEMMA ListedOK ==
    ASSUME store \in Items, NEW b \in JobStates, NEW s \in Histories,
           NEW short \in 0..MaxShort, NEW short2 \in 0..MaxShort,
           b.st = "call", b.op = "list", JobOK(b, s, short),
           \A k \in Keys : store[k] \in s[k],
           NEW page \in Pages, PageRead(b, page, short, short2), ~Replaying(b)
    PROVE  Follows(b, Listed(b, page), s, short2)
<1>. DEFINE items == Append1(b.items, page)
            c == [b EXCEPT !.items = items, !.tries = 1]
<1>0. /\ b.items \in Items /\ b.under \in SUBSET Keys /\ b.token \in 0..N /\ b.one \in BOOLEAN
      /\ b.round \in Nat /\ b.key \in 0..N
      BY DEF JobStates
<1>1. PICK K \in SUBSET Rest(b) :
        /\ page.objects = ObjectsOf(K)
        /\ page.truncated => K # {} /\ \A k \in K, y \in Rest(b) : y < k => y \in K
      BY DEF PageRead, GoodPage
<1>2. /\ items \in Items
      /\ ItemsSeen(items, s)
      /\ \A k \in Keys : items[k] # Absent => k \in b.under
      /\ \A k \in Keys : b.items[k] # Absent => items[k] # Absent
      /\ \A k \in K : items[k] # Absent
      /\ \A o \in page.objects : items[o[1]] # Absent
      /\ K = Rest(b) => Whole(items, b.under, s)
      BY <1>1, Appended
<1>3. short2 <= short
      BY Numbers DEF PageRead
<1>4. JobOK(b, s, short2)
      BY <1>3, JobKept
<1>5. ~page.truncated => Whole(items, b.under, s) \/ short2 = short - 1
      BY <1>1, <1>2, FullKeys DEF PageRead
<1>6. Listed(b, page) =
        CASE page.truncated ->
                [c EXCEPT !.st = "wait", !.token = Max({o[1] : o \in page.objects})]
          [] ~page.truncated /\ b.one -> Conclude(c)
          [] OTHER -> [c EXCEPT !.st = "wait", !.first = page]
      BY DEF Listed
<1>. HIDE DEF items
<1>7. c \in JobStates
      BY <1>2 DEF JobStates
<1>8. /\ c.st = "call" /\ c.op = "list" /\ c.under = b.under /\ c.one = b.one /\ c.key = b.key
      /\ c.token = b.token /\ c.items = items /\ c.out = b.out /\ c.round = b.round
      /\ c.first = b.first /\ c.replays = b.replays
      BY DEF JobStates
<1>. HIDE DEF c
<1>9. ~Replaying(c) /\ c.replays = 0
      BY <1>8 DEF JobOK, ReplayOK, Replaying
<1>10. RoundOK(c, s, short2)
      BY <1>4, <1>8 DEF JobOK, RoundOK
<1>11. page.truncated \in BOOLEAN
      BY DEF Pages
<1>12. CASE page.truncated
  <2>. DEFINE m == Max({o[1] : o \in page.objects})
              d == [c EXCEPT !.st = "wait", !.token = m]
  <2>1. {o[1] : o \in page.objects} = K
    <3>1. \A k \in K : <<k, store[k]>> \in page.objects /\ <<k, store[k]>>[1] = k
          BY <1>1 DEF ObjectsOf
    <3>2. ASSUME NEW o \in page.objects
          PROVE  o[1] \in K
      <4>1. PICK k \in K : o = <<k, store[k]>>
            BY <1>1 DEF ObjectsOf
      <4>. QED BY <4>1
    <3>. QED BY <3>1, <3>2
  <2>2. K \in SUBSET Keys /\ K # {}
        BY <1>1, <1>12, RestOK
  <2>3. m \in K /\ m \in Keys
        BY <2>1, <2>2, Greatest
  <2>. HIDE DEF m
  <2>4. d \in JobStates
        BY <1>7, <2>3, Numbers DEF JobStates
  <2>5. /\ d.st = "wait" /\ d.op = "list" /\ d.under = b.under /\ d.one = b.one /\ d.key = b.key
        /\ d.token = m /\ d.items = items /\ d.out = b.out /\ d.round = b.round
        /\ d.first = b.first /\ d.replays = b.replays
        BY <1>7, <1>8 DEF JobStates
  <2>6. Listed(b, page) = d
        BY <1>6, <1>12 DEF m
  <2>. HIDE DEF d
  <2>7. ASSUME NEW k \in b.under, k <= m
        PROVE  items[k] # Absent \/ Absent \in s[k]
    <3>1. k \in Keys /\ k \in Int /\ m \in Int /\ b.token \in Int
          BY <1>0, <2>3, Numbers
    <3>2. CASE k <= b.token
      <4>1. b.items[k] # Absent \/ Absent \in s[k]
            BY <3>2 DEF JobOK, Whole
      <4>. QED BY <1>2, <3>1, <4>1
    <3>3. CASE k > b.token /\ store[k] # Absent
      <4>1. k \in Rest(b)
            BY <3>3 DEF Rest
      <4>2. k = m \/ k < m
            BY <2>7, <3>1
      <4>3. k \in K
            BY <1>1, <1>12, <2>3, <4>1, <4>2
      <4>. QED BY <1>2, <4>3
    <3>4. CASE store[k] = Absent
          BY <3>1, <3>4
    <3>. QED BY <3>1, <3>2, <3>3, <3>4
  <2>8. Whole(d.items, {k \in d.under : k <= d.token}, s)
        BY <2>5, <2>7 DEF Whole
  <2>9. ReplayOK(d, s, short2)
        BY <1>8, <1>9, <2>5 DEF ReplayOK, Replaying
  <2>10. RoundOK(d, s, short2)
        BY <1>8, <1>10, <2>5 DEF RoundOK
  <2>11. JobOK(d, s, short2)
        BY <1>2, <1>4, <2>5, <2>8, <2>9, <2>10 DEF JobOK
  <2>. QED BY <2>4, <2>5, <2>6, <2>11 DEF Follows, Kept
<1>13. CASE ~page.truncated /\ b.one
  <2>1. Listed(b, page) = Conclude(c)
        BY <1>6, <1>13
  <2>2. ReplayOK(c, s, short2)
        BY <1>9 DEF ReplayOK
  <2>3. ASSUME b.key # 0, items[b.key] = Absent
        PROVE  Absent \in s[b.key] \/ b.round <= MaxShort - short2
    <3>1. b.key \in b.under
          BY <2>3 DEF JobOK, RoundOK
    <3>2. CASE Whole(items, b.under, s)
          BY <2>3, <3>1, <3>2 DEF Whole
    <3>3. CASE short2 = short - 1
      <4>1. Absent \in s[b.key] \/ b.round - 1 <= MaxShort - short
            BY <2>3 DEF JobOK, RoundOK
      <4>. QED BY <1>0, <3>3, <4>1, Numbers
    <3>. QED BY <1>5, <1>13, <3>2, <3>3
  <2>4. Follows(c, Conclude(c), s, short2)
        BY <1>2, <1>7, <1>8, <1>10, <1>13, <2>2, <2>3, ConcludeOK
  <2>. QED BY <1>8, <2>1, <2>4 DEF Follows, Kept
<1>14. CASE ~page.truncated /\ ~b.one
  <2>. DEFINE d == [c EXCEPT !.st = "wait", !.first = page]
  <2>1. Listed(b, page) = d
        BY <1>6, <1>14
  <2>2. d \in JobStates
        BY <1>7 DEF JobStates
  <2>3. /\ d.st = "wait" /\ d.op = "list" /\ d.under = b.under /\ d.one = b.one /\ d.key = b.key
        /\ d.token = b.token /\ d.items = items /\ d.out = b.out /\ d.round = b.round
        /\ d.first = page /\ d.replays = 0
        BY <1>7, <1>8, <1>9 DEF JobStates
  <2>. HIDE DEF d
  <2>4. b.key = 0
        BY <1>14 DEF JobOK, RoundOK
  <2>5. Replaying(d)
        BY <1>14, <2>3 DEF Replaying, NoPage
  <2>6. Whole(items, b.under, s) \/ 0 + 1 <= MaxShort - short2
    <3>1. CASE short2 = short - 1
          BY <3>1, Numbers
    <3>. QED BY <1>5, <1>14, <3>1
  <2>7. ReplayOK(d, s, short2)
        BY <1>2, <1>14, <2>3, <2>4, <2>5, <2>6 DEF ReplayOK
  <2>8. RoundOK(d, s, short2)
        BY <2>3, <2>4 DEF RoundOK
  <2>9. Whole(d.items, {k \in d.under : k <= d.token}, s)
        BY <1>0, <1>2, <1>4, <2>3 DEF JobOK, Whole
  <2>10. JobOK(d, s, short2)
        BY <1>2, <1>4, <2>3, <2>4, <2>7, <2>8, <2>9 DEF JobOK
  <2>. QED BY <2>1, <2>2, <2>3, <2>10 DEF Follows, Kept
<1>. QED BY <1>0, <1>11, <1>12, <1>13, <1>14

\* A replayed last page: one that misses a key again has cost an early end more.
LEMMA ReplayedOK ==
    ASSUME store \in Items, NEW b \in JobStates, NEW s \in Histories,
           NEW short \in 0..MaxShort, NEW short2 \in 0..MaxShort,
           b.st = "call", b.op = "list", JobOK(b, s, short),
           \A k \in Keys : store[k] \in s[k],
           NEW page \in Pages, PageRead(b, page, short, short2), Replaying(b)
    PROVE  Follows(b, Replayed(b, page), s, short2)
<1>0. /\ b.items \in Items /\ b.under \in SUBSET Keys /\ b.token \in 0..N /\ b.one \in BOOLEAN
      /\ b.replays \in Nat /\ b.out = "none"
      BY DEF JobStates, JobOK
<1>1. short2 <= short
      BY Numbers DEF PageRead
<1>2. JobOK(b, s, short2)
      BY <1>1, JobKept
<1>3. /\ ~b.one /\ b.key = 0 /\ ~b.first.truncated
      /\ \A o \in b.first.objects : b.items[o[1]] # Absent
      /\ Whole(b.items, b.under, s) \/ b.replays + 1 <= MaxShort - short
      BY DEF JobOK, ReplayOK
<1>4. CASE page # b.first
  <2>. DEFINE c == [b EXCEPT !.st = "over", !.out = "incomplete"]
  <2>1. Replayed(b, page) = c
        BY <1>4 DEF Replayed, SamePage
  <2>2. c \in JobStates
        BY DEF JobStates
  <2>3. /\ c.st = "over" /\ c.op = "list" /\ c.under = b.under /\ c.one = b.one /\ c.key = b.key
        /\ c.token = b.token /\ c.items = b.items /\ c.out = "incomplete" /\ c.round = b.round
        /\ c.first = b.first /\ c.replays = b.replays
        BY DEF JobStates
  <2>. HIDE DEF c
  <2>4. ReplayOK(c, s, short2) /\ RoundOK(c, s, short2)
        BY <1>2, <2>3 DEF JobOK, ReplayOK, RoundOK, Replaying
  <2>5. JobOK(c, s, short2)
        BY <1>2, <2>3, <2>4 DEF JobOK
  <2>. QED BY <2>1, <2>2, <2>3, <2>5 DEF Follows, Kept
<1>5. CASE page = b.first
  <2>1. PICK K \in SUBSET Rest(b) : page.objects = ObjectsOf(K)
        BY DEF PageRead, GoodPage
  <2>2. ASSUME FullPage(b, page)
        PROVE  Whole(b.items, b.under, s)
    <3>1. K = Rest(b)
          BY <1>3, <1>5, <2>1, <2>2, FullKeys
    <3>2. ASSUME NEW k \in b.under
          PROVE  b.items[k] # Absent \/ Absent \in s[k]
      <4>1. k \in Keys /\ k \in Int /\ b.token \in Int
            BY <1>0, Numbers
      <4>2. CASE k <= b.token
            BY <4>2 DEF JobOK, Whole
      <4>3. CASE k > b.token /\ store[k] # Absent
        <5>1. k \in K
              BY <3>1, <3>2, <4>3 DEF Rest
        <5>2. <<k, store[k]>> \in b.first.objects /\ <<k, store[k]>>[1] = k
              BY <1>5, <2>1, <5>1 DEF ObjectsOf
        <5>. QED BY <1>3, <5>2
      <4>4. CASE store[k] = Absent
            BY <4>1, <4>4
      <4>. QED BY <4>1, <4>2, <4>3, <4>4
    <3>. QED BY <3>2 DEF Whole
  <2>3. Whole(b.items, b.under, s) \/ b.replays + 2 <= MaxShort - short2
    <3>1. CASE short2 = short - 1
          BY <1>0, <1>3, <3>1, Numbers
    <3>. QED BY <2>2, <3>1 DEF PageRead
  <2>4. CASE b.replays + 2 = TerminalReplays
    <3>1. Replayed(b, page) = Conclude(b)
          BY <1>5, <2>4 DEF Replayed, SamePage
    <3>2. Whole(b.items, b.under, s)
          BY <1>0, <2>3, <2>4, Numbers
    <3>3. Follows(b, Conclude(b), s, short2)
          BY <1>2, <1>3, <3>2, ConcludeOK DEF JobOK
    <3>. QED BY <3>1, <3>3
  <2>5. CASE b.replays + 2 # TerminalReplays
    <3>. DEFINE n == b.replays + 1
                c == [b EXCEPT !.st = "wait", !.tries = 1, !.replays = n]
    <3>1. n \in Nat
          BY <1>0
    <3>2. Replayed(b, page) = c
          BY <1>5, <2>5 DEF Replayed, SamePage
    <3>3. Whole(b.items, b.under, s) \/ n + 1 <= MaxShort - short2
      <4>1. n + 1 = b.replays + 2
            BY <1>0
      <4>. QED BY <2>3, <4>1
    <3>. HIDE DEF n
    <3>4. c \in JobStates
          BY <3>1 DEF JobStates
    <3>5. /\ c.st = "wait" /\ c.op = "list" /\ c.under = b.under /\ c.one = b.one /\ c.key = b.key
          /\ c.token = b.token /\ c.items = b.items /\ c.out = "none" /\ c.round = b.round
          /\ c.first = b.first /\ c.replays = n
          BY <1>0 DEF JobStates
    <3>. HIDE DEF c
    <3>6. ReplayOK(c, s, short2)
          BY <1>3, <3>3, <3>5 DEF ReplayOK, Replaying
    <3>7. RoundOK(c, s, short2)
          BY <1>3, <3>5 DEF RoundOK
    <3>8. JobOK(c, s, short2)
          BY <1>2, <3>5, <3>6, <3>7 DEF JobOK
    <3>. QED BY <3>2, <3>4, <3>5, <3>8 DEF Follows, Kept
  <2>. QED BY <2>4, <2>5
<1>. QED BY <1>4, <1>5

LEMMA AfterPageOK ==
    ASSUME store \in Items, NEW b \in JobStates, NEW s \in Histories,
           NEW short \in 0..MaxShort, NEW short2 \in 0..MaxShort,
           b.st = "call", b.op = "list", JobOK(b, s, short),
           \A k \in Keys : store[k] \in s[k],
           NEW page \in Pages, PageRead(b, page, short, short2)
    PROVE  Follows(b, AfterPage(b, page), s, short2)
BY ListedOK, ReplayedOK DEF AfterPage

\* A call that takes its permit.
LEMMA CallOK ==
    ASSUME NEW b \in JobStates, NEW s \in Histories, NEW short \in 0..MaxShort,
           b.st = "wait", JobOK(b, s, short)
    PROVE  Follows(b, [b EXCEPT !.st = "call"], s, short)
<1>. DEFINE c == [b EXCEPT !.st = "call"]
<1>1. c \in JobStates
      BY DEF JobStates
<1>2. /\ c.st = "call" /\ c.op = b.op /\ c.under = b.under /\ c.one = b.one /\ c.key = b.key
      /\ c.token = b.token /\ c.items = b.items /\ c.out = b.out /\ c.round = b.round
      /\ c.first = b.first /\ c.replays = b.replays
      BY DEF JobStates
<1>. HIDE DEF c
<1>3. ReplayOK(c, s, short) /\ RoundOK(c, s, short)
      BY <1>2 DEF JobOK, ReplayOK, RoundOK, Replaying
<1>4. JobOK(c, s, short)
      BY <1>2, <1>3 DEF JobOK
<1>5. Follows(b, c, s, short)
      BY <1>1, <1>2, <1>4 DEF Follows, Kept
<1>. QED BY <1>5 DEF c

------------------------------------------------------------------------------
\* The requests.

LEMMA SeqElements ==
    ASSUME NEW S, NEW w \in Seq(S)
    PROVE  \A i \in DOMAIN w : w[i] \in S
OBVIOUS

LEMMA HeadTail ==
    ASSUME NEW S, NEW w \in Seq(S), w # <<>>
    PROVE  Head(w) \in S /\ Tail(w) \in Seq(S)
OBVIOUS

LEMMA VerdictKept ==
    ASSUME NEW s \in Histories, NEW s2 \in Histories, \A k \in Keys : s[k] \subseteq s2[k],
           NEW v, VerdictOK(v, s)
    PROVE  VerdictOK(v, s2)
<1>1. CASE v.key \in Keys
  <2>1. s[v.key] \subseteq s2[v.key]
        BY <1>1
  <2>. QED BY <2>1 DEF VerdictOK
<1>2. CASE v.key \notin Keys
      BY <1>2 DEF VerdictOK
<1>. QED BY <1>1, <1>2

LEMMA RequestKept ==
    ASSUME NEW q, NEW jobs, NEW s \in Histories, NEW s2 \in Histories,
           \A k \in Keys : s[k] \subseteq s2[k], RequestOK(q, jobs, s)
    PROVE  RequestOK(q, jobs, s2)
<1>1. \A items : ItemsSeen(items, s) => ItemsSeen(items, s2)
      BY DEF ItemsSeen
<1>2. \A items : Inventoried(items, s) => Inventoried(items, s2)
      BY DEF Inventoried
<1>3. \A items : Whole(items, InProject, s) => Whole(items, InProject, s2)
  <2>1. InProject \subseteq Keys
        BY InspectionAssumption
  <2>. QED BY <2>1 DEF Whole
<1>4. \A v : VerdictOK(v, s) => VerdictOK(v, s2)
      BY VerdictKept
<1>. QED BY <1>1, <1>2, <1>3, <1>4 DEF RequestOK

\* One call of request r is carried on.
LEMMA JobStep ==
    ASSUME IInv, NEW r \in Requests, NEW j \in 0..N, NEW c, job[r][j].st # "none",
           budget' \in [changes : Int, faults : Int, short : 0..MaxShort],
           budget'.short <= budget.short,
           Follows(job[r][j], c, seen[r], budget'.short),
           job' = [job EXCEPT ![r][j] = c],
           UNCHANGED <<store, request, seen>>
    PROVE  IInv'
<1>. DEFINE b == job[r][j]
            jobs == [job[r] EXCEPT ![j] = c]
<1>0. TypeInv /\ job[r] \in [0..N -> JobStates] /\ b \in JobStates /\ seen[r] \in Histories
      BY DEF IInv, TypeInv
<1>1. c \in JobStates /\ JobOK(c, seen[r], budget'.short) /\ Kept(b, c)
      BY DEF Follows
<1>2. job' = [job EXCEPT ![r] = jobs]
      OBVIOUS
<1>3. jobs \in [0..N -> JobStates]
      BY <1>0, <1>1
<1>4. jobs[j] = c /\ \A i \in 0..N : i # j => jobs[i] = job[r][i]
      BY <1>0
<1>. HIDE DEF jobs
<1>5. job'[r] = jobs /\ \A x \in Requests : x # r => job'[x] = job[x]
      BY <1>0, <1>2 DEF TypeInv
<1>6. TypeInv'
      BY <1>0, <1>2, <1>3 DEF TypeInv
<1>7. RequestOK(request[r], jobs, seen[r])
  <2>. DEFINE q == request[r]
  <2>1. RequestOK(q, job[r], seen[r])
        BY DEF IInv
  <2>2. q.stage \notin {"idle", "delete", "done"}
        BY <2>1 DEF RequestOK
  <2>. HIDE DEF q, b
  <2>3. \A i \in 0..N : jobs[i].key = job[r][i].key /\ jobs[i].op = job[r][i].op
           /\ jobs[i].under = job[r][i].under /\ jobs[i].one = job[r][i].one
           /\ (jobs[i].st # "none" => job[r][i].st # "none")
        BY <1>1, <1>4 DEF Kept, b
  <2>4. 0 \in 0..N
        BY Numbers
  <2>5. q.stage = "exact" =>
          \A k \in KeysOf(q.ask.targets) : q.matched[k] # Absent \/ jobs[k].key = k
    <3>1. KeysOf(q.ask.targets) \subseteq 0..N
      <4>1. q.ask \in AskStates
            BY <1>0 DEF q, TypeInv, RequestStates
      <4>2. q.ask.targets \subseteq Targets
            BY <4>1 DEF AskStates, Asked
      <4>. QED BY <4>2 DEF KeysOf, Targets
    <3>. QED BY <2>1, <2>3, <3>1 DEF RequestOK
  <2>6. q.stage = "probe" => DOMAIN q.ask.items \subseteq 0..N
    <3>1. q.ask \in AskStates
          BY <1>0 DEF q, TypeInv, RequestStates
    <3>2. ASSUME q.stage = "probe"
          PROVE  DOMAIN q.ask.items \subseteq 0..N
      <4>1. q.ask.kind = "probe" /\ Len(q.ask.items) <= N
            BY <2>1, <3>2 DEF RequestOK
      <4>2. q.ask \in Asked({"probe"}, Seq(Targets))
            BY <3>1, <4>1 DEF AskStates, Asked
      <4>3. q.ask.items \in Seq(Targets)
            BY <4>2 DEF Asked
      <4>4. DOMAIN q.ask.items = 1..Len(q.ask.items) /\ Len(q.ask.items) \in Nat
            BY <4>3
      <4>. QED BY <4>1, <4>4, Numbers
    <3>. QED BY <3>2
  <2>7. q.stage = "probe" =>
         \A i \in DOMAIN q.ask.items :
           jobs[i].st # "none" /\ q.ask.items[i].key # 0 => jobs[i].key = q.ask.items[i].key
        BY <2>1, <2>3, <2>6 DEF RequestOK
  <2>8. RequestOK(q, jobs, seen[r])
        BY <2>1, <2>2, <2>3, <2>4, <2>5, <2>7 DEF RequestOK
  <2>. QED BY <2>8 DEF q
<1>8. ASSUME NEW x \in Requests
      PROVE  /\ Current(x)' /\ RequestOK(request[x], job[x], seen[x])'
             /\ \A i \in 0..N : JobOK(job[x][i], seen[x], budget.short)'
  <2>1. Current(x)'
        BY DEF IInv, Current, Active
  <2>2. seen[x] \in Histories /\ job[x] \in [0..N -> JobStates]
        BY <1>0 DEF TypeInv
  <2>3. \A k \in Keys : seen[x][k] \subseteq seen[x][k]
        OBVIOUS
  <2>4. budget.short \in 0..MaxShort /\ budget'.short \in 0..MaxShort
        BY <1>0 DEF TypeInv
  <2>5. \A i \in 0..N : JobOK(job[x][i], seen[x], budget'.short)
        BY <2>2, <2>3, <2>4, JobKept DEF IInv
  <2>6. CASE x = r
        BY <1>1, <1>4, <1>5, <1>7, <2>1, <2>5, <2>6
  <2>7. CASE x # r
        BY <1>5, <2>1, <2>5, <2>7 DEF IInv
  <2>. QED BY <2>6, <2>7
<1>. QED BY <1>6, <1>8 DEF IInv

\* A request after a step of its own: its state, its calls and what it has seen.
Stepped(q, jobs, s, short) ==
    /\ q \in RequestStates /\ jobs \in [0..N -> JobStates]
    /\ RequestOK(q, jobs, s)
    /\ \A j \in 0..N : JobOK(jobs[j], s, short)

LEMMA RequestStep ==
    ASSUME IInv, NEW r \in Requests, NEW q, NEW jobs,
           Advance(r, q, jobs), Stepped(q, jobs, seen'[r], budget.short),
           seen' \in [Requests -> Histories],
           \A x \in Requests : x # r => seen'[x] = seen[x],
           \A k \in Keys : store[k] \in seen'[r][k]
    PROVE  IInv'
<1>0. TypeInv
      BY DEF IInv
<1>1. /\ request' = [request EXCEPT ![r] = q] /\ job' = [job EXCEPT ![r] = jobs]
      /\ store' = store /\ budget' = budget
      BY DEF Advance
<1>2. /\ request'[r] = q /\ job'[r] = jobs
      /\ \A x \in Requests : x # r => request'[x] = request[x] /\ job'[x] = job[x]
      BY <1>0, <1>1 DEF TypeInv
<1>3. TypeInv'
      BY <1>0, <1>1 DEF TypeInv, Stepped
<1>4. ASSUME NEW x \in Requests
      PROVE  /\ Current(x)' /\ RequestOK(request[x], job[x], seen[x])'
             /\ \A i \in 0..N : JobOK(job[x][i], seen[x], budget.short)'
  <2>1. CASE x = r
    <3>1. Current(x)'
          BY <1>1, <2>1 DEF Current
    <3>. QED BY <1>1, <1>2, <2>1, <3>1 DEF Stepped
  <2>2. CASE x # r
    <3>1. Current(x)'
          BY <1>1, <1>2, <2>2 DEF IInv, Current, Active
    <3>. QED BY <1>1, <1>2, <2>2, <3>1 DEF IInv
  <2>. QED BY <2>1, <2>2
<1>. QED BY <1>3, <1>4 DEF IInv

\* The same for a step that leaves the history alone.
LEMMA QuietStep ==
    ASSUME IInv, NEW r \in Requests, NEW q, NEW jobs, Active(r),
           Advance(r, q, jobs), Stepped(q, jobs, seen[r], budget.short), UNCHANGED seen
    PROVE  IInv'
<1>1. seen' \in [Requests -> Histories]
      BY DEF IInv, TypeInv
<1>2. \A k \in Keys : store[k] \in seen'[r][k]
      BY DEF IInv, Current
<1>3. Stepped(q, jobs, seen'[r], budget.short)
      OBVIOUS
<1>. QED BY <1>1, <1>2, <1>3, RequestStep

\* The facts about a request that its steps start from.
LEMMA RequestFacts ==
    ASSUME IInv, NEW r \in Requests
    PROVE  /\ request[r] \in RequestStates /\ job[r] \in [0..N -> JobStates]
           /\ seen[r] \in Histories /\ budget.short \in 0..MaxShort
           /\ RequestOK(request[r], job[r], seen[r])
           /\ \A j \in 0..N : JobOK(job[r][j], seen[r], budget.short)
BY DEF IInv, TypeInv

LEMMA AskFacts ==
    ASSUME NEW q \in RequestStates
    PROVE  /\ q.ask.targets \subseteq Targets /\ KeysOf(q.ask.targets) \subseteq Keys
           /\ q.ask.kind = "probe" => q.ask.items \in Seq(Targets)
           /\ q.ask.kind = "delete" => q.ask.items \in Seq(0..N)
<1>1. q.ask \in AskStates
      BY DEF RequestStates
<1>2. q.ask.targets \subseteq Targets
      BY <1>1 DEF AskStates, Asked
<1>3. KeysOf(q.ask.targets) \subseteq Keys
      BY <1>2, Numbers DEF KeysOf, Targets
<1>. QED BY <1>1, <1>2, <1>3 DEF AskStates, Asked

LEMMA NoJobsOK ==
    ASSUME NEW s \in Histories, NEW short \in 0..MaxShort
    PROVE  /\ NoJobs \in [0..N -> JobStates]
           /\ \A j \in 0..N : NoJobs[j] = NoJob /\ NoJobs[j].st = "none" /\ JobOK(NoJobs[j], s, short)
BY NoJobTyped, NoJobOK DEF NoJobs

\* A request that is answered.
LEMMA Answered ==
    ASSUME NEW q \in RequestStates, NEW s \in Histories, NEW short \in 0..MaxShort,
           NEW listing \in {"none", "complete", "partial", "failed"},
           NEW items \in Items, NEW verdicts \in SUBSET Verdicts,
           \A v \in verdicts : VerdictOK(v, s),
           q.ask.kind = "inspect" =>
             /\ Inventoried(items, s)
             /\ listing = "complete" /\ q.ask.mode # "exists" => Whole(items, InProject, s),
           ItemsSeen(q.matched, s), q.ask.kind = "probe" => Len(q.ask.items) <= N
    PROVE  Stepped(Answer(q, listing, items, verdicts), NoJobs, s, short)
<1>. DEFINE a == Answer(q, listing, items, verdicts)
<1>1. a \in RequestStates
      BY DEF Answer, RequestStates, Stages
<1>2. /\ a.stage = "done" /\ a.ask = q.ask /\ a.listing = listing /\ a.items = items
      /\ a.verdicts = verdicts /\ a.matched = q.matched
      BY DEF Answer, RequestStates
<1>. HIDE DEF a
<1>3. RequestOK(a, NoJobs, s)
      BY <1>2, NoJobsOK DEF RequestOK
<1>4. Stepped(a, NoJobs, s, short)
      BY <1>1, <1>3, NoJobsOK DEF Stepped
<1>. QED BY <1>4 DEF a

\* The next part of a validation.
LEMMA ValidationOK ==
    ASSUME IInv, NEW r \in Requests, NEW q \in RequestStates, q.ask.kind = "validate",
           Validation(r, q), ItemsSeen(q.matched, seen'[r]),
           seen' \in [Requests -> Histories],
           \A x \in Requests : x # r => seen'[x] = seen[x],
           \A k \in Keys : store[k] \in seen'[r][k]
    PROVE  IInv'
<1>. DEFINE s == seen'[r]
            short == budget.short
<1>0. s \in Histories /\ short \in 0..MaxShort
      BY RequestFacts
<1>1. ASSUME NEW d \in q.groups,
             Advance(r, [q EXCEPT !.stage = "group", !.groups = @ \ {d}, !.dir = d],
                     [NoJobs EXCEPT ![0] = Listing(InDir[d], FALSE, 0)])
      PROVE  IInv'
  <2>. DEFINE p == [q EXCEPT !.stage = "group", !.groups = @ \ {d}, !.dir = d]
              L == Listing(InDir[d], FALSE, 0)
              jobs == [NoJobs EXCEPT ![0] = L]
  <2>1. d \in Dirs
        BY DEF RequestStates
  <2>2. InDir[d] \subseteq Keys
        BY <2>1, InspectionAssumption DEF Dirs
  <2>3. L \in JobStates /\ JobOK(L, s, short)
        BY <1>0, <2>2, Numbers, ListingTyped, ListingOK
  <2>. HIDE DEF L
  <2>4. p \in RequestStates
        BY <2>1 DEF RequestStates, Stages
  <2>5. p.stage = "group" /\ p.ask = q.ask /\ p.matched = q.matched
        BY DEF RequestStates
  <2>6. jobs \in [0..N -> JobStates] /\ \A j \in 0..N : JobOK(jobs[j], s, short)
        BY <1>0, <2>3, NoJobsOK
  <2>. HIDE DEF p, jobs
  <2>7. RequestOK(p, jobs, s)
        BY <2>5 DEF RequestOK
  <2>8. Stepped(p, jobs, s, short)
        BY <2>4, <2>6, <2>7 DEF Stepped
  <2>9. Advance(r, p, jobs)
        BY <1>1 DEF p, jobs, L
  <2>. QED BY <2>8, <2>9, RequestStep
<1>2. ASSUME Advance(r, [q EXCEPT !.stage = "exact"], ExactJobs(q))
      PROVE  IInv'
  <2>. DEFINE p == [q EXCEPT !.stage = "exact"]
              jobs == ExactJobs(q)
              todo == KeysOf(q.ask.targets) \ Found(q.matched)
  <2>1. p \in RequestStates
        BY DEF RequestStates, Stages
  <2>2. p.stage = "exact" /\ p.ask = q.ask /\ p.matched = q.matched
        BY DEF RequestStates
  <2>3. todo \subseteq Keys
        BY AskFacts
  <2>4. \A j \in 0..N : jobs[j] = IF j \in todo THEN Listing(Starting[j], TRUE, j) ELSE NoJob
        BY DEF ExactJobs
  <2>5. DOMAIN jobs = 0..N /\ jobs = [j \in 0..N |-> jobs[j]]
        BY DEF ExactJobs
  <2>. HIDE DEF todo, jobs, p
  <2>6. ASSUME NEW j \in todo
        PROVE  /\ jobs[j] \in JobStates /\ JobOK(jobs[j], s, short) /\ jobs[j].key = j
    <3>1. j \in Keys /\ j \in 0..N
          BY <2>3, Numbers
    <3>2. Starting[j] \in SUBSET Keys /\ j \in Starting[j]
          BY <3>1, InspectionAssumption
    <3>3. jobs[j] = Listing(Starting[j], TRUE, j)
          BY <2>4, <3>1
    <3>4. jobs[j] \in JobStates /\ Fresh(jobs[j], Starting[j], TRUE, j)
          BY <3>1, <3>2, <3>3, ListingTyped
    <3>5. JobOK(jobs[j], s, short)
          BY <1>0, <3>1, <3>2, <3>3, ListingOK
    <3>. QED BY <3>4, <3>5 DEF Fresh
  <2>7. \A j \in 0..N : jobs[j] \in JobStates /\ JobOK(jobs[j], s, short)
        BY <1>0, <2>4, <2>6, NoJobTyped, NoJobOK
  <2>8. \A k \in KeysOf(q.ask.targets) : q.matched[k] # Absent \/ jobs[k].key = k
    <3>1. \A k \in KeysOf(q.ask.targets) : q.matched[k] = Absent => k \in todo
          BY AskFacts DEF todo, Found
    <3>. QED BY <2>6, <3>1
  <2>9. RequestOK(p, jobs, s)
        BY <2>2, <2>8 DEF RequestOK
  <2>10. Stepped(p, jobs, s, short)
        BY <2>1, <2>5, <2>7, <2>9 DEF Stepped
  <2>11. Advance(r, p, jobs)
        BY <1>2 DEF p, jobs
  <2>. QED BY <2>10, <2>11, RequestStep
<1>. QED BY <1>1, <1>2 DEF Validation

LEMMA BeginOK ==
    ASSUME IInv, NEW r \in Requests, Begin(r)
    PROVE  IInv'
<1>. DEFINE q == request[r]
            a == q.ask
            s == seen'[r]
            short == budget.short
<1>0. /\ q \in RequestStates /\ short \in 0..MaxShort /\ RequestOK(q, job[r], seen[r])
      /\ store \in Items
      BY RequestFacts DEF IInv, TypeInv
<1>1. q.stage = "idle" /\ seen' = [seen EXCEPT ![r] = [k \in Keys |-> {store[k]}]]
      BY DEF Begin
<1>2. [k \in Keys |-> {store[k]}] \in Histories
      BY <1>0 DEF Histories, Items
<1>3. /\ s \in Histories /\ seen' \in [Requests -> Histories]
      /\ \A x \in Requests : x # r => seen'[x] = seen[x]
      /\ \A k \in Keys : store[k] \in s[k]
      BY <1>1, <1>2 DEF IInv, TypeInv
<1>. HIDE DEF s
<1>4. q.verdicts = {} /\ q.matched = NoItems /\ (a.kind = "probe" => Len(a.items) <= N)
      BY <1>0, <1>1 DEF RequestOK
<1>5. ItemsSeen(q.matched, s)
      BY <1>4, NoItemsOK DEF ItemsSeen
<1>6. ASSUME NEW p, NEW jobs, Advance(r, p, jobs), Stepped(p, jobs, s, short)
      PROVE  IInv'
      BY <1>3, <1>6, RequestStep DEF s
<1>7. /\ NoJobs \in [0..N -> JobStates]
      /\ \A j \in 0..N : NoJobs[j].st = "none" /\ JobOK(NoJobs[j], s, short)
      BY <1>0, <1>3, NoJobsOK
<1>8. NoItems \in Items /\ Inventoried(NoItems, s)
      BY NoItemsOK DEF Inventoried
<1>9. ASSUME a.kind = "inspect", resolveScope(a),
             Advance(r, [q EXCEPT !.stage = "list"],
                     [NoJobs EXCEPT ![0] = Listing(InProject, a.mode = "exists", 0)])
      PROVE  IInv'
  <2>. DEFINE one == (a.mode = "exists")
              L == Listing(InProject, one, 0)
              p == [q EXCEPT !.stage = "list"]
              jobs == [NoJobs EXCEPT ![0] = L]
  <2>1. InProject \in SUBSET Keys /\ 0 \in 0..N /\ one \in BOOLEAN
        BY InspectionAssumption, Numbers
  <2>. HIDE DEF one
  <2>2. L \in JobStates /\ JobOK(L, s, short) /\ Fresh(L, InProject, one, 0)
        BY <1>0, <1>3, <2>1, ListingTyped, ListingOK
  <2>. HIDE DEF L
  <2>3. p \in RequestStates
        BY <1>0 DEF RequestStates, Stages
  <2>4. p.stage = "list" /\ p.ask = a /\ p.matched = q.matched
        BY <1>0 DEF RequestStates
  <2>5. jobs \in [0..N -> JobStates] /\ \A j \in 0..N : JobOK(jobs[j], s, short)
        BY <1>7, <2>2
  <2>6. jobs[0] = L
        BY <1>7, <2>1
  <2>. HIDE DEF p, jobs
  <2>7. RequestOK(p, jobs, s)
        BY <1>5, <1>9, <2>2, <2>4, <2>6 DEF RequestOK, Fresh, one
  <2>8. Stepped(p, jobs, s, short)
        BY <2>3, <2>5, <2>7 DEF Stepped
  <2>9. Advance(r, p, jobs)
        BY <1>9 DEF p, jobs, L, one
  <2>. QED BY <1>6, <2>8, <2>9
<1>10. ASSUME Advance(r, Answer(q, "failed", NoItems, {}), NoJobs)
      PROVE  IInv'
  <2>1. Stepped(Answer(q, "failed", NoItems, {}), NoJobs, s, short)
        BY <1>0, <1>3, <1>4, <1>5, <1>8, Answered
  <2>. QED BY <1>6, <1>10, <2>1
<1>11. ASSUME a.kind = "validate", Validation(r, [q EXCEPT !.groups = Dense(a.targets)])
      PROVE  IInv'
  <2>. DEFINE g == Dense(a.targets)
              p == [q EXCEPT !.groups = g]
  <2>1. g \subseteq Dirs
        BY <1>0, AskFacts DEF Dense, Dirs
  <2>. HIDE DEF g
  <2>2. p \in RequestStates
        BY <1>0, <2>1 DEF RequestStates
  <2>3. p.ask = a /\ p.matched = q.matched
        BY <1>0 DEF RequestStates
  <2>4. Validation(r, p)
        BY <1>11 DEF g
  <2>. HIDE DEF p
  <2>. QED BY <1>3, <1>5, <1>11, <2>2, <2>3, <2>4, ValidationOK DEF s
<1>12. ASSUME NEW stage \in {"probe", "delete"}, a.kind = stage,
             Advance(r, [q EXCEPT !.stage = stage], NoJobs)
      PROVE  IInv'
  <2>. DEFINE p == [q EXCEPT !.stage = stage]
  <2>1. p \in RequestStates
        BY <1>0 DEF RequestStates, Stages
  <2>2. p.stage = stage /\ p.ask = a /\ p.matched = q.matched /\ p.verdicts = q.verdicts
        BY <1>0 DEF RequestStates
  <2>3. Advance(r, p, NoJobs)
        BY <1>12
  <2>. HIDE DEF p
  <2>4. stage = "probe" =>
         \A i \in DOMAIN a.items :
           NoJobs[i].st # "none" /\ a.items[i].key # 0 => NoJobs[i].key = a.items[i].key
    <3>1. ASSUME stage = "probe"
          PROVE  DOMAIN a.items \subseteq 0..N
      <4>1. a.items \in Seq(Targets) /\ Len(a.items) <= N
            BY <1>0, <1>4, <1>12, <3>1, AskFacts
      <4>2. DOMAIN a.items = 1..Len(a.items) /\ Len(a.items) \in Nat
            BY <4>1
      <4>. QED BY <4>1, <4>2, Numbers
    <3>. QED BY <1>7, <3>1
  <2>5. RequestOK(p, NoJobs, s)
        BY <1>4, <1>5, <1>7, <1>12, <2>2, <2>4 DEF RequestOK
  <2>6. Stepped(p, NoJobs, s, short)
        BY <1>7, <2>1, <2>5 DEF Stepped
  <2>. QED BY <1>6, <2>3, <2>6
<1>13. ASSUME a.kind = "delete",
             Advance(r, Answer(q, "none", NoItems,
                        {Verdict(k, Unknown, "error", Unknown, "not_requested") :
                            k \in {a.items[i] : i \in DOMAIN a.items}}), NoJobs)
      PROVE  IInv'
  <2>. DEFINE vs == {Verdict(k, Unknown, "error", Unknown, "not_requested") :
                        k \in {a.items[i] : i \in DOMAIN a.items}}
  <2>1. \A i \in DOMAIN a.items : a.items[i] \in 0..N
    <3>1. a.items \in Seq(0..N)
          BY <1>0, <1>13, AskFacts
    <3>. QED BY <3>1, SeqElements
  <2>2. \A k \in 0..N :
           LET v == Verdict(k, Unknown, "error", Unknown, "not_requested")
           IN  v \in Verdicts /\ VerdictOK(v, s)
        BY DEF Verdict, Verdicts, VerdictOK, Unknown
  <2>3. vs \in SUBSET Verdicts /\ \A v \in vs : VerdictOK(v, s)
        BY <2>1, <2>2
  <2>. HIDE DEF vs
  <2>4. Stepped(Answer(q, "none", NoItems, vs), NoJobs, s, short)
        BY <1>0, <1>3, <1>5, <1>8, <1>13, <2>3, Answered
  <2>. QED BY <1>6, <1>13, <2>4 DEF vs
<1>14. \/ /\ a.kind = "inspect" /\ resolveScope(a)
          /\ Advance(r, [q EXCEPT !.stage = "list"],
                     [NoJobs EXCEPT ![0] = Listing(InProject, a.mode = "exists", 0)])
       \/ Advance(r, Answer(q, "failed", NoItems, {}), NoJobs)
       \/ /\ a.kind = "validate"
          /\ Validation(r, [q EXCEPT !.groups = Dense(a.targets)])
       \/ /\ a.kind = "probe"
          /\ Advance(r, [q EXCEPT !.stage = "probe"], NoJobs)
       \/ /\ a.kind = "delete"
          /\ Advance(r, [q EXCEPT !.stage = "delete"], NoJobs)
       \/ /\ a.kind = "delete"
          /\ Advance(r, Answer(q, "none", NoItems,
                            {Verdict(k, Unknown, "error", Unknown, "not_requested") :
                                k \in {a.items[i] : i \in DOMAIN a.items}}), NoJobs)
      BY DEF Begin
<1>. QED BY <1>9, <1>10, <1>11, <1>12, <1>13, <1>14

LEMMA ActiveStage ==
    ASSUME NEW r \in Requests, request[r].stage \notin {"idle", "done"}
    PROVE  Active(r)
BY DEF Active

\* A step of a call happens while its request runs.
LEMMA CallFacts ==
    ASSUME IInv, NEW r \in Requests, NEW j \in 0..N, job[r][j].st # "none"
    PROVE  /\ job[r][j] \in JobStates /\ JobOK(job[r][j], seen[r], budget.short)
           /\ store \in Items /\ seen[r] \in Histories /\ budget.short \in 0..MaxShort
           /\ \A k \in Keys : store[k] \in seen[r][k]
<1>1. Active(r)
      BY RequestFacts DEF Active, RequestOK
<1>. QED BY <1>1, RequestFacts DEF IInv, TypeInv, Current

LEMMA CallsOK ==
    ASSUME IInv, NEW r \in Requests, NEW j \in 0..N,
           acquireProbe(r, j) \/ ListPage(r, j) \/ ListEndsEarly(r, j)
             \/ HeadObject(r, j) \/ CallFails(r, j)
    PROVE  IInv'
<1>. DEFINE b == job[r][j]
            s == seen[r]
<1>0. budget \in [changes : Int, faults : Int, short : 0..MaxShort]
      BY DEF IInv, TypeInv
<1>1. b.st # "none"
      BY DEF acquireProbe, ListPage, ListEndsEarly, HeadObject, CallFails
<1>2. /\ b \in JobStates /\ JobOK(b, s, budget.short) /\ store \in Items /\ s \in Histories
      /\ budget.short \in 0..MaxShort /\ \A k \in Keys : store[k] \in s[k]
      BY <1>1, CallFacts
<1>3. ASSUME NEW c, Release(r, j, c, budget), Follows(b, c, s, budget.short)
      PROVE  IInv'
  <2>1. budget' = budget /\ job' = [job EXCEPT ![r][j] = c] /\ UNCHANGED <<store, request, seen>>
        BY <1>3 DEF Release
  <2>2. budget.short <= budget.short
        BY <1>2
  <2>3. budget' \in [changes : Int, faults : Int, short : 0..MaxShort] /\ budget'.short <= budget.short
        BY <1>0, <2>1, <2>2
  <2>4. Follows(b, c, s, budget'.short)
        BY <1>3, <2>1
  <2>. QED BY <1>1, <2>1, <2>3, <2>4, JobStep
<1>4. CASE acquireProbe(r, j)
  <2>. DEFINE c == [b EXCEPT !.st = "call"]
  <2>1. Follows(b, c, s, budget.short)
        BY <1>2, <1>4, CallOK DEF acquireProbe
  <2>2. budget' = budget /\ UNCHANGED <<store, request, seen>>
        BY <1>4 DEF acquireProbe
  <2>3. job' = [job EXCEPT ![r][j] = c]
    <3>1. job' = [job EXCEPT ![r][j].st = "call"]
          BY <1>4 DEF acquireProbe
    <3>2. job' = [job EXCEPT ![r] = [job[r] EXCEPT ![j] = [job[r][j] EXCEPT !.st = "call"]]]
          BY <3>1
    <3>. QED BY <3>2
  <2>. HIDE DEF c
  <2>4. budget' \in [changes : Int, faults : Int, short : 0..MaxShort] /\ budget'.short <= budget.short
        BY <1>0, <1>2, <2>2
  <2>5. Follows(b, c, s, budget'.short)
        BY <2>1, <2>2
  <2>. QED BY <1>1, <2>2, <2>3, <2>4, <2>5, JobStep
<1>5. CASE ListPage(r, j)
  <2>1. b.st = "call" /\ b.op = "list" /\ Release(r, j, AfterPage(b, TruePage(b)), budget)
        BY <1>5 DEF ListPage
  <2>2. TruePage(b) \in Pages /\ PageRead(b, TruePage(b), budget.short, budget.short)
        BY <1>2, TruePageOK DEF PageRead
  <2>3. Follows(b, AfterPage(b, TruePage(b)), s, budget.short)
        BY <1>2, <2>1, <2>2, AfterPageOK
  <2>. QED BY <1>3, <2>1, <2>3
<1>6. CASE ListEndsEarly(r, j)
  <2>1. b.st = "call" /\ b.op = "list" /\ budget.short > 0
        BY <1>6 DEF ListEndsEarly
  <2>2. PICK page \in ShortPages(b) :
          Release(r, j, AfterPage(b, page), [budget EXCEPT !.short = @ - 1])
        BY <1>6 DEF ListEndsEarly
  <2>. DEFINE n == budget.short - 1
  <2>3. n \in 0..MaxShort /\ n <= budget.short
        BY <1>2, <2>1, Numbers
  <2>4. budget' = [budget EXCEPT !.short = n] /\ job' = [job EXCEPT ![r][j] = AfterPage(b, page)]
           /\ UNCHANGED <<store, request, seen>>
        BY <2>2 DEF Release
  <2>5. page \in Pages /\ PageRead(b, page, budget.short, n)
        BY <1>2, ShortPageOK DEF PageRead
  <2>. HIDE DEF n
  <2>6. budget' \in [changes : Int, faults : Int, short : 0..MaxShort] /\ budget'.short = n
        BY <1>0, <2>3, <2>4
  <2>7. Follows(b, AfterPage(b, page), s, n)
        BY <1>2, <2>1, <2>3, <2>5, AfterPageOK
  <2>. QED BY <1>1, <2>3, <2>4, <2>6, <2>7, JobStep
<1>7. CASE HeadObject(r, j)
  <2>1. b.st = "call" /\ b.op = "head" /\ Release(r, j, AfterHead(b), budget)
        BY <1>7 DEF HeadObject
  <2>2. Follows(b, AfterHead(b), s, budget.short)
        BY <1>2, <2>1, AfterHeadOK
  <2>. QED BY <1>3, <2>1, <2>2
<1>8. CASE CallFails(r, j)
  <2>1. b.st = "call"
        BY <1>8 DEF CallFails
  <2>2. PICK transient \in BOOLEAN :
          Release(r, j, AfterError(b, transient), [budget EXCEPT !.faults = @ - 1])
        BY <1>8 DEF CallFails
  <2>3. /\ budget' = [budget EXCEPT !.faults = @ - 1]
        /\ job' = [job EXCEPT ![r][j] = AfterError(b, transient)]
        /\ UNCHANGED <<store, request, seen>>
        BY <2>2 DEF Release
  <2>4. budget' \in [changes : Int, faults : Int, short : 0..MaxShort] /\ budget'.short = budget.short
        BY <1>0, <2>3
  <2>5. Follows(b, AfterError(b, transient), s, budget.short)
        BY <1>2, <2>1, AfterErrorOK
  <2>6. budget'.short <= budget.short
        BY <1>2, <2>4
  <2>. QED BY <1>1, <2>3, <2>4, <2>5, <2>6, JobStep
<1>. QED BY <1>4, <1>5, <1>6, <1>7, <1>8

LEMMA InspectOK ==
    ASSUME IInv, NEW r \in Requests, InspectProjectStorage(r)
    PROVE  IInv'
<1>. DEFINE q == request[r]
            b == job[r][0]
            s == seen[r]
            short == budget.short
<1>0. /\ q \in RequestStates /\ job[r] \in [0..N -> JobStates] /\ s \in Histories
      /\ short \in 0..MaxShort /\ RequestOK(q, job[r], s) /\ 0 \in 0..N
      BY RequestFacts, Numbers
<1>1. b \in JobStates /\ JobOK(b, s, short)
      BY <1>0, RequestFacts
<1>2. q.stage = "list" /\ UNCHANGED seen /\ Active(r)
      BY DEF InspectProjectStorage, Active
<1>3. /\ b.op = "list" /\ b.key = 0 /\ b.under = InProject /\ b.one = (q.ask.mode = "exists")
      /\ q.ask.kind = "inspect" /\ ItemsSeen(q.matched, s)
      BY <1>0, <1>2 DEF RequestOK
<1>4. b.items \in Items /\ Inventoried(b.items, s)
      BY <1>1, <1>3 DEF JobOK, Inventoried, ItemsSeen, JobStates
<1>5. b.out = "ok" /\ q.ask.mode # "exists" => Whole(b.items, InProject, s)
      BY <1>1, <1>3 DEF JobOK
<1>6. ASSUME NEW p, NEW jobs, Advance(r, p, jobs), Stepped(p, jobs, s, short)
      PROVE  IInv'
      BY <1>2, <1>6, QuietStep
<1>7. ASSUME b.out = "ok",
             Advance(r, [q EXCEPT !.stage = "heads", !.items = b.items],
                     [j \in 0..N |-> IF j \in Found(b.items) THEN Head1(j) ELSE NoJob])
      PROVE  IInv'
  <2>. DEFINE items == b.items
              p == [q EXCEPT !.stage = "heads", !.items = items]
              jobs == [j \in 0..N |-> IF j \in Found(items) THEN Head1(j) ELSE NoJob]
  <2>1. items \in Items /\ Inventoried(items, s)
           /\ (q.ask.mode # "exists" => Whole(items, InProject, s))
        BY <1>4, <1>5, <1>7
  <2>2. Advance(r, p, jobs)
        BY <1>7
  <2>. HIDE DEF items
  <2>3. p \in RequestStates
        BY <1>0, <2>1 DEF RequestStates, Stages
  <2>4. p.stage = "heads" /\ p.ask = q.ask /\ p.matched = q.matched /\ p.items = items
        BY <1>0 DEF RequestStates
  <2>5. \A j \in Found(items) : Head1(j) \in JobStates /\ JobOK(Head1(j), s, short)
        BY <1>0, HeadOK DEF Found
  <2>6. NoJob \in JobStates /\ JobOK(NoJob, s, short)
        BY <1>0, NoJobOK, NoJobTyped
  <2>7. jobs \in [0..N -> JobStates] /\ \A j \in 0..N : JobOK(jobs[j], s, short)
        BY <2>5, <2>6
  <2>. HIDE DEF p, jobs
  <2>8. RequestOK(p, jobs, s)
        BY <1>3, <2>1, <2>4 DEF RequestOK
  <2>9. Stepped(p, jobs, s, short)
        BY <2>3, <2>7, <2>8 DEF Stepped
  <2>. QED BY <1>6, <2>2, <2>9
<1>8. ASSUME NEW listing \in {"complete", "partial"}, listing = "complete" => b.out = "ok",
             Advance(r, Answer(q, listing, b.items, {}), NoJobs)
      PROVE  IInv'
  <2>1. Stepped(Answer(q, listing, b.items, {}), NoJobs, s, short)
        BY <1>0, <1>3, <1>4, <1>5, <1>8, Answered
  <2>. QED BY <1>6, <1>8, <2>1
<1>9. ASSUME Advance(r, Answer(q, "failed", NoItems, {}), NoJobs)
      PROVE  IInv'
  <2>1. NoItems \in Items /\ Inventoried(NoItems, s)
        BY NoItemsOK DEF Inventoried
  <2>2. Stepped(Answer(q, "failed", NoItems, {}), NoJobs, s, short)
        BY <1>0, <1>3, <2>1, Answered
  <2>. QED BY <1>6, <1>9, <2>2
<1>10. \/ /\ b.out = "ok"
          /\ Advance(r, [q EXCEPT !.stage = "heads", !.items = b.items],
                     [j \in 0..N |-> IF j \in Found(b.items) THEN Head1(j) ELSE NoJob])
       \/ b.out = "ok" /\ Advance(r, Answer(q, "complete", b.items, {}), NoJobs)
       \/ Advance(r, Answer(q, "partial", b.items, {}), NoJobs)
       \/ Advance(r, Answer(q, "failed", NoItems, {}), NoJobs)
      BY DEF InspectProjectStorage
<1>. QED BY <1>7, <1>8, <1>9, <1>10

LEMMA EnrichOK ==
    ASSUME IInv, NEW r \in Requests, enrichInventoryHeads(r)
    PROVE  IInv'
<1>. DEFINE q == request[r]
            s == seen[r]
            short == budget.short
<1>0. /\ q \in RequestStates /\ s \in Histories
      /\ short \in 0..MaxShort /\ RequestOK(q, job[r], s)
      BY RequestFacts
<1>1. q.stage = "heads" /\ UNCHANGED seen /\ Active(r)
      BY DEF enrichInventoryHeads, Active
<1>2. /\ q.ask.kind = "inspect" /\ ItemsSeen(q.matched, s) /\ Inventoried(q.items, s)
      /\ q.ask.mode # "exists" => Whole(q.items, InProject, s)
      BY <1>0, <1>1 DEF RequestOK
<1>3. q.items \in Items
      BY <1>0 DEF RequestStates
<1>4. Stepped(Answer(q, "complete", q.items, {}), NoJobs, s, short)
      BY <1>0, <1>2, <1>3, Answered
<1>5. NoItems \in Items /\ Inventoried(NoItems, s)
      BY NoItemsOK DEF Inventoried
<1>6. Stepped(Answer(q, "failed", NoItems, {}), NoJobs, s, short)
      BY <1>0, <1>2, <1>5, Answered
<1>7. \/ Advance(r, Answer(q, "complete", q.items, {}), NoJobs)
      \/ Advance(r, Answer(q, "failed", NoItems, {}), NoJobs)
      BY DEF enrichInventoryHeads
<1>. QED BY <1>1, <1>4, <1>6, <1>7, QuietStep

LEMMA CoalescedOK ==
    ASSUME IInv, NEW r \in Requests, runCoalescedValidation(r)
    PROVE  IInv'
<1>. DEFINE q == request[r]
            b == job[r][0]
            s == seen[r]
            usable == b.out = "ok" /\ Cardinality(Found(b.items)) <= FallbackLimit
            matched == [k \in Keys |->
                          IF usable /\ k \in KeysOf(q.ask.targets) /\ DirOf[k] = q.dir
                          THEN b.items[k] ELSE q.matched[k]]
            p == [q EXCEPT !.matched = matched]
<1>0. /\ q \in RequestStates /\ job[r] \in [0..N -> JobStates] /\ s \in Histories
      /\ RequestOK(q, job[r], s) /\ 0 \in 0..N
      BY RequestFacts, Numbers
<1>1. b \in JobStates /\ JobOK(b, s, budget.short)
      BY <1>0, RequestFacts
<1>2. q.stage = "group" /\ UNCHANGED seen /\ Active(r)
      BY DEF runCoalescedValidation, Active
<1>3. Validation(r, p)
      BY DEF runCoalescedValidation
<1>4. q.ask.kind = "validate" /\ ItemsSeen(q.matched, s) /\ ItemsSeen(b.items, s)
      BY <1>0, <1>1, <1>2 DEF RequestOK, JobOK
<1>5. b.items \in Items /\ q.matched \in Items
      BY <1>0, <1>1 DEF JobStates, RequestStates
<1>6. \A k \in Keys : matched[k] \in {b.items[k], q.matched[k]}
      OBVIOUS
<1>. HIDE DEF usable
<1>7. matched \in Items
      BY <1>5, <1>6 DEF Items
<1>8. ItemsSeen(matched, s)
      BY <1>4, <1>6 DEF ItemsSeen
<1>. HIDE DEF matched
<1>9. p \in RequestStates /\ p.ask = q.ask /\ p.matched = matched
      BY <1>0, <1>7 DEF RequestStates
<1>10. seen' \in [Requests -> Histories] /\ \A k \in Keys : store[k] \in seen'[r][k]
      BY <1>2 DEF IInv, TypeInv, Current
<1>. HIDE DEF p
<1>. QED BY <1>2, <1>3, <1>4, <1>8, <1>9, <1>10, ValidationOK

\* What is told of a location whose key is k, from the call b.
LEMMA JudgedOK ==
    ASSUME NEW t \in Targets, t.key # 0, NEW b, b.items \in Items, NEW s \in Histories,
           ItemsSeen(b.items, s),
           b.out = "ok" => Whole(b.items, {t.key}, s),
           b.out = "missing" => Absent \in s[t.key]
    PROVE  /\ Judged(t, b) \in Verdicts /\ VerdictOK(Judged(t, b), s)
           /\ Judged(t, b).status = "present" => Judged(t, b).size # Absent
<1>0. t.key \in Keys /\ t.key \in 0..N /\ t.expect \in Int
      BY Numbers DEF Targets
<1>1. b.items[t.key] \in Int /\ Unknown \in Int
  <2>1. b.items[t.key] \in Values
        BY <1>0 DEF Items
  <2>2. Values \subseteq Int
        BY SizesOK DEF Values
  <2>3. Unknown \in Int
        BY DEF Unknown
  <2>. QED BY <2>1, <2>2, <2>3
<1>2. Unchecked(t.expect) \in {"not_requested", "unverifiable"}
      BY DEF Unchecked
<1>3. CASE b.out \in {"ok", "missing"} /\ b.items[t.key] = Absent
  <2>1. Judged(t, b) = Verdict(t.key, t.expect, "not_found", Unknown, Unchecked(t.expect))
        BY <1>3 DEF Judged
  <2>2. Absent \in s[t.key]
        BY <1>3 DEF Whole
  <2>. QED BY <1>0, <1>1, <1>2, <2>1, <2>2 DEF Verdict, Verdicts, VerdictOK
<1>4. CASE b.out = "ok" /\ b.items[t.key] # Absent
  <2>. DEFINE size == b.items[t.key]
              check == Compared(t.expect, size)
  <2>1. Judged(t, b) = Verdict(t.key, t.expect, "present", size, check)
        BY <1>4 DEF Judged
  <2>2. size \in s[t.key] /\ size # Absent /\ size \in Int
        BY <1>0, <1>1, <1>4 DEF ItemsSeen
  <2>3. /\ check \in {"not_requested", "matched", "mismatched"}
        /\ check = "matched" => t.expect = size
        /\ check = "mismatched" => t.expect # size
        BY DEF Compared
  <2>. HIDE DEF size, check
  <2>4. Judged(t, b) \in Verdicts /\ Judged(t, b).size = size
        BY <1>0, <2>1, <2>2, <2>3 DEF Verdict, Verdicts
  <2>5. VerdictOK(Judged(t, b), s)
        BY <1>0, <2>1, <2>2, <2>3 DEF Verdict, VerdictOK
  <2>. QED BY <2>2, <2>4, <2>5
<1>5. CASE b.out \notin {"ok", "missing"} \/ (b.out = "missing" /\ b.items[t.key] # Absent)
  <2>1. Judged(t, b) = Verdict(t.key, t.expect, "error", Unknown, Unchecked(t.expect))
        BY <1>5 DEF Judged
  <2>. QED BY <1>0, <1>1, <1>2, <2>1 DEF Verdict, Verdicts, VerdictOK
<1>. QED BY <1>3, <1>4, <1>5

LEMMA RefusedOK ==
    ASSUME NEW t \in Targets, NEW s \in Histories
    PROVE  /\ RefusedVerdict(t) \in Verdicts /\ VerdictOK(RefusedVerdict(t), s)
           /\ RefusedVerdict(t).status # "present"
<1>1. Unchecked(t.expect) \in {"not_requested", "unverifiable"}
      BY DEF Unchecked
<1>2. t.expect \in Int /\ Unknown \in Int /\ 0 \in 0..N
      BY Numbers DEF Targets, Unknown
<1>. QED BY <1>1, <1>2 DEF RefusedVerdict, Verdict, Verdicts, VerdictOK

LEMMA FromCacheOK ==
    ASSUME NEW v \in Verdicts, NEW s \in Histories, VerdictOK(v, s),
           v.status = "present" => v.size # Absent
    PROVE  FromCache(v) \in Verdicts /\ VerdictOK(FromCache(v), s)
<1>. DEFINE size == IF v.status = "present" THEN v.size ELSE 0
            check == Compared(v.expect, size)
            w == [v EXCEPT !.check = check]
<1>1. /\ check \in {"not_requested", "matched", "mismatched"}
      /\ check = "matched" => v.expect = size
      /\ check = "mismatched" => v.expect # size
      BY DEF Compared
<1>2. FromCache(v) = w
      BY DEF FromCache
<1>. HIDE DEF check
<1>3. w \in Verdicts
      BY <1>1 DEF Verdicts
<1>4. w.key = v.key /\ w.status = v.status /\ w.size = v.size /\ w.expect = v.expect /\ w.check = check
      BY DEF Verdicts
<1>5. v.status = "present" => size = v.size
      OBVIOUS
<1>. HIDE DEF w, size
<1>6. VerdictOK(w, s)
      BY <1>1, <1>4, <1>5 DEF VerdictOK
<1>. QED BY <1>2, <1>3, <1>6

LEMMA ValidatedOK ==
    ASSUME IInv, NEW r \in Requests, ValidateInventoryObjects(r)
    PROVE  IInv'
<1>. DEFINE q == request[r]
            s == seen[r]
            short == budget.short
            V(t) == IF t.key = 0 THEN RefusedVerdict(t) ELSE Judged(t, Evidence(r, t.key))
            vs == {V(t) : t \in q.ask.targets}
<1>0. /\ q \in RequestStates /\ job[r] \in [0..N -> JobStates] /\ s \in Histories
      /\ short \in 0..MaxShort /\ RequestOK(q, job[r], s)
      /\ \A j \in 0..N : JobOK(job[r][j], s, short)
      BY RequestFacts
<1>1. q.stage = "exact" /\ UNCHANGED seen /\ Active(r)
      BY DEF ValidateInventoryObjects, Active
<1>2. /\ q.ask.kind = "validate" /\ ItemsSeen(q.matched, s)
      /\ \A k \in KeysOf(q.ask.targets) : q.matched[k] # Absent \/ job[r][k].key = k
      BY <1>0, <1>1 DEF RequestOK
<1>3. q.matched \in Items
      BY <1>0 DEF RequestStates
<1>4. ASSUME NEW t \in q.ask.targets
      PROVE  V(t) \in Verdicts /\ VerdictOK(V(t), s)
  <2>0. t \in Targets
        BY <1>0, AskFacts
  <2>1. CASE t.key = 0
        BY <1>0, <2>0, <2>1, RefusedOK
  <2>2. CASE t.key # 0
    <3>. DEFINE k == t.key
                b == Evidence(r, k)
    <3>1. k \in Keys /\ k \in KeysOf(q.ask.targets) /\ k \in 0..N
          BY <2>0, <2>2, Numbers DEF Targets, KeysOf
    <3>2. b.items \in Items /\ ItemsSeen(b.items, s)
          /\ (b.out = "ok" => Whole(b.items, {k}, s)) /\ (b.out = "missing" => Absent \in s[k])
      <4>1. CASE q.matched[k] # Absent
        <5>1. b = [NoJob EXCEPT !.out = "ok", !.items = q.matched]
              BY <4>1 DEF Evidence
        <5>2. b.out = "ok" /\ b.items = q.matched
              BY <5>1, NoJobTyped DEF JobStates
        <5>. HIDE DEF b
        <5>. QED BY <1>2, <1>3, <4>1, <5>2 DEF Whole
      <4>2. CASE q.matched[k] = Absent
        <5>1. b = job[r][k]
              BY <4>2 DEF Evidence
        <5>2. b \in JobStates /\ JobOK(b, s, short) /\ b.key = k
              BY <1>0, <1>2, <3>1, <4>2, <5>1
        <5>. HIDE DEF b
        <5>. QED BY <2>2, <5>2 DEF JobOK, JobStates
      <4>. QED BY <4>1, <4>2
    <3>. HIDE DEF b
    <3>3. Judged(t, b) \in Verdicts /\ VerdictOK(Judged(t, b), s)
          BY <1>0, <2>0, <2>2, <3>2, JudgedOK
    <3>. QED BY <2>2, <3>3 DEF b
  <2>. QED BY <2>1, <2>2
<1>. HIDE DEF V
<1>5. vs \in SUBSET Verdicts /\ \A v \in vs : VerdictOK(v, s)
      BY <1>4
<1>6. Advance(r, Answer(q, "none", NoItems, vs), NoJobs)
      BY DEF ValidateInventoryObjects, V
<1>. HIDE DEF vs
<1>7. Stepped(Answer(q, "none", NoItems, vs), NoJobs, s, short)
      BY <1>0, <1>2, <1>5, NoItemsOK, Answered
<1>. QED BY <1>1, <1>6, <1>7, QuietStep

\* The items of a bulk probe have a call each.
LEMMA ProbeItems ==
    ASSUME NEW q \in RequestStates, NEW jobs, NEW s, RequestOK(q, jobs, s), q.stage = "probe"
    PROVE  /\ q.ask.kind = "probe" /\ Len(q.ask.items) <= N
           /\ DOMAIN q.ask.items \subseteq 0..N
           /\ \A i \in DOMAIN q.ask.items : q.ask.items[i] \in Targets
<1>1. q.ask.kind = "probe" /\ Len(q.ask.items) <= N
      BY DEF RequestOK
<1>2. q.ask.items \in Seq(Targets)
      BY <1>1, AskFacts
<1>3. DOMAIN q.ask.items = 1..Len(q.ask.items) /\ Len(q.ask.items) \in Nat
      BY <1>2
<1>4. DOMAIN q.ask.items \subseteq 0..N
      BY <1>1, <1>3, Numbers
<1>. QED BY <1>1, <1>2, <1>4, SeqElements

\* An item gets its call c: a HEAD, a refusal, or the call of an equal item.
LEMMA ProbeCall ==
    ASSUME NEW q \in RequestStates, NEW jobs \in [0..N -> JobStates], NEW s \in Histories,
           NEW short \in 0..MaxShort, Stepped(q, jobs, s, short), q.stage = "probe",
           NEW i \in DOMAIN q.ask.items, NEW c \in JobStates, JobOK(c, s, short),
           q.ask.items[i].key # 0 => c.key = q.ask.items[i].key
    PROVE  Stepped(q, [jobs EXCEPT ![i] = c], s, short)
<1>. DEFINE new == [jobs EXCEPT ![i] = c]
<1>1. RequestOK(q, jobs, s) /\ \A j \in 0..N : JobOK(jobs[j], s, short)
      BY DEF Stepped
<1>2. DOMAIN q.ask.items \subseteq 0..N
      BY <1>1, ProbeItems
<1>3. new \in [0..N -> JobStates] /\ \A j \in 0..N : new[j] = IF j = i THEN c ELSE jobs[j]
      BY <1>2
<1>. HIDE DEF new
<1>4. \A j \in 0..N : JobOK(new[j], s, short)
      BY <1>1, <1>3
<1>5. \A j \in DOMAIN q.ask.items :
           new[j].st # "none" /\ q.ask.items[j].key # 0 => new[j].key = q.ask.items[j].key
      BY <1>1, <1>2, <1>3 DEF RequestOK
<1>6. RequestOK(q, new, s)
      BY <1>1, <1>5 DEF RequestOK
<1>7. Stepped(q, new, s, short)
      BY <1>3, <1>4, <1>6 DEF Stepped
<1>. QED BY <1>7 DEF new

LEMMA ProbeOneOK ==
    ASSUME IInv, NEW r \in Requests, NEW i \in 1..N, probeOne(r, i)
    PROVE  IInv'
<1>. DEFINE q == request[r]
            jobs == job[r]
            s == seen[r]
            short == budget.short
            t == q.ask.items[i]
<1>0. /\ q \in RequestStates /\ jobs \in [0..N -> JobStates] /\ s \in Histories
      /\ short \in 0..MaxShort /\ RequestOK(q, jobs, s)
      /\ \A j \in 0..N : JobOK(jobs[j], s, short)
      BY RequestFacts
<1>1. q.stage = "probe" /\ i \in DOMAIN q.ask.items /\ UNCHANGED seen /\ Active(r)
      BY DEF probeOne, Active
<1>2. /\ q.ask.kind = "probe" /\ Len(q.ask.items) <= N /\ DOMAIN q.ask.items \subseteq 0..N
      /\ \A n \in DOMAIN q.ask.items : q.ask.items[n] \in Targets
      BY <1>0, <1>1, ProbeItems
<1>3. CASE /\ Repeats(r, i) # {}
           /\ Advance(r, [q EXCEPT !.cached = @ \cup {i}],
                      [jobs EXCEPT ![i] = jobs[CHOOSE n \in Repeats(r, i) : TRUE]])
  <2>1. PICK n \in Repeats(r, i) : n = CHOOSE m \in Repeats(r, i) : TRUE
        BY <1>3
  <2>2. n \in DOMAIN q.ask.items /\ q.ask.items[n] = t /\ jobs[n].st = "over"
        BY <2>1 DEF Repeats
  <2>3. n \in 0..N /\ jobs[n] \in JobStates /\ JobOK(jobs[n], s, short)
        BY <1>0, <1>2, <2>2
  <2>4. t.key # 0 => jobs[n].key = t.key
        BY <1>0, <1>1, <2>2 DEF RequestOK
  <2>. DEFINE cached == q.cached \cup {i}
              p == [q EXCEPT !.cached = cached]
  <2>5. cached \subseteq Nat
    <3>1. q.cached \subseteq Nat
          BY <1>0 DEF RequestStates
    <3>2. i \in Nat
          BY Numbers
    <3>. QED BY <3>1, <3>2
  <2>6. Advance(r, p, [jobs EXCEPT ![i] = jobs[n]])
        BY <1>3, <2>1
  <2>. HIDE DEF cached
  <2>7. p \in RequestStates
        BY <1>0, <2>5 DEF RequestStates
  <2>8. /\ p.stage = q.stage /\ p.ask = q.ask /\ p.matched = q.matched /\ p.verdicts = q.verdicts
        /\ p.items = q.items /\ p.listing = q.listing
        BY <1>0 DEF RequestStates
  <2>. HIDE DEF p
  <2>9. RequestOK(p, jobs, s)
        BY <1>0, <1>1, <2>8 DEF RequestOK
  <2>10. Stepped(p, jobs, s, short)
        BY <1>0, <2>7, <2>9 DEF Stepped
  <2>11. Stepped(p, [jobs EXCEPT ![i] = jobs[n]], s, short)
        BY <1>0, <1>1, <2>3, <2>4, <2>7, <2>8, <2>10, ProbeCall
  <2>. QED BY <1>1, <2>6, <2>11, QuietStep
<1>4. CASE Advance(r, q, [jobs EXCEPT ![i] =
                     IF t.key = 0 THEN [NoJob EXCEPT !.st = "over", !.out = "error"]
                                  ELSE Head1(t.key)])
  <2>. DEFINE c == IF t.key = 0 THEN [NoJob EXCEPT !.st = "over", !.out = "error"]
                                ELSE Head1(t.key)
  <2>1. c \in JobStates /\ JobOK(c, s, short) /\ (t.key # 0 => c.key = t.key)
    <3>1. CASE t.key = 0
      <4>1. c = [NoJob EXCEPT !.st = "over", !.out = "error"]
            BY <3>1
      <4>2. /\ c \in JobStates /\ c.st = "over" /\ c.out = "error" /\ c.op = "list" /\ c.key = 0
            /\ c.items = NoItems /\ c.first = NoJob.first /\ c.replays = 0
            BY <4>1, NoJobTyped DEF JobStates
      <4>. HIDE DEF c
      <4>3. JobOK(c, s, short)
            BY <4>2, NoItemsOK, NoJobTyped DEF JobOK, ItemsSeen, ReplayOK, RoundOK, Replaying
      <4>. QED BY <3>1, <4>2, <4>3
    <3>2. CASE t.key # 0
      <4>1. t.key \in Keys
            BY <1>1, <1>2, <3>2, Numbers DEF Targets
      <4>2. c = Head1(t.key)
            BY <3>2
      <4>. QED BY <1>0, <4>1, <4>2, HeadOK
    <3>. QED BY <3>1, <3>2
  <2>2. Advance(r, q, [jobs EXCEPT ![i] = c])
        BY <1>4
  <2>. HIDE DEF c
  <2>3. Stepped(q, jobs, s, short)
        BY <1>0 DEF Stepped
  <2>4. Stepped(q, [jobs EXCEPT ![i] = c], s, short)
        BY <1>0, <1>1, <2>1, <2>3, ProbeCall
  <2>. QED BY <1>1, <2>2, <2>4, QuietStep
<1>. QED BY <1>3, <1>4 DEF probeOne

LEMMA ProbedOK ==
    ASSUME IInv, NEW r \in Requests, ProbeObjects(r)
    PROVE  IInv'
<1>. DEFINE q == request[r]
            s == seen[r]
            short == budget.short
            vs == {ProbeVerdict(r, i) : i \in DOMAIN q.ask.items}
<1>0. /\ q \in RequestStates /\ job[r] \in [0..N -> JobStates] /\ s \in Histories
      /\ short \in 0..MaxShort /\ RequestOK(q, job[r], s)
      /\ \A j \in 0..N : JobOK(job[r][j], s, short)
      BY RequestFacts
<1>1. /\ q.stage = "probe" /\ UNCHANGED seen /\ Active(r)
      /\ \A i \in DOMAIN q.ask.items : job[r][i].st = "over"
      /\ Advance(r, Answer(q, "none", NoItems, vs), NoJobs)
      BY DEF ProbeObjects, Active
<1>2. /\ q.ask.kind = "probe" /\ Len(q.ask.items) <= N /\ DOMAIN q.ask.items \subseteq 0..N
      /\ \A n \in DOMAIN q.ask.items : q.ask.items[n] \in Targets
      BY <1>0, <1>1, ProbeItems
<1>3. ASSUME NEW i \in DOMAIN q.ask.items
      PROVE  ProbeVerdict(r, i) \in Verdicts /\ VerdictOK(ProbeVerdict(r, i), s)
  <2>. DEFINE t == q.ask.items[i]
              b == job[r][i]
              v == IF t.key = 0 THEN RefusedVerdict(t) ELSE Judged(t, b)
  <2>0. t \in Targets /\ i \in 0..N
        BY <1>2
  <2>1. v \in Verdicts /\ VerdictOK(v, s) /\ (v.status = "present" => v.size # Absent)
    <3>1. CASE t.key = 0
          BY <1>0, <2>0, <3>1, RefusedOK
    <3>2. CASE t.key # 0
      <4>1. b \in JobStates /\ JobOK(b, s, short)
            BY <1>0, <2>0
      <4>2. b.key = t.key
            BY <1>0, <1>1, <3>2 DEF RequestOK
      <4>. HIDE DEF b
      <4>3. /\ b.items \in Items /\ ItemsSeen(b.items, s)
            /\ b.out = "ok" => Whole(b.items, {t.key}, s)
            /\ b.out = "missing" => Absent \in s[t.key]
            BY <3>2, <4>1, <4>2 DEF JobOK, JobStates
      <4>. HIDE DEF t
      <4>. QED BY <1>0, <2>0, <3>2, <4>3, JudgedOK
    <3>. QED BY <3>1, <3>2
  <2>2. ProbeVerdict(r, i) = IF i \in q.cached THEN FromCache(v) ELSE v
        BY DEF ProbeVerdict
  <2>. HIDE DEF v
  <2>3. FromCache(v) \in Verdicts /\ VerdictOK(FromCache(v), s)
        BY <1>0, <2>1, FromCacheOK
  <2>. QED BY <2>1, <2>2, <2>3
<1>4. vs \in SUBSET Verdicts /\ \A v \in vs : VerdictOK(v, s)
      BY <1>3
<1>. HIDE DEF vs
<1>5. ItemsSeen(q.matched, s)
      BY <1>0 DEF RequestOK
<1>6. Stepped(Answer(q, "none", NoItems, vs), NoJobs, s, short)
      BY <1>0, <1>2, <1>4, <1>5, NoItemsOK, Answered
<1>. QED BY <1>1, <1>6, QuietStep

------------------------------------------------------------------------------
\* Changes of the bucket.

LEMMA ChangeFacts ==
    ASSUME IInv, NEW k \in Keys, NEW v \in Values, Change(k, v)
    PROVE  /\ store' \in Items /\ seen' \in [Requests -> Histories]
           /\ \A x \in Requests :
                /\ \A y \in Keys : seen[x][y] \subseteq seen'[x][y]
                /\ Active(x) => v \in seen'[x][k] /\ \A y \in Keys : store'[y] \in seen'[x][y]
<1>0. store \in Items /\ seen \in [Requests -> Histories] /\ \A x \in Requests : Current(x)
      BY DEF IInv, TypeInv
<1>1. /\ store' = [store EXCEPT ![k] = v]
      /\ seen' = [x \in Requests |->
                    IF Active(x) THEN [seen[x] EXCEPT ![k] = @ \cup {v}] ELSE seen[x]]
      BY DEF Change
<1>2. store' \in Items /\ \A y \in Keys : store'[y] = IF y = k THEN v ELSE store[y]
      BY <1>0, <1>1 DEF Items
<1>3. ASSUME NEW x \in Requests
      PROVE  /\ seen'[x] \in Histories
             /\ \A y \in Keys : seen[x][y] \subseteq seen'[x][y]
             /\ Active(x) => v \in seen'[x][k] /\ \A y \in Keys : store'[y] \in seen'[x][y]
  <2>0. seen[x] \in Histories
        BY <1>0
  <2>1. CASE Active(x)
    <3>1. seen'[x] = [seen[x] EXCEPT ![k] = @ \cup {v}]
          BY <1>1, <2>1
    <3>2. seen[x][k] \cup {v} \in SUBSET Values
          BY <2>0 DEF Histories
    <3>3. seen'[x] \in Histories
          BY <2>0, <3>1, <3>2 DEF Histories
    <3>4. \A y \in Keys : seen'[x][y] = IF y = k THEN seen[x][k] \cup {v} ELSE seen[x][y]
          BY <2>0, <3>1 DEF Histories
    <3>5. \A y \in Keys : store[y] \in seen[x][y]
          BY <1>0, <2>1 DEF Current
    <3>. QED BY <1>2, <3>3, <3>4, <3>5
  <2>2. CASE ~Active(x)
        BY <1>1, <2>0, <2>2
  <2>. QED BY <2>1, <2>2
<1>4. seen' = [x \in Requests |-> seen'[x]]
      BY <1>1
<1>5. seen' \in [Requests -> Histories]
      BY <1>3, <1>4
<1>. QED BY <1>2, <1>3, <1>5

\* A step that makes no call, of a request that goes on or ends.
LEMMA HistoryStep ==
    ASSUME IInv, store' \in Items, seen' \in [Requests -> Histories],
           \A x \in Requests :
             /\ \A y \in Keys : seen[x][y] \subseteq seen'[x][y]
             /\ Active(x) => \A y \in Keys : store'[y] \in seen'[x][y],
           job' = job, budget' \in [changes : Int, faults : Int, short : 0..MaxShort],
           budget'.short = budget.short, request' \in [Requests -> RequestStates],
           \A x \in Requests : RequestOK(request'[x], job[x], seen'[x]) /\ (Active(x)' => Active(x))
    PROVE  IInv'
<1>1. TypeInv'
      BY DEF IInv, TypeInv
<1>2. ASSUME NEW x \in Requests
      PROVE  /\ Current(x)' /\ RequestOK(request[x], job[x], seen[x])'
             /\ \A i \in 0..N : JobOK(job[x][i], seen[x], budget.short)'
  <2>1. Current(x)'
        BY DEF Current
  <2>2. /\ seen[x] \in Histories /\ job[x] \in [0..N -> JobStates] /\ budget.short \in 0..MaxShort
        /\ \A i \in 0..N : JobOK(job[x][i], seen[x], budget.short)
        BY RequestFacts
  <2>3. seen'[x] \in Histories /\ budget.short <= budget.short
        BY <2>2
  <2>4. \A i \in 0..N : JobOK(job[x][i], seen'[x], budget.short)
        BY <2>2, <2>3, JobKept
  <2>. QED BY <2>1, <2>4
<1>. QED BY <1>1, <1>2 DEF IInv

LEMMA OthersOK ==
    ASSUME IInv, NEW k \in Keys, NEW v \in Sizes \cup {Absent}, Others(k, v)
    PROVE  IInv'
<1>0. budget \in [changes : Int, faults : Int, short : 0..MaxShort]
      BY DEF IInv, TypeInv
<1>1. /\ Change(k, v) /\ request' = request /\ job' = job
      /\ budget' = [budget EXCEPT !.changes = @ - 1]
      BY DEF Others
<1>2. v \in Values
      BY DEF Values
<1>3. /\ store' \in Items /\ seen' \in [Requests -> Histories]
      /\ \A x \in Requests :
                /\ \A y \in Keys : seen[x][y] \subseteq seen'[x][y]
                /\ Active(x) => \A y \in Keys : store'[y] \in seen'[x][y]
      BY <1>1, <1>2, ChangeFacts
<1>4. budget' \in [changes : Int, faults : Int, short : 0..MaxShort] /\ budget'.short = budget.short
      BY <1>0, <1>1
<1>5. request' \in [Requests -> RequestStates]
      BY <1>1 DEF IInv, TypeInv
<1>6. ASSUME NEW x \in Requests
      PROVE  RequestOK(request'[x], job[x], seen'[x]) /\ (Active(x)' => Active(x))
  <2>1. RequestOK(request[x], job[x], seen[x]) /\ seen[x] \in Histories
        BY RequestFacts
  <2>2. RequestOK(request[x], job[x], seen'[x])
        BY <1>3, <2>1, RequestKept
  <2>. QED BY <1>1, <2>2 DEF Active
<1>. QED BY <1>1, <1>3, <1>4, <1>5, <1>6, HistoryStep

\* The answer of a deletion grows by one verdict.
LEMMA DeleteStep ==
    ASSUME IInv, NEW r \in Requests, request[r].stage = "delete",
           request[r].ask.items # <<>>, job' = job,
           NEW status \in {"invalid", "forbidden", "deleted", "error"},
           LET k == Head(request[r].ask.items) IN
             /\ request' = [request EXCEPT ![r] =
                  [request[r] EXCEPT !.ask.items = Tail(@),
                          !.verdicts = @ \cup {Verdict(k, Unknown, status, Unknown, "not_requested")}]]
             /\ status = "deleted" => k \in Keys /\ Absent \in seen'[r][k],
           store' \in Items, seen' \in [Requests -> Histories],
           \A x \in Requests :
             /\ \A y \in Keys : seen[x][y] \subseteq seen'[x][y]
             /\ Active(x) => \A y \in Keys : store'[y] \in seen'[x][y],
           budget' \in [changes : Int, faults : Int, short : 0..MaxShort],
           budget'.short = budget.short
    PROVE  IInv'
<1>. DEFINE q == request[r]
            s == seen'[r]
            k == Head(q.ask.items)
            v == Verdict(k, Unknown, status, Unknown, "not_requested")
            ask == [q.ask EXCEPT !.items = Tail(@)]
            vs == q.verdicts \cup {v}
            p == [q EXCEPT !.ask = ask, !.verdicts = vs]
<1>0. q \in RequestStates /\ RequestOK(q, job[r], seen[r]) /\ seen[r] \in Histories
      BY RequestFacts
<1>1. q.ask.kind = "delete" /\ q.ask.items \in Seq(0..N)
      BY <1>0, AskFacts DEF RequestOK
<1>2. k \in 0..N /\ Tail(q.ask.items) \in Seq(0..N)
      BY <1>1, HeadTail
<1>3. ask \in AskStates /\ ask.kind = "delete"
  <2>1. q.ask \in Asked({"none", "inspect", "validate", "delete"}, Seq(0..N))
        BY <1>0, <1>1 DEF RequestStates, AskStates, Asked
  <2>2. ask \in Asked({"none", "inspect", "validate", "delete"}, Seq(0..N)) /\ ask.kind = "delete"
        BY <1>1, <1>2, <2>1 DEF Asked
  <2>. QED BY <2>2 DEF AskStates
<1>4. v \in Verdicts /\ VerdictOK(v, s)
  <2>. HIDE DEF k
  <2>1. status = "deleted" => k \in Keys /\ Absent \in s[k]
        BY DEF k
  <2>. QED BY <1>2, <2>1 DEF Verdict, Verdicts, VerdictOK, Unknown
<1>5. request' = [request EXCEPT ![r] = p]
      OBVIOUS
<1>. HIDE DEF ask, v
<1>6. vs \in SUBSET Verdicts /\ \A w \in vs : VerdictOK(w, s)
  <2>1. q.verdicts \in SUBSET Verdicts /\ \A w \in q.verdicts : VerdictOK(w, seen[r])
        BY <1>0 DEF RequestStates, RequestOK
  <2>2. \A w \in q.verdicts : VerdictOK(w, s)
        BY <1>0, <2>1, VerdictKept
  <2>. QED BY <1>4, <2>1, <2>2
<1>. HIDE DEF vs
<1>7. p \in RequestStates
      BY <1>0, <1>3, <1>6 DEF RequestStates
<1>8. p.stage = "delete" /\ p.ask = ask /\ p.matched = q.matched /\ p.verdicts = vs
      BY <1>0 DEF RequestStates
<1>. HIDE DEF p
<1>9. ItemsSeen(q.matched, s)
      BY <1>0 DEF RequestOK, ItemsSeen
<1>10. RequestOK(p, job[r], s)
      BY <1>0, <1>3, <1>6, <1>8, <1>9 DEF RequestOK
<1>11. /\ request' \in [Requests -> RequestStates] /\ request'[r] = p
       /\ \A x \in Requests : x # r => request'[x] = request[x]
      BY <1>5, <1>7 DEF IInv, TypeInv
<1>12. ASSUME NEW x \in Requests
      PROVE  RequestOK(request'[x], job[x], seen'[x]) /\ (Active(x)' => Active(x))
  <2>1. CASE x = r
        BY <1>8, <1>10, <1>11, <2>1 DEF Active
  <2>2. CASE x # r
    <3>1. RequestOK(request[x], job[x], seen[x]) /\ seen[x] \in Histories
          BY RequestFacts
    <3>2. RequestOK(request[x], job[x], seen'[x])
          BY <3>1, RequestKept
    <3>. QED BY <1>11, <2>2, <3>2 DEF Active
  <2>. QED BY <2>1, <2>2
<1>. QED BY <1>11, <1>12, HistoryStep

LEMMA DeleteNextOK ==
    ASSUME IInv, NEW r \in Requests, DeleteNext(r)
    PROVE  IInv'
<1>. DEFINE q == request[r]
            k == Head(q.ask.items)
            Says(status) ==
              request' = [request EXCEPT ![r] =
                [q EXCEPT !.ask.items = Tail(@),
                          !.verdicts = @ \cup {Verdict(k, Unknown, status, Unknown, "not_requested")}]]
<1>0. /\ budget \in [changes : Int, faults : Int, short : 0..MaxShort]
      /\ store \in Items /\ seen \in [Requests -> Histories] /\ \A x \in Requests : Current(x)
      BY DEF IInv, TypeInv
<1>1. q.stage = "delete" /\ q.ask.items # <<>> /\ job' = job /\ Active(r)
      BY DEF DeleteNext, Active
<1>2. \/ \E status \in {"invalid", "forbidden"} : Says(status) /\ UNCHANGED <<store, seen, budget>>
      \/ targetAllowed(k) /\ Says("deleted") /\ DeleteExact(k, FALSE) /\ UNCHANGED budget
      \/ /\ targetAllowed(k) /\ Says("error") /\ budget' = [budget EXCEPT !.faults = @ - 1]
         /\ DeleteExact(k, TRUE)
      BY DEF DeleteNext
<1>3. ASSUME targetAllowed(k), NEW failed \in BOOLEAN, DeleteExact(k, failed)
      PROVE  k \in Keys /\ (Change(k, Absent) \/ (failed /\ UNCHANGED <<store, seen>>))
  <2>1. k \in Keys
        BY <1>3, InspectionAssumption DEF targetAllowed
  <2>2. PICK t \in physicalTarget(k) : DeleteObject(t, failed)
        BY <1>3 DEF DeleteExact
  <2>3. t = k
        BY <2>2 DEF physicalTarget
  <2>. QED BY <2>1, <2>2, <2>3 DEF DeleteObject
<1>4. ASSUME UNCHANGED <<store, seen>>
      PROVE  /\ store' \in Items /\ seen' \in [Requests -> Histories]
             /\ \A x \in Requests :
                  /\ \A y \in Keys : seen[x][y] \subseteq seen'[x][y]
                  /\ Active(x) => \A y \in Keys : store'[y] \in seen'[x][y]
      BY <1>0, <1>4 DEF Current
<1>5. Absent \in Values
      BY DEF Values
<1>6. ASSUME k \in Keys, Change(k, Absent)
      PROVE  /\ store' \in Items /\ seen' \in [Requests -> Histories]
             /\ \A x \in Requests :
                  /\ \A y \in Keys : seen[x][y] \subseteq seen'[x][y]
                  /\ Active(x) => \A y \in Keys : store'[y] \in seen'[x][y]
             /\ Absent \in seen'[r][k]
      BY <1>1, <1>5, <1>6, ChangeFacts
<1>. HIDE DEF q, k
<1>7. ASSUME NEW status \in {"invalid", "forbidden"}, Says(status), UNCHANGED <<store, seen, budget>>
      PROVE  IInv'
      BY <1>0, <1>1, <1>4, <1>7, DeleteStep DEF q, k
<1>8. ASSUME targetAllowed(k), Says("deleted"), DeleteExact(k, FALSE), UNCHANGED budget
      PROVE  IInv'
  <2>1. k \in Keys /\ Change(k, Absent)
        BY <1>3, <1>8
  <2>. QED BY <1>0, <1>1, <1>6, <1>8, <2>1, DeleteStep DEF q, k
<1>9. ASSUME targetAllowed(k), Says("error"), budget' = [budget EXCEPT !.faults = @ - 1],
             DeleteExact(k, TRUE)
      PROVE  IInv'
  <2>1. budget' \in [changes : Int, faults : Int, short : 0..MaxShort] /\ budget'.short = budget.short
        BY <1>0, <1>9
  <2>2. k \in Keys /\ (Change(k, Absent) \/ UNCHANGED <<store, seen>>)
        BY <1>3, <1>9
  <2>3. /\ store' \in Items /\ seen' \in [Requests -> Histories]
        /\ \A x \in Requests :
                  /\ \A y \in Keys : seen[x][y] \subseteq seen'[x][y]
                  /\ Active(x) => \A y \in Keys : store'[y] \in seen'[x][y]
        BY <1>4, <1>6, <2>2
  <2>. QED BY <1>1, <1>9, <2>1, <2>3, DeleteStep DEF q, k
<1>. QED BY <1>2, <1>7, <1>8, <1>9

LEMMA DeletedOK ==
    ASSUME IInv, NEW r \in Requests, DeleteProjectObjects(r)
    PROVE  IInv'
<1>. DEFINE q == request[r]
            p == [q EXCEPT !.stage = "done"]
<1>0. /\ q \in RequestStates /\ RequestOK(q, job[r], seen[r])
      /\ budget \in [changes : Int, faults : Int, short : 0..MaxShort]
      /\ store \in Items /\ seen \in [Requests -> Histories] /\ \A x \in Requests : Current(x)
      BY RequestFacts DEF IInv, TypeInv
<1>1. /\ q.stage = "delete" /\ request' = [request EXCEPT ![r] = p]
      /\ UNCHANGED <<store, job, budget, seen>>
      BY DEF DeleteProjectObjects
<1>2. p \in RequestStates
      BY <1>0 DEF RequestStates, Stages
<1>3. p.stage = "done" /\ p.ask = q.ask /\ p.matched = q.matched /\ p.verdicts = q.verdicts
      BY <1>0 DEF RequestStates
<1>. HIDE DEF p
<1>4. RequestOK(p, job[r], seen[r])
      BY <1>0, <1>1, <1>3 DEF RequestOK
<1>5. /\ request' \in [Requests -> RequestStates] /\ request'[r] = p
      /\ \A x \in Requests : x # r => request'[x] = request[x]
      BY <1>1, <1>2 DEF IInv, TypeInv
<1>6. ASSUME NEW x \in Requests
      PROVE  RequestOK(request'[x], job[x], seen'[x]) /\ (Active(x)' => Active(x))
  <2>1. CASE x = r
        BY <1>1, <1>3, <1>4, <1>5, <2>1 DEF Active
  <2>2. CASE x # r
        BY <1>1, <1>5, <2>2, RequestFacts DEF Active
  <2>. QED BY <2>1, <2>2
<1>7. \A x \in Requests :
        /\ \A y \in Keys : seen[x][y] \subseteq seen'[x][y]
        /\ Active(x) => \A y \in Keys : store'[y] \in seen'[x][y]
      BY <1>0, <1>1 DEF Current
<1>. QED BY <1>0, <1>1, <1>5, <1>6, <1>7, HistoryStep

------------------------------------------------------------------------------
LEMMA InitOK ==
    ASSUME Init
    PROVE  IInv
<1>1. PICK w \in Workloads :
        /\ store = w.store
        /\ request = [r \in Requests |-> Idle(w.asks[r])]
        /\ job = [r \in Requests |-> NoJobs]
        /\ budget = [changes |-> w.changes, faults |-> MaxFaults, short |-> MaxShort]
        /\ seen = [r \in Requests |-> [k \in Keys |-> {}]]
      BY DEF Init
<1>2. w.store \in Items /\ w.changes \in Int /\ MaxFaults \in Int /\ MaxShort \in 0..MaxShort
      BY InspectionAssumption DEF Items, Values
<1>3. ASSUME NEW r \in Requests
      PROVE  /\ w.asks[r] \in AskStates
             /\ w.asks[r].kind = "probe" => Len(w.asks[r].items) <= N
      BY InspectionAssumption DEF AskStates
<1>4. [k \in Keys |-> {}] \in Histories
      BY DEF Histories
<1>5. ASSUME NEW r \in Requests
      PROVE  request[r] \in RequestStates
      BY <1>1, <1>3, NoItemsOK DEF Idle, RequestStates, Stages
<1>6. TypeInv
  <2>1. request \in [Requests -> RequestStates]
        BY <1>1, <1>5
  <2>2. job \in [Requests -> [0..N -> JobStates]]
        BY <1>1, NoJobTyped DEF NoJobs
  <2>. QED BY <1>1, <1>2, <1>4, <2>1, <2>2 DEF TypeInv
<1>7. ASSUME NEW r \in Requests
      PROVE  /\ Current(r) /\ RequestOK(request[r], job[r], seen[r])
             /\ \A j \in 0..N : JobOK(job[r][j], seen[r], budget.short)
  <2>1. /\ request[r].stage = "idle" /\ request[r].verdicts = {} /\ request[r].matched = NoItems
        /\ request[r].ask = w.asks[r] /\ job[r] = NoJobs
        BY <1>1 DEF Idle
  <2>2. seen[r] \in Histories /\ budget.short \in 0..MaxShort
        BY <1>6 DEF TypeInv
  <2>3. \A j \in 0..N : job[r][j].st = "none" /\ JobOK(job[r][j], seen[r], budget.short)
        BY <2>1, <2>2, NoJobsOK
  <2>4. RequestOK(request[r], job[r], seen[r])
        BY <1>3, <2>1, <2>3, NoItemsOK DEF RequestOK, ItemsSeen
  <2>5. Current(r)
        BY <2>1 DEF Current, Active
  <2>. QED BY <2>3, <2>4, <2>5
<1>. QED BY <1>6, <1>7 DEF IInv

LEMMA StepOK ==
    ASSUME IInv, [Next]_vars
    PROVE  IInv'
<1>1. CASE UNCHANGED vars
      BY <1>1 DEF vars, IInv, TypeInv, Current, Active
<1>2. ASSUME NEW r \in Requests, Begin(r)
      PROVE  IInv'
      BY <1>2, BeginOK
<1>3. ASSUME NEW r \in Requests, Step(r)
      PROVE  IInv'
  <2>1. ASSUME NEW j \in 0..N, \/ acquireProbe(r, j) \/ ListPage(r, j) \/ ListEndsEarly(r, j)
                               \/ HeadObject(r, j) \/ CallFails(r, j)
        PROVE  IInv'
        BY <2>1, CallsOK
  <2>2. ASSUME NEW i \in 1..N, probeOne(r, i)
        PROVE  IInv'
        BY <2>2, ProbeOneOK
  <2>3. CASE InspectProjectStorage(r)
        BY <2>3, InspectOK
  <2>4. CASE enrichInventoryHeads(r)
        BY <2>4, EnrichOK
  <2>5. CASE runCoalescedValidation(r)
        BY <2>5, CoalescedOK
  <2>6. CASE ValidateInventoryObjects(r)
        BY <2>6, ValidatedOK
  <2>7. CASE ProbeObjects(r)
        BY <2>7, ProbedOK
  <2>8. CASE DeleteNext(r)
        BY <2>8, DeleteNextOK
  <2>9. CASE DeleteProjectObjects(r)
        BY <2>9, DeletedOK
  <2>. QED BY <1>3, <2>1, <2>2, <2>3, <2>4, <2>5, <2>6, <2>7, <2>8, <2>9 DEF Step
<1>4. ASSUME NEW k \in Keys, NEW v \in Sizes \cup {Absent}, Others(k, v)
      PROVE  IInv'
      BY <1>4, OthersOK
<1>. QED BY <1>1, <1>2, <1>3, <1>4 DEF Next

LEMMA TruthfulFromInv ==
    ASSUME IInv
    PROVE  InspectionTruthful
<1>1. VerdictsTrue
  <2>1. SUFFICES ASSUME NEW r \in Requests, request[r].stage = "done",
                        NEW v \in request[r].verdicts
                 PROVE  VerdictOK(v, seen[r])
        BY DEF VerdictsTrue, VerdictOK
  <2>. QED BY <2>1, RequestFacts DEF RequestOK
<1>2. CompleteMeansAll
  <2>1. SUFFICES ASSUME NEW r \in Requests, request[r].stage = "done",
                        request[r].ask.kind = "inspect"
                 PROVE  LET q == request[r] IN
                        /\ \A k \in Found(q.items) : q.items[k] \in seen[r][k] /\ k \in InProject
                        /\ q.listing = "complete" /\ q.ask.mode # "exists" =>
                              \A k \in InProject : Absent \in seen[r][k] \/ k \in Found(q.items)
        BY DEF CompleteMeansAll
  <2>2. /\ Inventoried(request[r].items, seen[r])
        /\ request[r].listing = "complete" /\ request[r].ask.mode # "exists" =>
             Whole(request[r].items, InProject, seen[r])
        BY <2>1, RequestFacts DEF RequestOK
  <2>3. InProject \subseteq Keys
        BY InspectionAssumption
  <2>. QED BY <2>2, <2>3 DEF Inventoried, Whole, Found
<1>. QED BY <1>1, <1>2 DEF InspectionTruthful

\* The inductive invariant of an inspection: every listing, HEAD and deletion
\* a request has under way knows no more than the request has seen, and what a
\* listing misses has cost the provider an early end (s3/inventory.go, s3/probe.go).
THEOREM InspectionInvariance == Spec => []IInv
<1>1. Init => IInv
      BY InitOK
<1>2. IInv /\ [Next]_vars => IInv'
      BY StepOK
<1>. QED BY <1>1, <1>2, PTL DEF Spec

\* Whatever bucket, project, page size and number of concurrent requests, and
\* however often objects change or calls fail: what an inspection tells of a
\* location was true at a moment of the request, and an inventory that is called
\* complete lacks no object that was there throughout (storage/service.go).
THEOREM InspectionsAreTruthful == Spec => []InspectionTruthful
<1>1. IInv => InspectionTruthful
      BY TruthfulFromInv
<1>. QED BY <1>1, InspectionInvariance, PTL
==============================================================================
