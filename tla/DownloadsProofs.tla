--------------------------- MODULE DownloadsProofs ---------------------------
(***************************************************************************)
(* A download that reports success has left the object in its destination, *)
(* for objects, parts and error pages of every size, any number of workers *)
(* and attempts, and whatever earlier runs left there.                     *)
(*                                                                         *)
(* What makes it so is that a unit of a version only ever lies in its own  *)
(* place, and that what a run has copied is contiguous: up to the end of   *)
(* the file for a stream, from the start of its part for a part.           *)
(***************************************************************************)
EXTENDS Downloads, SequenceTheorems, TLAPS

Units == [v : Nat, k : Nat]
PageUnit == Unit(0, 1)

\* A unit that may be written at position k.
InPlace(u, k) == u = PageUnit \/ (u.v # 0 /\ u.k = k)

PartStates == [pc : {"wait", "get", "copy", "ended"}, tries : Nat, body : Seq(Units), n : Nat]

RunStates ==
    [pc : {"idle", "single", "copy", "parts", "done"}, size : Nat, body : Seq(Units), at : Nat,
     parts : Seq(PartStates), failed : BOOLEAN, began : Nat, kept : SUBSET Units, paged : BOOLEAN]

TypeInv ==
    /\ remote \in 1..Len(Sizes)
    /\ ranges \in BOOLEAN
    /\ file \in [there : BOOLEAN, data : Seq(Units)]
    /\ run \in RunStates
    /\ runs \in Nat /\ trouble \in Nat
    /\ left \in BOOLEAN

\* The run r has read nothing but the version it began with.
Right(r, rem) == ~r.paged /\ rem = r.began

\* The units after lo up to hi have been written, the right ones by a run that
\* is right.
Covered(d, r, rem, lo, hi) ==
    /\ hi <= Len(d)
    /\ \A k \in (lo + 1)..hi :
         /\ d[k] # Hole
         /\ Right(r, rem) => d[k] = Unit(r.began, k)

\* What is still to be written from position lo on.
Coming(body, r, rem, lo) ==
    /\ \A j \in 1..Len(body) : InPlace(body[j], lo + j)
    /\ Right(r, rem) => \A j \in 1..Len(body) : body[j] = Unit(r.began, lo + j)

\* Part i of the run r into a file with the units d.
PartOK(p, i, d, r, rem) ==
    /\ p.pc = "copy" =>
         /\ Covered(d, r, rem, Start(i), Start(i) + p.n)
         /\ Coming(p.body, r, rem, Start(i) + p.n)
         /\ Right(r, rem) => Start(i) + p.n + Len(p.body) <= r.size
    /\ (p.pc = "ended" /\ ~r.failed) =>
         Covered(d, r, rem, Start(i), Start(i) + Least(PartLen, r.size - Start(i)))

PartsOK(d, r, rem) ==
    /\ r.size = Sizes[r.began]
    /\ Len(d) >= r.size
    /\ \A k \in 1..Len(d) : k > r.size => d[k] # Hole
    /\ Right(r, rem) => Len(d) = r.size
    /\ DOMAIN r.parts = 1..((r.size + PartLen - 1) \div PartLen)
    /\ \A i \in DOMAIN r.parts : PartOK(r.parts[i], i, d, r, rem)

\* What a stream or a finished run has in the file: kept units, and its own.
KeptOrRight(d, r, rem) ==
    \A k \in 1..Len(d) : d[k] \in r.kept \/ (Right(r, rem) => d[k] = Unit(r.began, k))

CopyOK(d, r, rem) ==
    /\ Len(d) = r.at
    /\ KeptOrRight(d, r, rem)
    /\ Coming(r.body, r, rem, r.at)
    /\ Right(r, rem) => r.at + Len(r.body) = Sizes[r.began]

DoneOK(d, r, rem) ==
    /\ KeptOrRight(d, r, rem)
    /\ Right(r, rem) => Len(d) = Sizes[r.began]

RunOK(d, r, rem) ==
    /\ r.pc # "idle" => r.began \in 1..rem
    /\ r.pc \in {"single", "copy"} => r.size \in {0, Sizes[r.began]}
    /\ r.pc = "single" => ~r.paged
    /\ r.pc = "copy" => CopyOK(d, r, rem)
    /\ r.pc = "parts" => PartsOK(d, r, rem)
    /\ r.pc = "done" => DoneOK(d, r, rem)

FileOK ==
    /\ run.pc \in {"copy", "parts", "done"} => file.there
    /\ file.data # <<>> => file.there
    /\ \A k \in 1..Len(file.data) : file.data[k] = Hole \/ InPlace(file.data[k], k)
    /\ (run.pc # "parts" /\ ~left) => \A k \in 1..Len(file.data) : file.data[k] # Hole

IInv == TypeInv /\ FileOK /\ RunOK(file.data, run, remote)

-----------------------------------------------------------------------------
(* The units and the sequences of them. *)

LEMMA UnitFields ==
    /\ \A v, k \in Nat : Unit(v, k) \in Units /\ Unit(v, k).v = v /\ Unit(v, k).k = k
    /\ Hole \in Units /\ Hole.v = 0 /\ Hole.k = 0
    /\ PageUnit \in Units /\ PageUnit.v = 0 /\ PageUnit.k = 1 /\ PageUnit # Hole
BY DEF Unit, Units, Hole, PageUnit

\* A sequence given by its elements.
LEMMA SeqOf ==
    ASSUME NEW n \in Nat, NEW S, NEW e \in [1..n -> S]
    PROVE  e \in Seq(S) /\ Len(e) = n /\ DOMAIN e = 1..n
OBVIOUS

LEMMA VersionSeq ==
    ASSUME NEW v \in 1..Len(Sizes)
    PROVE  /\ Sizes[v] \in Nat
           /\ Version(v) \in Seq(Units) /\ Len(Version(v)) = Sizes[v]
           /\ \A k \in 1..Sizes[v] : Version(v)[k] = Unit(v, k)
<1>1. Sizes[v] \in Nat /\ v \in Nat
  BY DownloadAssumption
<1>2. Version(v) \in [1..Sizes[v] -> Units]
  BY <1>1, UnitFields DEF Version
<1>3. \A k \in 1..Sizes[v] : Version(v)[k] = Unit(v, k)
  BY DEF Version
<1> QED
  BY <1>1, <1>2, <1>3, SeqOf

LEMMA PageSeq ==
    /\ ErrorPage \in Seq(Units)
    /\ \A j \in 1..Len(ErrorPage) : ErrorPage[j] = PageUnit
<1>1. ErrorPage \in [1..PageLen -> Units] /\ \A k \in 1..PageLen : ErrorPage[k] = PageUnit
  BY UnitFields DEF ErrorPage, PageUnit
<1> QED
  BY <1>1, SeqOf, DownloadAssumption

LEMMA TruncatedSeq ==
    ASSUME NEW d \in Seq(Units), NEW n \in Nat
    PROVE  /\ Truncated(d, n) \in Seq(Units) /\ Len(Truncated(d, n)) = n
           /\ \A k \in 1..n : Truncated(d, n)[k] = IF k <= Len(d) THEN d[k] ELSE Hole
<1>1. \A k \in 1..n : (IF k <= Len(d) THEN d[k] ELSE Hole) \in Units
  BY UnitFields
<1>2. Truncated(d, n) \in [1..n -> Units]
  BY <1>1 DEF Truncated
<1>3. \A k \in 1..n : Truncated(d, n)[k] = IF k <= Len(d) THEN d[k] ELSE Hole
  BY DEF Truncated
<1> QED
  BY <1>2, <1>3, SeqOf

LEMMA WrittenSeq ==
    ASSUME NEW d \in Seq(Units), NEW k \in Nat, k > 0, k <= Len(d) + 1, NEW u \in Units
    PROVE  /\ Written(d, k, u) \in Seq(Units)
           /\ Len(Written(d, k, u)) = IF k > Len(d) THEN k ELSE Len(d)
           /\ Written(d, k, u)[k] = u
           /\ \A j \in 1..Len(d) : j # k => Written(d, k, u)[j] = d[j]
<1> DEFINE n == IF k > Len(d) THEN k ELSE Len(d)
           t == Truncated(d, n)
<1>1. n \in Nat /\ k \in 1..n /\ Len(d) \in Nat /\ Len(d) <= n
  OBVIOUS
<1>2. /\ t \in Seq(Units) /\ Len(t) = n
      /\ \A j \in 1..n : t[j] = IF j <= Len(d) THEN d[j] ELSE Hole
  BY <1>1, TruncatedSeq
<1>3. Written(d, k, u) = [t EXCEPT ![k] = u]
  BY DEF Written
<1> HIDE DEF n, t
<1>4. t \in [1..n -> Units]
  BY <1>2
<1>5. [t EXCEPT ![k] = u] \in [1..n -> Units]
  BY <1>4
<1>6. Written(d, k, u) \in Seq(Units) /\ Len(Written(d, k, u)) = n
  BY <1>1, <1>3, <1>5, SeqOf
<1>7. Written(d, k, u)[k] = u
  BY <1>1, <1>3, <1>4
<1>8. \A j \in 1..Len(d) : j # k => Written(d, k, u)[j] = d[j]
  BY <1>1, <1>2, <1>3, <1>4
<1> QED
  BY <1>6, <1>7, <1>8 DEF n

-----------------------------------------------------------------------------
(* The parts of a file. *)

PartCount(size) == (size + PartLen - 1) \div PartLen

LEMMA Division ==
    ASSUME NEW a \in Nat, NEW b \in Nat \ {0}
    PROVE  a \div b \in Nat /\ (a \div b) * b <= a /\ a < (a \div b) * b + b
OBVIOUS

LEMMA Quotient ==
    ASSUME NEW a \in Nat
    PROVE  /\ a \div PartLen \in Nat
           /\ (a \div PartLen) * PartLen <= a
           /\ a < (a \div PartLen) * PartLen + PartLen
<1>1. PartLen \in Nat \ {0}
  BY DownloadAssumption
<1> QED
  BY <1>1, Division

LEMMA Multiples ==
    ASSUME NEW a \in Nat, NEW b \in Nat, a < b
    PROVE  a * PartLen \in Nat /\ a * PartLen + PartLen <= b * PartLen
<1>1. PICK c \in Nat : b = a + 1 + c
  <2>1. b - a - 1 \in Nat /\ b = a + 1 + (b - a - 1)
    OBVIOUS
  <2> QED
    BY <2>1
<1>2. b * PartLen = a * PartLen + PartLen + c * PartLen
  BY <1>1, DownloadAssumption
<1>3. a * PartLen \in Nat /\ c * PartLen \in Nat
  BY <1>1, DownloadAssumption
<1> QED
  BY <1>2, <1>3, DownloadAssumption

LEMMA PartPlaces ==
    ASSUME NEW size \in Nat, NEW i \in 1..PartCount(size)
    PROVE  Start(i) \in Nat /\ Start(i) < size
<1> DEFINE m == PartCount(size)
<1>1. m \in Nat /\ m * PartLen <= size + PartLen - 1
  BY Quotient, DownloadAssumption DEF PartCount
<1> HIDE DEF m
<1>2. i - 1 \in Nat /\ i - 1 < m
  BY <1>1 DEF m
<1>3. (i - 1) * PartLen \in Nat /\ (i - 1) * PartLen + PartLen <= m * PartLen
  BY <1>1, <1>2, Multiples
<1>4. m * PartLen \in Nat
  BY <1>1, DownloadAssumption
<1> QED
  BY <1>1, <1>3, <1>4, DownloadAssumption DEF Start

LEMMA PartOfUnit ==
    ASSUME NEW size \in Nat, NEW k \in 1..size
    PROVE  \E i \in 1..PartCount(size) :
             Start(i) < k /\ k <= Start(i) + Least(PartLen, size - Start(i))
<1> DEFINE a == (k - 1) \div PartLen
           m == PartCount(size)
<1>1. a \in Nat /\ a * PartLen <= k - 1 /\ k - 1 < a * PartLen + PartLen
  BY Quotient
<1>2. m \in Nat /\ size + PartLen - 1 < m * PartLen + PartLen
  BY Quotient, DownloadAssumption DEF PartCount
<1> HIDE DEF a, m
<1>3. a * PartLen \in Nat /\ m * PartLen \in Nat
  BY <1>1, <1>2, DownloadAssumption
<1>4. ~(m <= a)
  <2>1. SUFFICES ASSUME m <= a PROVE FALSE
    OBVIOUS
  <2>2. m = a \/ m < a
    BY <1>1, <1>2, <2>1
  <2>3. m * PartLen <= a * PartLen
    <3>1. CASE m = a
      BY <1>3, <3>1
    <3>2. CASE m < a
      BY <1>1, <1>2, <1>3, <3>2, Multiples, DownloadAssumption
    <3> QED
      BY <2>2, <3>1, <3>2
  <2> QED
    BY <1>1, <1>2, <1>3, <2>3, DownloadAssumption
<1>5. a + 1 \in 1..m /\ Start(a + 1) = a * PartLen
  BY <1>1, <1>2, <1>4 DEF Start
<1>6. Start(a + 1) < k /\ k <= Start(a + 1) + Least(PartLen, size - Start(a + 1))
  BY <1>1, <1>3, <1>5, DownloadAssumption DEF Least
<1> QED
  BY <1>5, <1>6 DEF m

-----------------------------------------------------------------------------
(* What the provider answers. *)

\* The units of an answer that begins at position from.
Reading(body, from) ==
    /\ body \in Seq(Units)
    /\ \A j \in 1..Len(body) : InPlace(body[j], from + j)
    /\ body # ErrorPage =>
         /\ \A j \in 1..Len(body) : body[j] = Unit(remote, from + j)
         /\ from + Len(body) <= Sizes[remote]

LEMMA WholeReading ==
    ASSUME TypeInv, NEW body \in Whole
    PROVE  Reading(body, 0) /\ (body # ErrorPage => Len(body) = Sizes[remote])
<1>1. remote \in 1..Len(Sizes) /\ remote \in Nat /\ remote # 0 /\ Sizes[remote] \in Nat
  BY VersionSeq, DownloadAssumption DEF TypeInv
<1>2. CASE body = ErrorPage
  BY <1>2, PageSeq DEF Reading, InPlace
<1>3. CASE body = Version(remote)
  <2>1. /\ body \in Seq(Units) /\ Len(body) = Sizes[remote]
        /\ \A j \in 1..Len(body) : body[j] = Unit(remote, 0 + j)
    BY <1>1, <1>3, VersionSeq
  <2>2. \A j \in 1..Len(body) : InPlace(body[j], 0 + j)
    BY <1>1, <2>1, UnitFields DEF InPlace
  <2> QED
    BY <1>1, <2>1, <2>2 DEF Reading
<1> QED
  BY <1>2, <1>3 DEF Whole

LEMMA RangedReading ==
    ASSUME TypeInv, NEW from \in Nat, NEW n \in Nat, NEW body \in Ranged(from, n),
           ~RangeIgnored(from, body)
    PROVE  /\ Reading(body, from)
           /\ (body # ErrorPage /\ from + n = Sizes[remote]) => from + Len(body) = Sizes[remote]
<1>1. remote \in 1..Len(Sizes) /\ remote \in Nat /\ remote # 0 /\ Sizes[remote] \in Nat
  BY VersionSeq, DownloadAssumption DEF TypeInv
<1>2. CASE body = ErrorPage
  BY <1>2, PageSeq DEF Reading, InPlace
<1>3. CASE body # ErrorPage /\ ~ranges
  <2>1. from = 0 /\ body = Version(remote)
    BY <1>3 DEF Ranged, Beyond, RangeIgnored
  <2>2. body \in Whole
    BY <2>1 DEF Whole
  <2> QED
    BY <1>1, <1>3, <2>1, <2>2, WholeReading DEF Reading
<1>4. CASE body # ErrorPage /\ ranges
  <2> DEFINE s    == Version(remote)
             last == Least(from + n, Sizes[remote])
  <2>1. from < Sizes[remote] /\ body = SubSeq(s, from + 1, last)
    BY <1>1, <1>4 DEF Ranged, Beyond
  <2>2. s \in Seq(Units) /\ Len(s) = Sizes[remote] /\ \A k \in 1..Sizes[remote] : s[k] = Unit(remote, k)
    BY <1>1, VersionSeq
  <2>3. last \in Nat /\ last >= from /\ last <= Sizes[remote] /\ (from + n = Sizes[remote] => last = Sizes[remote])
    BY <1>1, <2>1 DEF Least
  <2> HIDE DEF s, last
  <2>4. /\ body \in Seq(Units) /\ Len(body) = last - from
        /\ \A j \in 1..Len(body) : body[j] = s[from + j]
    <3>1. from + 1 \in 1..(Len(s) + 1) /\ last \in ((from + 1) - 1)..Len(s)
      BY <1>1, <2>1, <2>2, <2>3
    <3> QED
      BY <2>1, <2>2, <2>3, <3>1, SubSeqProperties
  <2>5. \A j \in 1..Len(body) : body[j] = Unit(remote, from + j) /\ from + j \in Nat
    <3>1. \A j \in 1..Len(body) : from + j \in Nat /\ from + j \in 1..Sizes[remote]
      BY <1>1, <2>3, <2>4
    <3> QED
      BY <2>2, <2>4, <3>1
  <2>6. \A j \in 1..Len(body) : InPlace(body[j], from + j)
    BY <1>1, <2>5, UnitFields DEF InPlace
  <2>7. from + Len(body) = last
    BY <2>3, <2>4
  <2> QED
    BY <1>1, <2>3, <2>4, <2>5, <2>6, <2>7 DEF Reading
<1> QED
  BY <1>2, <1>3, <1>4 DEF TypeInv

\* What comes of an answer to a run that is right as long as it got no page.
LEMMA ReadingComing ==
    ASSUME NEW body, NEW from \in Nat, Reading(body, from), NEW r,
           Right(r, remote) => body # ErrorPage
    PROVE  /\ Coming(body, r, remote, from)
           /\ Right(r, remote) => from + Len(body) <= Sizes[r.began]
BY DEF Reading, Coming, Right

-----------------------------------------------------------------------------
(* What a step leaves of the units that were copied. *)

\* The run r goes on as s, and the units d become e: nothing that was written is
\* lost, and what was right stays right for a run that still is.
Improves(d, e, r, s, rem, rem2) ==
    /\ s.began = r.began /\ s.size = r.size
    /\ Right(s, rem2) => Right(r, rem)
    /\ Len(d) <= Len(e)
    /\ \A k \in 1..Len(d) :
         /\ d[k] # Hole => e[k] # Hole
         /\ (Right(s, rem2) /\ d[k] = Unit(r.began, k)) => e[k] = Unit(r.began, k)

LEMMA CoveredKept ==
    ASSUME NEW d \in Seq(Units), NEW e \in Seq(Units), NEW r, NEW s, NEW rem, NEW rem2,
           Improves(d, e, r, s, rem, rem2),
           NEW lo \in Nat, NEW hi \in Int, Covered(d, r, rem, lo, hi)
    PROVE  Covered(e, s, rem2, lo, hi)
<1>1. Len(d) \in Nat /\ Len(e) \in Nat /\ hi <= Len(d) /\ Len(d) <= Len(e)
  BY DEF Covered, Improves
<1>2. ASSUME NEW k \in (lo + 1)..hi
      PROVE  e[k] # Hole /\ (Right(s, rem2) => e[k] = Unit(s.began, k))
  <2>1. k \in 1..Len(d)
    BY <1>1
  <2>2. d[k] # Hole /\ (Right(r, rem) => d[k] = Unit(r.began, k))
    BY DEF Covered
  <2> QED
    BY <2>1, <2>2 DEF Improves
<1> QED
  BY <1>1, <1>2 DEF Covered

LEMMA PartKept ==
    ASSUME NEW d \in Seq(Units), NEW e \in Seq(Units), NEW r \in RunStates, NEW s, NEW rem, NEW rem2,
           Improves(d, e, r, s, rem, rem2), ~s.failed => ~r.failed,
           NEW i, Start(i) \in Nat, NEW p \in PartStates, PartOK(p, i, d, r, rem)
    PROVE  PartOK(p, i, e, s, rem2)
<1>1. p.n \in Nat /\ r.size \in Nat /\ s.size = r.size /\ s.began = r.began
  BY DEF PartStates, RunStates, Improves
<1>2. Right(s, rem2) => Right(r, rem)
  BY DEF Improves
<1>3. ASSUME p.pc = "copy"
      PROVE  /\ Covered(e, s, rem2, Start(i), Start(i) + p.n)
             /\ Coming(p.body, s, rem2, Start(i) + p.n)
             /\ Right(s, rem2) => Start(i) + p.n + Len(p.body) <= s.size
  <2>1. /\ Covered(d, r, rem, Start(i), Start(i) + p.n)
        /\ Coming(p.body, r, rem, Start(i) + p.n)
        /\ Right(r, rem) => Start(i) + p.n + Len(p.body) <= r.size
    BY <1>3 DEF PartOK
  <2>2. Start(i) + p.n \in Int
    BY <1>1
  <2>3. Covered(e, s, rem2, Start(i), Start(i) + p.n)
    BY <2>1, <2>2, CoveredKept
  <2>4. Coming(p.body, s, rem2, Start(i) + p.n)
    BY <1>1, <1>2, <2>1 DEF Coming
  <2> QED
    BY <1>1, <1>2, <2>1, <2>3, <2>4
<1>4. ASSUME p.pc = "ended", ~s.failed
      PROVE  Covered(e, s, rem2, Start(i), Start(i) + Least(PartLen, s.size - Start(i)))
  <2>1. Start(i) + Least(PartLen, r.size - Start(i)) \in Int
    BY <1>1, DownloadAssumption DEF Least
  <2>2. Covered(d, r, rem, Start(i), Start(i) + Least(PartLen, r.size - Start(i)))
    BY <1>4 DEF PartOK
  <2> QED
    BY <1>1, <2>1, <2>2, CoveredKept
<1> QED
  BY <1>3, <1>4 DEF PartOK

\* Nothing is copied when the run and the object stay as they are.
LEMMA ImprovesSame ==
    ASSUME NEW d \in Seq(Units), NEW r, NEW s, NEW rem, NEW rem2,
           s.began = r.began, s.size = r.size, Right(s, rem2) => Right(r, rem)
    PROVE  Improves(d, d, r, s, rem, rem2)
BY DEF Improves

\* The facts about a state that a step starts from.
LEMMA Known ==
    ASSUME IInv
    PROVE  /\ file.data \in Seq(Units) /\ Len(file.data) \in Nat /\ file.there \in BOOLEAN
           /\ run \in RunStates /\ remote \in Nat /\ remote \in 1..Len(Sizes) /\ Sizes[remote] \in Nat
           /\ run.pc # "idle" => run.began \in 1..Len(Sizes) /\ Sizes[run.began] \in Nat
                                 /\ run.began <= remote
<1>1. /\ file.data \in Seq(Units) /\ Len(file.data) \in Nat /\ file.there \in BOOLEAN
      /\ run \in RunStates /\ remote \in 1..Len(Sizes)
  BY DEF IInv, TypeInv
<1>2. remote \in Nat /\ Sizes[remote] \in Nat
  BY <1>1, DownloadAssumption
<1>3. run.pc # "idle" => run.began \in 1..remote
  BY DEF IInv, RunOK
<1>4. run.pc # "idle" => run.began \in 1..Len(Sizes) /\ run.began <= remote
  BY <1>1, <1>3, DownloadAssumption
<1> QED
  BY <1>1, <1>2, <1>4, DownloadAssumption

-----------------------------------------------------------------------------
(* Parts. *)

LEMMA PartStep ==
    ASSUME IInv, run.pc = "parts", NEW i \in DOMAIN run.parts,
           NEW s \in RunStates, NEW p \in PartStates,
           s.pc = "parts", s.size = run.size, s.began = run.began,
           s.parts = [run.parts EXCEPT ![i] = p],
           Right(s, remote) => Right(run, remote), ~s.failed => ~run.failed,
           NEW e \in Seq(Units), Improves(file.data, e, run, s, remote, remote),
           PartOK(p, i, e, s, remote),
           \A k \in 1..Len(e) : e[k] = Hole \/ InPlace(e[k], k),
           \A k \in 1..Len(e) : k > run.size => e[k] # Hole,
           Right(s, remote) => Len(e) = run.size,
           file' = File(e), run' = s, UNCHANGED <<remote, ranges, runs, left>>, trouble' \in Nat
    PROVE  IInv'
<1> DEFINE d == file.data
<1>1. /\ d \in Seq(Units) /\ run \in RunStates /\ run.size \in Nat /\ Len(d) \in Nat /\ Len(e) \in Nat
      /\ run.began \in 1..remote
  BY Known DEF IInv, RunOK, RunStates
<1>2. PartsOK(d, run, remote)
  BY DEF IInv, RunOK
<1>3. file'.there = TRUE /\ file'.data = e /\ file' \in [there : BOOLEAN, data : Seq(Units)]
  BY DEF File
<1>4. TypeInv'
  BY <1>3 DEF IInv, TypeInv
<1>5. FileOK'
  BY <1>3 DEF FileOK
<1>6. DOMAIN s.parts = DOMAIN run.parts /\ s.parts[i] = p
      /\ \A j \in DOMAIN run.parts : j # i => s.parts[j] = run.parts[j]
  OBVIOUS
<1>7. \A j \in DOMAIN run.parts : Start(j) \in Nat /\ run.parts[j] \in PartStates
  <2>1. \A j \in DOMAIN run.parts : run.parts[j] \in PartStates
    BY <1>1 DEF RunStates
  <2> QED
    BY <1>1, <1>2, <2>1, PartPlaces DEF PartsOK, PartCount
<1>8. ASSUME NEW j \in DOMAIN run.parts PROVE PartOK(s.parts[j], j, e, s, remote)
  <2>1. CASE j = i
    BY <1>6, <2>1
  <2>2. CASE j # i
    <3>1. PartOK(run.parts[j], j, d, run, remote)
      BY <1>2 DEF PartsOK
    <3>2. PartOK(run.parts[j], j, e, s, remote)
      BY <1>1, <1>7, <3>1, PartKept
    <3> QED
      BY <1>6, <2>2, <3>2
  <2> QED
    BY <2>1, <2>2
<1>9. Len(e) >= run.size
  BY <1>1, <1>2 DEF PartsOK, Improves
<1>10. PartsOK(e, s, remote)
  BY <1>2, <1>6, <1>8, <1>9 DEF PartsOK
<1>11. RunOK(e, s, remote)
  BY <1>1, <1>10 DEF RunOK
<1> QED
  BY <1>3, <1>4, <1>5, <1>11 DEF IInv

\* The file stays as it is.
LEMMA PartMove ==
    ASSUME IInv, run.pc = "parts", NEW i \in DOMAIN run.parts,
           NEW s \in RunStates, NEW p \in PartStates,
           s.pc = "parts", s.size = run.size, s.began = run.began,
           s.parts = [run.parts EXCEPT ![i] = p],
           Right(s, remote) => Right(run, remote), ~s.failed => ~run.failed,
           PartOK(p, i, file.data, s, remote),
           run' = s, UNCHANGED <<remote, ranges, file, runs, left>>, trouble' \in Nat
    PROVE  IInv'
<1>1. /\ file.data \in Seq(Units) /\ file.there
      /\ \A k \in 1..Len(file.data) : file.data[k] = Hole \/ InPlace(file.data[k], k)
  BY Known DEF IInv, FileOK
<1>2. /\ \A k \in 1..Len(file.data) : k > run.size => file.data[k] # Hole
      /\ Right(s, remote) => Len(file.data) = run.size
  BY DEF IInv, RunOK, PartsOK
<1>3. file = File(file.data)
  <2>1. file \in [there : BOOLEAN, data : Seq(Units)]
    BY DEF IInv, TypeInv
  <2> QED
    BY <1>1, <2>1 DEF File
<1>4. Improves(file.data, file.data, run, s, remote, remote)
  BY <1>1, ImprovesSame
<1>5. file' = File(file.data)
  BY <1>3
<1> QED
  BY <1>1, <1>2, <1>4, <1>5, PartStep

\* Part i of the run r becomes p.
ChangedPart(r, i, p, s) ==
    /\ s \in RunStates /\ s.pc = r.pc /\ s.size = r.size /\ s.began = r.began
    /\ s.parts = [r.parts EXCEPT ![i] = p] /\ s.paged = r.paged /\ s.failed = r.failed

LEMMA PartChanged ==
    ASSUME run \in RunStates, NEW i \in DOMAIN run.parts, NEW p \in PartStates
    PROVE  ChangedPart(run, i, p, [run EXCEPT !.parts[i] = p])
<1> DEFINE q == [run.parts EXCEPT ![i] = p]
           s == [run EXCEPT !.parts[i] = p]
<1>1. run.parts \in Seq(PartStates)
  BY DEF RunStates
<1>2. q \in Seq(PartStates)
  BY <1>1
<1>3. s = [run EXCEPT !.parts = q]
  OBVIOUS
<1> HIDE DEF q, s
<1>4. s \in RunStates /\ s.parts = q /\ s.pc = run.pc /\ s.size = run.size /\ s.began = run.began
      /\ s.paged = run.paged /\ s.failed = run.failed
  BY <1>2, <1>3 DEF RunStates
<1> QED
  BY <1>4 DEF q, s, ChangedPart

\* Parts that have no body.
LEMMA FreshPart == Part \in PartStates /\ Part.pc = "wait"
<1>1. <<>> \in Seq(Units)
  OBVIOUS
<1> QED
  BY <1>1 DEF Part, PartStates

LEMMA WaitingPart ==
    ASSUME NEW tries \in Nat
    PROVE  LET p == [Part EXCEPT !.pc = "get", !.tries = tries] IN p \in PartStates /\ p.pc = "get"
BY FreshPart DEF PartStates

LEMMA EndedPart ==
    LET p == [Part EXCEPT !.pc = "ended"] IN p \in PartStates /\ p.pc = "ended"
BY FreshPart DEF PartStates

LEMMA RetryStep ==
    ASSUME IInv, run.pc = "parts", NEW i \in DOMAIN run.parts, Retry(i),
           UNCHANGED <<remote, ranges, file, runs, left>>, trouble' \in Nat
    PROVE  IInv'
<1>1. run \in RunStates /\ run.parts[i] \in PartStates
  BY Known DEF RunStates
<1>2. run.parts[i].tries \in Nat
  BY <1>1 DEF PartStates
<1>3. CASE run.failed \/ run.parts[i].tries + 1 = Attempts
  <2> DEFINE p == [Part EXCEPT !.pc = "ended"]
             t == [run EXCEPT !.parts[i] = p]
             s == [run EXCEPT !.parts[i] = p, !.failed = TRUE]
  <2>1. p \in PartStates /\ p.pc = "ended"
    BY EndedPart
  <2>2. run' = s
    BY <1>3 DEF Retry
  <2>3. s = [t EXCEPT !.failed = TRUE]
    OBVIOUS
  <2> HIDE DEF p, s
  <2>4. ChangedPart(run, i, p, t)
    BY <1>1, <2>1, PartChanged
  <2> HIDE DEF t
  <2>5. /\ s \in RunStates /\ s.pc = run.pc /\ s.size = run.size /\ s.began = run.began
        /\ s.parts = [run.parts EXCEPT ![i] = p] /\ s.paged = run.paged /\ s.failed
    BY <2>3, <2>4 DEF RunStates, ChangedPart
  <2>6. PartOK(p, i, file.data, s, remote)
    BY <2>1, <2>5 DEF PartOK
  <2>7. Right(s, remote) => Right(run, remote)
    BY <2>5 DEF Right
  <2> QED
    BY <2>1, <2>2, <2>5, <2>6, <2>7, PartMove
<1>4. CASE ~(run.failed \/ run.parts[i].tries + 1 = Attempts)
  <2> DEFINE t == run.parts[i].tries + 1
             p == [Part EXCEPT !.pc = "get", !.tries = t]
             s == [run EXCEPT !.parts[i] = p]
  <2>1. p \in PartStates /\ p.pc = "get"
    <3>1. t \in Nat
      BY <1>2
    <3> HIDE DEF t
    <3> QED
      BY <3>1, WaitingPart
  <2>2. run' = s
    BY <1>4 DEF Retry, SetPart
  <2> HIDE DEF p
  <2>3. ChangedPart(run, i, p, s)
    BY <1>1, <2>1, PartChanged
  <2> HIDE DEF s
  <2>4. PartOK(p, i, file.data, s, remote)
    BY <2>1 DEF PartOK
  <2>5. Right(s, remote) => Right(run, remote)
    BY <2>3 DEF Right, ChangedPart
  <2> QED
    BY <2>1, <2>2, <2>3, <2>4, <2>5, PartMove DEF ChangedPart
<1> QED
  BY <1>3, <1>4

LEMMA StartPartStep ==
    ASSUME IInv, NEW i \in DOMAIN run.parts, StartPart(i)
    PROVE  IInv'
<1> DEFINE p == [run.parts[i] EXCEPT !.pc = "get"]
           s == [run EXCEPT !.parts[i] = p]
<1>1. run \in RunStates /\ run.parts[i] \in PartStates /\ trouble \in Nat
  BY Known DEF RunStates, IInv, TypeInv
<1>2. p \in PartStates /\ p.pc = "get"
  BY <1>1 DEF PartStates
<1>3. run' = s /\ run.pc = "parts" /\ UNCHANGED <<remote, ranges, file, runs, left, trouble>>
  BY DEF StartPart, SetPart
<1> HIDE DEF p
<1>4. ChangedPart(run, i, p, s)
  BY <1>1, <1>2, PartChanged
<1> HIDE DEF s
<1>5. PartOK(p, i, file.data, s, remote)
  BY <1>2 DEF PartOK
<1>6. Right(s, remote) => Right(run, remote)
  BY <1>4 DEF Right, ChangedPart
<1> QED
  BY <1>1, <1>2, <1>3, <1>4, <1>5, <1>6, PartMove DEF ChangedPart

LEMMA PartFailsStep ==
    ASSUME IInv, NEW i \in DOMAIN run.parts, PartFails(i)
    PROVE  IInv'
<1>1. trouble \in Nat
  BY DEF IInv, TypeInv
<1>2. trouble' \in Nat /\ run.pc = "parts" /\ Retry(i) /\ UNCHANGED <<remote, ranges, file, runs, left>>
  BY <1>1 DEF PartFails
<1> QED
  BY <1>2, RetryStep

\* Where a part begins, and how far it may reach.
LEMMA PartKnown ==
    ASSUME IInv, run.pc = "parts", NEW i \in DOMAIN run.parts
    PROVE  /\ run \in RunStates /\ run.parts[i] \in PartStates /\ run.size \in Nat
           /\ run.size = Sizes[run.began] /\ run.began \in Nat
           /\ Start(i) \in Nat /\ Start(i) < run.size /\ run.size <= Len(file.data)
           /\ Length(i) \in Nat /\ Length(i) = Least(PartLen, run.size - Start(i))
           /\ PartOK(run.parts[i], i, file.data, run, remote)
           /\ file.data \in Seq(Units) /\ Len(file.data) \in Nat
<1>1. run \in RunStates /\ run.parts[i] \in PartStates /\ run.size \in Nat /\ run.began \in Nat
  BY Known DEF RunStates
<1>2. PartsOK(file.data, run, remote) /\ file.data \in Seq(Units) /\ Len(file.data) \in Nat
  BY Known DEF IInv, RunOK
<1>3. Start(i) \in Nat /\ Start(i) < run.size
  BY <1>1, <1>2, PartPlaces DEF PartsOK, PartCount
<1>4. Length(i) \in Nat /\ Length(i) = Least(PartLen, run.size - Start(i))
  BY <1>1, <1>3, DownloadAssumption DEF Length, Least
<1> QED
  BY <1>1, <1>2, <1>3, <1>4 DEF PartsOK

LEMMA GetPartStep ==
    ASSUME IInv, NEW i \in DOMAIN run.parts, GetPart(i)
    PROVE  IInv'
<1>1. PICK body \in Ranged(Start(i), Length(i)) :
        /\ Answered(Start(i), body)
        /\ IF RangeIgnored(Start(i), body)
             THEN Retry(i)
             ELSE run' = [run EXCEPT !.parts[i] = [@ EXCEPT !.pc = "copy", !.body = body, !.n = 0],
                                     !.paged = @ \/ body = ErrorPage]
  BY DEF GetPart
<1>2. run.pc = "parts" /\ UNCHANGED <<remote, ranges, file, runs, left>>
  BY DEF GetPart
<1>3. trouble \in Nat /\ TypeInv
  BY DEF IInv, TypeInv
<1>4. trouble' \in Nat
  BY <1>1, <1>3 DEF Answered
<1>5. CASE RangeIgnored(Start(i), body)
  BY <1>1, <1>2, <1>4, <1>5, RetryStep
<1>6. CASE ~RangeIgnored(Start(i), body)
  <2> DEFINE o    == run.parts[i]
             p    == [o EXCEPT !.pc = "copy", !.body = body, !.n = 0]
             t    == [run EXCEPT !.parts[i] = p]
             flag == run.paged \/ body = ErrorPage
             s    == [t EXCEPT !.paged = flag]
  <2>1. run' = s
    BY <1>1, <1>6
  <2>2. Reading(body, Start(i))
    BY <1>2, <1>3, <1>6, PartKnown, RangedReading
  <2>3. body \in Seq(Units) /\ o \in PartStates /\ run \in RunStates
    BY <1>2, <2>2, PartKnown DEF Reading
  <2> HIDE DEF o
  <2>4. p \in PartStates /\ p.pc = "copy" /\ p.body = body /\ p.n = 0
    BY <2>3 DEF PartStates
  <2> HIDE DEF p
  <2>5. ChangedPart(run, i, p, t)
    BY <2>3, <2>4, PartChanged
  <2>6. flag \in BOOLEAN
    OBVIOUS
  <2>7. t \in RunStates
    BY <2>5 DEF ChangedPart
  <2> HIDE DEF t, flag
  <2>8. s \in RunStates /\ s.paged = flag /\ s.pc = t.pc /\ s.size = t.size /\ s.began = t.began
        /\ s.parts = t.parts /\ s.failed = t.failed
    BY <2>6, <2>7 DEF RunStates
  <2> HIDE DEF s
  <2>9. s.pc = "parts" /\ s.size = run.size /\ s.began = run.began /\ s.failed = run.failed
        /\ s.parts = [run.parts EXCEPT ![i] = p]
    BY <1>2, <2>5, <2>8 DEF ChangedPart
  <2>10. Right(s, remote) => Right(run, remote) /\ body # ErrorPage
    BY <2>8, <2>9 DEF Right, flag
  <2>11. /\ Coming(body, s, remote, Start(i))
         /\ Right(s, remote) => Start(i) + Len(body) <= Sizes[s.began]
    BY <1>2, <2>2, <2>10, PartKnown, ReadingComing
  <2>12. Start(i) \in Nat /\ Start(i) + 0 = Start(i) /\ Start(i) <= Len(file.data)
    BY <1>2, PartKnown
  <2>13. Covered(file.data, s, remote, Start(i), Start(i) + 0)
    BY <2>12 DEF Covered
  <2>14. Right(s, remote) => Start(i) + Len(body) <= s.size
    BY <1>2, <2>9, <2>11, PartKnown
  <2>15. PartOK(p, i, file.data, s, remote)
    BY <2>4, <2>11, <2>12, <2>13, <2>14 DEF PartOK
  <2> QED
    BY <1>2, <1>4, <2>1, <2>4, <2>8, <2>9, <2>10, <2>15, PartMove
<1> QED
  BY <1>5, <1>6

LEMMA EndOfPartStep ==
    ASSUME IInv, NEW i \in DOMAIN run.parts, EndOfPart(i)
    PROVE  IInv'
<1>1. /\ run.pc = "parts" /\ run.parts[i].pc = "copy"
      /\ UNCHANGED <<remote, ranges, file, runs, trouble, left>>
  BY DEF EndOfPart
<1>2. trouble' \in Nat
  BY <1>1 DEF IInv, TypeInv
<1>3. CASE run.parts[i].n # Length(i)
  <2>1. Retry(i)
    BY <1>3 DEF EndOfPart
  <2> QED
    BY <1>1, <1>2, <2>1, RetryStep
<1>4. CASE run.parts[i].n = Length(i)
  <2> DEFINE p == [Part EXCEPT !.pc = "ended"]
             s == [run EXCEPT !.parts[i] = p]
  <2>1. p \in PartStates /\ p.pc = "ended"
    BY EndedPart
  <2>2. run' = s
    BY <1>4 DEF EndOfPart, SetPart
  <2>3. run \in RunStates
    BY Known
  <2> HIDE DEF p
  <2>4. ChangedPart(run, i, p, s)
    BY <2>1, <2>3, PartChanged
  <2> HIDE DEF s
  <2>5. Right(s, remote) => Right(run, remote)
    BY <2>4 DEF Right, ChangedPart
  <2>6. Covered(file.data, run, remote, Start(i), Start(i) + Least(PartLen, run.size - Start(i)))
    BY <1>1, <1>4, PartKnown DEF PartOK
  <2>7. Start(i) + Least(PartLen, run.size - Start(i)) \in Int
    BY <1>1, PartKnown
  <2>8. Improves(file.data, file.data, run, s, remote, remote)
    BY <2>4, <2>5, Known, ImprovesSame DEF ChangedPart
  <2>9. Covered(file.data, s, remote, Start(i), Start(i) + Least(PartLen, s.size - Start(i)))
    BY <1>1, <2>4, <2>6, <2>7, <2>8, PartKnown, CoveredKept DEF ChangedPart
  <2>10. PartOK(p, i, file.data, s, remote)
    BY <2>1, <2>9 DEF PartOK
  <2> QED
    BY <1>1, <1>2, <2>1, <2>2, <2>4, <2>5, <2>10, PartMove DEF ChangedPart
<1> QED
  BY <1>3, <1>4

\* The next unit of a body.
LEMMA NextUnit ==
    ASSUME NEW body \in Seq(Units), body # <<>>, NEW lo \in Nat, NEW r, NEW rem, Coming(body, r, rem, lo)
    PROVE  /\ Head(body) \in Units /\ InPlace(Head(body), lo + 1) /\ Head(body) # Hole
           /\ Right(r, rem) => Head(body) = Unit(r.began, lo + 1)
           /\ Tail(body) \in Seq(Units) /\ Len(Tail(body)) = Len(body) - 1 /\ Len(body) \in Nat
           /\ Coming(Tail(body), r, rem, lo + 1)
<1>1. Len(body) \in Nat /\ Len(body) > 0 /\ Head(body) = body[1] /\ 1 \in 1..Len(body)
  OBVIOUS
<1>2. /\ Head(body) \in Units /\ Tail(body) \in Seq(Units) /\ Len(Tail(body)) = Len(body) - 1
      /\ \A j \in 1..Len(Tail(body)) : Tail(body)[j] = body[j + 1]
  BY HeadTailProperties
<1>3. InPlace(Head(body), lo + 1) /\ (Right(r, rem) => Head(body) = Unit(r.began, lo + 1))
  BY <1>1 DEF Coming
<1>4. Head(body) # Hole
  BY <1>3, UnitFields DEF InPlace
<1>5. \A j \in 1..Len(Tail(body)) :
        /\ j + 1 \in 1..Len(body) /\ lo + (j + 1) = (lo + 1) + j /\ Tail(body)[j] = body[j + 1]
  BY <1>1, <1>2
<1>6. \A j \in 1..Len(Tail(body)) : InPlace(Tail(body)[j], (lo + 1) + j)
  <2> TAKE j \in 1..Len(Tail(body))
  <2>1. InPlace(body[j + 1], lo + (j + 1))
    BY <1>5 DEF Coming
  <2> QED
    BY <1>5, <2>1
<1>7. ASSUME Right(r, rem)
      PROVE  \A j \in 1..Len(Tail(body)) : Tail(body)[j] = Unit(r.began, (lo + 1) + j)
  <2> TAKE j \in 1..Len(Tail(body))
  <2>1. body[j + 1] = Unit(r.began, lo + (j + 1))
    BY <1>5, <1>7 DEF Coming
  <2> QED
    BY <1>5, <2>1
<1> QED
  BY <1>1, <1>2, <1>3, <1>4, <1>6, <1>7 DEF Coming

\* A unit is written into or right behind what is there.
Wrote(d, e, k, u, r, s, rem) ==
    /\ e \in Seq(Units) /\ Len(e) = (IF k > Len(d) THEN k ELSE Len(d))
    /\ e[k] = u /\ \A j \in 1..Len(d) : j # k => e[j] = d[j]
    /\ Improves(d, e, r, s, rem, rem)
    /\ (\A j \in 1..Len(d) : d[j] = Hole \/ InPlace(d[j], j)) =>
          \A j \in 1..Len(e) : e[j] = Hole \/ InPlace(e[j], j)

LEMMA UnitWritten ==
    ASSUME NEW d \in Seq(Units), NEW k \in Nat, k > 0, k <= Len(d) + 1,
           NEW u \in Units, u # Hole, InPlace(u, k), NEW e, e = Written(d, k, u),
           NEW r, NEW s, NEW rem, s.began = r.began, s.size = r.size,
           Right(s, rem) => Right(r, rem), Right(s, rem) => u = Unit(r.began, k)
    PROVE  Wrote(d, e, k, u, r, s, rem)
<1>1. /\ e \in Seq(Units) /\ Len(e) = IF k > Len(d) THEN k ELSE Len(d)
      /\ e[k] = u /\ \A j \in 1..Len(d) : j # k => e[j] = d[j]
  BY WrittenSeq
<1>2. Len(d) \in Nat /\ Len(d) <= Len(e)
  BY <1>1
<1>3. \A j \in 1..Len(e) : j = k \/ j \in 1..Len(d)
  BY <1>1, <1>2
<1>4. Improves(d, e, r, s, rem, rem)
  BY <1>1, <1>2 DEF Improves
<1>5. ASSUME \A j \in 1..Len(d) : d[j] = Hole \/ InPlace(d[j], j)
      PROVE  \A j \in 1..Len(e) : e[j] = Hole \/ InPlace(e[j], j)
  BY <1>1, <1>3, <1>5
<1> QED
  BY <1>1, <1>4, <1>5 DEF Wrote

LEMMA CopyPartStep ==
    ASSUME IInv, NEW i \in DOMAIN run.parts, CopyPart(i)
    PROVE  IInv'
<1> DEFINE o  == run.parts[i]
           d  == file.data
           lo == Start(i) + o.n
           u  == Head(o.body)
           e  == Written(d, lo + 1, u)
           m  == o.n + 1
           b  == Tail(o.body)
           p  == [o EXCEPT !.n = m, !.body = b]
           s  == [run EXCEPT !.parts[i] = p]
<1>1. /\ run.pc = "parts" /\ o.pc = "copy" /\ o.body # <<>>
      /\ file' = File(e) /\ run' = s /\ UNCHANGED <<remote, ranges, runs, trouble, left>>
  BY DEF CopyPart, SetPart
<1>2. /\ run \in RunStates /\ o \in PartStates /\ d \in Seq(Units) /\ Len(d) \in Nat
      /\ Start(i) \in Nat /\ run.size \in Nat /\ PartOK(o, i, d, run, remote)
  BY <1>1, PartKnown
<1>3. trouble' \in Nat
  BY <1>1 DEF IInv, TypeInv
<1>4. PartsOK(d, run, remote) /\ \A k \in 1..Len(d) : d[k] = Hole \/ InPlace(d[k], k)
  BY <1>1 DEF IInv, RunOK, FileOK
<1> HIDE DEF o, d, e
<1>5. o.n \in Nat /\ o.body \in Seq(Units) /\ lo \in Nat
  BY <1>2 DEF PartStates
<1>6. /\ Covered(d, run, remote, Start(i), lo) /\ Coming(o.body, run, remote, lo)
      /\ Right(run, remote) => lo + Len(o.body) <= run.size
  BY <1>1, <1>2 DEF PartOK
<1>7. lo <= Len(d)
  BY <1>6 DEF Covered
<1>8. /\ u \in Units /\ InPlace(u, lo + 1) /\ u # Hole
      /\ Right(run, remote) => u = Unit(run.began, lo + 1)
      /\ Tail(o.body) \in Seq(Units) /\ Len(Tail(o.body)) = Len(o.body) - 1 /\ Len(o.body) \in Nat
      /\ Coming(Tail(o.body), run, remote, lo + 1)
  BY <1>1, <1>5, <1>6, NextUnit
<1>9. p \in PartStates /\ p.pc = "copy" /\ p.n = o.n + 1 /\ p.body = Tail(o.body)
  <2>1. m \in Nat /\ b \in Seq(Units)
    BY <1>5, <1>8
  <2> HIDE DEF m, b
  <2>2. p \in PartStates /\ p.pc = "copy" /\ p.n = m /\ p.body = b
    BY <1>1, <1>2, <2>1 DEF PartStates
  <2> QED
    BY <2>2 DEF m, b
<1> HIDE DEF p, u
<1>10. ChangedPart(run, i, p, s)
  BY <1>2, <1>9, PartChanged
<1> HIDE DEF s
<1>11. /\ s \in RunStates /\ s.pc = "parts" /\ s.size = run.size /\ s.began = run.began
       /\ s.parts = [run.parts EXCEPT ![i] = p] /\ s.failed = run.failed
       /\ Right(s, remote) <=> Right(run, remote)
  BY <1>1, <1>10 DEF ChangedPart, Right
<1>12. lo + 1 \in Nat /\ lo + 1 > 0 /\ lo + 1 <= Len(d) + 1
       /\ Start(i) + p.n = lo + 1
  BY <1>2, <1>5, <1>7, <1>9
<1> HIDE DEF lo
<1>13. e = Written(d, lo + 1, u)
  BY DEF e, lo, u, o
<1>14. /\ e \in Seq(Units) /\ Len(e) = (IF lo + 1 > Len(d) THEN lo + 1 ELSE Len(d))
       /\ e[lo + 1] = u /\ \A j \in 1..Len(d) : j # lo + 1 => e[j] = d[j]
       /\ Improves(d, e, run, s, remote, remote)
       /\ \A j \in 1..Len(e) : e[j] = Hole \/ InPlace(e[j], j)
  <2> DEFINE k == lo + 1
  <2>1. /\ k \in Nat /\ k > 0 /\ k <= Len(d) + 1 /\ e = Written(d, k, u) /\ InPlace(u, k)
        /\ Right(s, remote) => u = Unit(run.began, k)
    BY <1>8, <1>11, <1>12, <1>13
  <2> HIDE DEF k
  <2>2. Wrote(d, e, k, u, run, s, remote)
    BY <1>2, <1>8, <1>11, <2>1, UnitWritten
  <2> QED
    BY <1>4, <2>2 DEF k, Wrote
<1>15. Covered(e, s, remote, Start(i), lo + 1)
  <2>1. Covered(e, s, remote, Start(i), lo)
    BY <1>2, <1>5, <1>6, <1>14, CoveredKept
  <2>2. lo + 1 <= Len(e) /\ \A k \in (Start(i) + 1)..(lo + 1) : k = lo + 1 \/ k \in (Start(i) + 1)..lo
    BY <1>2, <1>5, <1>12, <1>14
  <2>3. e[lo + 1] # Hole /\ (Right(s, remote) => e[lo + 1] = Unit(s.began, lo + 1))
    BY <1>8, <1>11, <1>14
  <2> QED
    BY <2>1, <2>2, <2>3 DEF Covered
<1>16. Coming(p.body, s, remote, lo + 1)
  BY <1>8, <1>9, <1>11 DEF Coming
<1>17. Right(s, remote) => lo + 1 + Len(p.body) <= s.size /\ lo + 1 <= run.size
  BY <1>2, <1>5, <1>6, <1>8, <1>9, <1>11, <1>12
<1>18. PartOK(p, i, e, s, remote)
  BY <1>9, <1>12, <1>15, <1>16, <1>17 DEF PartOK
<1>19. \A k \in 1..Len(e) : k > run.size => e[k] # Hole
  <2> TAKE k \in 1..Len(e)
  <2>1. k = lo + 1 \/ k \in 1..Len(d)
    BY <1>2, <1>12, <1>14
  <2> QED
    BY <1>4, <1>8, <1>14, <2>1 DEF PartsOK
<1>20. Right(s, remote) => Len(e) = run.size
  BY <1>2, <1>4, <1>11, <1>12, <1>14, <1>17 DEF PartsOK
<1> QED
  BY <1>1, <1>3, <1>9, <1>11, <1>14, <1>18, <1>19, <1>20, PartStep DEF d
-----------------------------------------------------------------------------
(* Runs that begin and end. *)

LEMMA IdleState == IdleRun \in RunStates /\ IdleRun.pc = "idle"
<1>1. <<>> \in Seq(Units) /\ <<>> \in Seq(PartStates) /\ {} \in SUBSET Units
  OBVIOUS
<1> QED
  BY <1>1 DEF IdleRun, RunStates

LEMMA InitOK == DownloadInit => IInv
<1> SUFFICES ASSUME DownloadInit PROVE IInv
  OBVIOUS
<1>1. remote \in 1..Len(Sizes)
  BY DownloadAssumption DEF DownloadInit
<1>2. file \in [there : BOOLEAN, data : Seq(Units)] /\ file.data = <<>> /\ Len(file.data) = 0
  BY DEF DownloadInit, NoFile
<1>3. run \in RunStates /\ run.pc = "idle"
  BY IdleState DEF DownloadInit
<1>4. TypeInv
  BY <1>1, <1>2, <1>3 DEF DownloadInit, TypeInv
<1>5. FileOK
  BY <1>2, <1>3 DEF FileOK
<1>6. RunOK(file.data, run, remote)
  BY <1>3 DEF RunOK
<1> QED
  BY <1>4, <1>5, <1>6 DEF IInv

\* The run ends and leaves the file: holes only where that is recorded.
LEMMA RunEnds ==
    ASSUME IInv, run' = IdleRun, UNCHANGED <<remote, ranges, file, runs>>,
           trouble' \in Nat, left' \in BOOLEAN,
           ~left' => run.pc # "parts" /\ ~left
    PROVE  IInv'
<1>1. run' \in RunStates /\ run'.pc = "idle"
  BY IdleState
<1>2. TypeInv'
  BY <1>1 DEF IInv, TypeInv
<1>3. FileOK'
  BY <1>1 DEF IInv, FileOK
<1>4. RunOK(file.data, run, remote)'
  BY <1>1 DEF RunOK
<1> QED
  BY <1>2, <1>3, <1>4 DEF IInv

LEMMA SingleFailsStep == ASSUME IInv, SingleFails PROVE IInv'
<1>1. trouble \in Nat /\ left \in BOOLEAN
  BY DEF IInv, TypeInv
<1> QED
  BY <1>1, RunEnds DEF SingleFails, Failure

LEMMA ReturnStep == ASSUME IInv, Return PROVE IInv'
<1>1. trouble \in Nat /\ left \in BOOLEAN
  BY DEF IInv, TypeInv
<1> QED
  BY <1>1, RunEnds DEF Return

LEMMA ClientCrashStep == ASSUME IInv, ClientCrash PROVE IInv'
<1>1. trouble \in Nat /\ left \in BOOLEAN
  BY DEF IInv, TypeInv
<1>2. /\ run' = IdleRun /\ UNCHANGED <<remote, ranges, file, runs>>
      /\ trouble' \in Nat /\ left' = (left \/ run.pc = "parts")
  BY <1>1 DEF ClientCrash, Failure
<1>3. left' \in BOOLEAN /\ (~left' => run.pc # "parts" /\ ~left)
  BY <1>1, <1>2
<1> QED
  BY <1>2, <1>3, RunEnds

\* The run finishes with the file as it is.
LEMMA RunSucceeds ==
    ASSUME IInv, NEW s \in RunStates, s.pc = "done", s.began = run.began, run.pc # "idle",
           file.there, DoneOK(file.data, s, remote),
           run' = s, UNCHANGED <<remote, ranges, file, runs>>, trouble' \in Nat, left' \in BOOLEAN,
           ~left' => \A k \in 1..Len(file.data) : file.data[k] # Hole
    PROVE  IInv'
<1>1. TypeInv'
  BY DEF IInv, TypeInv
<1>2. FileOK'
  BY DEF IInv, FileOK
<1>3. RunOK(file.data, s, remote)
  BY DEF IInv, RunOK
<1> QED
  BY <1>1, <1>2, <1>3 DEF IInv

LEMMA EndOfStreamStep == ASSUME IInv, EndOfStream PROVE IInv'
<1>1. trouble \in Nat /\ left \in BOOLEAN /\ run \in RunStates
  BY DEF IInv, TypeInv
<1>2. run.pc = "copy" /\ run.body = <<>> /\ UNCHANGED <<remote, ranges, file, runs, trouble, left>>
  BY DEF EndOfStream
<1>3. CASE run' = IdleRun
  BY <1>1, <1>2, <1>3, RunEnds
<1>4. CASE run' = [run EXCEPT !.pc = "done"]
  <2> DEFINE s == [run EXCEPT !.pc = "done"]
  <2>1. /\ s \in RunStates /\ s.pc = "done" /\ s.began = run.began /\ s.kept = run.kept
        /\ s.paged = run.paged
    BY <1>1 DEF RunStates
  <2> HIDE DEF s
  <2>2. CopyOK(file.data, run, remote) /\ file.there
        /\ (~left => \A k \in 1..Len(file.data) : file.data[k] # Hole)
    BY <1>2 DEF IInv, RunOK, FileOK
  <2>3. Right(s, remote) <=> Right(run, remote)
    BY <2>1 DEF Right
  <2>4. Len(run.body) = 0 /\ Len(file.data) \in Nat /\ run.at \in Nat
    BY <1>1, <1>2, Known DEF RunStates
  <2>5. DoneOK(file.data, s, remote)
    BY <2>1, <2>2, <2>3, <2>4 DEF CopyOK, DoneOK, KeptOrRight
  <2>6. run' = s
    BY <1>4 DEF s
  <2> QED
    BY <1>1, <1>2, <2>1, <2>2, <2>5, <2>6, RunSucceeds
<1> QED
  BY <1>3, <1>4 DEF EndOfStream, Failure, Success
\* Parts that all ended without an error have left no hole, and nothing but the
\* units of the version they began with.
LEMMA PartsTogether ==
    ASSUME IInv, run.pc = "parts", ~run.failed, \A i \in DOMAIN run.parts : run.parts[i].pc = "ended",
           NEW k \in 1..Len(file.data)
    PROVE  /\ file.data[k] # Hole
           /\ Right(run, remote) => file.data[k] = Unit(run.began, k)
<1>1. /\ run.size \in Nat /\ Len(file.data) \in Nat /\ PartsOK(file.data, run, remote)
  BY Known DEF RunStates, IInv, RunOK
<1>2. CASE k > run.size
  BY <1>1, <1>2 DEF PartsOK
<1>3. CASE k <= run.size
  <2>1. k \in 1..run.size
    BY <1>1, <1>3
  <2>2. PICK i \in 1..PartCount(run.size) :
          Start(i) < k /\ k <= Start(i) + Least(PartLen, run.size - Start(i))
    BY <1>1, <2>1, PartOfUnit
  <2>3. i \in DOMAIN run.parts
    BY <1>1, <2>2 DEF PartsOK, PartCount
  <2>4. Covered(file.data, run, remote, Start(i), Start(i) + Least(PartLen, run.size - Start(i)))
    BY <1>1, <2>3 DEF PartsOK, PartOK
  <2>5. Start(i) \in Nat /\ Start(i) + Least(PartLen, run.size - Start(i)) \in Int
    BY <1>1, <2>3, PartKnown
  <2>6. k \in (Start(i) + 1)..(Start(i) + Least(PartLen, run.size - Start(i)))
    BY <2>2, <2>5
  <2> QED
    BY <2>4, <2>6 DEF Covered
<1> QED
  BY <1>1, <1>2, <1>3

LEMMA FinishPartsStep == ASSUME IInv, FinishParts PROVE IInv'
<1>1. trouble \in Nat /\ left' = FALSE /\ run \in RunStates
  BY DEF IInv, TypeInv, FinishParts
<1>2. /\ run.pc = "parts" /\ \A i \in DOMAIN run.parts : run.parts[i].pc = "ended"
      /\ UNCHANGED <<remote, ranges, runs, trouble>>
  BY DEF FinishParts
<1>3. CASE run.failed
  <2>1. run' = IdleRun /\ file' = NoFile
    BY <1>3 DEF FinishParts, Failure, RemoveIncomplete
  <2>2. run' \in RunStates /\ run'.pc = "idle"
    BY <2>1, IdleState
  <2>3. file' \in [there : BOOLEAN, data : Seq(Units)] /\ file'.data = <<>> /\ Len(file'.data) = 0
    BY <2>1 DEF NoFile
  <2>4. TypeInv'
    BY <1>1, <1>2, <2>2, <2>3 DEF IInv, TypeInv
  <2>5. FileOK'
    BY <2>2, <2>3 DEF FileOK
  <2>6. RunOK(file.data, run, remote)'
    BY <2>2 DEF RunOK
  <2> QED
    BY <2>4, <2>5, <2>6 DEF IInv
<1>4. CASE ~run.failed
  <2> DEFINE s == [run EXCEPT !.pc = "done"]
  <2>1. /\ s \in RunStates /\ s.pc = "done" /\ s.began = run.began /\ s.kept = run.kept
        /\ s.paged = run.paged
    BY <1>1 DEF RunStates
  <2>2. run' = s /\ UNCHANGED file
    BY <1>4 DEF FinishParts, Success
  <2> HIDE DEF s
  <2>3. Right(s, remote) <=> Right(run, remote)
    BY <2>1 DEF Right
  <2>4. \A k \in 1..Len(file.data) :
          file.data[k] # Hole /\ (Right(run, remote) => file.data[k] = Unit(run.began, k))
    BY <1>2, <1>4, PartsTogether
  <2>5. file.there /\ (Right(run, remote) => Len(file.data) = Sizes[run.began])
    BY <1>2 DEF IInv, FileOK, RunOK, PartsOK
  <2>6. DoneOK(file.data, s, remote)
    BY <2>1, <2>3, <2>4, <2>5 DEF DoneOK, KeptOrRight
  <2> QED
    BY <1>1, <1>2, <2>1, <2>2, <2>4, <2>5, <2>6, RunSucceeds
<1> QED
  BY <1>3, <1>4

-----------------------------------------------------------------------------
(* The object is replaced. *)

LEMMA ReplaceStep == ASSUME IInv, Replace PROVE IInv'
<1> DEFINE d == file.data
<1>1. /\ d \in Seq(Units) /\ run \in RunStates /\ remote \in Nat /\ run.size \in Nat
      /\ run.pc # "idle" => run.began \in Nat /\ run.began <= remote /\ run.began \in 1..remote
  BY Known, DownloadAssumption DEF IInv, RunOK, RunStates
<1>2. remote' = remote + 1 /\ remote < Len(Sizes) /\ UNCHANGED <<ranges, file, run, runs, trouble, left>>
  BY DEF Replace
<1>3. TypeInv'
  BY <1>1, <1>2, DownloadAssumption DEF IInv, TypeInv
<1>4. FileOK'
  BY <1>2 DEF IInv, FileOK
<1>5. run.pc # "idle" => ~Right(run, remote')
  BY <1>1, <1>2 DEF Right
<1>6. run.pc # "idle" => run.began \in 1..remote'
  BY <1>1, <1>2
<1>7. RunOK(d, run, remote)
  BY DEF IInv
<1>8. ASSUME run.pc = "parts" PROVE PartsOK(d, run, remote')
  <2>1. PartsOK(d, run, remote)
    BY <1>7, <1>8 DEF RunOK
  <2>2. Improves(d, d, run, run, remote, remote')
    BY <1>1, <1>5, <1>8, ImprovesSame
  <2>3. ASSUME NEW i \in DOMAIN run.parts PROVE PartOK(run.parts[i], i, d, run, remote')
    <3>1. Start(i) \in Nat /\ run.parts[i] \in PartStates /\ PartOK(run.parts[i], i, d, run, remote)
      BY <1>8, PartKnown
    <3> QED
      BY <1>1, <2>2, <3>1, PartKept
  <2> QED
    BY <1>5, <1>8, <2>1, <2>3 DEF PartsOK
<1>9. ASSUME run.pc = "copy" PROVE CopyOK(d, run, remote')
  BY <1>5, <1>7, <1>9 DEF RunOK, CopyOK, KeptOrRight, Coming
<1>10. ASSUME run.pc = "done" PROVE DoneOK(d, run, remote')
  BY <1>5, <1>10 DEF DoneOK, KeptOrRight
<1>11. RunOK(d, run, remote')
  BY <1>6, <1>7, <1>8, <1>9, <1>10 DEF RunOK
<1> QED
  BY <1>2, <1>3, <1>4, <1>11 DEF IInv
-----------------------------------------------------------------------------
(* The stream. *)

LEMMA CopyStep == ASSUME IInv, Copy PROVE IInv'
<1> DEFINE d == file.data
           k == run.at + 1
           u == Head(run.body)
           b == Tail(run.body)
           e == Written(d, k, u)
           s == [run EXCEPT !.at = k, !.body = b]
<1>1. /\ run.pc = "copy" /\ run.body # <<>> /\ file' = File(e) /\ run' = s
      /\ UNCHANGED <<remote, ranges, runs, trouble, left>>
  BY DEF Copy
<1>2. /\ d \in Seq(Units) /\ Len(d) \in Nat /\ run \in RunStates
      /\ run.at \in Nat /\ run.body \in Seq(Units) /\ run.began \in 1..remote
      /\ run.size \in {0, Sizes[run.began]} /\ Sizes[run.began] \in Nat
  BY <1>1, Known DEF IInv, RunOK, RunStates
<1>3. /\ CopyOK(d, run, remote) /\ \A j \in 1..Len(d) : d[j] = Hole \/ InPlace(d[j], j)
      /\ ~left => \A j \in 1..Len(d) : d[j] # Hole
  BY <1>1 DEF IInv, RunOK, FileOK
<1>4. /\ u \in Units /\ InPlace(u, k) /\ u # Hole
      /\ Right(run, remote) => u = Unit(run.began, k)
      /\ b \in Seq(Units) /\ Len(b) = Len(run.body) - 1 /\ Len(run.body) \in Nat
      /\ Coming(b, run, remote, k)
  BY <1>1, <1>2, <1>3, NextUnit DEF CopyOK
<1>5. k \in Nat /\ k > 0 /\ k = Len(d) + 1 /\ k = run.at + 1
  BY <1>2, <1>3 DEF CopyOK
<1>6. e = Written(d, k, u)
  OBVIOUS
<1> HIDE DEF d, k, u, b, e
<1>7. /\ s \in RunStates /\ s.pc = "copy" /\ s.began = run.began /\ s.size = run.size
      /\ s.at = k /\ s.body = b /\ s.kept = run.kept /\ s.paged = run.paged
  BY <1>1, <1>2, <1>4, <1>5 DEF RunStates
<1> HIDE DEF s
<1>8. Right(s, remote) <=> Right(run, remote)
  BY <1>7 DEF Right
<1>9. Wrote(d, e, k, u, run, s, remote)
  BY <1>2, <1>4, <1>5, <1>6, <1>7, <1>8, UnitWritten
<1>10. /\ e \in Seq(Units) /\ Len(e) = k /\ e[k] = u /\ \A j \in 1..Len(d) : e[j] = d[j]
       /\ \A j \in 1..Len(e) : e[j] = Hole \/ InPlace(e[j], j)
       /\ \A j \in 1..Len(e) : j = k \/ j \in 1..Len(d)
  <2>1. /\ e \in Seq(Units) /\ Len(e) = (IF k > Len(d) THEN k ELSE Len(d)) /\ e[k] = u
        /\ \A j \in 1..Len(d) : j # k => e[j] = d[j]
        /\ \A j \in 1..Len(e) : e[j] = Hole \/ InPlace(e[j], j)
    BY <1>3, <1>9 DEF Wrote
  <2>2. Len(e) = k /\ \A j \in 1..Len(d) : j # k
    BY <1>2, <1>5, <2>1
  <2>3. \A j \in 1..Len(e) : j = k \/ j \in 1..Len(d)
    BY <1>2, <1>5, <2>2
  <2> QED
    BY <2>1, <2>2, <2>3
<1>11. file'.data = e /\ file'.there /\ file' \in [there : BOOLEAN, data : Seq(Units)]
  BY <1>1, <1>10 DEF File
<1>12. TypeInv'
  BY <1>1, <1>7, <1>11 DEF IInv, TypeInv
<1>13. FileOK'
  <2>1. ~left => \A j \in 1..Len(e) : e[j] # Hole
    BY <1>3, <1>4, <1>10
  <2> QED
    BY <1>1, <1>7, <1>10, <1>11, <2>1 DEF FileOK
<1>14. KeptOrRight(e, s, remote)
  <2> SUFFICES ASSUME NEW j \in 1..Len(e)
               PROVE  e[j] \in s.kept \/ (Right(s, remote) => e[j] = Unit(s.began, j))
    BY DEF KeptOrRight
  <2>1. CASE j = k
    BY <1>4, <1>7, <1>8, <1>10, <2>1
  <2>2. CASE j \in 1..Len(d)
    BY <1>3, <1>7, <1>8, <1>10, <2>2 DEF CopyOK, KeptOrRight
  <2> QED
    BY <1>10, <2>1, <2>2
<1>15. Coming(s.body, s, remote, s.at)
  BY <1>4, <1>7, <1>8 DEF Coming
<1>16. Right(s, remote) => s.at + Len(s.body) = Sizes[s.began]
  <2>1. Right(run, remote) => run.at + Len(run.body) = Sizes[run.began]
    BY <1>3 DEF CopyOK
  <2>2. k + Len(b) = run.at + Len(run.body)
    <3>1. k = run.at + 1 /\ Len(b) = Len(run.body) - 1 /\ run.at \in Nat /\ Len(run.body) \in Nat
      BY <1>2, <1>4, <1>5
    <3> QED
      BY <3>1
  <2> QED
    BY <1>7, <1>8, <2>1, <2>2
<1>17. CopyOK(e, s, remote)
  BY <1>7, <1>10, <1>14, <1>15, <1>16 DEF CopyOK
<1>18. RunOK(e, s, remote)
  BY <1>2, <1>7, <1>17 DEF RunOK
<1> QED
  BY <1>1, <1>11, <1>12, <1>13, <1>18 DEF IInv

\* A run that begins.
LEMMA DownloadStep ==
    ASSUME IInv, NEW known \in BOOLEAN, NEW parallel \in BOOLEAN, Download(known, parallel)
    PROVE  IInv'
<1> DEFINE size == IF known THEN Sizes[remote] ELSE 0
           new  == [IdleRun EXCEPT !.size = size, !.began = remote]
           d    == file.data
<1>1. /\ d \in Seq(Units) /\ Len(d) \in Nat /\ remote \in 1..Len(Sizes) /\ remote \in Nat
      /\ remote \in 1..remote /\ Sizes[remote] \in Nat
  BY Known
<1>2. run.pc = "idle" /\ (parallel => known) /\ UNCHANGED <<remote, ranges, trouble, left>>
  BY DEF Download
<1>3. runs' \in Nat
  BY DEF Download, IInv, TypeInv
<1>4. size \in Nat /\ size \in {0, Sizes[remote]} /\ (parallel => size = Sizes[remote])
  BY <1>1, <1>2
<1>5. IF parallel
        THEN /\ file' = File(Truncated(d, size))
             /\ run' = [new EXCEPT !.pc = "parts", !.parts = [i \in 1..((size + PartLen - 1) \div PartLen) |-> Part]]
        ELSE run' = [new EXCEPT !.pc = "single"] /\ UNCHANGED file
  BY DEF Download
<1> HIDE DEF size
<1>6. new \in RunStates /\ new.size = size /\ new.began = remote /\ ~new.paged /\ ~new.failed
  <2>1. ~IdleRun.paged /\ ~IdleRun.failed
    BY DEF IdleRun
  <2> QED
    BY <1>1, <1>4, <2>1, IdleState DEF RunStates
<1> HIDE DEF new
<1>7. CASE ~parallel
  <2> DEFINE s == [new EXCEPT !.pc = "single"]
  <2>1. s \in RunStates /\ s.pc = "single" /\ s.size = size /\ s.began = remote /\ ~s.paged
    BY <1>6 DEF RunStates
  <2>2. run' = s /\ UNCHANGED file
    BY <1>5, <1>7
  <2> HIDE DEF s
  <2>3. TypeInv'
    BY <1>2, <1>3, <2>1, <2>2 DEF IInv, TypeInv
  <2>4. FileOK'
    BY <1>2, <2>1, <2>2 DEF IInv, FileOK
  <2>5. RunOK(d, s, remote)
    BY <1>1, <1>4, <2>1 DEF RunOK
  <2> QED
    BY <1>2, <2>2, <2>3, <2>4, <2>5 DEF IInv
<1>8. CASE parallel
  <2> DEFINE m == PartCount(size)
             q == [i \in 1..m |-> Part]
             s == [new EXCEPT !.pc = "parts", !.parts = q]
             e == Truncated(d, size)
  <2>1. run' = s /\ file' = File(e)
    BY <1>5, <1>8 DEF PartCount
  <2>2. m \in Nat
    <3>1. size + PartLen - 1 \in Nat
      BY <1>4, DownloadAssumption
    <3> QED
      BY <3>1, Quotient DEF PartCount
  <2>3. q \in Seq(PartStates) /\ DOMAIN q = 1..m /\ \A i \in 1..m : q[i].pc = "wait"
    <3>1. q \in [1..m -> PartStates] /\ \A i \in 1..m : q[i].pc = "wait"
      BY FreshPart
    <3> QED
      BY <2>2, <3>1, SeqOf
  <2> HIDE DEF q
  <2>4. /\ s \in RunStates /\ s.pc = "parts" /\ s.size = size /\ s.began = remote /\ ~s.paged
        /\ s.parts = q
    BY <1>6, <2>3 DEF RunStates
  <2> HIDE DEF s
  <2>5. /\ e \in Seq(Units) /\ Len(e) = size
        /\ \A k \in 1..size : e[k] = IF k <= Len(d) THEN d[k] ELSE Hole
    BY <1>1, <1>4, TruncatedSeq
  <2> HIDE DEF e
  <2>6. \A k \in 1..Len(e) : e[k] = Hole \/ InPlace(e[k], k)
    <3>1. \A k \in 1..Len(d) : d[k] = Hole \/ InPlace(d[k], k)
      BY DEF IInv, FileOK
    <3>2. \A k \in 1..size : k <= Len(d) => k \in 1..Len(d)
      BY <1>1, <1>4
    <3> QED
      BY <2>5, <3>1, <3>2
  <2>7. file'.data = e /\ file'.there /\ file' \in [there : BOOLEAN, data : Seq(Units)]
    BY <2>1, <2>5 DEF File
  <2>8. TypeInv'
    BY <1>2, <1>3, <2>1, <2>4, <2>7 DEF IInv, TypeInv
  <2>9. FileOK'
    BY <2>1, <2>4, <2>6, <2>7 DEF FileOK
  <2>10. \A i \in DOMAIN s.parts : PartOK(s.parts[i], i, e, s, remote)
    BY <2>3, <2>4 DEF PartOK
  <2>11. \A k \in 1..Len(e) : ~(k > size)
    BY <1>4, <2>5
  <2>12. PartsOK(e, s, remote)
    BY <1>4, <1>8, <2>3, <2>4, <2>5, <2>10, <2>11 DEF PartsOK, PartCount
  <2>13. RunOK(e, s, remote)
    BY <1>1, <2>4, <2>12 DEF RunOK
  <2> QED
    BY <1>2, <2>1, <2>7, <2>8, <2>9, <2>13 DEF IInv
<1> QED
  BY <1>7, <1>8
\* What an opened stream brings: units in their places from the offset on and, when
\* the object is the one the run began with and this is no page, up to its end.
LEMMA Opening ==
    ASSUME IInv, run.pc = "single", NEW offset \in Nat,
           NEW body \in IF StartOffset > 0 THEN Ranged(StartOffset, run.size - StartOffset) ELSE Whole,
           offset = IF RangeIgnored(StartOffset, body) THEN 0 ELSE StartOffset
    PROVE  /\ Reading(body, offset)
           /\ (body # ErrorPage /\ remote = run.began) => offset + Len(body) = Sizes[remote]
<1>1. /\ TypeInv /\ Len(file.data) \in Nat /\ run.size \in Nat /\ Sizes[remote] \in Nat
      /\ run.size \in {0, Sizes[run.began]}
  BY Known DEF IInv, RunOK, RunStates
<1>2. StartOffset \in Nat /\ (StartOffset > 0 => run.size > StartOffset)
  BY <1>1 DEF StartOffset
<1>3. CASE RangeIgnored(StartOffset, body)
  <2>1. StartOffset > 0 /\ ~ranges /\ body # ErrorPage /\ offset = 0
    BY <1>3 DEF RangeIgnored
  <2>2. body = Version(remote)
    BY <2>1 DEF Ranged, Beyond
  <2>3. body \in Whole
    BY <2>2 DEF Whole
  <2>4. Reading(body, 0) /\ Len(body) = Sizes[remote]
    BY <1>1, <2>1, <2>3, WholeReading
  <2> QED
    BY <1>1, <2>1, <2>4
<1>4. CASE ~RangeIgnored(StartOffset, body) /\ StartOffset > 0
  <2> DEFINE n == run.size - StartOffset
  <2>1. n \in Nat /\ StartOffset + n = run.size /\ run.size = Sizes[run.began]
    BY <1>1, <1>2, <1>4
  <2>2. body \in Ranged(StartOffset, n)
    BY <1>4
  <2> HIDE DEF n
  <2>3. /\ Reading(body, StartOffset)
        /\ (body # ErrorPage /\ StartOffset + n = Sizes[remote]) => StartOffset + Len(body) = Sizes[remote]
    BY <1>1, <1>2, <1>4, <2>1, <2>2, RangedReading
  <2>4. offset = StartOffset
    BY <1>4
  <2> HIDE DEF StartOffset
  <2> QED
    BY <2>1, <2>3, <2>4
<1>5. CASE ~(StartOffset > 0)
  <2>1. offset = 0 /\ body \in Whole
    BY <1>2, <1>5
  <2>2. Reading(body, 0) /\ (body # ErrorPage => Len(body) = Sizes[remote])
    BY <1>1, <2>1, WholeReading
  <2> QED
    BY <1>1, <2>1, <2>2
<1> QED
  BY <1>3, <1>4, <1>5

LEMMA DownloadSingleStep == ASSUME IInv, DownloadSingle PROVE IInv'
<1> DEFINE d == file.data
<1>1. /\ run.pc = "single" /\ run.began \in 1..remote /\ run.size \in {0, Sizes[run.began]} /\ ~run.paged
      /\ UNCHANGED <<remote, ranges, runs>>
  BY DEF DownloadSingle, IInv, RunOK
<1>2. /\ d \in Seq(Units) /\ Len(d) \in Nat /\ run \in RunStates /\ run.size \in Nat
      /\ trouble \in Nat /\ left \in BOOLEAN
      /\ d # <<>> => file.there
      /\ \A k \in 1..Len(d) : d[k] = Hole \/ InPlace(d[k], k)
      /\ ~left => \A k \in 1..Len(d) : d[k] # Hole
  BY <1>1, Known DEF IInv, TypeInv, FileOK, RunStates
<1>3. CASE file.there /\ run.size > 0 /\ Len(d) = run.size
  <2> DEFINE kept == {d[k] : k \in 1..run.size}
             s    == [run EXCEPT !.pc = "done", !.kept = kept]
  <2>1. run' = s /\ UNCHANGED <<file, trouble, left>>
    BY <1>3 DEF DownloadSingle
  <2>2. kept \in SUBSET Units /\ \A k \in 1..Len(d) : d[k] \in kept
    BY <1>2, <1>3
  <2> HIDE DEF kept
  <2>3. s \in RunStates /\ s.pc = "done" /\ s.began = run.began /\ s.kept = kept
    BY <1>2, <2>2 DEF RunStates
  <2> HIDE DEF s
  <2>4. DoneOK(d, s, remote)
    <3>1. KeptOrRight(d, s, remote)
      BY <2>2, <2>3 DEF KeptOrRight
    <3>2. Len(d) = Sizes[s.began]
      BY <1>1, <1>3, <2>3
    <3> QED
      BY <3>1, <3>2 DEF DoneOK
  <2> QED
    BY <1>1, <1>2, <1>3, <2>1, <2>3, <2>4, RunSucceeds
<1>4. CASE ~(file.there /\ run.size > 0 /\ Len(d) = run.size)
  <2>1. PICK body \in IF StartOffset > 0 THEN Ranged(StartOffset, run.size - StartOffset) ELSE Whole :
          Answered(StartOffset, body) /\ Open(body) /\ left' = (left /\ run'.kept # {})
    BY <1>4 DEF DownloadSingle
  <2> DEFINE offset == IF RangeIgnored(StartOffset, body) THEN 0 ELSE StartOffset
             e      == IF offset > 0 THEN d ELSE <<>>
             kept   == {d[k] : k \in 1..offset}
             flag   == body = ErrorPage
             s      == [run EXCEPT !.pc = "copy", !.body = body, !.at = offset, !.paged = flag, !.kept = kept]
  <2>2. offset \in Nat /\ (offset > 0 => offset = Len(d) /\ d # <<>>)
    BY <1>2 DEF StartOffset
  <2>3. /\ run' = s /\ file' = (IF offset > 0 THEN file ELSE File(<<>>))
    BY <2>1 DEF Open
  <2>4. /\ Reading(body, offset)
        /\ (body # ErrorPage /\ remote = run.began) => offset + Len(body) = Sizes[remote]
    BY <1>1, <2>1, <2>2, Opening
  <2> HIDE DEF offset
  <2>5. /\ e \in Seq(Units) /\ Len(e) = offset /\ \A k \in 1..Len(e) : e[k] = d[k] /\ k \in 1..Len(d)
    BY <1>2, <2>2
  <2>6. kept \in SUBSET Units /\ (\A k \in 1..Len(e) : e[k] \in kept)
        /\ (kept = {} => offset = 0)
    <3>1. \A k \in 1..offset : k \in 1..Len(d) /\ d[k] \in Units
      BY <1>2, <2>2
    <3>2. kept = {} => offset = 0
      <4>1. offset > 0 => d[1] \in kept
        <5>1. offset > 0 => 1 \in 1..offset
          BY <2>2
        <5> QED
          BY <5>1
      <4> HIDE DEF kept
      <4> QED
        BY <2>2, <4>1
    <3> QED
      BY <2>5, <3>1, <3>2
  <2>7. flag \in BOOLEAN /\ body \in Seq(Units)
    BY <2>4 DEF Reading
  <2> HIDE DEF kept, flag
  <2>8. /\ s \in RunStates /\ s.pc = "copy" /\ s.size = run.size /\ s.began = run.began /\ s.body = body
        /\ s.at = offset /\ s.paged = flag /\ s.kept = kept
    BY <1>2, <2>2, <2>6, <2>7 DEF RunStates
  <2> HIDE DEF s
  <2>9. Right(s, remote) => body # ErrorPage /\ remote = run.began
    BY <2>8 DEF Right, flag
  <2>10. file' \in [there : BOOLEAN, data : Seq(Units)] /\ file'.there /\ file'.data = e
    <3>1. CASE offset > 0
      BY <1>2, <2>2, <2>3, <3>1 DEF IInv, TypeInv
    <3>2. CASE ~(offset > 0)
      BY <2>3, <2>5, <3>2 DEF File
    <3> QED
      BY <3>1, <3>2
  <2> HIDE DEF e
  <2>11. trouble' \in Nat /\ left' \in BOOLEAN /\ (~left' => ~left \/ kept = {})
    BY <1>2, <2>1, <2>3, <2>8 DEF Answered
  <2>12. TypeInv'
    BY <1>1, <2>3, <2>8, <2>10, <2>11 DEF IInv, TypeInv
  <2>13. FileOK'
    <3>1. \A k \in 1..Len(e) : e[k] = Hole \/ InPlace(e[k], k)
      BY <1>2, <2>5
    <3>2. ~left' => \A k \in 1..Len(e) : e[k] # Hole
      BY <1>2, <2>5, <2>6, <2>11
    <3> QED
      BY <2>3, <2>8, <2>10, <3>1, <3>2 DEF FileOK
  <2>14. Coming(body, s, remote, offset)
    BY <2>2, <2>4, <2>9, ReadingComing
  <2>15. KeptOrRight(e, s, remote)
    BY <2>6, <2>8 DEF KeptOrRight
  <2>16. Right(s, remote) => offset + Len(body) = Sizes[run.began]
    BY <2>4, <2>9
  <2>17. CopyOK(e, s, remote)
    BY <2>5, <2>8, <2>14, <2>15, <2>16 DEF CopyOK
  <2>18. RunOK(e, s, remote)
    BY <1>1, <2>8, <2>17 DEF RunOK
  <2> QED
    BY <1>1, <2>3, <2>10, <2>12, <2>13, <2>18 DEF IInv
<1> QED
  BY <1>3, <1>4
-----------------------------------------------------------------------------

LEMMA StepOK == IInv /\ [DownloadNext]_downloadVars => IInv'
<1> SUFFICES ASSUME IInv, [DownloadNext]_downloadVars PROVE IInv'
  OBVIOUS
<1>1. CASE Replace
  BY <1>1, ReplaceStep
<1>2. CASE \E known, parallel \in BOOLEAN : Download(known, parallel)
  BY <1>2, DownloadStep
<1>3. CASE DownloadSingle
  BY <1>3, DownloadSingleStep
<1>4. CASE Copy
  BY <1>4, CopyStep
<1>5. CASE EndOfStream
  BY <1>5, EndOfStreamStep
<1>6. CASE SingleFails
  BY <1>6, SingleFailsStep
<1>7. ASSUME NEW i \in DOMAIN run.parts,
             StartPart(i) \/ GetPart(i) \/ CopyPart(i) \/ EndOfPart(i) \/ PartFails(i)
      PROVE  IInv'
  BY <1>7, StartPartStep, GetPartStep, CopyPartStep, EndOfPartStep, PartFailsStep
<1>8. CASE FinishParts
  BY <1>8, FinishPartsStep
<1>9. CASE ClientCrash
  BY <1>9, ClientCrashStep
<1>10. CASE Return
  BY <1>10, ReturnStep
<1>11. CASE UNCHANGED downloadVars
  BY <1>11 DEF downloadVars, IInv, TypeInv, FileOK, RunOK, CopyOK, PartsOK, DoneOK, KeptOrRight,
               Coming, PartOK, Covered, Right, Start
<1> QED
  BY <1>1, <1>2, <1>3, <1>4, <1>5, <1>6, <1>7, <1>8, <1>9, <1>10, <1>11 DEF DownloadNext

\* What a download keeps true of the destination, its stream and its parts.
THEOREM DownloadInvariance == DownloadSpec => []IInv
<1>1. DownloadInit => IInv
  BY InitOK
<1>2. IInv /\ [DownloadNext]_downloadVars => IInv'
  BY StepOK
<1> QED
  BY <1>1, <1>2, PTL DEF DownloadSpec

\* A unit of the version in the file lies in its own place.
LEMMA KeptInPlace ==
    ASSUME NEW v \in Nat, v # 0, NEW k \in Nat, NEW u, InPlace(u, k), NEW j \in Nat, u = Unit(v, j)
    PROVE  u = Unit(v, k)
BY UnitFields DEF InPlace

LEMMA WholeWhenDone == IInv => FinishedIsWhole
<1> SUFFICES ASSUME IInv, run.pc = "done", ~run.paged, remote = run.began,
                    \A u \in run.kept : u \in {Unit(remote, k) : k \in 1..Sizes[remote]} \cup {Hole},
                    ~left
             PROVE  file = File(Version(remote))
  BY DEF FinishedIsWhole
<1> DEFINE d == file.data
<1>1. /\ d \in Seq(Units) /\ remote \in Nat /\ remote \in 1..Len(Sizes) /\ remote # 0 /\ Sizes[remote] \in Nat
      /\ file \in [there : BOOLEAN, data : Seq(Units)]
  BY Known, DownloadAssumption DEF IInv, TypeInv
<1>2. /\ file.there
      /\ \A k \in 1..Len(d) : d[k] # Hole /\ (d[k] = Hole \/ InPlace(d[k], k))
  BY DEF IInv, FileOK
<1>3. DoneOK(d, run, remote) /\ Right(run, remote)
  BY DEF IInv, RunOK, Right
<1>4. Len(d) = Sizes[remote]
  BY <1>3 DEF DoneOK
<1>5. ASSUME NEW k \in 1..Len(d) PROVE d[k] = Unit(remote, k)
  <2>1. CASE d[k] \in run.kept
    <3>1. PICK j \in 1..Sizes[remote] : d[k] = Unit(remote, j)
      BY <1>2, <2>1
    <3>2. k \in Nat /\ j \in Nat /\ InPlace(d[k], k)
      BY <1>1, <1>2, <1>4
    <3> QED
      BY <1>1, <3>1, <3>2, KeptInPlace
  <2>2. CASE d[k] \notin run.kept
    BY <1>3, <2>2 DEF DoneOK, KeptOrRight
  <2> QED
    BY <2>1, <2>2
<1>6. d = Version(remote)
  <2>1. d = [k \in 1..Len(d) |-> d[k]]
    BY <1>1
  <2> QED
    BY <1>4, <1>5, <2>1 DEF Version
<1>7. file = [there |-> file.there, data |-> d]
  BY <1>1
<1> QED
  BY <1>2, <1>6, <1>7 DEF File

\* A run that reports success leaves the object at the destination, every unit of
\* one version in its place (downloadSingle, downloadParallel): for objects, parts
\* and error pages of every size, any number of workers, attempts and versions.
THEOREM DownloadedIsWhole == DownloadSpec => []FinishedIsWhole
BY DownloadInvariance, WholeWhenDone, PTL
==============================================================================
