------------------------------ MODULE Downloads ------------------------------
(***************************************************************************)
(* The client's download of one object to one path                         *)
(* (client/transfer/engine/downloader.go): a single stream that resumes by *)
(* appending, or parts written in parallel into a file allocated at its    *)
(* final size; answers of the storage provider that are broken, refused or *)
(* ignore the range; retries of parts; crashes, and later runs with        *)
(* options of their own that find what an earlier one left.                *)
(*                                                                         *)
(* Data.  Bytes come in units.  A unit knows the version of the object and *)
(* the place it was read from; a hole is what Truncate leaves, and a page  *)
(* is the body of an answer with an error status.                          *)
(***************************************************************************)
EXTENDS Naturals, Sequences, FiniteSets

CONSTANTS
    Sizes,      \* Sizes[v]: the units of version v of the object
    PartLen,    \* chunkSize
    PageLen,    \* the units of an error page
    Workers,    \* concurrency
    Attempts,   \* attempts RetryAction makes for a part
    MaxRuns,    \* bound: runs
    MaxTrouble  \* bound: broken streams, failed or refused requests, crashes

ASSUME DownloadAssumption ==
    /\ Sizes \in Seq(Nat) /\ Len(Sizes) > 0
    /\ PartLen \in Nat \ {0} /\ PageLen \in Nat
    /\ {Workers, Attempts, MaxRuns, MaxTrouble} \subseteq Nat

VARIABLES
    remote,     \* the version the provider holds; the record tells its size
    ranges,     \* the provider honours ranges
    file,       \* the destination
    run,        \* the run: its phase, and the stream or the parts it copies
    runs, trouble,
    left        \* history: a parallel run crashed and its file is still there

downloadVars == <<remote, ranges, file, run, runs, trouble, left>>

Unit(v, k) == [v |-> v, k |-> k]
Hole == Unit(0, 0)
ErrorPage == [k \in 1..PageLen |-> Unit(0, 1)]
Version(v) == [k \in 1..Sizes[v] |-> Unit(v, k)]

Least(a, b) == IF a < b THEN a ELSE b

NoFile == [there |-> FALSE, data |-> <<>>]
File(data) == [there |-> TRUE, data |-> data]

\* os.File.Truncate, and writing unit u at position k of a file long enough.
Truncated(data, n) == [k \in 1..n |-> IF k <= Len(data) THEN data[k] ELSE Hole]
Written(data, k, u) == [Truncated(data, IF k > Len(data) THEN k ELSE Len(data)) EXCEPT ![k] = u]

IdleRun == [pc |-> "idle", size |-> 0, body |-> <<>>, at |-> 0, parts |-> <<>>,
         failed |-> FALSE, began |-> 0, kept |-> {}, paged |-> FALSE]

DownloadInit ==
    /\ remote = 1
    /\ ranges \in BOOLEAN
    /\ file = NoFile
    /\ run = IdleRun
    /\ runs = 0 /\ trouble = 0
    /\ left = FALSE

-----------------------------------------------------------------------------
(* The provider. *)

Replace ==
    /\ remote < Len(Sizes)
    /\ remote' = remote + 1
    /\ UNCHANGED <<ranges, file, run, runs, trouble, left>>

\* GetReader: the object, or the body of a refusal, whose status nobody looks at.
Whole == {Version(remote), ErrorPage}

\* A range that begins after the end of the object is refused.
Beyond(from) == ranges /\ from >= Sizes[remote]

\* GetRangeReader from position from on (0 is the start).  Without a range an
\* answer is only noticed when the range does not begin at the start.
Ranged(from, n) ==
    LET body == IF ranges THEN SubSeq(Version(remote), from + 1, Least(from + n, Sizes[remote]))
                          ELSE Version(remote)
    IN  IF Beyond(from) THEN {ErrorPage} ELSE {body, ErrorPage}

RangeIgnored(from, body) == from > 0 /\ ~ranges /\ body # ErrorPage

\* A request refused without a reason is one of the troubles that are counted.
Answered(from, body) ==
    LET refused == body = ErrorPage /\ ~Beyond(from)
    IN  /\ refused => trouble < MaxTrouble
        /\ trouble' = trouble + (IF refused THEN 1 ELSE 0)

-----------------------------------------------------------------------------
(* A run. *)

Start(i) == (i - 1) * PartLen
Length(i) == Least(PartLen, run.size - Start(i))

Part == [pc |-> "wait", tries |-> 0, body |-> <<>>, n |-> 0]

\* Stat: the size of the record, or 0 when only a URL could be had; the threshold
\* decides between the two ways.  downloadParallel opens the file as it is and
\* allocates it.
Download(known, parallel) ==
    /\ run.pc = "idle"
    /\ runs < MaxRuns
    /\ runs' = runs + 1
    /\ parallel => known
    /\ LET size == IF known THEN Sizes[remote] ELSE 0
           new == [IdleRun EXCEPT !.size = size, !.began = remote]
       IN  IF parallel
             THEN /\ file' = File(Truncated(file.data, size))
                  /\ run' = [new EXCEPT !.pc = "parts",
                               !.parts = [i \in 1..((size + PartLen - 1) \div PartLen) |-> Part]]
             ELSE /\ run' = [new EXCEPT !.pc = "single"]
                  /\ UNCHANGED file
    /\ UNCHANGED <<remote, ranges, trouble, left>>

Success == run' = [run EXCEPT !.pc = "done"]
Failure == run' = IdleRun

\* A file that can be continued.
StartOffset == IF Len(file.data) > 0 /\ run.size > Len(file.data) THEN Len(file.data) ELSE 0

\* The destination is opened for appending after a range, and emptied otherwise;
\* the whole object is asked for again when the range was ignored.
Open(body) ==
    LET offset == IF RangeIgnored(StartOffset, body) THEN 0 ELSE StartOffset
    IN  /\ file' = IF offset > 0 THEN file ELSE File(<<>>)
        /\ run' = [run EXCEPT !.pc = "copy", !.body = body, !.at = offset, !.paged = body = ErrorPage,
                              !.kept = {file.data[k] : k \in 1..offset}]

\* downloadSingle up to the copy.
DownloadSingle ==
    /\ run.pc = "single"
    /\ IF file.there /\ run.size > 0 /\ Len(file.data) = run.size
         THEN /\ run' = [run EXCEPT !.pc = "done", !.kept = {file.data[k] : k \in 1..run.size}]
              /\ UNCHANGED <<file, trouble, left>>
         ELSE \E body \in IF StartOffset > 0 THEN Ranged(StartOffset, run.size - StartOffset) ELSE Whole :
                /\ Answered(StartOffset, body)
                /\ Open(body)
                /\ left' = (left /\ run'.kept # {})
    /\ UNCHANGED <<remote, ranges, runs>>

\* io.Copy, a unit at a time.
Copy ==
    /\ run.pc = "copy"
    /\ run.body # <<>>
    /\ file' = File(Written(file.data, run.at + 1, Head(run.body)))
    /\ run' = [run EXCEPT !.at = @ + 1, !.body = Tail(@)]
    /\ UNCHANGED <<remote, ranges, runs, trouble, left>>

\* Only a file that is too short is noticed.
EndOfStream ==
    /\ run.pc = "copy"
    /\ run.body = <<>>
    /\ IF run.size > 0 /\ run.at < run.size THEN Failure ELSE Success
    /\ UNCHANGED <<remote, ranges, file, runs, trouble, left>>

\* The request fails, the stream breaks, or the progress callback fails: what was
\* written stays.
SingleFails ==
    /\ run.pc \in {"single", "copy"}
    /\ trouble < MaxTrouble
    /\ trouble' = trouble + 1
    /\ Failure
    /\ UNCHANGED <<remote, ranges, file, runs, left>>

-----------------------------------------------------------------------------
(* Parts. *)

SetPart(i, p) == run' = [run EXCEPT !.parts[i] = p]

Active == {i \in DOMAIN run.parts : run.parts[i].pc \in {"get", "copy"}}

\* errgroup.Go starts the parts in order, Workers at a time, the cancelled ones too.
StartPart(i) ==
    /\ run.pc = "parts"
    /\ run.parts[i].pc = "wait"
    /\ \A j \in 1..(i - 1) : run.parts[j].pc # "wait"
    /\ Cardinality(Active) < Workers
    /\ SetPart(i, [run.parts[i] EXCEPT !.pc = "get"])
    /\ UNCHANGED <<remote, ranges, file, runs, trouble, left>>

\* RetryAction: another attempt, or the error that cancels the group.
Retry(i) ==
    LET p == run.parts[i]
    IN  IF run.failed \/ p.tries + 1 = Attempts
          THEN run' = [run EXCEPT !.parts[i] = [Part EXCEPT !.pc = "ended"], !.failed = TRUE]
          ELSE SetPart(i, [Part EXCEPT !.pc = "get", !.tries = p.tries + 1])

GetPart(i) ==
    /\ run.pc = "parts"
    /\ run.parts[i].pc = "get"
    /\ ~run.failed
    /\ \E body \in Ranged(Start(i), Length(i)) :
         /\ Answered(Start(i), body)
         /\ IF RangeIgnored(Start(i), body)
              THEN Retry(i)
              ELSE run' = [run EXCEPT !.parts[i] = [@ EXCEPT !.pc = "copy", !.body = body, !.n = 0],
                                      !.paged = @ \/ body = ErrorPage]
    /\ UNCHANGED <<remote, ranges, file, runs, left>>

CopyPart(i) ==
    /\ run.pc = "parts"
    /\ run.parts[i].pc = "copy"
    /\ run.parts[i].body # <<>>
    /\ LET p == run.parts[i]
       IN  /\ file' = File(Written(file.data, Start(i) + p.n + 1, Head(p.body)))
           /\ SetPart(i, [p EXCEPT !.n = @ + 1, !.body = Tail(@)])
    /\ UNCHANGED <<remote, ranges, runs, trouble, left>>

\* written # partLength: an error like any other.
EndOfPart(i) ==
    /\ run.pc = "parts"
    /\ run.parts[i].pc = "copy"
    /\ run.parts[i].body = <<>>
    /\ IF run.parts[i].n = Length(i) THEN SetPart(i, [Part EXCEPT !.pc = "ended"]) ELSE Retry(i)
    /\ UNCHANGED <<remote, ranges, file, runs, trouble, left>>

\* A request or a stream fails; after a cancellation every one does.
PartFails(i) ==
    /\ run.pc = "parts"
    /\ i \in Active
    /\ \/ run.failed /\ UNCHANGED trouble
       \/ ~run.failed /\ trouble < MaxTrouble /\ trouble' = trouble + 1
    /\ Retry(i)
    /\ UNCHANGED <<remote, ranges, file, runs, left>>

\* Mutant: the file of a failed run is left for the next one.
KeepIncomplete == UNCHANGED file

\* "remove the incomplete file so retries do not mistake it for a completed cache
\* entry"
RemoveIncomplete == file' = NoFile

\* g.Wait
FinishParts ==
    /\ run.pc = "parts"
    /\ \A i \in DOMAIN run.parts : run.parts[i].pc = "ended"
    /\ IF run.failed THEN Failure /\ RemoveIncomplete ELSE Success /\ UNCHANGED file
    /\ left' = FALSE
    /\ UNCHANGED <<remote, ranges, runs, trouble>>

-----------------------------------------------------------------------------
\* The process is killed; a part may be written, and nothing is cleaned up.
ClientCrash ==
    /\ run.pc \in {"copy", "parts"}
    /\ trouble < MaxTrouble
    /\ trouble' = trouble + 1
    /\ left' = (left \/ run.pc = "parts")
    /\ Failure
    /\ UNCHANGED <<remote, ranges, file, runs>>

Return ==
    /\ run.pc = "done"
    /\ run' = IdleRun
    /\ UNCHANGED <<remote, ranges, file, runs, trouble, left>>

DownloadNext ==
    \/ Replace
    \/ \E known, parallel \in BOOLEAN : Download(known, parallel)
    \/ DownloadSingle \/ Copy \/ EndOfStream \/ SingleFails
    \/ \E i \in DOMAIN run.parts :
         StartPart(i) \/ GetPart(i) \/ CopyPart(i) \/ EndOfPart(i) \/ PartFails(i)
    \/ FinishParts \/ ClientCrash \/ Return

DownloadSpec == DownloadInit /\ [][DownloadNext]_downloadVars

-----------------------------------------------------------------------------
(* Properties. *)

\* A run that reports success leaves the object at the destination, every unit of
\* one version in its place, whatever earlier runs left there, however its parts
\* were retried and whether or not ranges were honoured.  What the code does not
\* guard against: an error page taken for content, now or in the part that is
\* kept, an object replaced during the run or since the part that is kept, and, in a single run, the file a parallel
\* run allocated before it crashed (downloader.go, data_stream.go).
FinishedIsWhole ==
    (/\ run.pc = "done"
     /\ ~run.paged
     /\ remote = run.began
     /\ \A u \in run.kept : u \in {Unit(remote, k) : k \in 1..Sizes[remote]} \cup {Hole}
     /\ ~left)
    => file = File(Version(remote))

=============================================================================
