------------------------------ MODULE Uploads ------------------------------
(***************************************************************************)
(* Uploading one file: the client's transfer engine with its checkpoint    *)
(* (uploader.go, retry.go, chunk.go), the server's multipart sessions      *)
(* (multipart_workflow.go), the completion of an upload by the four        *)
(* storage providers, and the registration that follows                    *)
(* (orchestrator.go).                                                      *)
(*                                                                         *)
(* A run is one client process uploading the file; several may overlap or  *)
(* follow one another, and all of them share the checkpoint file.  A call  *)
(* is one completion request inside the server: it goes on when its client *)
(* has given up or died.  Content is abstracted to the version of the      *)
(* source file a part was read from, which also stands for its ETag.       *)
(*                                                                         *)
(* A PUT to s3, azure or gcs takes effect at once or not at all.  In a     *)
(* file bucket the client writes the part, or the whole small file, in its *)
(* place: it truncates what is there and copies, and others see what has   *)
(* been copied so far (client/transfer/http.go:20-38).                     *)
(***************************************************************************)
EXTENDS Naturals, FiniteSets

CONSTANTS
    Runs,         \* client processes
    Calls,        \* completion requests in the server
    MaxPart,      \* parts of the file
    MaxVersion,   \* bound: versions of the source file
    MaxUploads,   \* bound: multipart uploads begun
    MaxStarts,    \* bound: client processes started
    MaxFaults,    \* bound: faults
    Providers,    \* of s3, azure, gcs, file: those the bucket may have
    Absent, NoCall, NoRun

Parts    == 1 .. MaxPart
Uploads  == 1 .. MaxUploads
Versions == 1 .. MaxVersion
Torn     == MaxVersion + 1         \* a part that is not the whole of one version
Contents == [Parts -> 0 .. Torn]   \* 0: the part is missing

Nothing    == [p \in Parts |-> 0]
WholeOf(v) == [p \in Parts |-> v]
Full(c)    == \A p \in Parts : c[p] # 0

ASSUME UploadAssumption ==
    /\ MaxPart \in Nat \ {0} /\ MaxVersion \in Nat \ {0} /\ MaxUploads \in Nat \ {0}
    /\ MaxStarts \in Nat /\ MaxFaults \in Nat
    /\ Providers \subseteq {"s3", "azure", "gcs", "file"}
    /\ Absent \notin Contents /\ NoCall \notin Calls /\ NoRun \notin Runs

VARIABLES
    provider,   \* the provider of the bucket
    small,      \* whether the file is below the multipart limit
    file,       \* the version of the source file
    ckpt,       \* the checkpoint: uid 0 when it is missing or unreadable
    run,        \* run[r]: the client processes
    session,    \* session[u]: none, open, or completed (no longer in the map)
    token,      \* token[u]: the call that holds the session's token, or NoCall
    call,       \* call[k]: the completion requests
    begun,      \* the multipart uploads begun
    store,      \* store[u]: the parts the provider holds
    object,     \* the object under the file's key
    starts, faults,   \* processes and faults left
    landed, closed, told, tainted, spoiled, rewritten,   \* history: sets of uploads
    broken      \* history: the last write of a small file stored no whole version

server  == <<session, token, call>>
storage == <<provider, small, store, object>>
history == <<landed, closed, told, tainted, spoiled, rewritten, broken>>
vars == <<file, ckpt, run, server, begun, storage, starts, faults, history>>

NoCheckpoint == [uid |-> 0, ver |-> 0, done |-> Nothing]

IdleRun == [pc |-> "idle", uid |-> 0, ver |-> 0, done |-> Nothing,
            work |-> [p \in Parts |-> "todo"], call |-> NoCall]

IdleCall == [pc |-> "idle", uid |-> 0, parts |-> Nothing, run |-> NoRun]

Init ==
    /\ provider \in Providers
    /\ small \in BOOLEAN
    /\ file = 1
    /\ ckpt = NoCheckpoint
    /\ run = [r \in Runs |-> IdleRun]
    /\ session = [u \in Uploads |-> "none"]
    /\ token = [u \in Uploads |-> NoCall]
    /\ call = [k \in Calls |-> IdleCall]
    /\ begun = 0
    /\ store = [u \in Uploads |-> Nothing]
    /\ object = Absent
    /\ starts = MaxStarts /\ faults = MaxFaults
    /\ landed = {} /\ closed = {} /\ told = {} /\ tainted = {} /\ spoiled = {} /\ rewritten = {}
    /\ broken = FALSE

\* One of the bounded number of things that go wrong.
Fault == faults > 0 /\ faults' = faults - 1

-----------------------------------------------------------------------------
(* The client process. *)

\* Processes and calls are interchangeable: a new one takes the first free name.
FreeRun  == CHOOSE r \in Runs : (\E q \in Runs : run[q].pc = "idle") => run[r].pc = "idle"
FreeCall == CHOOSE k \in Calls : (\E q \in Calls : call[q].pc = "idle") => call[k].pc = "idle"

\* The engine returns, with or without an error.
Ends(r) == run' = [run EXCEPT ![r] = IdleRun]

\* The rest of RegisterFile registers the record and sets its access methods; what
\* that does to the catalogue, or where it fails, is the subject of ContentStore.
RegisterFile(r) == Ends(r)

\* Path, GUID, key, bucket and sizes are those of the one file modelled here; its
\* modification time is what changes.
matches(st, ver) == st.uid # 0 /\ st.ver = ver

\* A process opens the file, stats it and loads the checkpoint, which is missing
\* when it has grown stale and unreadable when a process died writing it.  A small
\* file is sent with one PUT.
Upload(r) ==
    /\ r = FreeRun
    /\ run[r].pc = "idle"
    /\ starts > 0 /\ starts' = starts - 1
    /\ \E kept \in {ckpt, NoCheckpoint} :
         /\ ckpt' = kept
         /\ run' = [run EXCEPT ![r] =
              IF small THEN [IdleRun EXCEPT !.pc = "single", !.ver = file]
              ELSE IF matches(kept, file)
                THEN [IdleRun EXCEPT !.pc = "parts", !.uid = kept.uid, !.ver = file, !.done = kept.done,
                        !.work = [p \in Parts |-> IF kept.done[p] = 0 THEN "todo" ELSE "done"]]
                ELSE [IdleRun EXCEPT !.pc = "init", !.ver = file]]
    /\ UNCHANGED <<file, server, begun, storage, faults, history>>

\* A file bucket: the object is truncated in its place.  Whoever was writing it
\* goes on behind the new writer, who overwrites it all.
OpenObject(r) ==
    /\ provider = "file"
    /\ run[r].pc = "single"
    /\ object' = WholeOf(Torn)
    /\ run' = [q \in Runs |-> IF q = r THEN [run[q] EXCEPT !.pc = "writing"]
                              ELSE IF run[q].pc = "writing" THEN [run[q] EXCEPT !.pc = "cut"]
                              ELSE run[q]]
    /\ UNCHANGED <<file, ckpt, server, begun, provider, small, store, starts, faults, history>>

\* The source was edited since r, or a writer behind r, opened it.
Mixes(r) == \E q \in Runs : (q = r \/ run[q].pc = "cut") /\ run[q].ver # file

\* The body has been sent; of a writer behind another one only an edit shows.
Puts(r) ==
    \E mixed \in {FALSE, Mixes(r)} :
      IF mixed THEN object' = WholeOf(Torn) /\ broken' = TRUE
      ELSE IF run[r].pc = "cut" THEN UNCHANGED <<object, broken>>
      ELSE object' = WholeOf(file) /\ broken' = FALSE

\* The body was not sent, or not to its end.
CutsOff(r) == broken' = (broken \/ run[r].pc = "writing") /\ UNCHANGED object

\* One PUT to a presigned URL.  Its answer may be lost, or the PUT may fail: the
\* attempt is repeated, or it was the last one.
uploadSingle(r) ==
    /\ run[r].pc \in (IF provider = "file" THEN {"writing", "cut"} ELSE {"single"})
    /\ \/ Puts(r) /\ RegisterFile(r) /\ UNCHANGED faults
       \/ /\ Fault
          /\ Puts(r) \/ CutsOff(r)
          /\ run' \in {[run EXCEPT ![r].pc = "single"], [run EXCEPT ![r] = IdleRun]}
    /\ UNCHANGED <<file, ckpt, server, begun, provider, small, store, starts,
                   landed, closed, told, tainted, spoiled, rewritten>>

\* Begin at the server, then the first checkpoint.  When the answer is lost or the
\* checkpoint cannot be written, the session stays behind.
InitMultipart(r) ==
    /\ run[r].pc = "init"
    /\ begun < MaxUploads
    /\ begun' = begun + 1
    /\ session' = [session EXCEPT ![begun + 1] = "open"]
    /\ \/ /\ run' = [run EXCEPT ![r].pc = "parts", ![r].uid = begun + 1]
          /\ ckpt' = [uid |-> begun + 1, ver |-> run[r].ver, done |-> Nothing]
          /\ UNCHANGED faults
       \/ Fault /\ Ends(r) /\ UNCHANGED ckpt
    /\ UNCHANGED <<file, token, call, storage, starts, history>>

\* A failed attempt at a part: it is repeated, or it was the last one.
RetryAction(r, p) ==
    run' \in {[run EXCEPT ![r].work[p] = "todo"], [run EXCEPT ![r].work[p] = "failed"]}

\* An error that every further attempt meets again.
GivesUp(r, p) == run' = [run EXCEPT ![r].work[p] = "failed"] /\ UNCHANGED faults

\* The server signs a part only while it knows the session.
SignPart(r, p) ==
    /\ run[r].pc = "parts" /\ run[r].work[p] = "todo"
    /\ \/ /\ session[run[r].uid] = "open"
          /\ run' = [run EXCEPT ![r].work[p] = "signed"]
          /\ UNCHANGED faults
       \/ session[run[r].uid] # "open" /\ GivesUp(r, p)
       \/ Fault /\ RetryAction(r, p)
    /\ UNCHANGED <<file, ckpt, server, begun, storage, starts, history>>

\* The provider takes the part; S3 only while the upload is unfinished.
Accepts(u) == provider = "s3" => u \notin landed

\* A writer of the part is at work, or goes on behind another one or behind a deletion.
Writes(q, u, p) == run[q].uid = u /\ run[q].work[p] \in {"writing", "cut"}

CutPart(q, u, p) == IF Writes(q, u, p) THEN [run[q] EXCEPT !.work[p] = "cut"] ELSE run[q]

\* A file bucket: the part is truncated in its place, or cannot be opened.  (The
\* uploads of which a part was opened again that was stored, was being written or
\* had been used are remembered.)
OpenPart(r, p) ==
    LET u      == run[r].uid
        others == {q \in Runs \ {r} : Writes(q, u, p)}
        again  == store[u][p] \notin {0, Torn} \/ others # {} \/ u \in landed
    IN  /\ provider = "file"
        /\ run[r].pc = "parts" /\ run[r].work[p] = "signed"
        /\ \/ /\ store' = [store EXCEPT ![u][p] = Torn]
              /\ run' = [q \in Runs |-> IF q = r THEN [run[q] EXCEPT !.work[p] = "writing"]
                                        ELSE CutPart(q, u, p)]
              /\ rewritten' = IF again THEN rewritten \cup {u} ELSE rewritten
              /\ UNCHANGED faults
           \/ Fault /\ RetryAction(r, p) /\ UNCHANGED <<store, rewritten>>
        /\ UNCHANGED <<file, ckpt, server, begun, provider, small, object, starts,
                       landed, closed, told, tainted, spoiled, broken>>

\* The part is read from the file as it is now.  What was written behind another
\* writer is overwritten by it, and what was deleted stays deleted.
Stored(r, p) ==
    LET u == run[r].uid
    IN  /\ Accepts(u)
        /\ store' = IF run[r].work[p] = "cut" THEN store ELSE [store EXCEPT ![u][p] = file]
        /\ tainted' = IF file = run[r].ver THEN tainted ELSE tainted \cup {u}

\* The PUT of the part is under way: in a file bucket, from its opening.
Sending(r, p) ==
    /\ run[r].pc = "parts"
    /\ run[r].work[p] \in (IF provider = "file" THEN {"writing", "cut"} ELSE {"signed"})

\* Mutant: the part counts as done before it is uploaded.
RecordedFirst(r, p) ==
    /\ Sending(r, p)
    /\ \/ /\ Stored(r, p)
          /\ run' = [run EXCEPT ![r].work[p] = "done", ![r].done[p] = file]
          /\ ckpt' = [uid |-> run[r].uid, ver |-> run[r].ver, done |-> run'[r].done]
          /\ UNCHANGED faults
       \/ /\ Fault
          /\ run' = [run EXCEPT ![r].work[p] = "failed"]
          /\ ckpt' = [uid |-> run[r].uid, ver |-> run[r].ver, done |-> [run[r].done EXCEPT ![p] = file]]
          /\ UNCHANGED <<store, tainted>>
    /\ UNCHANGED <<file, server, begun, provider, small, object, starts,
                   landed, closed, told, spoiled, rewritten, broken>>

\* One attempt at a part: the PUT, then the checkpoint.  The PUT may fail, its
\* answer may be lost, and the checkpoint may not be written.
MultipartPart(r, p) ==
    /\ Sending(r, p)
    /\ \/ /\ Stored(r, p)
          /\ run' = [run EXCEPT ![r].work[p] = "done", ![r].done[p] = file]
          /\ ckpt' = [uid |-> run[r].uid, ver |-> run[r].ver, done |-> run'[r].done]
          /\ UNCHANGED faults
       \/ ~Accepts(run[r].uid) /\ GivesUp(r, p) /\ UNCHANGED <<ckpt, store, tainted>>
       \/ Fault /\ RetryAction(r, p) /\ UNCHANGED <<ckpt, store, tainted>>
       \/ /\ provider # "file"
          /\ Fault /\ Stored(r, p) /\ RetryAction(r, p) /\ UNCHANGED ckpt
       \/ /\ Fault /\ Stored(r, p) /\ UNCHANGED ckpt
          /\ run' \in {[run EXCEPT ![r].work[p] = w, ![r].done[p] = file] : w \in {"todo", "failed"}}
    /\ UNCHANGED <<file, server, begun, provider, small, object, starts,
                   landed, closed, told, spoiled, rewritten, broken>>

\* Every worker has returned.  After an error the checkpoint is left for a later
\* run; otherwise the completion is requested, and the server looks the session up.
Joined(r) ==
    /\ run[r].pc = "parts"
    /\ \A p \in Parts : run[r].work[p] \in {"done", "failed"}
    /\ IF (\E p \in Parts : run[r].work[p] = "failed") \/ session[run[r].uid] # "open"
         THEN Ends(r) /\ UNCHANGED call
         ELSE \E k \in Calls :
                /\ k = FreeCall /\ call[k].pc = "idle"
                /\ call' = [call EXCEPT ![k] = [pc |-> "waiting", uid |-> run[r].uid,
                                                parts |-> run[r].done, run |-> r]]
                /\ run' = [run EXCEPT ![r].pc = "completing", ![r].call = k]
    /\ UNCHANGED <<file, ckpt, session, token, begun, storage, starts, faults, history>>

\* The answer: on success the checkpoint goes and the registration follows.
Answered(r) ==
    LET k == run[r].call
    IN  /\ run[r].pc = "completing"
        /\ call[k].pc \in {"ok", "error"}
        /\ call' = [call EXCEPT ![k] = IdleCall]
        /\ IF call[k].pc = "ok"
             THEN /\ RegisterFile(r)
                  /\ ckpt' = NoCheckpoint
                  /\ told' = told \cup {run[r].uid}
             ELSE Ends(r) /\ UNCHANGED <<ckpt, told>>
        /\ UNCHANGED <<file, session, token, begun, storage, starts, faults,
                       landed, closed, tainted, spoiled, rewritten, broken>>

-----------------------------------------------------------------------------
(* The server: MultipartLifecycle.Complete, and the provider behind it. *)

\* The call's answer waits for its client; nobody waits for it when the client
\* has given up or died.
Reply(k, answer) ==
    call' = [call EXCEPT ![k] = IF @.run = NoRun THEN IdleCall
                                ELSE [@ EXCEPT !.pc = answer, !.parts = Nothing]]

Release(k) == token' = [token EXCEPT ![call[k].uid] = NoCall]

\* Mutant: an error returns without giving the token back.
KeptToken(k) == UNCHANGED token /\ Reply(k, "error") /\ UNCHANGED <<session, closed>>

\* A provider error keeps the session for another attempt.
Fails(k) == Release(k) /\ Reply(k, "error") /\ UNCHANGED <<session, closed>>

Succeeds(k) ==
    /\ session' = [session EXCEPT ![call[k].uid] = "completed"]
    /\ closed' = closed \cup {call[k].uid}
    /\ Release(k)
    /\ Reply(k, "ok")

\* Mutant: calls do not wait for one another.
NoToken(k) == TRUE

TokenFree(k) == token[call[k].uid] = NoCall

AlreadyCompleted(k) == session[call[k].uid] = "completed"

\* The token arrives; a call that waited while another one completed the upload
\* finds it completed.
Acquire(k) ==
    /\ call[k].pc = "waiting"
    /\ TokenFree(k)
    /\ IF AlreadyCompleted(k)
         THEN Reply(k, "error") /\ UNCHANGED token
         ELSE /\ token' = [token EXCEPT ![call[k].uid] = k]
              /\ call' = [call EXCEPT ![k].pc = "provider"]
    /\ UNCHANGED <<file, ckpt, run, session, begun, storage, starts, faults, history>>

\* The request's context ends while it waits.
Cancelled(k) ==
    /\ call[k].pc = "waiting"
    /\ Fault
    /\ Reply(k, "error")
    /\ UNCHANGED <<file, ckpt, run, session, token, begun, storage, starts, history>>

AtProvider(k, name) ==
    /\ call[k].pc = "provider"
    /\ provider = name
    /\ UNCHANGED <<file, ckpt, run, begun, provider, small, starts, told, tainted, rewritten, broken>>

\* The object gets the parts c of the call's upload.
Installs(k, c) == object' = c /\ landed' = landed \cup {call[k].uid}

\* Nothing changes at the provider.
Untouched == UNCHANGED <<store, object, landed, spoiled>>

\* S3 completes an unfinished upload whose parts have the listed ETags.  The
\* provider may fail, and its answer may be lost.
CompleteS3(k) ==
    LET u == call[k].uid
    IN  /\ AtProvider(k, "s3")
        /\ \/ /\ u \notin landed /\ store[u] = call[k].parts
              /\ Installs(k, store[u]) /\ UNCHANGED <<store, spoiled>>
              /\ \/ Succeeds(k) /\ UNCHANGED faults
                 \/ Fault /\ Fails(k)
           \/ (u \in landed \/ store[u] # call[k].parts) /\ Fails(k) /\ Untouched /\ UNCHANGED faults
           \/ Fault /\ Fails(k) /\ Untouched

\* Azure commits the blocks by their ids; blocks of other uploads that are not
\* committed go.
CompleteAzure(k) ==
    LET u == call[k].uid
    IN  /\ AtProvider(k, "azure")
        /\ \/ /\ Full(store[u])
              /\ Installs(k, store[u])
              /\ store' = [w \in Uploads |-> IF w = u THEN store[w] ELSE Nothing]
              /\ UNCHANGED spoiled
              /\ \/ Succeeds(k) /\ UNCHANGED faults
                 \/ Fault /\ Fails(k)
           \/ ~Full(store[u]) /\ Fails(k) /\ Untouched /\ UNCHANGED faults
           \/ Fault /\ Fails(k) /\ Untouched

\* The parts are composed into the object; then they are deleted one by one.
CompleteGCS(k) ==
    LET u == call[k].uid
    IN  /\ AtProvider(k, "gcs")
        /\ \/ /\ Full(store[u])
              /\ Installs(k, store[u])
              /\ call' = [call EXCEPT ![k].pc = "cleanup"]
              /\ UNCHANGED <<session, token, closed, store, spoiled, faults>>
           \/ ~Full(store[u]) /\ Fails(k) /\ Untouched /\ UNCHANGED faults
           \/ Fault /\ Fails(k) /\ Untouched

\* What is published of the parts c by a writer that is closed in part n: at its
\* beginning, or within it.
Prefix(c, n, last) == [p \in Parts |-> IF p < n THEN c[p] ELSE IF p = n THEN last ELSE 0]

Prefixes(c) ==
    {Prefix(c, n, last) : n \in {m \in Parts : \A q \in 1 .. m - 1 : c[q] # 0}, last \in {0, Torn}}

\* The parts are copied through a writer.  A part that is missing or cannot be
\* copied is an error, and the deferred Close still publishes what was copied.
CompleteFile(k) ==
    LET u == call[k].uid
    IN  /\ AtProvider(k, "file")
        /\ \/ /\ Full(store[u])
              /\ Installs(k, store[u])
              /\ call' = [call EXCEPT ![k].pc = "cleanup"]
              /\ UNCHANGED <<session, token, closed, store, spoiled, faults>>
           \/ /\ ~Full(store[u])
              /\ \E n \in Parts : /\ store[u][n] = 0 /\ \A q \in 1 .. n - 1 : store[u][q] # 0
                                  /\ object' = Prefix(store[u], n, 0)
              /\ Fails(k)
              /\ UNCHANGED <<store, landed, spoiled, faults>>
           \/ /\ Fault /\ Fails(k)
              /\ object' \in Prefixes(store[u])
              /\ spoiled' = spoiled \cup {u}
              /\ UNCHANGED <<store, landed>>
           \/ Fault /\ Full(store[u]) /\ Installs(k, store[u]) /\ Fails(k) /\ UNCHANGED <<store, spoiled>>
           \/ Fault /\ Fails(k) /\ Untouched

\* One part is deleted, in part order; the last one ends the call.  A deletion
\* that fails ends it with an error.  Who is writing a deleted file goes on.
DeletePart(k) ==
    LET u    == call[k].uid
        left == {p \in Parts : call[k].parts[p] # 0}
    IN  /\ call[k].pc = "cleanup"
        /\ \/ \E p \in left :
                /\ \A q \in left : p <= q
                /\ store' = [store EXCEPT ![u][p] = 0]
                /\ run' = [q \in Runs |-> CutPart(q, u, p)]
                /\ call' = [call EXCEPT ![k].parts[p] = 0]
                /\ UNCHANGED <<session, token, closed, spoiled, faults>>
           \/ left = {} /\ Succeeds(k) /\ UNCHANGED <<run, store, spoiled, faults>>
           \/ /\ Fault /\ left # {}
              /\ spoiled' = spoiled \cup {u}
              /\ Fails(k) /\ UNCHANGED <<run, store>>
        /\ UNCHANGED <<file, ckpt, begun, provider, small, object, starts,
                       landed, told, tainted, rewritten, broken>>

-----------------------------------------------------------------------------
(* What goes wrong around them. *)

\* A process dies; what the server was asked goes on, and what it was writing stays
\* as it is.
Crash(r) ==
    /\ run[r].pc # "idle"
    /\ Fault
    /\ Ends(r)
    /\ CutsOff(r)
    /\ call' = [k \in Calls |->
         IF call[k].run # r THEN call[k]
         ELSE IF call[k].pc \in {"ok", "error"} THEN IdleCall
         ELSE [call[k] EXCEPT !.run = NoRun]]
    /\ UNCHANGED <<file, ckpt, session, token, begun, provider, small, store, starts,
                   landed, closed, told, tainted, spoiled, rewritten>>

\* The client gives up waiting for the answer; the checkpoint stays.
TimedOut(r) ==
    /\ run[r].pc = "completing"
    /\ Fault
    /\ Ends(r)
    /\ LET k == run[r].call
       IN  call' = [call EXCEPT ![k] = IF @.pc \in {"ok", "error"} THEN IdleCall
                                       ELSE [@ EXCEPT !.run = NoRun]]
    /\ UNCHANGED <<file, ckpt, session, token, begun, storage, starts, history>>

\* The server restarts: the sessions are gone, and its clients see an error.
Restart ==
    /\ Fault
    /\ session' = [u \in Uploads |-> "none"]
    /\ token' = [u \in Uploads |-> NoCall]
    /\ call' = [k \in Calls |-> IdleCall]
    /\ run' = [r \in Runs |-> IF run[r].pc = "completing" THEN IdleRun ELSE run[r]]
    /\ UNCHANGED <<file, ckpt, begun, storage, starts, history>>

\* The user edits the source file.
Edit ==
    /\ file < MaxVersion
    /\ file' = file + 1
    /\ UNCHANGED <<ckpt, run, server, begun, storage, starts, faults, history>>

Client(r) ==
    \/ OpenObject(r) \/ uploadSingle(r) \/ InitMultipart(r)
    \/ \E p \in Parts : SignPart(r, p) \/ OpenPart(r, p) \/ MultipartPart(r, p)
    \/ Joined(r) \/ Answered(r)

Server(k) ==
    \/ Acquire(k)
    \/ CompleteS3(k) \/ CompleteAzure(k) \/ CompleteGCS(k) \/ CompleteFile(k)
    \/ DeletePart(k)

Next ==
    \/ \E r \in Runs : Upload(r) \/ Client(r) \/ Crash(r) \/ TimedOut(r)
    \/ \E k \in Calls : Server(k) \/ Cancelled(k)
    \/ Restart
    \/ Edit

Spec == Init /\ [][Next]_vars

\* The machines keep running: as long as a client process or a request goroutine
\* can go on, one of them does.
FairSpec == Spec /\ WF_<<run, call>>((\E r \in Runs : Client(r)) \/ (\E k \in Calls : Server(k)))

-----------------------------------------------------------------------------
(* Properties. *)

\* The uploads to which an exception applies: the source file was edited while it
\* was sent, or, in a file bucket, parts were written again that were stored or
\* being written.  To the small file, upload 0, one applies from the opening of a
\* direct write, or the sending of an edited file, to the next write that succeeds.
Excused ==
    tainted \cup rewritten \cup {u \in {0} : broken \/ \E r \in Runs : run[r].pc = "writing"}

Contract == INSTANCE UploadContract WITH
    excused <- Excused,
    content <- object,
    status  <- [u \in Uploads |-> IF u \in closed THEN "closed"
                                  ELSE IF u <= begun THEN "open" ELSE "none"]

\* Concurrent, crashed, abandoned and repeated uploads of one file implement the
\* contract: the object goes from one whole version to another, a completed upload
\* never touches it again, and success is reported only for a completed upload.
\* The exceptions the code has are stated with the contract.
Implements == Contract!ContractSpec

\* The checkpoint never claims a part the provider does not hold, so a resumed run
\* skips only what is really there: until a completion of the upload has reached the
\* provider, every part listed is stored as it was listed, unless the file was edited
\* while it was being uploaded, or Azure discarded the blocks at another's commit, or
\* in a file bucket another attempt is writing the part again, or was cut off at it.
CheckpointTruthful ==
    ckpt.uid # 0 /\ ckpt.uid \notin landed \cup tainted =>
      \A p \in Parts : ckpt.done[p] # 0 =>
        \/ store[ckpt.uid][p] = ckpt.done[p]
        \/ provider = "azure" /\ landed # {}
        \/ ckpt.uid \in rewritten /\ store[ckpt.uid][p] = Torn

\* Every run that waits for its completion is answered, and every other run comes to
\* an end: no failed or cancelled completion keeps the token from the next one.
EveryRunEnds == \A r \in Runs : run[r].pc # "idle" ~> run[r].pc \in {"idle", "init"}
=============================================================================
