--------------------------- MODULE UploadsProofs ---------------------------
(***************************************************************************)
(* For any number of client processes, completion requests, parts,         *)
(* versions of the source file, uploads and faults, and on each of the     *)
(* four providers: the checkpoint claims only parts the provider holds,    *)
(* with the exceptions stated there, and the upload path implements        *)
(* UploadContract.                                                         *)
(***************************************************************************)
EXTENDS Uploads, TLAPS

WorkStates == {"todo", "signed", "writing", "cut", "done", "failed"}

RunStates ==
    [pc   : {"idle", "single", "writing", "cut", "init", "parts", "completing"},
     uid  : 0 .. MaxUploads,
     ver  : 0 .. MaxVersion,
     done : Contents,
     work : [Parts -> WorkStates],
     call : Calls \cup {NoCall}]

CallStates ==
    [pc    : {"idle", "waiting", "provider", "cleanup", "ok", "error"},
     uid   : 0 .. MaxUploads,
     parts : Contents,
     run   : Runs \cup {NoRun}]

Checkpoints == [uid : 0 .. MaxUploads, ver : 0 .. MaxVersion, done : Contents]

TypeInv ==
    /\ provider \in Providers
    /\ small \in BOOLEAN
    /\ file \in Versions
    /\ ckpt \in Checkpoints
    /\ run \in [Runs -> RunStates]
    /\ session \in [Uploads -> {"none", "open", "completed"}]
    /\ token \in [Uploads -> Calls \cup {NoCall}]
    /\ call \in [Calls -> CallStates]
    /\ begun \in 0 .. MaxUploads
    /\ store \in [Uploads -> Contents]
    /\ object \in Contents \cup {Absent}
    /\ starts \in Nat /\ faults \in Nat

-----------------------------------------------------------------------------
(* The inductive invariant. *)

\* The steps at which a process works on an upload.
Active == {"parts", "completing"}

\* A process knows the upload it works on, has uploaded what it counts as done,
\* and waits for a call of its own.
RunInv(r) ==
    /\ run[r].pc = "init" => /\ run[r].ver \in Versions /\ run[r].done = Nothing
                             /\ run[r].work = [p \in Parts |-> "todo"]
    /\ run[r].pc \in Active => run[r].uid \in 1 .. begun /\ run[r].ver \in Versions
    /\ run[r].pc = "parts" => \A p \in Parts : run[r].work[p] = "done" => run[r].done[p] # 0
    /\ run[r].pc = "completing" =>
         /\ run[r].call \in Calls
         /\ call[run[r].call].run = r
         /\ call[run[r].call].uid = run[r].uid
         /\ call[run[r].call].pc # "idle"

\* A call lists every part, works on an open session whose token it holds, and
\* answers with success only when the upload is closed.
CallInv(k) ==
    /\ call[k].pc # "idle" => call[k].uid \in 1 .. begun
    /\ call[k].pc \in {"waiting", "provider"} =>
         Full(call[k].parts) /\ session[call[k].uid] # "none"
    /\ call[k].pc \in {"provider", "cleanup"} =>
         session[call[k].uid] = "open" /\ token[call[k].uid] = k
    /\ call[k].pc = "cleanup" => call[k].uid \in landed
    /\ call[k].pc = "ok" => call[k].uid \in closed

\* Only uploads that were begun have a history, and a closed one has no session.
Books ==
    /\ ckpt.uid <= begun
    /\ landed \subseteq 1 .. begun /\ tainted \subseteq 1 .. begun
    /\ spoiled \subseteq 1 .. begun /\ rewritten \subseteq 1 .. begun
    /\ closed \subseteq landed
    /\ \A u \in closed : session[u] # "open"
    /\ \A u \in Uploads : u > begun => store[u] = Nothing

\* Version v of the file is what upload u sends.
Sends(u, v) ==
    \/ \E r \in Runs : run[r].pc \in Active /\ run[r].uid = u /\ run[r].ver = v
    \/ ckpt.uid = u /\ ckpt.ver = v

\* The parts c are claimed to be stored: by a process, the checkpoint or a call.
Claimed(u, c) ==
    \/ \E r \in Runs : run[r].pc \in Active /\ run[r].uid = u /\ run[r].done = c
    \/ ckpt.uid = u /\ ckpt.done = c
    \/ \E k \in Calls : /\ call[k].pc \in {"waiting", "provider"}
                        /\ call[k].uid = u /\ call[k].parts = c

\* Processes that share an upload send one version of the file, and unless the
\* file was edited meanwhile nothing else is stored or claimed, but for what is torn.
OneVersion(vs) ==
    \A u \in Uploads :
      /\ \A v \in 0 .. MaxVersion : Sends(u, v) => v = vs[u]
      /\ u \notin tainted =>
           /\ \A p \in Parts : store[u][p] \in {0, Torn, vs[u]}
           /\ \A c \in Contents : Claimed(u, c) => \A p \in Parts : c[p] \in {0, vs[u]}

\* Nothing has removed parts of the upload: no completion reached the provider,
\* or it left them there and the session can be completed again.
Intact(u) ==
    /\ ~(provider = "azure" /\ landed # {})
    /\ \/ u \notin landed
       \/ /\ session[u] = "open" /\ u \notin spoiled
          /\ \A k \in Calls : ~(call[k].pc = "cleanup" /\ call[k].uid = u)

\* Part p is claimed, or a process is about to that writes it behind another one, or
\* after it was deleted.
Vouched(u, p) ==
    \/ \E c \in Contents : Claimed(u, c) /\ c[p] # 0
    \/ \E r \in Runs : run[r].pc = "parts" /\ run[r].uid = u /\ run[r].work[p] = "cut"

\* What is vouched for is there, and torn only where it was written again.
Held ==
    \A u \in Uploads, p \in Parts : Vouched(u, p) =>
      /\ Intact(u) => store[u][p] # 0
      /\ store[u][p] = Torn => u \in rewritten

IInv ==
    /\ TypeInv /\ Books
    /\ \A r \in Runs : RunInv(r)
    /\ \A k \in Calls : CallInv(k)
    /\ \E vs \in [Uploads -> Versions] : OneVersion(vs)
    /\ Held

-----------------------------------------------------------------------------
(* Types and moves. *)

LEMMA NothingType == Nothing \in Contents /\ \A p \in Parts : Nothing[p] = 0
BY UploadAssumption DEF Nothing, Contents, Torn

LEMMA TornType ==
    /\ Torn \in 0 .. Torn /\ Torn # 0 /\ 0 \in 0 .. Torn
    /\ \A v \in Versions : v \in 0 .. Torn /\ v # Torn /\ v # 0
BY UploadAssumption DEF Torn, Versions

LEMMA IdleRunType ==
    /\ IdleRun \in RunStates
    /\ IdleRun.pc = "idle" /\ IdleRun.uid = 0 /\ IdleRun.done = Nothing
    /\ IdleRun.work = [p \in Parts |-> "todo"]
BY UploadAssumption, NothingType DEF IdleRun, RunStates, WorkStates

LEMMA IdleCallType ==
    IdleCall \in CallStates /\ IdleCall.pc = "idle" /\ IdleCall.run = NoRun
BY UploadAssumption, NothingType DEF IdleCall, CallStates

LEMMA NoCheckpointType == NoCheckpoint \in Checkpoints /\ NoCheckpoint.uid = 0
BY UploadAssumption, NothingType DEF NoCheckpoint, Checkpoints

\* Whose claims there are.
LEMMA Claims ==
    /\ \A r \in Runs : run[r].pc \in Active => Claimed(run[r].uid, run[r].done)
    /\ Claimed(ckpt.uid, ckpt.done)
    /\ \A k \in Calls : call[k].pc \in {"waiting", "provider"} => Claimed(call[k].uid, call[k].parts)
BY DEF Claimed

\* One process moves, the others stay where they are.
LEMMA RunMoved ==
    ASSUME TypeInv, NEW r \in Runs, NEW x \in RunStates, run' = [run EXCEPT ![r] = x]
    PROVE  /\ run' \in [Runs -> RunStates]
           /\ run'[r] = x
           /\ \A q \in Runs \ {r} : run'[q] = run[q]
BY DEF TypeInv

\* One call moves, the others stay where they are.
LEMMA CallMoved ==
    ASSUME TypeInv, NEW k \in Calls, NEW c \in CallStates, call' = [call EXCEPT ![k] = c]
    PROVE  /\ call' \in [Calls -> CallStates]
           /\ call'[k] = c
           /\ \A j \in Calls \ {k} : call'[j] = call[j]
BY DEF TypeInv

-----------------------------------------------------------------------------
(* Steps that claim nothing new. *)

\* Process q works on what it worked on, or on what the checkpoint claimed.
SameClaim(q) ==
    run'[q].pc \in Active =>
      \/ /\ run[q].pc \in Active /\ run'[q].uid = run[q].uid
         /\ run'[q].ver = run[q].ver /\ run'[q].done = run[q].done
      \/ /\ ckpt.uid = run'[q].uid /\ ckpt.ver = run'[q].ver /\ ckpt.done = run'[q].done

\* A part it writes is cut only by a deletion, from an upload that is no longer intact.
SameCuts(q) ==
    run'[q].pc = "parts" =>
      \A u \in Uploads, p \in Parts : run'[q].uid = u /\ run'[q].work[p] = "cut" =>
        \/ run[q].pc = "parts" /\ run[q].uid = u /\ run[q].work[p] = "cut"
        \/ ~Intact(u)' /\ store'[u][p] = 0

SameWork(q) == SameClaim(q) /\ SameCuts(q)

\* Call j lists what it listed, or what a process had uploaded.
SameList(j) ==
    call'[j].pc \in {"waiting", "provider"} =>
      \/ /\ call[j].pc \in {"waiting", "provider"}
         /\ call'[j].uid = call[j].uid /\ call'[j].parts = call[j].parts
      \/ \E q \in Runs : /\ run[q].pc \in Active
                         /\ run[q].uid = call'[j].uid /\ run[q].done = call'[j].parts

LEMMA NothingNew ==
    ASSUME TypeInv, ckpt' \in {ckpt, NoCheckpoint},
           \A q \in Runs : SameWork(q), \A j \in Calls : SameList(j),
           NEW u \in Uploads
    PROVE  /\ \A v \in 0 .. MaxVersion : Sends(u, v)' => Sends(u, v)
           /\ \A c \in Contents : Claimed(u, c)' => Claimed(u, c)
<1>1. u # 0
  BY UploadAssumption DEF Uploads
<1>2. ckpt'.uid = u => ckpt' = ckpt
  BY <1>1, NoCheckpointType
<1>3. ASSUME NEW v \in 0 .. MaxVersion, Sends(u, v)'
      PROVE  Sends(u, v)
  BY <1>2, <1>3 DEF Sends, SameWork, SameClaim
<1>4. ASSUME NEW c \in Contents, Claimed(u, c)'
      PROVE  Claimed(u, c)
  <2>1. CASE \E q \in Runs : run'[q].pc \in Active /\ run'[q].uid = u /\ run'[q].done = c
    BY <2>1 DEF Claimed, SameWork, SameClaim
  <2>2. CASE ckpt'.uid = u /\ ckpt'.done = c
    BY <1>2, <2>2 DEF Claimed
  <2>3. CASE \E j \in Calls : /\ call'[j].pc \in {"waiting", "provider"}
                              /\ call'[j].uid = u /\ call'[j].parts = c
    BY <2>3 DEF Claimed, SameList
  <2> QED BY <1>4, <2>1, <2>2, <2>3 DEF Claimed
<1> QED BY <1>3, <1>4

\* Nothing is claimed anew, and parts go only from uploads that are not intact.
LEMMA QuietStep ==
    ASSUME IInv, ckpt' \in {ckpt, NoCheckpoint},
           \A q \in Runs : SameWork(q), \A j \in Calls : SameList(j),
           tainted \subseteq tainted', rewritten \subseteq rewritten',
           \A u \in Uploads, p \in Parts : store'[u][p] \in {store[u][p], 0},
           \A u \in Uploads : Intact(u)' => Intact(u) /\ store'[u] = store[u]
    PROVE  (\E vs \in [Uploads -> Versions] : OneVersion(vs)') /\ Held'
<1>1. PICK vs \in [Uploads -> Versions] : OneVersion(vs)
  BY DEF IInv
<1>2. OneVersion(vs)'
  <2> SUFFICES ASSUME NEW u \in Uploads
               PROVE  /\ \A v \in 0 .. MaxVersion : Sends(u, v)' => v = vs[u]
                      /\ u \notin tainted' =>
                           /\ \A p \in Parts : store'[u][p] \in {0, Torn, vs[u]}
                           /\ \A c \in Contents : Claimed(u, c)' => \A p \in Parts : c[p] \in {0, vs[u]}
    BY DEF OneVersion
  <2>1. /\ \A v \in 0 .. MaxVersion : Sends(u, v)' => Sends(u, v)
        /\ \A c \in Contents : Claimed(u, c)' => Claimed(u, c)
    BY NothingNew DEF IInv
  <2>2. /\ \A v \in 0 .. MaxVersion : Sends(u, v) => v = vs[u]
        /\ u \notin tainted =>
             /\ \A p \in Parts : store[u][p] \in {0, Torn, vs[u]}
             /\ \A c \in Contents : Claimed(u, c) => \A p \in Parts : c[p] \in {0, vs[u]}
    BY <1>1 DEF OneVersion
  <2> QED BY <2>1, <2>2
<1>3. Held'
  <2> SUFFICES ASSUME NEW u \in Uploads, NEW p \in Parts, Vouched(u, p)'
               PROVE  /\ Intact(u)' => store'[u][p] # 0
                      /\ store'[u][p] = Torn => u \in rewritten'
    BY DEF Held
  <2>1. CASE Vouched(u, p)
    <3>1. /\ Intact(u) => store[u][p] # 0
          /\ store[u][p] = Torn => u \in rewritten
      BY <2>1 DEF IInv, Held
    <3>2. Intact(u)' => store'[u][p] # 0
      BY <3>1
    <3>3. store'[u][p] = Torn => store[u][p] = Torn
      BY TornType
    <3> QED BY <3>1, <3>2, <3>3
  <2>2. CASE ~Intact(u)' /\ store'[u][p] = 0
    BY <2>2, TornType
  <2>3. CASE \E c \in Contents : Claimed(u, c)' /\ c[p] # 0
    <3>1. Vouched(u, p)
      BY <2>3, NothingNew DEF IInv, Vouched
    <3> QED BY <2>1, <3>1
  <2>4. CASE \E q \in Runs : run'[q].pc = "parts" /\ run'[q].uid = u /\ run'[q].work[p] = "cut"
    <3>1. PICK q \in Runs : run'[q].pc = "parts" /\ run'[q].uid = u /\ run'[q].work[p] = "cut"
      BY <2>4
    <3>2. CASE run[q].pc = "parts" /\ run[q].uid = u /\ run[q].work[p] = "cut"
      <4>1. Vouched(u, p)
        BY <3>2 DEF Vouched
      <4> QED BY <2>1, <4>1
    <3>3. CASE ~Intact(u)' /\ store'[u][p] = 0
      BY <2>2, <3>3
    <3>4. SameCuts(q)
      BY DEF SameWork
    <3> QED BY <3>1, <3>2, <3>3, <3>4 DEF SameCuts
  <2> QED BY <2>3, <2>4 DEF Vouched
<1> QED BY <1>2, <1>3

-----------------------------------------------------------------------------
(* The client process. *)

LEMMA InitInv == Init => IInv
<1> SUFFICES ASSUME Init PROVE IInv
  OBVIOUS
<1> USE DEF Init
<1>1. /\ \A r \in Runs : run[r].pc = "idle"
      /\ \A k \in Calls : call[k].pc = "idle"
  BY IdleRunType, IdleCallType
<1>2. TypeInv
  BY UploadAssumption, IdleRunType, IdleCallType, NoCheckpointType, NothingType
  DEF TypeInv, Versions
<1>3. Books
  BY NoCheckpointType DEF Books
<1>4. \A r \in Runs : RunInv(r)
  BY <1>1 DEF RunInv, Active
<1>5. \A k \in Calls : CallInv(k)
  BY <1>1 DEF CallInv
<1>6. \A u \in Uploads : /\ \A v \in 0 .. MaxVersion : ~Sends(u, v)
                         /\ \A c \in Contents : ~Claimed(u, c)
  BY <1>1, NoCheckpointType, UploadAssumption DEF Sends, Claimed, Active, Uploads
<1>7. OneVersion([u \in Uploads |-> 1])
  BY <1>6, NothingType DEF OneVersion
<1>8. [u \in Uploads |-> 1] \in [Uploads -> Versions]
  BY UploadAssumption DEF Versions
<1>9. Held
  BY <1>1, <1>6 DEF Held, Vouched
<1> QED
  BY <1>2, <1>3, <1>4, <1>5, <1>7, <1>8, <1>9 DEF IInv

\* Where a process that does not wait for a call may be.
Sane(x) ==
    /\ x.pc # "completing"
    /\ x.pc = "init" => /\ x.ver \in Versions /\ x.done = Nothing
                        /\ x.work = [p \in Parts |-> "todo"]
    /\ x.pc = "parts" => /\ x.uid \in 1 .. begun /\ x.ver \in Versions
                         /\ \A p \in Parts : x.work[p] = "done" => x.done[p] # 0

\* A process moves on without the server, and claims nothing new.
LEMMA RunOnly ==
    ASSUME IInv, NEW r \in Runs, NEW x \in RunStates, run' = [run EXCEPT ![r] = x],
           Sane(x), SameWork(r),
           ckpt' \in {ckpt, NoCheckpoint}, object' \in Contents \cup {Absent},
           starts' \in Nat, faults' \in Nat,
           UNCHANGED <<file, server, begun, provider, small, store, landed, closed, tainted, spoiled, rewritten>>
    PROVE  IInv'
<1> USE DEF server
<1>1. /\ run' \in [Runs -> RunStates] /\ run'[r] = x
      /\ \A q \in Runs \ {r} : run'[q] = run[q]
  BY RunMoved DEF IInv
<1>2. TypeInv'
  BY <1>1, NoCheckpointType DEF IInv, TypeInv
<1>3. Books'
  BY NoCheckpointType DEF IInv, TypeInv, Books
<1>4. RunInv(r)'
  BY <1>1 DEF Sane, RunInv, Active
<1>5. \A q \in Runs \ {r} : RunInv(q)'
  BY <1>1 DEF IInv, RunInv
<1>6. \A k \in Calls : CallInv(k)'
  BY DEF IInv, CallInv
<1>7. \A q \in Runs : SameWork(q)
  BY <1>1 DEF SameWork, SameClaim, SameCuts
<1>8. \A j \in Calls : SameList(j)
  BY DEF SameList
<1>9. \A u \in Uploads : Intact(u)' => Intact(u) /\ store'[u] = store[u]
  BY DEF Intact
<1>10. (\E vs \in [Uploads -> Versions] : OneVersion(vs)') /\ Held'
  BY <1>7, <1>8, <1>9, QuietStep
<1> QED
  BY <1>2, <1>3, <1>4, <1>5, <1>6, <1>10 DEF IInv

LEMMA UploadInv ==
    ASSUME IInv, NEW r \in Runs, Upload(r)
    PROVE  IInv'
<1>1. PICK kept \in {ckpt, NoCheckpoint} :
        /\ ckpt' = kept
        /\ run' = [run EXCEPT ![r] =
              IF small THEN [IdleRun EXCEPT !.pc = "single", !.ver = file]
              ELSE IF matches(kept, file)
                THEN [IdleRun EXCEPT !.pc = "parts", !.uid = kept.uid, !.ver = file, !.done = kept.done,
                        !.work = [p \in Parts |-> IF kept.done[p] = 0 THEN "todo" ELSE "done"]]
                ELSE [IdleRun EXCEPT !.pc = "init", !.ver = file]]
  BY DEF Upload
<1>2. kept \in Checkpoints /\ file \in Versions /\ file \in 0 .. MaxVersion /\ starts' \in Nat
  BY NoCheckpointType, UploadAssumption DEF Upload, IInv, TypeInv, Versions
<1>3. UNCHANGED <<file, server, begun, provider, small, store, object, faults, landed, closed, tainted, spoiled, rewritten>>
  BY DEF Upload, storage, history
<1>4. CASE small
  <2> DEFINE x == [IdleRun EXCEPT !.pc = "single", !.ver = file]
  <2>1. x \in RunStates /\ x.pc = "single"
    BY <1>2, IdleRunType DEF RunStates
  <2>2. run' = [run EXCEPT ![r] = x]
    BY <1>1, <1>4
  <2> HIDE DEF x
  <2>3. Sane(x) /\ SameWork(r)
    BY <2>1, <2>2, RunMoved DEF IInv, Sane, SameWork, SameClaim, SameCuts, Active
  <2> QED BY <1>1, <1>2, <1>3, <2>1, <2>2, <2>3, RunOnly DEF IInv, TypeInv
<1>5. CASE ~small /\ matches(kept, file)
  <2> DEFINE work == [p \in Parts |-> IF kept.done[p] = 0 THEN "todo" ELSE "done"]
             x == [IdleRun EXCEPT !.pc = "parts", !.uid = kept.uid, !.ver = file, !.done = kept.done,
                                  !.work = work]
  <2>1. work \in [Parts -> WorkStates]
    BY DEF WorkStates
  <2>2. \A p \in Parts : work[p] # "cut" /\ (work[p] = "done" => kept.done[p] # 0)
    OBVIOUS
  <2>3. kept = ckpt /\ kept.uid \in 1 .. begun /\ kept.ver = file
    BY <1>2, <1>5, NoCheckpointType DEF matches, IInv, TypeInv, Books, Checkpoints
  <2>4. run' = [run EXCEPT ![r] = x]
    BY <1>1, <1>5
  <2> HIDE DEF work
  <2>5. /\ x \in RunStates /\ x.pc = "parts" /\ x.uid = kept.uid /\ x.ver = file
        /\ x.done = kept.done /\ x.work = work
    BY <1>2, <2>1, IdleRunType DEF RunStates, Checkpoints
  <2> HIDE DEF x
  <2>6. Sane(x)
    BY <1>2, <2>2, <2>3, <2>5 DEF Sane
  <2>7. SameWork(r)
    BY <2>2, <2>3, <2>4, <2>5, RunMoved DEF IInv, SameWork, SameClaim, SameCuts
  <2> QED BY <1>1, <1>2, <1>3, <2>4, <2>5, <2>6, <2>7, RunOnly DEF IInv, TypeInv
<1>6. CASE ~small /\ ~matches(kept, file)
  <2> DEFINE x == [IdleRun EXCEPT !.pc = "init", !.ver = file]
  <2>1. x \in RunStates /\ x.pc = "init" /\ x.ver = file /\ x.done = Nothing
        /\ x.work = [p \in Parts |-> "todo"]
    BY <1>2, IdleRunType DEF RunStates
  <2>2. run' = [run EXCEPT ![r] = x]
    BY <1>1, <1>6
  <2> HIDE DEF x
  <2>3. Sane(x) /\ SameWork(r)
    BY <1>2, <2>1, <2>2, RunMoved DEF IInv, Sane, SameWork, SameClaim, SameCuts, Active
  <2> QED BY <1>1, <1>2, <1>3, <2>1, <2>2, <2>3, RunOnly DEF IInv, TypeInv
<1> QED BY <1>4, <1>5, <1>6

\* A process that is not at work on an upload ends, or stays so.
LEMMA RunLeaves ==
    ASSUME IInv, NEW r \in Runs, NEW x \in RunStates, run' = [run EXCEPT ![r] = x],
           x.pc \in {"idle", "single", "writing", "cut"},
           ckpt' = ckpt, object' \in Contents \cup {Absent}, starts' = starts, faults' \in Nat,
           UNCHANGED <<file, server, begun, provider, small, store, landed, closed, tainted, spoiled, rewritten>>
    PROVE  IInv'
<1>1. Sane(x) /\ SameWork(r)
  BY RunMoved DEF IInv, Sane, SameWork, SameClaim, SameCuts, Active
<1> QED BY <1>1, RunOnly DEF IInv, TypeInv

LEMMA WholeType == \A v \in 0 .. Torn : WholeOf(v) \in Contents
BY DEF WholeOf, Contents

LEMMA SingleInv ==
    ASSUME IInv, NEW r \in Runs, uploadSingle(r)
    PROVE  IInv'
<1>1. object' \in Contents \cup {Absent}
  BY TornType, WholeType DEF uploadSingle, Puts, CutsOff, IInv, TypeInv
<1>2. /\ ckpt' = ckpt /\ starts' = starts /\ faults' \in Nat
      /\ UNCHANGED <<file, server, begun, provider, small, store, landed, closed, tainted, spoiled, rewritten>>
  BY DEF uploadSingle, Fault, IInv, TypeInv
<1> DEFINE again == [run[r] EXCEPT !.pc = "single"]
<1>3. again \in RunStates /\ again.pc = "single"
  BY DEF IInv, TypeInv, RunStates
<1>4. run' = [run EXCEPT ![r] = again] \/ run' = [run EXCEPT ![r] = IdleRun]
  BY DEF uploadSingle, RegisterFile, Ends, IInv, TypeInv
<1> HIDE DEF again
<1> QED BY <1>1, <1>2, <1>3, <1>4, IdleRunType, RunLeaves

\* Small files are no business of the invariant.
LEMMA OpenObjectInv ==
    ASSUME IInv, NEW r \in Runs, OpenObject(r)
    PROVE  IInv'
<1> DEFINE opened(q) == [run[q] EXCEPT !.pc = "writing"]
           behind(q) == [run[q] EXCEPT !.pc = "cut"]
<1>1. \A q \in Runs : /\ opened(q) \in RunStates /\ opened(q).pc = "writing"
                      /\ behind(q) \in RunStates /\ behind(q).pc = "cut"
  BY DEF IInv, TypeInv, RunStates
<1>2. run' = [q \in Runs |-> IF q = r THEN opened(q)
                             ELSE IF run[q].pc = "writing" THEN behind(q) ELSE run[q]]
  BY DEF OpenObject
<1> HIDE DEF opened, behind
<1>3. /\ run' \in [Runs -> RunStates]
      /\ \A q \in Runs : run'[q] = run[q] \/ run'[q].pc \in {"writing", "cut"}
  BY <1>1, <1>2 DEF IInv, TypeInv
<1>4. /\ object' \in Contents \cup {Absent}
      /\ UNCHANGED <<file, ckpt, server, begun, provider, small, store, starts, faults,
                     landed, closed, tainted, spoiled, rewritten>>
  BY TornType, WholeType DEF OpenObject, history
<1>5. TypeInv'
  BY <1>3, <1>4 DEF server, IInv, TypeInv
<1>6. Books'
  BY <1>4 DEF server, IInv, Books
<1>7. \A q \in Runs : RunInv(q)'
  BY <1>3, <1>4 DEF server, IInv, RunInv, Active
<1>8. \A k \in Calls : CallInv(k)' /\ SameList(k)
  BY <1>4 DEF server, IInv, CallInv, SameList
<1>9. \A q \in Runs : SameWork(q)
  BY <1>3 DEF SameWork, SameClaim, SameCuts, Active
<1>10. \A u \in Uploads : Intact(u)' => Intact(u) /\ store'[u] = store[u]
  BY <1>4 DEF server, Intact
<1>11. (\E vs \in [Uploads -> Versions] : OneVersion(vs)') /\ Held'
  BY <1>4, <1>8, <1>9, <1>10, QuietStep
<1> QED
  BY <1>5, <1>6, <1>7, <1>8, <1>11 DEF IInv

\* A part goes on, and nothing else of the process changes.
LEMMA PartMoves ==
    ASSUME IInv, NEW r \in Runs, NEW p \in Parts, run[r].pc = "parts",
           NEW w \in {"todo", "signed", "failed"},
           run' = [run EXCEPT ![r].work[p] = w],
           ckpt' = ckpt, starts' = starts, faults' \in Nat, object' = object,
           UNCHANGED <<file, server, begun, provider, small, store, landed, closed, tainted, spoiled, rewritten>>
    PROVE  IInv'
<1> DEFINE work == [run[r].work EXCEPT ![p] = w]
           x == [run[r] EXCEPT !.work = work]
<1>1. run[r] \in RunStates /\ run[r].work \in [Parts -> WorkStates]
  BY DEF IInv, TypeInv, RunStates
<1>2. /\ work \in [Parts -> WorkStates]
      /\ \A q \in Parts : work[q] \in {"done", "cut"} => run[r].work[q] = work[q]
  BY <1>1 DEF WorkStates
<1>3. run' = [run EXCEPT ![r] = x]
  BY DEF IInv, TypeInv
<1> HIDE DEF work
<1>4. /\ x \in RunStates /\ x.pc = "parts" /\ x.uid = run[r].uid /\ x.ver = run[r].ver
      /\ x.done = run[r].done /\ x.work = work
  BY <1>1, <1>2 DEF RunStates
<1> HIDE DEF x
<1>5. Sane(x)
  BY <1>2, <1>4 DEF Sane, IInv, RunInv, Active
<1>6. SameWork(r)
  BY <1>2, <1>3, <1>4, RunMoved DEF IInv, SameWork, SameClaim, SameCuts, Active
<1> QED BY <1>3, <1>4, <1>5, <1>6, RunOnly DEF IInv, TypeInv

LEMMA SignInv ==
    ASSUME IInv, NEW r \in Runs, NEW p \in Parts, SignPart(r, p)
    PROVE  IInv'
<1>1. /\ run[r].pc = "parts" /\ ckpt' = ckpt /\ starts' = starts /\ faults' \in Nat /\ object' = object
      /\ UNCHANGED <<file, server, begun, provider, small, store, landed, closed, tainted, spoiled, rewritten>>
  BY DEF SignPart, Fault, GivesUp, storage, history, IInv, TypeInv
<1>2. \E w \in {"todo", "signed", "failed"} : run' = [run EXCEPT ![r].work[p] = w]
  BY DEF SignPart, GivesUp, RetryAction
<1> QED BY <1>1, <1>2, PartMoves

\* A begun upload is new to everybody but the process that began it.
LEMMA InitMultipartInv ==
    ASSUME IInv, NEW r \in Runs, InitMultipart(r)
    PROVE  IInv'
<1> DEFINE u == begun + 1
           mine == [run[r] EXCEPT !.pc = "parts", !.uid = u]
           first == [uid |-> u, ver |-> run[r].ver, done |-> Nothing]
<1>1. u \in Uploads /\ u \in Nat /\ u # 0 /\ begun' = u /\ u > begun /\ begun \in Nat
  <2>1. begun \in Nat /\ begun < MaxUploads /\ begun' = begun + 1 /\ MaxUploads \in Nat
    BY UploadAssumption DEF InitMultipart, IInv, TypeInv
  <2> QED BY <2>1 DEF Uploads
<1>2. /\ run[r] \in RunStates /\ run[r].ver \in Versions /\ run[r].ver \in 0 .. MaxVersion
      /\ run[r].done = Nothing /\ run[r].work = [p \in Parts |-> "todo"]
  BY DEF InitMultipart, IInv, TypeInv, RunInv, RunStates
<1>3. /\ mine \in RunStates /\ mine.pc = "parts" /\ mine.uid = u /\ mine.ver = run[r].ver
      /\ mine.done = Nothing /\ mine.work = [p \in Parts |-> "todo"]
  <2>1. u \in 0 .. MaxUploads
    BY <1>1, UploadAssumption DEF Uploads
  <2> HIDE DEF u
  <2> QED BY <1>2, <2>1 DEF RunStates
<1>4. first \in Checkpoints /\ first.uid = u /\ first.ver = run[r].ver /\ first.done = Nothing
  BY <1>1, <1>2, NothingType DEF Checkpoints, Uploads
<1>5. PICK x \in {mine, IdleRun} :
        /\ run' = [run EXCEPT ![r] = x]
        /\ (x = mine /\ ckpt' = first) \/ (x = IdleRun /\ ckpt' = ckpt)
  <2>1. CASE /\ run' = [run EXCEPT ![r].pc = "parts", ![r].uid = begun + 1]
             /\ ckpt' = [uid |-> begun + 1, ver |-> run[r].ver, done |-> Nothing]
    <3>1. run' = [run EXCEPT ![r] = mine]
      BY <2>1 DEF IInv, TypeInv
    <3>2. ckpt' = first
      BY <2>1
    <3> HIDE DEF mine, first
    <3> QED BY <3>1, <3>2
  <2>2. CASE Ends(r) /\ UNCHANGED ckpt
    BY <2>2 DEF Ends
  <2> QED BY <2>1, <2>2 DEF InitMultipart
<1>6. /\ session' = [session EXCEPT ![u] = "open"]
      /\ UNCHANGED <<file, token, call, provider, small, store, object, starts, landed, closed, tainted, spoiled, rewritten>>
      /\ faults' \in Nat
  BY DEF InitMultipart, Fault, storage, history, IInv, TypeInv
<1> HIDE DEF u, mine, first
<1>7. /\ x \in RunStates /\ x.pc \in {"parts", "idle"}
      /\ x.pc = "parts" => /\ x.uid = u /\ x.ver = run[r].ver /\ x.done = Nothing
                           /\ x.work = [p \in Parts |-> "todo"]
  BY <1>3, <1>5, IdleRunType
<1>8. /\ run' \in [Runs -> RunStates] /\ run'[r] = x
      /\ \A q \in Runs \ {r} : run'[q] = run[q]
  BY <1>5, <1>7, RunMoved DEF IInv
<1>9. TypeInv'
  <2>1. session' \in [Uploads -> {"none", "open", "completed"}]
    BY <1>1, <1>6 DEF IInv, TypeInv
  <2>2. ckpt' \in Checkpoints
    BY <1>4, <1>5 DEF IInv, TypeInv
  <2>3. begun' \in 0 .. MaxUploads
    BY <1>1 DEF Uploads
  <2> QED BY <1>6, <1>8, <2>1, <2>2, <2>3 DEF IInv, TypeInv
<1>10. \A w \in 1 .. begun : w # u /\ w \in 1 .. u /\ w \in Uploads /\ session'[w] = session[w]
  <2> TAKE w \in 1 .. begun
  <2>1. w \in Nat /\ w < u /\ w \in 1 .. u
    BY <1>1
  <2>2. w \in Uploads
    BY <1>1, <2>1, UploadAssumption DEF Uploads
  <2> QED BY <1>6, <2>1, <2>2 DEF IInv, TypeInv
<1>11. Books'
  <2>1. ckpt'.uid <= begun'
    BY <1>1, <1>4, <1>5 DEF IInv, Books, TypeInv, Checkpoints
  <2>2. /\ landed' \subseteq 1 .. begun' /\ tainted' \subseteq 1 .. begun'
        /\ spoiled' \subseteq 1 .. begun' /\ rewritten' \subseteq 1 .. begun'
        /\ closed' \subseteq landed'
    BY <1>1, <1>6, <1>10 DEF IInv, Books
  <2>3. \A w \in closed' : session'[w] # "open"
    BY <1>6, <1>10 DEF IInv, Books
  <2>4. \A w \in Uploads : w > begun' => store'[w] = Nothing
    BY <1>1, <1>6 DEF IInv, Books, Uploads
  <2> QED BY <2>1, <2>2, <2>3, <2>4 DEF Books
<1>12. \A q \in Runs : RunInv(q)'
  <2>1. RunInv(r)'
    BY <1>1, <1>2, <1>7, <1>8 DEF RunInv, Active
  <2>2. \A q \in Runs \ {r} : RunInv(q)'
    BY <1>1, <1>6, <1>8, <1>10 DEF IInv, RunInv
  <2> QED BY <2>1, <2>2
<1>13. \A k \in Calls : CallInv(k)'
  BY <1>1, <1>6, <1>10 DEF IInv, CallInv
<1>14. \A w \in Uploads, v \in 0 .. MaxVersion :
         Sends(w, v)' => IF w = u THEN v = run[r].ver ELSE Sends(w, v)
  <2> SUFFICES ASSUME NEW w \in Uploads, NEW v \in 0 .. MaxVersion, Sends(w, v)'
               PROVE  IF w = u THEN v = run[r].ver ELSE Sends(w, v)
    OBVIOUS
  <2>1. CASE \E q \in Runs : run'[q].pc \in Active /\ run'[q].uid = w /\ run'[q].ver = v
    <3>1. PICK q \in Runs : run'[q].pc \in Active /\ run'[q].uid = w /\ run'[q].ver = v
      BY <2>1
    <3>2. CASE q = r
      BY <1>7, <1>8, <3>1, <3>2 DEF Active
    <3>3. CASE q # r
      BY <1>8, <1>10, <3>1, <3>3 DEF IInv, RunInv, Sends
    <3> QED BY <3>2, <3>3
  <2>2. CASE ckpt'.uid = w /\ ckpt'.ver = v
    <3>1. CASE ckpt' = first
      BY <1>4, <2>2, <3>1
    <3>2. CASE ckpt' = ckpt
      BY <1>1, <2>2, <3>2 DEF Sends, IInv, Books, TypeInv, Checkpoints
    <3> QED BY <1>5, <3>1, <3>2
  <2> QED BY <2>1, <2>2 DEF Sends
<1>15. \A w \in Uploads, c \in Contents :
         Claimed(w, c)' => IF w = u THEN c = Nothing ELSE Claimed(w, c)
  <2> SUFFICES ASSUME NEW w \in Uploads, NEW c \in Contents, Claimed(w, c)'
               PROVE  IF w = u THEN c = Nothing ELSE Claimed(w, c)
    OBVIOUS
  <2>1. CASE \E q \in Runs : run'[q].pc \in Active /\ run'[q].uid = w /\ run'[q].done = c
    <3>1. PICK q \in Runs : run'[q].pc \in Active /\ run'[q].uid = w /\ run'[q].done = c
      BY <2>1
    <3>2. CASE q = r
      BY <1>7, <1>8, <3>1, <3>2 DEF Active
    <3>3. CASE q # r
      BY <1>8, <1>10, <3>1, <3>3 DEF IInv, RunInv, Claimed
    <3> QED BY <3>2, <3>3
  <2>2. CASE ckpt'.uid = w /\ ckpt'.done = c
    <3>1. CASE ckpt' = first
      BY <1>4, <2>2, <3>1
    <3>2. CASE ckpt' = ckpt
      BY <1>1, <2>2, <3>2 DEF Claimed, IInv, Books, TypeInv, Checkpoints
    <3> QED BY <1>5, <3>1, <3>2
  <2>3. CASE \E k \in Calls : /\ call[k].pc \in {"waiting", "provider"}
                              /\ call[k].uid = w /\ call[k].parts = c
    BY <1>10, <2>3 DEF IInv, CallInv, Claimed
  <2> QED BY <1>6, <2>1, <2>2, <2>3 DEF Claimed
<1>16. \E vs \in [Uploads -> Versions] : OneVersion(vs)'
  <2>1. PICK vs \in [Uploads -> Versions] : OneVersion(vs)
    BY DEF IInv
  <2>2. PICK ws \in [Uploads -> Versions] :
          ws[u] = run[r].ver /\ \A w \in Uploads \ {u} : ws[w] = vs[w]
    <3>1. [vs EXCEPT ![u] = run[r].ver] \in [Uploads -> Versions]
      BY <1>1, <1>2
    <3> QED BY <1>1, <3>1
  <2>3. OneVersion(ws)'
    <3> SUFFICES ASSUME NEW w \in Uploads
                 PROVE  /\ \A v \in 0 .. MaxVersion : Sends(w, v)' => v = ws[w]
                        /\ w \notin tainted' =>
                             /\ \A p \in Parts : store'[w][p] \in {0, Torn, ws[w]}
                             /\ \A c \in Contents : Claimed(w, c)' => \A p \in Parts : c[p] \in {0, ws[w]}
      BY DEF OneVersion
    <3>1. CASE w = u
      <4>1. store'[w] = Nothing
        BY <1>1, <1>6, <3>1 DEF IInv, Books
      <4> QED BY <1>14, <1>15, <2>2, <3>1, <4>1, NothingType
    <3>2. CASE w # u
      <4>1. /\ \A v \in 0 .. MaxVersion : Sends(w, v) => v = vs[w]
            /\ w \notin tainted =>
                 /\ \A p \in Parts : store[w][p] \in {0, Torn, vs[w]}
                 /\ \A c \in Contents : Claimed(w, c) => \A p \in Parts : c[p] \in {0, vs[w]}
        BY <2>1 DEF OneVersion
      <4>2. ws[w] = vs[w]
        BY <2>2, <3>2
      <4>3. /\ \A v \in 0 .. MaxVersion : Sends(w, v)' => Sends(w, v)
            /\ \A c \in Contents : Claimed(w, c)' => Claimed(w, c)
        BY <1>14, <1>15, <3>2
      <4> QED BY <1>6, <4>1, <4>2, <4>3
    <3> QED BY <3>1, <3>2
  <2> QED BY <2>2, <2>3
<1>17. Held'
  <2> SUFFICES ASSUME NEW w \in Uploads, NEW p \in Parts, Vouched(w, p)'
               PROVE  /\ Intact(w)' => store'[w][p] # 0
                      /\ store'[w][p] = Torn => w \in rewritten'
    BY DEF Held
  <2>1. w # u /\ Vouched(w, p)
    <3>1. CASE \E c \in Contents : Claimed(w, c)' /\ c[p] # 0
      BY <1>15, <3>1, NothingType DEF Vouched
    <3>2. CASE \E q \in Runs : run'[q].pc = "parts" /\ run'[q].uid = w /\ run'[q].work[p] = "cut"
      <4>1. PICK q \in Runs : run'[q].pc = "parts" /\ run'[q].uid = w /\ run'[q].work[p] = "cut"
        BY <3>2
      <4>2. q # r
        BY <1>7, <1>8, <4>1
      <4> QED BY <1>8, <1>10, <4>1, <4>2 DEF IInv, RunInv, Active, Vouched
    <3> QED BY <3>1, <3>2 DEF Vouched
  <2>2. session'[w] = session[w]
    BY <1>6, <2>1 DEF IInv, TypeInv
  <2>3. Intact(w)' => Intact(w)
    BY <1>6, <2>2 DEF Intact
  <2> QED BY <1>6, <2>1, <2>3 DEF IInv, Held
<1> QED
  BY <1>9, <1>11, <1>12, <1>13, <1>16, <1>17 DEF IInv

\* A part is stored: it is claimed afterwards, or will be sent again.
LEMMA PartStored ==
    ASSUME IInv, NEW r \in Runs, NEW p \in Parts, run[r].pc = "parts", Stored(r, p),
           NEW d \in Contents, \A q \in Parts : d[q] = run[r].done[q] \/ (q = p /\ d[q] = file),
           NEW x \in RunStates, x.pc = "parts", x.uid = run[r].uid, x.ver = run[r].ver, x.done = d,
           \A q \in Parts : x.work[q] = "done" => d[q] # 0,
           \A q \in Parts : x.work[q] = "cut" => run[r].work[q] = "cut",
           run' = [run EXCEPT ![r] = x],
           ckpt' = ckpt \/ ckpt' = [uid |-> run[r].uid, ver |-> run[r].ver, done |-> d],
           faults' \in Nat,
           UNCHANGED <<file, server, begun, provider, small, object, starts, landed, closed, told, spoiled, rewritten>>
    PROVE  IInv'
<1> DEFINE u == run[r].uid
<1>1. /\ run[r] \in RunStates /\ run[r].done \in Contents /\ u \in 1 .. begun /\ u \in Uploads
      /\ run[r].ver \in 0 .. MaxVersion /\ run[r].ver \in Versions /\ u \in 0 .. MaxUploads
  BY UploadAssumption DEF IInv, TypeInv, RunStates, RunInv, Active, Uploads
<1>2. file \in Versions /\ file # 0 /\ file \in 0 .. Torn /\ file # Torn
  BY TornType DEF IInv, TypeInv
<1>3. /\ run' \in [Runs -> RunStates] /\ run'[r] = x
      /\ \A q \in Runs \ {r} : run'[q] = run[q]
  BY RunMoved DEF IInv
<1>4. /\ store' = IF run[r].work[p] = "cut" THEN store ELSE [store EXCEPT ![u][p] = file]
      /\ tainted \subseteq tainted' /\ tainted' \subseteq tainted \cup {u}
      /\ u \notin tainted' => file = run[r].ver
  BY DEF Stored
<1>5. /\ store' \in [Uploads -> Contents]
      /\ store'[u][p] = IF run[r].work[p] = "cut" THEN store[u][p] ELSE file
      /\ \A z \in Uploads, q \in Parts : z # u \/ q # p => store'[z][q] = store[z][q]
      /\ \A z \in Uploads : z # u => store'[z] = store[z]
  BY <1>1, <1>2, <1>4 DEF IInv, TypeInv, Contents
<1> DEFINE saved == [uid |-> u, ver |-> run[r].ver, done |-> d]
<1>6. saved \in Checkpoints /\ saved.uid = u /\ saved.ver = run[r].ver /\ saved.done = d
  BY <1>1 DEF Checkpoints
<1>7. ckpt' = ckpt \/ ckpt' = saved
  OBVIOUS
<1> HIDE DEF saved
<1>8. TypeInv'
  BY <1>3, <1>5, <1>6, <1>7 DEF server, IInv, TypeInv
<1>9. Books'
  <2>1. ckpt'.uid <= begun'
    BY <1>1, <1>6, <1>7 DEF IInv, Books, TypeInv
  <2>2. \A z \in Uploads : z > begun => z # u
    BY <1>1 DEF IInv, TypeInv
  <2> QED BY <1>1, <1>4, <1>5, <2>1, <2>2 DEF server, IInv, Books
<1>10. \A q \in Runs : RunInv(q)'
  <2>1. RunInv(r)'
    BY <1>1, <1>3 DEF RunInv, Active
  <2>2. \A q \in Runs \ {r} : RunInv(q)'
    BY <1>3 DEF IInv, RunInv, server
  <2> QED BY <2>1, <2>2
<1>11. \A k \in Calls : CallInv(k)'
  BY DEF IInv, CallInv, server
<1>12. Sends(u, run[r].ver) /\ Claimed(u, run[r].done)
  BY DEF Sends, Claimed, Active
<1>13. \A z \in Uploads, v \in 0 .. MaxVersion : Sends(z, v)' => Sends(z, v)
  BY <1>3, <1>6, <1>7, <1>12 DEF Sends, Active
<1>14. \A z \in Uploads, c \in Contents : Claimed(z, c)' => Claimed(z, c) \/ (z = u /\ c = d)
  <2> SUFFICES ASSUME NEW z \in Uploads, NEW c \in Contents, Claimed(z, c)'
               PROVE  Claimed(z, c) \/ (z = u /\ c = d)
    OBVIOUS
  <2>1. CASE \E q \in Runs : run'[q].pc \in Active /\ run'[q].uid = z /\ run'[q].done = c
    <3>1. PICK q \in Runs : run'[q].pc \in Active /\ run'[q].uid = z /\ run'[q].done = c
      BY <2>1
    <3>2. CASE q = r
      BY <1>3, <3>1, <3>2
    <3>3. CASE q # r
      BY <1>3, <3>1, <3>3, Claims
    <3> QED BY <3>2, <3>3
  <2>2. CASE ckpt'.uid = z /\ ckpt'.done = c
    <3>1. CASE ckpt' = saved
      BY <1>6, <2>2, <3>1
    <3>2. CASE ckpt' = ckpt
      BY <2>2, <3>2, Claims
    <3> QED BY <1>7, <3>1, <3>2
  <2>3. CASE \E k \in Calls : /\ call'[k].pc \in {"waiting", "provider"}
                              /\ call'[k].uid = z /\ call'[k].parts = c
    BY <2>3, Claims DEF server
  <2> QED BY <2>1, <2>2, <2>3 DEF Claimed
<1>15. \E vs \in [Uploads -> Versions] : OneVersion(vs)'
  <2>1. PICK vs \in [Uploads -> Versions] : OneVersion(vs)
    BY DEF IInv
  <2>2. run[r].ver = vs[u]
    BY <1>1, <1>12, <2>1 DEF OneVersion
  <2>3. OneVersion(vs)'
    <3> SUFFICES ASSUME NEW z \in Uploads
                 PROVE  /\ \A v \in 0 .. MaxVersion : Sends(z, v)' => v = vs[z]
                        /\ z \notin tainted' =>
                             /\ \A q \in Parts : store'[z][q] \in {0, Torn, vs[z]}
                             /\ \A c \in Contents : Claimed(z, c)' => \A q \in Parts : c[q] \in {0, vs[z]}
      BY DEF OneVersion
    <3>1. \A v \in 0 .. MaxVersion : Sends(z, v)' => v = vs[z]
      BY <1>13, <2>1 DEF OneVersion
    <3>2. CASE z \notin tainted'
      <4>1. /\ \A q \in Parts : store[z][q] \in {0, Torn, vs[z]}
            /\ \A c \in Contents : Claimed(z, c) => \A q \in Parts : c[q] \in {0, vs[z]}
        BY <1>4, <2>1, <3>2 DEF OneVersion
      <4>2. z = u => file = vs[z]
        BY <1>4, <2>2, <3>2
      <4>3. \A q \in Parts : store'[z][q] \in {0, Torn, vs[z]}
        BY <1>5, <4>1, <4>2
      <4>4. z = u => \A q \in Parts : d[q] \in {0, vs[z]}
        BY <1>1, <1>12, <4>1, <4>2
      <4> QED BY <1>14, <3>1, <4>1, <4>3, <4>4
    <3> QED BY <3>1, <3>2
  <2> QED BY <2>3
<1>16. Held'
  <2> SUFFICES ASSUME NEW z \in Uploads, NEW q \in Parts, Vouched(z, q)'
               PROVE  /\ Intact(z)' => store'[z][q] # 0
                      /\ store'[z][q] = Torn => z \in rewritten'
    BY DEF Held
  <2>1. (Intact(z)' => Intact(z)) /\ rewritten' = rewritten
    BY DEF Intact, server
  <2>2. CASE z = u /\ q = p /\ run[r].work[p] # "cut"
    BY <1>2, <1>5, <2>2
  <2>3. CASE ~(z = u /\ q = p /\ run[r].work[p] # "cut")
    <3>1. store'[z][q] = store[z][q]
      BY <1>5, <2>3
    <3>2. Vouched(z, q)
      <4>1. CASE z = u /\ q = p
        BY <2>3, <4>1 DEF Vouched
      <4>2. CASE ~(z = u /\ q = p) /\ \E c \in Contents : Claimed(z, c)' /\ c[q] # 0
        <5>1. PICK c \in Contents : Claimed(z, c)' /\ c[q] # 0
          BY <4>2
        <5>2. CASE z = u /\ c = d
          <6>1. run[r].done[q] # 0
            BY <4>2, <5>1, <5>2
          <6> QED BY <1>1, <1>12, <5>2, <6>1 DEF Vouched
        <5> QED BY <1>14, <5>1, <5>2 DEF Vouched
      <4>3. CASE \E o \in Runs : run'[o].pc = "parts" /\ run'[o].uid = z /\ run'[o].work[q] = "cut"
        BY <1>3, <4>3 DEF Vouched
      <4> QED BY <4>1, <4>2, <4>3 DEF Vouched
    <3> QED BY <2>1, <3>1, <3>2 DEF IInv, Held
  <2> QED BY <2>2, <2>3
<1> QED
  BY <1>8, <1>9, <1>10, <1>11, <1>15, <1>16 DEF IInv

LEMMA MultipartPartInv ==
    ASSUME IInv, NEW r \in Runs, NEW p \in Parts, MultipartPart(r, p)
    PROVE  IInv'
<1>1. /\ run[r].pc = "parts" /\ faults' \in Nat
      /\ UNCHANGED <<file, server, begun, provider, small, object, starts, landed, closed, told, spoiled, rewritten>>
  BY DEF MultipartPart, Sending, Fault, GivesUp, IInv, TypeInv
<1>2. /\ run[r] \in RunStates /\ run[r].work \in [Parts -> WorkStates]
      /\ run[r].done \in Contents
      /\ \A q \in Parts : run[r].work[q] = "done" => run[r].done[q] # 0
  BY <1>1 DEF IInv, TypeInv, RunStates, RunInv
<1>3. file # 0 /\ file \in 0 .. Torn
  BY TornType DEF IInv, TypeInv
<1>4. ASSUME NEW w \in {"todo", "done", "failed"}, Stored(r, p),
             run' = [run EXCEPT ![r].work[p] = w, ![r].done[p] = file],
             ckpt' = ckpt \/ ckpt' = [uid |-> run[r].uid, ver |-> run[r].ver, done |-> run'[r].done]
      PROVE  IInv'
  <2> DEFINE work == [run[r].work EXCEPT ![p] = w]
             d == [run[r].done EXCEPT ![p] = file]
             x == [run[r] EXCEPT !.work = work, !.done = d]
  <2>1. /\ work \in [Parts -> WorkStates]
        /\ \A q \in Parts \ {p} : work[q] = run[r].work[q]
        /\ \A q \in Parts : work[q] = "cut" => run[r].work[q] = "cut"
    BY <1>2 DEF WorkStates
  <2>2. /\ d \in Contents /\ d[p] = file /\ \A q \in Parts \ {p} : d[q] = run[r].done[q]
    BY <1>2, <1>3 DEF Contents
  <2>3. run' = [run EXCEPT ![r] = x]
    BY <1>4 DEF IInv, TypeInv
  <2> HIDE DEF work, d
  <2>4. /\ x \in RunStates /\ x.pc = "parts" /\ x.uid = run[r].uid /\ x.ver = run[r].ver
        /\ x.work = work /\ x.done = d
    BY <1>1, <1>2, <2>1, <2>2 DEF RunStates
  <2> HIDE DEF x
  <2>5. run'[r].done = d
    BY <2>3, <2>4, RunMoved DEF IInv
  <2>6. \A q \in Parts : work[q] = "done" => d[q] # 0
    BY <1>2, <1>3, <2>1, <2>2
  <2>7. /\ \A q \in Parts : d[q] = run[r].done[q] \/ (q = p /\ d[q] = file)
        /\ \A q \in Parts : x.work[q] = "done" => d[q] # 0
    BY <2>2, <2>4, <2>6
  <2>8. ckpt' = ckpt \/ ckpt' = [uid |-> run[r].uid, ver |-> run[r].ver, done |-> d]
    BY <1>4, <2>5
  <2>9. Stored(r, p) /\ d \in Contents
    BY <1>4, <2>2
  <2>10. \A q \in Parts : x.work[q] = "cut" => run[r].work[q] = "cut"
    BY <2>1, <2>4
  <2> QED BY <1>1, <2>3, <2>4, <2>7, <2>8, <2>9, <2>10, PartStored
<1>5. ASSUME NEW w \in {"todo", "failed"}, Stored(r, p), run' = [run EXCEPT ![r].work[p] = w],
             ckpt' = ckpt
      PROVE  IInv'
  <2> DEFINE work == [run[r].work EXCEPT ![p] = w]
             x == [run[r] EXCEPT !.work = work]
  <2>1. /\ work \in [Parts -> WorkStates]
        /\ \A q \in Parts : work[q] \in {"done", "cut"} => run[r].work[q] = work[q]
    BY <1>2 DEF WorkStates
  <2>2. run' = [run EXCEPT ![r] = x]
    BY <1>5 DEF IInv, TypeInv
  <2> HIDE DEF work
  <2>3. /\ x \in RunStates /\ x.pc = "parts" /\ x.uid = run[r].uid /\ x.ver = run[r].ver
        /\ x.work = work /\ x.done = run[r].done
    BY <1>1, <1>2, <2>1 DEF RunStates
  <2> HIDE DEF x
  <2>4. /\ \A q \in Parts : x.work[q] = "done" => run[r].done[q] # 0
        /\ \A q \in Parts : x.work[q] = "cut" => run[r].work[q] = "cut"
    BY <1>2, <2>1, <2>3
  <2>5. \A q \in Parts : run[r].done[q] = run[r].done[q] \/ (q = p /\ run[r].done[q] = file)
    OBVIOUS
  <2>6. Stored(r, p) /\ run[r].done \in Contents /\ ckpt' = ckpt
    BY <1>2, <1>5
  <2> QED BY <1>1, <2>2, <2>3, <2>4, <2>5, <2>6, PartStored
<1>6. ASSUME NEW w \in {"todo", "failed"}, run' = [run EXCEPT ![r].work[p] = w],
             UNCHANGED <<ckpt, store, tainted>>
      PROVE  IInv'
  BY <1>1, <1>6, PartMoves
<1>7. CASE /\ Stored(r, p)
           /\ run' = [run EXCEPT ![r].work[p] = "done", ![r].done[p] = file]
           /\ ckpt' = [uid |-> run[r].uid, ver |-> run[r].ver, done |-> run'[r].done]
  BY <1>4, <1>7
<1>8. CASE GivesUp(r, p) /\ UNCHANGED <<ckpt, store, tainted>>
  BY <1>6, <1>8 DEF GivesUp
<1>9. CASE RetryAction(r, p) /\ UNCHANGED <<ckpt, store, tainted>>
  BY <1>6, <1>9 DEF RetryAction
<1>10. CASE Stored(r, p) /\ RetryAction(r, p) /\ UNCHANGED ckpt
  BY <1>5, <1>10 DEF RetryAction
<1>11. CASE /\ Stored(r, p) /\ UNCHANGED ckpt
            /\ run' \in {[run EXCEPT ![r].work[p] = w, ![r].done[p] = file] : w \in {"todo", "failed"}}
  <2>1. PICK w \in {"todo", "failed"} : run' = [run EXCEPT ![r].work[p] = w, ![r].done[p] = file]
    BY <1>11
  <2> QED BY <1>4, <1>11, <2>1
<1> QED BY <1>7, <1>8, <1>9, <1>10, <1>11 DEF MultipartPart

\* A part is opened again: whoever vouched for it makes the upload rewritten.
LEMMA OpenPartInv ==
    ASSUME IInv, NEW r \in Runs, NEW p \in Parts, OpenPart(r, p)
    PROVE  IInv'
<1> DEFINE u == run[r].uid
           others == {q \in Runs \ {r} : Writes(q, u, p)}
           again == store[u][p] \notin {0, Torn} \/ others # {} \/ u \in landed
<1>1. /\ run[r].pc = "parts" /\ run[r].work[p] = "signed" /\ provider = "file" /\ faults' \in Nat
      /\ UNCHANGED <<file, ckpt, server, begun, provider, small, object, starts,
                     landed, closed, tainted, spoiled>>
  BY DEF OpenPart, Fault, IInv, TypeInv
<1>2. CASE RetryAction(r, p) /\ UNCHANGED <<store, rewritten>>
  <2>1. \E w \in {"todo", "signed", "failed"} : run' = [run EXCEPT ![r].work[p] = w]
    BY <1>2 DEF RetryAction
  <2> QED BY <1>1, <1>2, <2>1, PartMoves
<1>3. CASE /\ store' = [store EXCEPT ![u][p] = Torn]
           /\ run' = [q \in Runs |-> IF q = r THEN [run[q] EXCEPT !.work[p] = "writing"]
                                     ELSE CutPart(q, u, p)]
           /\ rewritten' = IF again THEN rewritten \cup {u} ELSE rewritten
  <2>1. u \in 1 .. begun /\ u \in Uploads
    BY <1>1, UploadAssumption DEF IInv, TypeInv, RunInv, Active, Uploads
  <2>2. ASSUME NEW q \in Runs
        PROVE  /\ run'[q] \in RunStates /\ run'[q].pc = run[q].pc /\ run'[q].uid = run[q].uid
               /\ run'[q].ver = run[q].ver /\ run'[q].done = run[q].done /\ run'[q].call = run[q].call
               /\ \A z \in Parts : z # p => run'[q].work[z] = run[q].work[z]
               /\ run'[q].work[p] = "done" => run[q].work[p] = "done"
               /\ run'[q].work[p] = "cut" /\ run[q].uid = u => q \in others
               /\ run[q].uid # u => run'[q] = run[q]
               /\ run[q].pc = "init" => run'[q] = run[q]
    <3>1. run[q] \in RunStates /\ run[q].work \in [Parts -> WorkStates]
      BY DEF IInv, TypeInv, RunStates
    <3>2. run[q].pc = "init" => run[q].work[p] = "todo"
      BY DEF IInv, RunInv
    <3>3. ASSUME NEW w \in {"writing", "cut"}, run'[q] = [run[q] EXCEPT !.work[p] = w]
          PROVE  /\ run'[q] \in RunStates /\ run'[q].pc = run[q].pc /\ run'[q].uid = run[q].uid
                 /\ run'[q].ver = run[q].ver /\ run'[q].done = run[q].done /\ run'[q].call = run[q].call
                 /\ run'[q].work[p] = w
                 /\ \A z \in Parts : z # p => run'[q].work[z] = run[q].work[z]
      <4> DEFINE work == [run[q].work EXCEPT ![p] = w]
      <4>1. /\ work \in [Parts -> WorkStates] /\ work[p] = w
            /\ \A z \in Parts : z # p => work[z] = run[q].work[z]
        BY <3>1 DEF WorkStates
      <4>2. run'[q] = [run[q] EXCEPT !.work = work]
        BY <3>3
      <4> HIDE DEF work
      <4> QED BY <3>1, <4>1, <4>2 DEF RunStates
    <3>4. CASE q = r
      <4>1. run'[q] = [run[q] EXCEPT !.work[p] = "writing"]
        BY <1>3, <3>4
      <4>2. "writing" \in {"writing", "cut"}
        OBVIOUS
      <4> QED BY <1>1, <3>3, <3>4, <4>1, <4>2
    <3>5. CASE q # r /\ Writes(q, u, p)
      <4>1. run'[q] = [run[q] EXCEPT !.work[p] = "cut"]
        BY <1>3, <3>5 DEF CutPart
      <4>2. q \in others /\ run[q].uid = u /\ run[q].pc # "init" /\ "cut" \in {"writing", "cut"}
        BY <3>2, <3>5 DEF Writes
      <4> QED BY <3>3, <4>1, <4>2
    <3>6. CASE q # r /\ ~Writes(q, u, p)
      <4>1. run'[q] = run[q]
        BY <1>3, <3>6 DEF CutPart
      <4> QED BY <3>1, <3>6, <4>1 DEF Writes
    <3> QED BY <3>4, <3>5, <3>6
  <2>3. /\ store' \in [Uploads -> Contents] /\ store'[u][p] = Torn
        /\ \A z \in Uploads, q \in Parts : z # u \/ q # p => store'[z][q] = store[z][q]
        /\ \A z \in Uploads : z # u => store'[z] = store[z]
    BY <1>3, <2>1, TornType DEF IInv, TypeInv, Contents
  <2>4. rewritten \subseteq rewritten' /\ rewritten' \subseteq rewritten \cup {u}
    BY <1>3
  <2>5. run' \in [Runs -> RunStates]
    BY <1>3, <2>2
  <2> HIDE DEF others
  <2>6. TypeInv'
    BY <1>1, <2>3, <2>5 DEF server, IInv, TypeInv
  <2>7. Books'
    <3>1. \A z \in Uploads : z > begun => z # u
      BY <2>1 DEF IInv, TypeInv
    <3> QED BY <1>1, <2>1, <2>3, <2>4, <3>1 DEF server, IInv, Books
  <2>8. ASSUME NEW q \in Runs PROVE RunInv(q)'
    <3>1. RunInv(q)
      BY DEF IInv
    <3>2. \A z \in Parts : run'[q].work[z] = "done" => run[q].work[z] = "done"
      BY <2>2
    <3> QED BY <1>1, <2>2, <3>1, <3>2 DEF server, RunInv, Active
  <2>9. \A k \in Calls : CallInv(k)'
    BY <1>1 DEF server, IInv, CallInv
  <2>10. \A z \in Uploads, v \in 0 .. MaxVersion : Sends(z, v)' => Sends(z, v)
    BY <1>1, <2>2 DEF Sends
  <2>11. \A z \in Uploads, c \in Contents : Claimed(z, c)' => Claimed(z, c)
    BY <1>1, <2>2 DEF server, Claimed
  <2>12. \E vs \in [Uploads -> Versions] : OneVersion(vs)'
    <3>1. PICK vs \in [Uploads -> Versions] : OneVersion(vs)
      BY DEF IInv
    <3>2. OneVersion(vs)'
      <4> SUFFICES ASSUME NEW z \in Uploads
                   PROVE  /\ \A v \in 0 .. MaxVersion : Sends(z, v)' => v = vs[z]
                          /\ z \notin tainted' =>
                               /\ \A q \in Parts : store'[z][q] \in {0, Torn, vs[z]}
                               /\ \A c \in Contents : Claimed(z, c)' => \A q \in Parts : c[q] \in {0, vs[z]}
        BY DEF OneVersion
      <4>1. /\ \A v \in 0 .. MaxVersion : Sends(z, v) => v = vs[z]
            /\ z \notin tainted =>
                 /\ \A q \in Parts : store[z][q] \in {0, Torn, vs[z]}
                 /\ \A c \in Contents : Claimed(z, c) => \A q \in Parts : c[q] \in {0, vs[z]}
        BY <3>1 DEF OneVersion
      <4>2. \A q \in Parts : store'[z][q] \in {store[z][q], Torn}
        BY <2>3
      <4> QED BY <1>1, <2>10, <2>11, <4>1, <4>2
    <3> QED BY <3>2
  <2>13. Held'
    <3> SUFFICES ASSUME NEW z \in Uploads, NEW q \in Parts, Vouched(z, q)'
                 PROVE  /\ Intact(z)' => store'[z][q] # 0
                        /\ store'[z][q] = Torn => z \in rewritten'
      BY DEF Held
    <3>1. Intact(z)' => Intact(z)
      BY <1>1 DEF Intact, server
    <3>2. CASE Vouched(z, q)
      <4>1. /\ Intact(z) => store[z][q] # 0
            /\ store[z][q] = Torn => z \in rewritten
        BY <3>2 DEF IInv, Held
      <4>2. CASE z = u /\ q = p
        <5>1. store[u][p] = 0 => u \in landed
          BY <1>1, <4>1, <4>2 DEF Intact
        <5>2. u \in rewritten'
          BY <1>3, <2>4, <4>1, <4>2, <5>1
        <5> QED BY <2>3, <4>2, <5>2, TornType
      <4>3. CASE ~(z = u /\ q = p)
        BY <2>3, <2>4, <3>1, <4>1, <4>3
      <4> QED BY <4>2, <4>3
    <3>3. CASE \E c \in Contents : Claimed(z, c)' /\ c[q] # 0
      BY <2>11, <3>2, <3>3 DEF Vouched
    <3>4. CASE \E o \in Runs : run'[o].pc = "parts" /\ run'[o].uid = z /\ run'[o].work[q] = "cut"
      <4>1. PICK o \in Runs : run'[o].pc = "parts" /\ run'[o].uid = z /\ run'[o].work[q] = "cut"
        BY <3>4
      <4>2. CASE z = u /\ q = p
        <5>1. o \in others
          BY <2>2, <4>1, <4>2
        <5>2. u \in rewritten'
          BY <1>3, <5>1
        <5> QED BY <2>3, <4>2, <5>2, TornType
      <4>3. CASE ~(z = u /\ q = p)
        <5>1. run[o].pc = "parts" /\ run[o].uid = z /\ run[o].work[q] = "cut"
          BY <2>2, <4>1, <4>3
        <5>2. Vouched(z, q)
          BY <5>1 DEF Vouched
        <5> QED BY <3>2, <5>2
      <4> QED BY <4>2, <4>3
    <3> QED BY <3>3, <3>4 DEF Vouched
  <2> QED BY <2>6, <2>7, <2>8, <2>9, <2>12, <2>13 DEF IInv
<1> QED BY <1>2, <1>3 DEF OpenPart

\* A process leaves the upload, and with it the call it waited for.
LEMMA WaitsForOwn ==
    ASSUME IInv, NEW r \in Runs, run[r].pc = "completing"
    PROVE  /\ run[r].call \in Calls
           /\ call[run[r].call].run = r
           /\ call[run[r].call].uid = run[r].uid
           /\ \A q \in Runs \ {r} : run[q].pc = "completing" => run[q].call # run[r].call
BY DEF IInv, RunInv

\* A process and the calls it made move together, and claim nothing new.
LEMMA ClientQuiet ==
    ASSUME IInv, ckpt' \in {ckpt, NoCheckpoint},
           run' \in [Runs -> RunStates], call' \in [Calls -> CallStates], faults' \in Nat,
           \A q \in Runs : RunInv(q)', \A j \in Calls : CallInv(j)',
           \A q \in Runs : SameWork(q), \A j \in Calls : SameList(j),
           \A j \in Calls : call[j].pc = "cleanup" => call'[j].pc = "cleanup" /\ call'[j].uid = call[j].uid,
           UNCHANGED <<file, session, token, begun, provider, small, store, object, starts,
                       landed, closed, tainted, spoiled, rewritten>>
    PROVE  IInv'
<1>1. TypeInv'
  BY NoCheckpointType DEF IInv, TypeInv
<1>2. Books'
  BY NoCheckpointType DEF IInv, TypeInv, Books
<1>3. ASSUME NEW u \in Uploads, Intact(u)' PROVE Intact(u) /\ store'[u] = store[u]
  BY <1>3 DEF Intact
<1>4. \A u \in Uploads, p \in Parts : store'[u][p] \in {store[u][p], 0}
  OBVIOUS
<1>5. (\E vs \in [Uploads -> Versions] : OneVersion(vs)') /\ Held'
  BY <1>3, <1>4, QuietStep
<1> QED BY <1>1, <1>2, <1>5 DEF IInv

\* The completion is requested with every part.
LEMMA JoinedInv ==
    ASSUME IInv, NEW r \in Runs, Joined(r)
    PROVE  IInv'
<1>1. /\ run[r].pc = "parts" /\ ckpt' = ckpt /\ starts' = starts /\ faults' = faults /\ object' = object
      /\ UNCHANGED <<file, session, token, begun, provider, small, store, landed, closed, tainted, spoiled, rewritten>>
  BY DEF Joined, storage, history
<1>2. CASE Ends(r) /\ UNCHANGED call
  BY <1>1, <1>2, IdleRunType, RunLeaves DEF Ends, server, IInv, TypeInv
<1>3. ASSUME NEW k \in Calls, call[k].pc = "idle",
             \A p \in Parts : run[r].work[p] = "done", session[run[r].uid] = "open",
             call' = [call EXCEPT ![k] = [pc |-> "waiting", uid |-> run[r].uid,
                                          parts |-> run[r].done, run |-> r]],
             run' = [run EXCEPT ![r].pc = "completing", ![r].call = k]
      PROVE  IInv'
  <2> DEFINE c == [pc |-> "waiting", uid |-> run[r].uid, parts |-> run[r].done, run |-> r]
             x == [run[r] EXCEPT !.pc = "completing", !.call = k]
  <2>1. /\ run[r] \in RunStates /\ run[r].uid \in 1 .. begun /\ run[r].ver \in Versions
        /\ Full(run[r].done)
    BY <1>1, <1>3 DEF IInv, TypeInv, RunInv, Active, Full
  <2>2. /\ x \in RunStates /\ x.pc = "completing" /\ x.call = k
        /\ x.uid = run[r].uid /\ x.ver = run[r].ver /\ x.done = run[r].done
    BY <2>1 DEF RunStates
  <2>3. /\ c \in CallStates /\ c.pc = "waiting" /\ c.uid = run[r].uid /\ c.run = r
        /\ c.parts = run[r].done
    BY <2>1 DEF RunStates, CallStates
  <2>4. run' = [run EXCEPT ![r] = x]
    BY <1>3 DEF IInv, TypeInv
  <2>5. call' = [call EXCEPT ![k] = c]
    BY <1>3
  <2> HIDE DEF c, x
  <2>6. /\ run' \in [Runs -> RunStates] /\ run'[r] = x
        /\ \A q \in Runs \ {r} : run'[q] = run[q]
    BY <2>2, <2>4, RunMoved DEF IInv
  <2>7. /\ call' \in [Calls -> CallStates] /\ call'[k] = c
        /\ \A j \in Calls \ {k} : call'[j] = call[j]
    BY <2>3, <2>5, CallMoved DEF IInv
  <2>8. \A q \in Runs : RunInv(q)'
    <3>1. RunInv(r)'
      BY <1>1, <2>1, <2>2, <2>3, <2>6, <2>7 DEF RunInv, Active
    <3>2. ASSUME NEW q \in Runs \ {r} PROVE RunInv(q)'
      <4>1. run[q].pc = "completing" => run[q].call # k
        BY <1>3 DEF IInv, RunInv
      <4> QED BY <1>1, <2>6, <2>7, <4>1 DEF IInv, RunInv
    <3> QED BY <3>1, <3>2
  <2>9. \A j \in Calls : CallInv(j)'
    <3>1. CallInv(k)'
      BY <1>1, <1>3, <2>1, <2>3, <2>7 DEF CallInv
    <3>2. ASSUME NEW j \in Calls \ {k} PROVE CallInv(j)'
      BY <1>1, <2>7 DEF IInv, CallInv
    <3> QED BY <3>1, <3>2
  <2>10. \A q \in Runs : SameWork(q)
    BY <1>1, <2>2, <2>6 DEF SameWork, SameClaim, SameCuts, Active
  <2>11. \A j \in Calls : SameList(j)
    BY <1>1, <2>3, <2>7 DEF SameList, Active
  <2>12. \A j \in Calls : call[j].pc = "cleanup" => call'[j].pc = "cleanup" /\ call'[j].uid = call[j].uid
    BY <1>3, <2>7
  <2>13. faults' \in Nat
    BY <1>1 DEF IInv, TypeInv
  <2> QED BY <1>1, <2>6, <2>7, <2>8, <2>9, <2>10, <2>11, <2>12, <2>13, ClientQuiet
<1>4. CASE ~((\E p \in Parts : run[r].work[p] = "failed") \/ session[run[r].uid] # "open")
  <2>1. /\ \A p \in Parts : run[r].work[p] = "done"
        /\ session[run[r].uid] = "open"
    BY <1>4 DEF Joined
  <2> QED BY <1>3, <1>4, <2>1 DEF Joined
<1> QED BY <1>2, <1>4 DEF Joined

LEMMA AnsweredInv ==
    ASSUME IInv, NEW r \in Runs, Answered(r)
    PROVE  IInv'
<1>1. PICK k \in Calls : k = run[r].call /\ \A q \in Runs \ {r} : run[q].pc = "completing" => run[q].call # k
  BY WaitsForOwn DEF Answered
<1>2. /\ run[r].pc = "completing" /\ call[k].pc \in {"ok", "error"}
      /\ call' = [call EXCEPT ![k] = IdleCall] /\ faults' \in Nat
      /\ UNCHANGED <<file, session, token, begun, provider, small, store, object, starts,
                     landed, closed, tainted, spoiled, rewritten>>
  BY <1>1 DEF Answered, storage, IInv, TypeInv
<1>3. run' = [run EXCEPT ![r] = IdleRun]
  BY DEF Answered, RegisterFile, Ends
<1>4. ckpt' \in {ckpt, NoCheckpoint}
  BY DEF Answered
<1>5. /\ run' \in [Runs -> RunStates] /\ run'[r].pc = "idle"
      /\ \A q \in Runs \ {r} : run'[q] = run[q]
  BY <1>3, IdleRunType, RunMoved DEF IInv
<1>6. /\ call' \in [Calls -> CallStates] /\ call'[k] = IdleCall
      /\ \A j \in Calls \ {k} : call'[j] = call[j]
  BY <1>2, IdleCallType, CallMoved DEF IInv
<1>7. \A q \in Runs : RunInv(q)'
  <2>1. RunInv(r)'
    BY <1>5 DEF RunInv, Active
  <2>2. ASSUME NEW q \in Runs \ {r} PROVE RunInv(q)'
    BY <1>1, <1>2, <1>5, <1>6 DEF IInv, RunInv
  <2> QED BY <2>1, <2>2
<1>8. \A j \in Calls : CallInv(j)'
  <2>1. CallInv(k)'
    BY <1>6, IdleCallType DEF CallInv
  <2>2. ASSUME NEW j \in Calls \ {k} PROVE CallInv(j)'
    BY <1>2, <1>6 DEF IInv, CallInv
  <2> QED BY <2>1, <2>2
<1>9. \A q \in Runs : SameWork(q)
  BY <1>5 DEF SameWork, SameClaim, SameCuts, Active
<1>10. \A j \in Calls : SameList(j)
  BY <1>6, IdleCallType DEF SameList
<1>11. \A j \in Calls : call[j].pc = "cleanup" => call'[j].pc = "cleanup" /\ call'[j].uid = call[j].uid
  BY <1>2, <1>6
<1> QED BY <1>2, <1>4, <1>5, <1>6, <1>7, <1>8, <1>9, <1>10, <1>11, ClientQuiet

\* The process is gone, and what it asked for goes on without it.
Orphaned(c) == IF c.pc \in {"ok", "error"} THEN IdleCall ELSE [c EXCEPT !.run = NoRun]

LEMMA OrphanType ==
    ASSUME NEW c \in CallStates
    PROVE  /\ Orphaned(c) \in CallStates
           /\ Orphaned(c).pc = (IF c.pc \in {"ok", "error"} THEN "idle" ELSE c.pc)
           /\ c.pc \notin {"ok", "error"} => /\ Orphaned(c).uid = c.uid
                                             /\ Orphaned(c).parts = c.parts
BY IdleCallType DEF Orphaned, CallStates

\* The calls of a process that is gone are orphaned.
LEMMA LeavesBehind ==
    ASSUME IInv, NEW r \in Runs, run' = [run EXCEPT ![r] = IdleRun],
           call' \in [Calls -> CallStates],
           \A j \in Calls : \/ call'[j] = call[j]
                            \/ call[j].run = r /\ call'[j] = Orphaned(call[j]),
           faults' \in Nat, ckpt' = ckpt,
           UNCHANGED <<file, session, token, begun, provider, small, store, object, starts,
                       landed, closed, tainted, spoiled, rewritten>>
    PROVE  IInv'
<1>1. /\ run' \in [Runs -> RunStates] /\ run'[r].pc = "idle"
      /\ \A q \in Runs \ {r} : run'[q] = run[q]
  BY IdleRunType, RunMoved DEF IInv
<1>2. \A j \in Calls : /\ call'[j] = call[j] \/ call'[j].pc = "idle"
                            \/ /\ call'[j].pc = call[j].pc /\ call'[j].uid = call[j].uid
                               /\ call'[j].parts = call[j].parts
                       /\ call[j].run # r => call'[j] = call[j]
                       /\ call[j].pc = "cleanup" => call'[j].pc = "cleanup" /\ call'[j].uid = call[j].uid
  BY OrphanType DEF IInv, TypeInv
<1>3. \A q \in Runs : RunInv(q)'
  <2>1. RunInv(r)'
    BY <1>1 DEF RunInv, Active
  <2>2. ASSUME NEW q \in Runs \ {r} PROVE RunInv(q)'
    <3>1. run[q].pc = "completing" => call'[run[q].call] = call[run[q].call]
      BY <1>2 DEF IInv, RunInv
    <3> QED BY <1>1, <3>1 DEF IInv, RunInv
  <2> QED BY <2>1, <2>2
<1>4. \A j \in Calls : CallInv(j)'
  BY <1>2 DEF IInv, CallInv
<1>5. \A q \in Runs : SameWork(q)
  BY <1>1 DEF SameWork, SameClaim, SameCuts, Active
<1>6. \A j \in Calls : SameList(j)
  BY <1>2 DEF SameList
<1>7. \A j \in Calls : call[j].pc = "cleanup" => call'[j].pc = "cleanup" /\ call'[j].uid = call[j].uid
  BY <1>2
<1> QED BY <1>1, <1>3, <1>4, <1>5, <1>6, <1>7, ClientQuiet

LEMMA CrashInv ==
    ASSUME IInv, NEW r \in Runs, Crash(r)
    PROVE  IInv'
<1>1. /\ run' = [run EXCEPT ![r] = IdleRun] /\ faults' \in Nat /\ ckpt' = ckpt
      /\ UNCHANGED <<file, session, token, begun, provider, small, store, object, starts,
                     landed, closed, tainted, spoiled, rewritten>>
  BY DEF Crash, Ends, CutsOff, Fault, IInv, TypeInv
<1>2. call' = [k \in Calls |-> IF call[k].run # r THEN call[k] ELSE Orphaned(call[k])]
  BY DEF Crash, Orphaned
<1>3. /\ call' \in [Calls -> CallStates]
      /\ \A j \in Calls : \/ call'[j] = call[j]
                          \/ call[j].run = r /\ call'[j] = Orphaned(call[j])
  BY <1>2, OrphanType DEF IInv, TypeInv
<1> QED BY <1>1, <1>3, LeavesBehind

LEMMA TimedOutInv ==
    ASSUME IInv, NEW r \in Runs, TimedOut(r)
    PROVE  IInv'
<1>1. /\ run' = [run EXCEPT ![r] = IdleRun] /\ faults' \in Nat /\ ckpt' = ckpt
      /\ UNCHANGED <<file, session, token, begun, provider, small, store, object, starts,
                     landed, closed, tainted, spoiled, rewritten>>
  BY DEF TimedOut, Ends, Fault, storage, history, IInv, TypeInv
<1>2. PICK k \in Calls : k = run[r].call /\ call[k].run = r
  BY WaitsForOwn DEF TimedOut
<1>3. call' = [call EXCEPT ![k] = Orphaned(call[k])]
  BY <1>2 DEF TimedOut, Orphaned
<1>4. Orphaned(call[k]) \in CallStates
  BY OrphanType DEF IInv, TypeInv
<1>5. /\ call' \in [Calls -> CallStates]
      /\ \A j \in Calls : \/ call'[j] = call[j]
                          \/ call[j].run = r /\ call'[j] = Orphaned(call[j])
  BY <1>2, <1>3, <1>4, CallMoved DEF IInv
<1> QED BY <1>1, <1>5, LeavesBehind

LEMMA RestartInv == IInv /\ Restart => IInv'
<1> SUFFICES ASSUME IInv, Restart PROVE IInv'
  OBVIOUS
<1>1. /\ ckpt' = ckpt /\ faults' \in Nat
      /\ UNCHANGED <<file, begun, provider, small, store, object, starts, landed, closed, tainted, spoiled, rewritten>>
  BY DEF Restart, Fault, storage, history, IInv, TypeInv
<1>2. /\ session' \in [Uploads -> {"none", "open", "completed"}] /\ \A u \in Uploads : session'[u] = "none"
      /\ token' \in [Uploads -> Calls \cup {NoCall}]
  BY DEF Restart
<1>3. call' \in [Calls -> CallStates] /\ \A j \in Calls : call'[j].pc = "idle"
  BY IdleCallType DEF Restart
<1>4. /\ run' \in [Runs -> RunStates]
      /\ \A q \in Runs : IF run[q].pc = "completing" THEN run'[q].pc = "idle" ELSE run'[q] = run[q]
  BY IdleRunType DEF Restart, IInv, TypeInv
<1>5. TypeInv'
  BY <1>1, <1>2, <1>3, <1>4 DEF IInv, TypeInv
<1>6. Books'
  <2>1. closed \subseteq Uploads
    BY UploadAssumption DEF IInv, TypeInv, Books, Uploads
  <2> QED BY <1>1, <1>2, <2>1 DEF IInv, Books
<1>7. \A q \in Runs : RunInv(q)'
  BY <1>1, <1>4 DEF IInv, RunInv, Active
<1>8. \A j \in Calls : CallInv(j)'
  BY <1>3 DEF CallInv
<1>9. \A q \in Runs : SameWork(q)
  BY <1>4 DEF SameWork, SameClaim, SameCuts, Active
<1>10. \A j \in Calls : SameList(j)
  BY <1>3 DEF SameList
<1>11. \A u \in Uploads : Intact(u)' => Intact(u) /\ store'[u] = store[u]
  BY <1>1, <1>2 DEF Intact
<1>12. \A u \in Uploads, p \in Parts : store'[u][p] \in {store[u][p], 0}
  BY <1>1
<1>13. (\E vs \in [Uploads -> Versions] : OneVersion(vs)') /\ Held'
  BY <1>1, <1>9, <1>10, <1>11, <1>12, QuietStep
<1> QED BY <1>5, <1>6, <1>7, <1>8, <1>13 DEF IInv

\* Nothing of the invariant but its type speaks of the source file.
LEMMA EditInv == IInv /\ Edit => IInv'
<1> SUFFICES ASSUME IInv, Edit PROVE IInv'
  OBVIOUS
<1>1. UNCHANGED <<ckpt, run, session, token, call, begun, provider, small, store, object, starts, faults,
                  landed, closed, tainted, spoiled, rewritten>>
  BY DEF Edit, server, storage, history
<1>2. file' \in Versions
  BY UploadAssumption DEF Edit, IInv, TypeInv, Versions
<1>3. TypeInv'
  BY <1>1, <1>2 DEF IInv, TypeInv
<1>4. \A q \in Runs : RunInv(q)' /\ SameWork(q)
  BY <1>1 DEF IInv, RunInv, SameWork, SameClaim, SameCuts
<1>5. \A j \in Calls : CallInv(j)' /\ SameList(j)
  BY <1>1 DEF IInv, CallInv, SameList
<1>6. \A u \in Uploads : Intact(u)' => Intact(u) /\ store'[u] = store[u]
  BY <1>1 DEF Intact
<1>7. \A u \in Uploads, p \in Parts : store'[u][p] \in {store[u][p], 0}
  BY <1>1
<1>8. (\E vs \in [Uploads -> Versions] : OneVersion(vs)') /\ Held'
  BY <1>1, <1>4, <1>5, <1>6, <1>7, QuietStep
<1>9. Books'
  BY <1>1 DEF IInv, Books
<1> QED BY <1>3, <1>4, <1>5, <1>8, <1>9 DEF IInv

-----------------------------------------------------------------------------
(* The server and the provider. *)

LEMMA ReplyStep ==
    ASSUME IInv, NEW k \in Calls, NEW answer \in {"ok", "error"}, Reply(k, answer)
    PROVE  \E c \in CallStates :
             /\ call' = [call EXCEPT ![k] = c]
             /\ c.pc \in {answer, "idle"}
             /\ c.pc = answer => c.uid = call[k].uid
             /\ call[k].run # NoRun => c.run = call[k].run /\ c.uid = call[k].uid /\ c.pc # "idle"
<1>1. call[k] \in CallStates
  BY DEF IInv, TypeInv
<1>2. CASE call[k].run = NoRun
  <2>1. call' = [call EXCEPT ![k] = IdleCall]
    BY <1>2 DEF Reply
  <2> QED BY <1>2, <2>1, IdleCallType
<1>3. CASE call[k].run # NoRun
  <2> DEFINE c == [call[k] EXCEPT !.pc = answer, !.parts = Nothing]
  <2>1. call' = [call EXCEPT ![k] = c]
    BY <1>3 DEF Reply
  <2>2. c \in CallStates /\ c.pc = answer /\ c.uid = call[k].uid /\ c.run = call[k].run
    BY <1>1, NothingType DEF CallStates
  <2> HIDE DEF c
  <2> QED BY <2>1, <2>2
<1> QED BY <1>2, <1>3

\* Process q goes on, behind a deletion if it was writing a part of upload u.
GoesOn(q, u) ==
    \/ run'[q] = run[q]
    \/ /\ run'[q].pc = run[q].pc /\ run'[q].uid = run[q].uid /\ run'[q].ver = run[q].ver
       /\ run'[q].done = run[q].done /\ run'[q].call = run[q].call
       /\ run[q].pc # "init"
       /\ \A p \in Parts : \/ run'[q].work[p] = run[q].work[p]
                           \/ /\ run'[q].work[p] = "cut" /\ run[q].uid = u
                              /\ ~Intact(u)' /\ store'[u][p] = 0

\* What a call may change besides itself, its session and its token.
ProviderMoves(u) ==
    /\ object' \in Contents \cup {Absent} /\ faults' \in Nat
    /\ landed' \in {landed, landed \cup {u}} /\ spoiled' \in {spoiled, spoiled \cup {u}}
    /\ store' \in [Uploads -> Contents]
    /\ \A w \in Uploads, p \in Parts : store'[w][p] \in {store[w][p], 0}
    /\ \A w \in Uploads \ {u} : store'[w] \in {store[w], Nothing}
    /\ run' \in [Runs -> RunStates] /\ \A q \in Runs : GoesOn(q, u)
    /\ UNCHANGED <<file, ckpt, begun, provider, small, starts, tainted, rewritten>>

\* The other calls on the upload hold no token while this one changes it.
LEMMA ServerStep ==
    ASSUME IInv, NEW k \in Calls, NEW u \in Uploads, u = call[k].uid, call[k].pc # "idle",
           ProviderMoves(u),
           NEW c \in CallStates, call' = [call EXCEPT ![k] = c], CallInv(k)',
           call[k].run # NoRun => c.run = call[k].run /\ c.uid = u /\ c.pc # "idle",
           c.pc \in {"waiting", "provider"} =>
             call[k].pc \in {"waiting", "provider"} /\ c.uid = u /\ c.parts = call[k].parts,
           call[k].pc = "cleanup" =>
             (c.pc = "cleanup" /\ c.uid = u) \/ session'[u] # "open" \/ u \in spoiled',
           session' \in [Uploads -> {"none", "open", "completed"}],
           \A w \in Uploads \ {u} : session'[w] = session[w],
           session'[u] \in {session[u], "completed"},
           token' \in [Uploads -> Calls \cup {NoCall}],
           \A w \in Uploads \ {u} : token'[w] = token[w],
           token[u] \in {k, NoCall} \/ (session'[u] = session[u] /\ token'[u] = token[u]),
           closed' = closed \/ (closed' = closed \cup {u} /\ session'[u] = "completed" /\ u \in landed'),
           \A w \in Uploads : Intact(w)' => store'[w] = store[w]
    PROVE  IInv'
<1> USE DEF ProviderMoves
<1>1. /\ call' \in [Calls -> CallStates] /\ call'[k] = c
      /\ \A j \in Calls \ {k} : call'[j] = call[j]
  BY CallMoved DEF IInv
<1>2. u \in 1 .. begun
  BY DEF IInv, CallInv
<1>3. TypeInv'
  BY <1>1 DEF IInv, TypeInv
<1>4. Books'
  <2>1. /\ landed' \subseteq 1 .. begun' /\ spoiled' \subseteq 1 .. begun'
        /\ tainted' \subseteq 1 .. begun' /\ rewritten' \subseteq 1 .. begun' /\ ckpt'.uid <= begun'
    BY <1>2 DEF IInv, Books
  <2>2. closed' \subseteq landed'
    BY DEF IInv, Books
  <2>3. closed \subseteq Uploads
    BY UploadAssumption DEF IInv, TypeInv, Books, Uploads
  <2>4. \A w \in closed' : session'[w] # "open"
    BY <2>3 DEF IInv, Books
  <2>5. ASSUME NEW w \in Uploads, w > begun' PROVE store'[w] = Nothing
    <3>1. w # u /\ store[w] = Nothing
      BY <1>2, <2>5 DEF IInv, TypeInv, Books
    <3> QED BY <3>1
  <2> QED BY <2>1, <2>2, <2>4, <2>5 DEF Books
<1>5. ASSUME NEW q \in Runs PROVE RunInv(q)'
  <2>1. /\ run'[q].pc = run[q].pc /\ run'[q].uid = run[q].uid /\ run'[q].ver = run[q].ver
        /\ run'[q].done = run[q].done /\ run'[q].call = run[q].call
        /\ run[q].pc = "init" => run'[q].work = run[q].work
        /\ \A p \in Parts : run'[q].work[p] = "done" => run[q].work[p] = "done"
    BY DEF GoesOn
  <2>2. RunInv(q) /\ begun' = begun
    BY DEF IInv
  <2>3. CASE run[q].pc = "completing" /\ run[q].call = k
    <3>1. call[k].run = q /\ call[k].run # NoRun /\ run[q].uid = u
      BY <2>2, <2>3, UploadAssumption DEF RunInv
    <3> QED BY <1>1, <2>1, <2>2, <2>3, <3>1 DEF RunInv, Active
  <2>4. CASE ~(run[q].pc = "completing" /\ run[q].call = k)
    BY <1>1, <2>1, <2>2, <2>4 DEF RunInv, Active
  <2> QED BY <2>3, <2>4
<1>6. ASSUME NEW j \in Calls PROVE CallInv(j)'
  <2>1. CASE j = k
    BY <2>1
  <2>2. CASE j # k
    <3>1. CallInv(j) /\ call'[j] = call[j] /\ j # NoCall
      BY <1>1, <2>2, UploadAssumption DEF IInv
    <3>2. call[j].pc # "idle" => call[j].uid \in Uploads
      BY <3>1, UploadAssumption DEF CallInv, Uploads, IInv, TypeInv
    <3>3. call[j].pc \in {"provider", "cleanup"} =>
            session'[call[j].uid] = "open" /\ token'[call[j].uid] = j
      BY <2>2, <3>1, <3>2 DEF CallInv
    <3>4. call[j].pc \in {"waiting", "provider"} => session'[call[j].uid] # "none"
      BY <3>1, <3>2 DEF CallInv
    <3> QED BY <3>1, <3>3, <3>4 DEF CallInv
  <2> QED BY <2>1, <2>2
<1>7. ASSUME NEW q \in Runs PROVE SameWork(q)
  <2>1. GoesOn(q, u)
    OBVIOUS
  <2>2. SameClaim(q)
    BY <2>1 DEF GoesOn, SameClaim
  <2>3. SameCuts(q)
    BY <2>1 DEF GoesOn, SameCuts
  <2> QED BY <2>2, <2>3 DEF SameWork
<1>8. \A j \in Calls : SameList(j)
  BY <1>1 DEF SameList
<1>9. ASSUME NEW w \in Uploads, Intact(w)' PROVE Intact(w) /\ store'[w] = store[w]
  <2>1. ~(provider = "azure" /\ landed # {})
    BY <1>9 DEF Intact
  <2>2. CASE w \notin landed'
    BY <1>9, <2>1, <2>2 DEF Intact
  <2>3. CASE /\ session'[w] = "open" /\ w \notin spoiled'
             /\ \A j \in Calls : ~(call'[j].pc = "cleanup" /\ call'[j].uid = w)
    <3>1. session[w] = "open" /\ w \notin spoiled
      BY <2>3
    <3>2. ASSUME NEW j \in Calls PROVE ~(call[j].pc = "cleanup" /\ call[j].uid = w)
      BY <1>1, <2>3
    <3> QED BY <1>9, <2>1, <3>1, <3>2 DEF Intact
  <2> QED BY <1>9, <2>2, <2>3 DEF Intact
<1>10. (\E vs \in [Uploads -> Versions] : OneVersion(vs)') /\ Held'
  <2>1. tainted \subseteq tainted' /\ rewritten \subseteq rewritten' /\ ckpt' \in {ckpt, NoCheckpoint}
    OBVIOUS
  <2>2. \A w \in Uploads, p \in Parts : store'[w][p] \in {store[w][p], 0}
    OBVIOUS
  <2> QED BY <1>7, <1>8, <1>9, <2>1, <2>2, QuietStep
<1> QED BY <1>3, <1>4, <1>5, <1>6, <1>10 DEF IInv

\* A call answers, or has nobody to answer.
LEMMA ReplyInv ==
    ASSUME IInv, NEW k \in Calls, NEW u \in Uploads, u = call[k].uid, call[k].pc # "idle",
           ProviderMoves(u), NEW answer \in {"ok", "error"}, Reply(k, answer),
           answer = "ok" => u \in closed',
           call[k].pc = "cleanup" => session'[u] # "open" \/ u \in spoiled',
           session' \in [Uploads -> {"none", "open", "completed"}],
           \A w \in Uploads \ {u} : session'[w] = session[w],
           session'[u] \in {session[u], "completed"},
           token' \in [Uploads -> Calls \cup {NoCall}],
           \A w \in Uploads \ {u} : token'[w] = token[w],
           token[u] \in {k, NoCall} \/ (session'[u] = session[u] /\ token'[u] = token[u]),
           closed' = closed \/ (closed' = closed \cup {u} /\ session'[u] = "completed" /\ u \in landed'),
           \A w \in Uploads : Intact(w)' => store'[w] = store[w]
    PROVE  IInv'
<1>1. PICK c \in CallStates :
        /\ call' = [call EXCEPT ![k] = c]
        /\ c.pc \in {answer, "idle"}
        /\ c.pc = answer => c.uid = call[k].uid
        /\ call[k].run # NoRun => c.run = call[k].run /\ c.uid = call[k].uid /\ c.pc # "idle"
  BY ReplyStep
<1>2. call'[k] = c
  BY <1>1, CallMoved DEF IInv
<1>3. u \in 1 .. begun'
  BY DEF IInv, CallInv, ProviderMoves
<1>4. CallInv(k)'
  BY <1>1, <1>2, <1>3 DEF CallInv
<1>5. /\ call[k].run # NoRun => c.run = call[k].run /\ c.uid = u /\ c.pc # "idle"
      /\ c.pc \notin {"waiting", "provider"}
  BY <1>1
<1> QED BY <1>1, <1>4, <1>5, ServerStep

LEMMA FailsInv ==
    ASSUME IInv, NEW k \in Calls, NEW u \in Uploads, u = call[k].uid,
           call[k].pc \in {"provider", "cleanup"}, ProviderMoves(u), Fails(k),
           call[k].pc = "cleanup" => u \in spoiled',
           \A w \in Uploads : Intact(w)' => store'[w] = store[w]
    PROVE  IInv'
<1>1. /\ token' \in [Uploads -> Calls \cup {NoCall}] /\ \A w \in Uploads \ {u} : token'[w] = token[w]
      /\ session' = session /\ closed' = closed /\ Reply(k, "error")
  BY DEF Fails, Release, IInv, TypeInv
<1>2. token[u] = k /\ session \in [Uploads -> {"none", "open", "completed"}]
  BY DEF IInv, TypeInv, CallInv
<1> QED BY <1>1, <1>2, ReplyInv

LEMMA SucceedsInv ==
    ASSUME IInv, NEW k \in Calls, NEW u \in Uploads, u = call[k].uid,
           call[k].pc \in {"provider", "cleanup"}, ProviderMoves(u), Succeeds(k), u \in landed',
           \A w \in Uploads : Intact(w)' => store'[w] = store[w]
    PROVE  IInv'
<1>1. /\ token' \in [Uploads -> Calls \cup {NoCall}] /\ \A w \in Uploads \ {u} : token'[w] = token[w]
      /\ closed' = closed \cup {u} /\ Reply(k, "ok")
  BY DEF Succeeds, Release, IInv, TypeInv
<1>2. /\ session' \in [Uploads -> {"none", "open", "completed"}] /\ session'[u] = "completed"
      /\ \A w \in Uploads \ {u} : session'[w] = session[w]
  BY DEF Succeeds, IInv, TypeInv
<1>3. token[u] = k
  BY DEF IInv, CallInv
<1> QED BY <1>1, <1>2, <1>3, ReplyInv

\* The object is composed; the parts are deleted next.
LEMMA CleanupInv ==
    ASSUME IInv, NEW k \in Calls, NEW u \in Uploads, u = call[k].uid,
           call[k].pc \in {"provider", "cleanup"}, ProviderMoves(u), u \in landed',
           NEW c \in CallStates, call' = [call EXCEPT ![k] = c],
           c.pc = "cleanup", c.uid = u, c.run = call[k].run,
           UNCHANGED <<session, token, closed>>,
           \A w \in Uploads : Intact(w)' => store'[w] = store[w]
    PROVE  IInv'
<1>1. call'[k] = c
  BY CallMoved DEF IInv
<1>2. u \in 1 .. begun' /\ session[u] = "open" /\ token[u] = k
  BY DEF IInv, CallInv, ProviderMoves
<1>3. CallInv(k)'
  BY <1>1, <1>2 DEF CallInv
<1>4. /\ session \in [Uploads -> {"none", "open", "completed"}]
      /\ token \in [Uploads -> Calls \cup {NoCall}]
  BY DEF IInv, TypeInv
<1> QED BY <1>3, <1>4, ServerStep

\* A call works on an upload that was begun.
LEMMA CallsUpload ==
    ASSUME IInv, NEW k \in Calls, call[k].pc # "idle"
    PROVE  \E u \in Uploads : u = call[k].uid
BY UploadAssumption DEF IInv, TypeInv, CallInv, Uploads

LEMMA AcquireInv ==
    ASSUME IInv, NEW k \in Calls, Acquire(k)
    PROVE  IInv'
<1>1. PICK u \in Uploads : u = call[k].uid
  BY CallsUpload DEF Acquire
<1>2. /\ call[k].pc = "waiting" /\ token[u] = NoCall /\ session[u] # "none"
      /\ UNCHANGED <<file, ckpt, run, session, begun, provider, small, store, object, starts, faults,
                     landed, closed, tainted, spoiled, rewritten>>
  BY <1>1 DEF Acquire, TokenFree, storage, history, IInv, CallInv
<1>3. ProviderMoves(u) /\ \A w \in Uploads : Intact(w)' => store'[w] = store[w]
  BY <1>2 DEF ProviderMoves, GoesOn, IInv, TypeInv
<1>4. /\ session \in [Uploads -> {"none", "open", "completed"}]
      /\ token \in [Uploads -> Calls \cup {NoCall}]
  BY DEF IInv, TypeInv
<1>5. CASE AlreadyCompleted(k)
  <2>1. Reply(k, "error") /\ token' = token
    BY <1>5 DEF Acquire
  <2> QED BY <1>1, <1>2, <1>3, <1>4, <2>1, ReplyInv
<1>6. CASE ~AlreadyCompleted(k)
  <2> DEFINE c == [call[k] EXCEPT !.pc = "provider"]
  <2>1. /\ c \in CallStates /\ c.pc = "provider" /\ c.uid = u /\ c.parts = call[k].parts
        /\ c.run = call[k].run
    BY <1>1 DEF IInv, TypeInv, CallStates
  <2>2. call' = [call EXCEPT ![k] = c]
    BY <1>6 DEF Acquire
  <2> HIDE DEF c
  <2>3. /\ token' \in [Uploads -> Calls \cup {NoCall}] /\ token'[u] = k
        /\ \A w \in Uploads \ {u} : token'[w] = token[w]
    BY <1>1, <1>4, <1>6 DEF Acquire
  <2>4. session[u] = "open"
    BY <1>1, <1>2, <1>4, <1>6 DEF AlreadyCompleted
  <2>5. call'[k] = c
    BY <2>1, <2>2, CallMoved DEF IInv
  <2>6. Full(call[k].parts) /\ u \in 1 .. begun
    BY <1>1, <1>2 DEF IInv, CallInv
  <2>7. CallInv(k)'
    BY <1>2, <2>1, <2>3, <2>4, <2>5, <2>6 DEF CallInv
  <2> QED BY <1>1, <1>2, <1>3, <1>4, <2>1, <2>2, <2>3, <2>7, ServerStep
<1> QED BY <1>5, <1>6

LEMMA CancelledInv ==
    ASSUME IInv, NEW k \in Calls, Cancelled(k)
    PROVE  IInv'
<1>1. PICK u \in Uploads : u = call[k].uid
  BY CallsUpload DEF Cancelled
<1>2. /\ call[k].pc = "waiting" /\ Reply(k, "error") /\ faults' \in Nat
      /\ UNCHANGED <<file, ckpt, run, session, token, begun, provider, small, store, object, starts,
                     landed, closed, tainted, spoiled, rewritten>>
  BY DEF Cancelled, Fault, storage, history, IInv, TypeInv
<1>3. ProviderMoves(u) /\ \A w \in Uploads : Intact(w)' => store'[w] = store[w]
  BY <1>2 DEF ProviderMoves, GoesOn, IInv, TypeInv
<1>4. /\ session \in [Uploads -> {"none", "open", "completed"}]
      /\ token \in [Uploads -> Calls \cup {NoCall}]
  BY DEF IInv, TypeInv
<1> QED BY <1>1, <1>2, <1>3, <1>4, ReplyInv

\* The parts stay where they are.
LEMMA PartsStay ==
    ASSUME IInv, NEW k \in Calls, NEW name, AtProvider(k, name), NEW u \in Uploads,
           object' \in Contents \cup {Absent}, faults' \in Nat,
           landed' \in {landed, landed \cup {u}}, spoiled' \in {spoiled, spoiled \cup {u}}, store' = store
    PROVE  ProviderMoves(u) /\ \A w \in Uploads : Intact(w)' => store'[w] = store[w]
BY DEF ProviderMoves, GoesOn, AtProvider, IInv, TypeInv

LEMMA CompleteS3Inv ==
    ASSUME IInv, NEW k \in Calls, CompleteS3(k)
    PROVE  IInv'
<1>1. PICK u \in Uploads : u = call[k].uid
  BY CallsUpload DEF CompleteS3, AtProvider
<1>2. AtProvider(k, "s3") /\ call[k].pc = "provider"
  BY DEF CompleteS3, AtProvider
<1>3. store[u] \in Contents /\ object \in Contents \cup {Absent} /\ faults \in Nat
  BY DEF IInv, TypeInv
<1>4. /\ object' \in Contents \cup {Absent} /\ faults' \in Nat
      /\ landed' \in {landed, landed \cup {u}} /\ spoiled' = spoiled /\ store' = store
      /\ Fails(k) \/ (Succeeds(k) /\ u \in landed')
  BY <1>1, <1>3 DEF CompleteS3, Installs, Untouched, Fault
<1>5. ProviderMoves(u) /\ \A w \in Uploads : Intact(w)' => store'[w] = store[w]
  BY <1>2, <1>4, PartsStay
<1>6. CASE Fails(k)
  BY <1>1, <1>2, <1>5, <1>6, FailsInv
<1>7. CASE Succeeds(k) /\ u \in landed'
  BY <1>1, <1>2, <1>5, <1>7, SucceedsInv
<1> QED BY <1>4, <1>6, <1>7

LEMMA CompleteAzureInv ==
    ASSUME IInv, NEW k \in Calls, CompleteAzure(k)
    PROVE  IInv'
<1>1. PICK u \in Uploads : u = call[k].uid
  BY CallsUpload DEF CompleteAzure, AtProvider
<1>2. AtProvider(k, "azure") /\ call[k].pc = "provider" /\ provider' = "azure"
  BY DEF CompleteAzure, AtProvider
<1>3. store[u] \in Contents /\ object \in Contents \cup {Absent} /\ faults \in Nat
  BY DEF IInv, TypeInv
<1>4. CASE /\ Installs(k, store[u])
           /\ store' = [w \in Uploads |-> IF w = u THEN store[w] ELSE Nothing]
           /\ faults' \in Nat /\ spoiled' = spoiled
           /\ Fails(k) \/ Succeeds(k)
  <2>1. object' \in Contents /\ landed' = landed \cup {u}
    BY <1>1, <1>3, <1>4 DEF Installs
  <2>2. /\ store' \in [Uploads -> Contents] /\ store'[u] = store[u]
        /\ \A w \in Uploads \ {u} : store'[w] = Nothing
    BY <1>4, NothingType DEF IInv, TypeInv
  <2>3. \A w \in Uploads, p \in Parts : store'[w][p] \in {store[w][p], 0}
    BY <2>2, NothingType
  <2>4. ProviderMoves(u)
    BY <1>2, <1>4, <2>1, <2>2, <2>3 DEF ProviderMoves, GoesOn, AtProvider, IInv, TypeInv
  <2>5. \A w \in Uploads : ~Intact(w)'
    BY <1>2, <2>1 DEF Intact
  <2>6. CASE Fails(k)
    BY <1>1, <1>2, <2>4, <2>5, <2>6, FailsInv
  <2>7. CASE Succeeds(k)
    BY <1>1, <1>2, <2>1, <2>4, <2>5, <2>7, SucceedsInv
  <2> QED BY <1>4, <2>6, <2>7
<1>5. CASE Fails(k) /\ Untouched /\ faults' \in Nat
  <2>1. ProviderMoves(u) /\ \A w \in Uploads : Intact(w)' => store'[w] = store[w]
    BY <1>2, <1>3, <1>5, PartsStay DEF Untouched
  <2> QED BY <1>1, <1>2, <1>5, <2>1, FailsInv
<1> QED BY <1>1, <1>3, <1>4, <1>5 DEF CompleteAzure, Fault

LEMMA ComposedInv ==
    ASSUME IInv, NEW k \in Calls, NEW u \in Uploads, u = call[k].uid,
           NEW name, AtProvider(k, name), Installs(k, store[u]),
           call' = [call EXCEPT ![k].pc = "cleanup"],
           UNCHANGED <<session, token, closed, store, spoiled, faults>>
    PROVE  IInv'
<1>1. /\ object' \in Contents \cup {Absent} /\ landed' = landed \cup {u} /\ u \in landed'
      /\ faults' \in Nat /\ call[k].pc = "provider"
  BY DEF Installs, AtProvider, IInv, TypeInv
<1>2. ProviderMoves(u) /\ \A w \in Uploads : Intact(w)' => store'[w] = store[w]
  BY <1>1, PartsStay
<1> DEFINE c == [call[k] EXCEPT !.pc = "cleanup"]
<1>3. c \in CallStates /\ c.pc = "cleanup" /\ c.uid = u /\ c.run = call[k].run
  BY DEF IInv, TypeInv, CallStates
<1>4. call' = [call EXCEPT ![k] = c]
  OBVIOUS
<1> HIDE DEF c
<1>5. UNCHANGED <<session, token, closed>> /\ call[k].pc \in {"provider", "cleanup"} /\ u \in landed'
  BY <1>1
<1> QED BY <1>2, <1>3, <1>4, <1>5, CleanupInv

LEMMA CompleteGCSInv ==
    ASSUME IInv, NEW k \in Calls, CompleteGCS(k)
    PROVE  IInv'
<1>1. PICK u \in Uploads : u = call[k].uid
  BY CallsUpload DEF CompleteGCS, AtProvider
<1>2. AtProvider(k, "gcs") /\ call[k].pc = "provider"
  BY DEF CompleteGCS, AtProvider
<1>3. object \in Contents \cup {Absent} /\ faults \in Nat
  BY DEF IInv, TypeInv
<1>4. CASE /\ Installs(k, store[u])
           /\ call' = [call EXCEPT ![k].pc = "cleanup"]
           /\ UNCHANGED <<session, token, closed, store, spoiled, faults>>
  BY <1>1, <1>2, <1>4, ComposedInv
<1>5. CASE Fails(k) /\ Untouched /\ faults' \in Nat
  <2>1. ProviderMoves(u) /\ \A w \in Uploads : Intact(w)' => store'[w] = store[w]
    BY <1>2, <1>3, <1>5, PartsStay DEF Untouched
  <2> QED BY <1>1, <1>2, <1>5, <2>1, FailsInv
<1> QED BY <1>1, <1>3, <1>4, <1>5 DEF CompleteGCS, Fault

LEMMA PrefixType ==
    ASSUME NEW c \in Contents, NEW n \in Parts, NEW last \in {0, Torn}
    PROVE  Prefix(c, n, last) \in Contents
BY TornType DEF Prefix, Contents

LEMMA PrefixesType == \A c \in Contents : Prefixes(c) \subseteq Contents
BY PrefixType DEF Prefixes

LEMMA CompleteFileInv ==
    ASSUME IInv, NEW k \in Calls, CompleteFile(k)
    PROVE  IInv'
<1>1. PICK u \in Uploads : u = call[k].uid
  BY CallsUpload DEF CompleteFile, AtProvider
<1>2. AtProvider(k, "file") /\ call[k].pc = "provider"
  BY DEF CompleteFile, AtProvider
<1>3. store[u] \in Contents /\ object \in Contents \cup {Absent} /\ faults \in Nat
  BY DEF IInv, TypeInv
<1>4. CASE /\ Installs(k, store[u])
           /\ call' = [call EXCEPT ![k].pc = "cleanup"]
           /\ UNCHANGED <<session, token, closed, store, spoiled, faults>>
  BY <1>1, <1>2, <1>4, ComposedInv
<1>5. CASE /\ Fails(k) /\ UNCHANGED store /\ faults' \in Nat /\ object' \in Contents \cup {Absent}
           /\ landed' \in {landed, landed \cup {u}} /\ spoiled' \in {spoiled, spoiled \cup {u}}
  <2>1. ProviderMoves(u) /\ \A w \in Uploads : Intact(w)' => store'[w] = store[w]
    BY <1>2, <1>5, PartsStay
  <2> QED BY <1>1, <1>2, <1>5, <2>1, FailsInv
<1>6. CASE /\ \E n \in Parts : object' = Prefix(store[u], n, 0)
           /\ Fails(k) /\ UNCHANGED <<store, landed, spoiled, faults>>
  <2>1. object' \in Contents
    BY <1>3, <1>6, PrefixType
  <2> QED BY <1>3, <1>5, <1>6, <2>1
<1>7. CASE /\ Fault /\ Fails(k) /\ object' \in Prefixes(store[u])
           /\ spoiled' = spoiled \cup {u} /\ UNCHANGED <<store, landed>>
  <2>1. object' \in Contents
    BY <1>3, <1>7, PrefixesType
  <2> QED BY <1>3, <1>5, <1>7, <2>1 DEF Fault
<1>8. CASE Fault /\ Installs(k, store[u]) /\ Fails(k) /\ UNCHANGED <<store, spoiled>>
  BY <1>1, <1>3, <1>5, <1>8 DEF Fault, Installs
<1>9. CASE Fault /\ Fails(k) /\ Untouched
  BY <1>3, <1>5, <1>9 DEF Fault, Untouched
<1> QED BY <1>1, <1>4, <1>6, <1>7, <1>8, <1>9 DEF CompleteFile

LEMMA DeletePartInv ==
    ASSUME IInv, NEW k \in Calls, DeletePart(k)
    PROVE  IInv'
<1>1. PICK u \in Uploads : u = call[k].uid
  BY CallsUpload DEF DeletePart
<1>2. /\ call[k].pc = "cleanup" /\ u \in landed /\ faults' \in Nat
      /\ UNCHANGED <<file, ckpt, begun, provider, small, object, starts, landed, tainted, rewritten>>
  <2>1. /\ call[k].pc = "cleanup"
        /\ UNCHANGED <<file, ckpt, begun, provider, small, object, starts, landed, tainted, rewritten>>
    BY DEF DeletePart
  <2>2. faults' = faults \/ Fault
    BY DEF DeletePart
  <2> QED BY <1>1, <2>1, <2>2 DEF Fault, IInv, TypeInv, CallInv
<1>3. object' \in Contents \cup {Absent} /\ store \in [Uploads -> Contents]
  BY <1>2 DEF IInv, TypeInv
<1>4. ASSUME NEW p \in Parts, run' = [q \in Runs |-> CutPart(q, u, p)], store' = [store EXCEPT ![u][p] = 0], call' = [call EXCEPT ![k].parts[p] = 0],
             UNCHANGED <<session, token, closed, spoiled>>
      PROVE  IInv'
  <2> DEFINE left == [store[u] EXCEPT ![p] = 0]
             c == [call[k] EXCEPT !.parts = [call[k].parts EXCEPT ![p] = 0]]
  <2>1. /\ store[u] \in [Parts -> 0 .. Torn] /\ 0 \in 0 .. Torn
    BY <1>3, TornType DEF Contents
  <2>2. left \in Contents /\ left[p] = 0 /\ \A q \in Parts : left[q] \in {store[u][q], 0}
    BY <2>1 DEF Contents
  <2>3. store' = [store EXCEPT ![u] = left]
    BY <1>4
  <2>4. [call[k].parts EXCEPT ![p] = 0] \in Contents
    <3>1. call[k].parts \in Contents
      BY DEF IInv, TypeInv, CallStates
    <3> QED BY <2>1, <3>1 DEF Contents
  <2>5. c \in CallStates /\ c.pc = "cleanup" /\ c.uid = u /\ c.run = call[k].run
    BY <1>1, <1>2, <2>4 DEF IInv, TypeInv, CallStates
  <2>6. call' = [call EXCEPT ![k] = c]
    BY <1>4
  <2> HIDE DEF left, c
  <2>7. /\ store' \in [Uploads -> Contents]
        /\ store'[u] = left /\ \A w \in Uploads \ {u} : store'[w] = store[w]
    BY <1>3, <2>2, <2>3
  <2>8. \A w \in Uploads, q \in Parts : store'[w][q] \in {store[w][q], 0}
    BY <2>2, <2>7
  <2>9. call'[k] = c
    BY <2>5, <2>6, CallMoved DEF IInv
  <2>10. ~Intact(u)' /\ store'[u][p] = 0
    BY <1>2, <2>2, <2>5, <2>7, <2>9 DEF Intact
  <2>11. ASSUME NEW q \in Runs PROVE run'[q] \in RunStates /\ GoesOn(q, u)
    <3>1. run[q] \in RunStates /\ run[q].work \in [Parts -> WorkStates]
      BY DEF IInv, TypeInv, RunStates
    <3>2. CASE Writes(q, u, p)
      <4> DEFINE work == [run[q].work EXCEPT ![p] = "cut"]
      <4>1. /\ work \in [Parts -> WorkStates] /\ work[p] = "cut"
            /\ \A z \in Parts : z # p => work[z] = run[q].work[z]
        BY <3>1 DEF WorkStates
      <4>2. run'[q] = [run[q] EXCEPT !.work = work]
        BY <1>4, <3>2 DEF CutPart
      <4>3. run[q].uid = u /\ run[q].pc # "init"
        BY <3>2 DEF Writes, IInv, RunInv
      <4> HIDE DEF work
      <4>4. /\ run'[q] \in RunStates /\ run'[q].pc = run[q].pc /\ run'[q].uid = run[q].uid
            /\ run'[q].ver = run[q].ver /\ run'[q].done = run[q].done /\ run'[q].call = run[q].call
            /\ run'[q].work = work
        BY <3>1, <4>1, <4>2 DEF RunStates
      <4> QED BY <2>10, <4>1, <4>3, <4>4 DEF GoesOn
    <3>3. CASE ~Writes(q, u, p)
      BY <1>4, <3>1, <3>3 DEF CutPart, GoesOn
    <3> QED BY <3>2, <3>3
  <2>12. run' \in [Runs -> RunStates]
    BY <1>4, <2>11
  <2>13. ProviderMoves(u)
    BY <1>2, <1>3, <1>4, <2>7, <2>8, <2>11, <2>12 DEF ProviderMoves
  <2>14. \A w \in Uploads : Intact(w)' => store'[w] = store[w]
    BY <2>7, <2>10
  <2> QED BY <1>1, <1>2, <1>4, <2>5, <2>6, <2>13, <2>14, CleanupInv
<1>5. CASE Succeeds(k) /\ UNCHANGED <<run, store, spoiled>>
  <2>1. ProviderMoves(u) /\ \A w \in Uploads : Intact(w)' => store'[w] = store[w]
    BY <1>2, <1>3, <1>5 DEF ProviderMoves, GoesOn, IInv, TypeInv
  <2> QED BY <1>1, <1>2, <1>5, <2>1, SucceedsInv
<1>6. CASE spoiled' = spoiled \cup {u} /\ Fails(k) /\ UNCHANGED <<run, store>>
  <2>1. ProviderMoves(u) /\ \A w \in Uploads : Intact(w)' => store'[w] = store[w]
    BY <1>2, <1>3, <1>6 DEF ProviderMoves, GoesOn, IInv, TypeInv
  <2> QED BY <1>1, <1>2, <1>6, <2>1, FailsInv
<1> QED BY <1>1, <1>4, <1>5, <1>6 DEF DeletePart

-----------------------------------------------------------------------------
(* The invariant. *)

LEMMA StepInv == IInv /\ [Next]_vars => IInv'
<1> SUFFICES ASSUME IInv, [Next]_vars PROVE IInv'
  OBVIOUS
<1>1. CASE UNCHANGED vars
  <2>1. UNCHANGED <<file, ckpt, run, session, token, call, begun, provider, small, store, object,
                    starts, faults, landed, closed, tainted, spoiled, rewritten>>
    BY <1>1 DEF vars, server, storage, history
  <2>2. TypeInv' /\ Books'
    BY <2>1 DEF IInv, TypeInv, Books
  <2>3. \A q \in Runs : RunInv(q)' /\ SameWork(q)
    BY <2>1 DEF IInv, RunInv, SameWork, SameClaim, SameCuts
  <2>4. \A j \in Calls : CallInv(j)' /\ SameList(j)
    BY <2>1 DEF IInv, CallInv, SameList
  <2>5. \A u \in Uploads : Intact(u)' => Intact(u) /\ store'[u] = store[u]
    BY <2>1 DEF Intact
  <2>6. \A u \in Uploads, p \in Parts : store'[u][p] \in {store[u][p], 0}
    BY <2>1
  <2>7. (\E vs \in [Uploads -> Versions] : OneVersion(vs)') /\ Held'
    BY <2>1, <2>3, <2>4, <2>5, <2>6, QuietStep
  <2> QED BY <2>2, <2>3, <2>4, <2>7 DEF IInv
<1>2. ASSUME NEW r \in Runs, Upload(r) \/ Client(r) \/ Crash(r) \/ TimedOut(r) PROVE IInv'
  BY <1>2, UploadInv, SingleInv, InitMultipartInv, SignInv, MultipartPartInv, JoinedInv, AnsweredInv,
     OpenObjectInv, OpenPartInv, CrashInv, TimedOutInv DEF Client
<1>3. ASSUME NEW k \in Calls, Server(k) \/ Cancelled(k) PROVE IInv'
  BY <1>3, AcquireInv, CompleteS3Inv, CompleteAzureInv, CompleteGCSInv, CompleteFileInv, DeletePartInv,
     CancelledInv DEF Server
<1> QED BY <1>1, <1>2, <1>3, RestartInv, EditInv DEF Next

\* Every state the clients, the server and the provider reach satisfies the inductive
\* invariant: calls work on open sessions whose token they hold, processes that share an
\* upload send one version of the file, and what is claimed is there as long as nothing
\* removed parts of the upload, and whole unless it was written again in its place.
THEOREM UploadInvariance == Spec => []IInv
BY InitInv, StepInv, PTL DEF Spec

\* The checkpoint never claims a part the provider does not hold (uploader.go, saveState
\* after each part), so a resumed run skips only what is really there; the exceptions
\* for edits, for Azure and for parts of a file bucket that are written again (the copy
\* of http.go:20-38 truncates first) are those of CheckpointTruthful.
THEOREM CheckpointsTruthful == Spec => []CheckpointTruthful
<1>1. IInv => CheckpointTruthful
  <2> SUFFICES ASSUME IInv, ckpt.uid # 0, ckpt.uid \notin landed, ckpt.uid \notin tainted,
                      NEW p \in Parts, ckpt.done[p] # 0, ~(provider = "azure" /\ landed # {})
               PROVE  \/ store[ckpt.uid][p] = ckpt.done[p]
                      \/ ckpt.uid \in rewritten /\ store[ckpt.uid][p] = Torn
    BY DEF CheckpointTruthful
  <2>1. PICK u \in Uploads : u = ckpt.uid
    BY UploadAssumption DEF IInv, TypeInv, Checkpoints, Uploads
  <2>2. ckpt.done \in Contents /\ Claimed(u, ckpt.done)
    BY <2>1, Claims DEF IInv, TypeInv, Checkpoints
  <2>3. Intact(u)
    BY <2>1 DEF Intact
  <2>4. store[u][p] # 0 /\ (store[u][p] = Torn => u \in rewritten)
    BY <2>1, <2>2, <2>3 DEF IInv, Held, Vouched
  <2>5. PICK vs \in [Uploads -> Versions] : OneVersion(vs)
    BY DEF IInv
  <2>6. store[u][p] \in {0, Torn, vs[u]} /\ ckpt.done[p] \in {0, vs[u]}
    BY <2>1, <2>2, <2>5 DEF OneVersion
  <2> QED BY <2>1, <2>4, <2>6
<1> QED BY <1>1, UploadInvariance, PTL

-----------------------------------------------------------------------------
(* The refinement of UploadContract, one lemma for each of its actions. *)

\* Nobody begins or ends to write the small file.
Writers == \A r \in Runs : run'[r].pc = "writing" <=> run[r].pc = "writing"

LEMMA SameExcused ==
    ASSUME Writers, UNCHANGED <<tainted, rewritten, broken>>
    PROVE  Excused' = Excused
BY DEF Writers, Excused

LEMMA NothingPromised ==
    ASSUME Excused' = Excused, UNCHANGED <<object, closed, begun, landed, spoiled, told>>
    PROVE  UNCHANGED Contract!contract
BY DEF Contract!contract

LEMMA WholeSame == \A v : WholeOf(v) = Contract!WholeOf(v)
BY DEF WholeOf, Contract!WholeOf, Parts, Contract!Parts

LEMMA PutPromised ==
    ASSUME UNCHANGED <<closed, begun, landed, spoiled, told>>,
           \/ \E v \in Versions : object' = WholeOf(v) /\ Excused' \in {Excused, Excused \ {0}}
           \/ object' = WholeOf(Torn) /\ Excused' = Excused \cup {0}
    PROVE  Contract!ContractNext
<1>1. Contract!Put
  BY WholeSame DEF Contract!Put, Versions, Torn, Contract!Torn
<1> QED BY <1>1 DEF Contract!ContractNext

LEMMA TellPromised ==
    ASSUME NEW u \in Uploads, u \in closed, told' = told \cup {u}, Excused' = Excused,
           UNCHANGED <<object, closed, begun, landed, spoiled>>
    PROVE  Contract!ContractNext
<1>1. Contract!Tell(u)
  BY DEF Contract!Tell
<1> QED BY <1>1 DEF Contract!ContractNext, Contract!Uploads, Uploads

LEMMA ExceptPromised ==
    ASSUME NEW u \in Uploads, u \in closed \/ u <= begun,
           \/ Excused' = Excused \cup {u} /\ UNCHANGED spoiled
           \/ spoiled' = spoiled \cup {u} /\ Excused' = Excused,
           UNCHANGED <<object, closed, begun, landed, told>>
    PROVE  Contract!ContractNext
<1>1. Contract!Except(u)
  BY DEF Contract!Except
<1> QED BY <1>1 DEF Contract!ContractNext, Contract!Uploads, Uploads

LEMMA OpenPromised ==
    ASSUME begun \in Nat, begun + 1 \in Uploads, begun + 1 \notin closed, begun' = begun + 1,
           Excused' = Excused, UNCHANGED <<object, closed, landed, spoiled, told>>
    PROVE  Contract!ContractNext
<1> PICK u \in Uploads : u = begun + 1
  OBVIOUS
<1>1. \A w \in Uploads : w <= begun' <=> (w <= begun \/ w = u)
  BY UploadAssumption DEF Uploads
<1>2. u \notin closed /\ ~(u <= begun)
  OBVIOUS
<1>3. Contract!Open(u)
  BY <1>1, <1>2 DEF Contract!Open, Contract!Uploads, Uploads
<1> QED BY <1>2, <1>3 DEF Contract!ContractNext, Contract!Uploads, Uploads

LEMMA ClosePromised ==
    ASSUME NEW u \in Uploads, u \notin closed, u <= begun, u \in landed, closed' = closed \cup {u},
           Excused' = Excused, UNCHANGED <<object, begun, landed, spoiled, told>>
    PROVE  Contract!ContractNext
<1>1. Contract!Close(u)
  BY DEF Contract!Close, Contract!Uploads, Uploads
<1> QED BY <1>1 DEF Contract!ContractNext, Contract!Uploads, Uploads

\* What the writer of a file bucket leaves when it is closed early.
LEMMA PrefixCutShort ==
    ASSUME NEW c \in Contents, NEW n \in Parts, NEW last \in {0, Torn}, \A q \in 1 .. n - 1 : c[q] # 0
    PROVE  Prefix(c, n, last) \in Contract!Contents /\ Contract!CutShort(Prefix(c, n, last))
<1> USE DEF Contract!Parts, Parts, Contract!Torn, Torn
<1>1. Prefix(c, n, last) \in Contract!Contents
  BY PrefixType DEF Contract!Contents, Contents
<1>2. /\ Prefix(c, n, last)[n] \in {0, Contract!Torn}
      /\ \A p \in Parts : (p < n => Prefix(c, n, last)[p] # 0) /\ (p > n => Prefix(c, n, last)[p] = 0)
  BY UploadAssumption DEF Prefix
<1> QED BY <1>1, <1>2 DEF Contract!CutShort

LEMMA TruncatePromised ==
    ASSUME NEW u \in Uploads, u \notin closed, u <= begun, u \in spoiled',
           spoiled' \in {spoiled, spoiled \cup {u}},
           object' \in Contract!Contents, Contract!CutShort(object'),
           Excused' = Excused, UNCHANGED <<closed, begun, landed, told>>
    PROVE  Contract!ContractNext
<1>1. Contract!Truncate(u)
  BY DEF Contract!Truncate
<1> QED BY <1>1 DEF Contract!ContractNext, Contract!Uploads, Uploads

LEMMA InstallPromised ==
    ASSUME NEW u \in Uploads, u \notin closed, u <= begun, NEW c \in Contents, object' = c, Full(c),
           u \in Excused \/ \E v \in Versions : c = WholeOf(v),
           landed' = landed \cup {u}, closed' = closed \/ closed' = closed \cup {u},
           Excused' = Excused, UNCHANGED <<begun, spoiled, told>>
    PROVE  Contract!ContractNext
<1> USE DEF Contract!Parts, Parts, Contract!Uploads, Uploads
<1>1. c \in Contract!Contents /\ Contract!Complete(c)
  BY DEF Contract!Contents, Contents, Contract!Torn, Torn, Contract!Complete, Full
<1>2. u \in Excused \/ Contract!Whole(c)
  BY WholeSame DEF Contract!Whole, Versions
<1>3. Contract!Install(u)
  <2>1. CASE closed' = closed
    BY <1>1, <1>2, <2>1 DEF Contract!Install
  <2>2. CASE closed' = closed \cup {u}
    BY <1>1, <1>2, <2>2 DEF Contract!Install
  <2> QED BY <2>1, <2>2
<1> QED BY <1>3 DEF Contract!ContractNext

\* The upload a call works on at the provider is open, and another call that cleans up
\* after the same upload would hold its token.
LEMMA AtProviderFacts ==
    ASSUME IInv, NEW k \in Calls, NEW u \in Uploads, u = call[k].uid,
           call[k].pc \in {"provider", "cleanup"}
    PROVE  /\ u \notin closed /\ u <= begun
           /\ call[k].pc = "cleanup" => u \in landed
           /\ \A j \in Calls \ {k} : ~(call[j].pc = "cleanup" /\ call[j].uid = u)
BY DEF IInv, TypeInv, CallInv, Books

\* What is stored complete when it is to be completed is one version of the file, unless
\* an exception applies.
LEMMA StoredWhole ==
    ASSUME IInv, NEW k \in Calls, NEW u \in Uploads, u = call[k].uid, call[k].pc = "provider",
           Full(store[u])
    PROVE  /\ store[u] \in Contents
           /\ u \in Excused \/ \E v \in Versions : store[u] = WholeOf(v)
<1>1. store[u] \in Contents
  BY DEF IInv, TypeInv
<1>2. ASSUME u \notin Excused PROVE \E v \in Versions : store[u] = WholeOf(v)
  <2>1. PICK vs \in [Uploads -> Versions] : OneVersion(vs)
    BY DEF IInv
  <2>2. u \notin tainted /\ u \notin rewritten
    BY <1>2 DEF Excused
  <2>3. \A p \in Parts : Vouched(u, p)
    <3>1. Full(call[k].parts) /\ call[k].parts \in Contents /\ Claimed(u, call[k].parts)
      BY Claims DEF IInv, TypeInv, CallInv, CallStates
    <3> QED BY <3>1 DEF Full, Vouched
  <2>4. \A p \in Parts : store[u][p] = vs[u]
    BY <2>1, <2>2, <2>3 DEF OneVersion, Full, IInv, Held
  <2>5. store[u] = WholeOf(vs[u])
    BY <1>1, <2>4 DEF WholeOf, Contents
  <2> QED BY <2>5
<1> QED BY <1>1, <1>2

\* On a file bucket parts are missing only after a clean-up that failed.
LEMMA MissingIsSpoiled ==
    ASSUME IInv, NEW k \in Calls, NEW u \in Uploads, u = call[k].uid, call[k].pc = "provider",
           provider = "file", ~Full(store[u])
    PROVE  u \in spoiled
<1>1. Full(call[k].parts) /\ session[u] = "open" /\ call[k].parts \in Contents
  BY DEF IInv, TypeInv, CallInv, CallStates
<1>2. Claimed(u, call[k].parts)
  BY Claims
<1>3. ~Intact(u)
  BY <1>1, <1>2 DEF IInv, Held, Vouched, Full
<1>4. \A j \in Calls : ~(call[j].pc = "cleanup" /\ call[j].uid = u)
  BY AtProviderFacts
<1> QED BY <1>1, <1>3, <1>4 DEF Intact

\* A process that does not write the small file ends.
LEMMA LeavesWriters ==
    ASSUME IInv, NEW r \in Runs, run[r].pc # "writing", Ends(r)
    PROVE  Writers
BY IdleRunType DEF IInv, TypeInv, Ends, Writers

\* The small file is stored, or it is not: torn from the opening to a write that succeeds.
LEMMA SinglePromised ==
    ASSUME IInv, NEW r \in Runs, uploadSingle(r)
    PROVE  Contract!ContractNext \/ UNCHANGED Contract!contract
<1>1. /\ UNCHANGED <<closed, begun, landed, tainted, spoiled, rewritten, told>>
      /\ file \in Versions
      /\ Puts(r) \/ CutsOff(r)
  BY DEF uploadSingle, IInv, TypeInv
<1>2. run'[r].pc # "writing" /\ \A q \in Runs \ {r} : run'[q] = run[q]
  BY IdleRunType DEF uploadSingle, RegisterFile, Ends, IInv, TypeInv, RunStates
<1>3. CASE object' = WholeOf(Torn) /\ broken' = TRUE
  <2>1. Excused' = Excused \cup {0}
    BY <1>1, <1>3 DEF Excused
  <2> QED BY <1>1, <1>3, <2>1, PutPromised
<1>4. CASE run[r].pc = "cut" /\ UNCHANGED <<object, broken>>
  <2>1. Writers
    BY <1>2, <1>4 DEF Writers
  <2> QED BY <1>1, <1>4, <2>1, SameExcused, NothingPromised
<1>5. CASE object' = WholeOf(file) /\ broken' = FALSE
  <2>1. Excused' \subseteq Excused /\ Excused \subseteq Excused' \cup {0}
    BY <1>1, <1>2, <1>5 DEF Excused
  <2>2. Excused' \in {Excused, Excused \ {0}}
    BY <2>1
  <2> QED BY <1>1, <1>5, <2>2, PutPromised
<1>6. CASE CutsOff(r)
  <2>1. Excused' = Excused
    BY <1>1, <1>2, <1>6 DEF Excused, CutsOff
  <2> QED BY <1>1, <1>6, <2>1, NothingPromised DEF CutsOff
<1> QED BY <1>1, <1>3, <1>4, <1>5, <1>6 DEF Puts

LEMMA ClientPromised ==
    ASSUME IInv, IInv', NEW r \in Runs, Upload(r) \/ Client(r) \/ Crash(r) \/ TimedOut(r)
    PROVE  Contract!ContractNext \/ UNCHANGED Contract!contract
<1> USE DEF server, storage, history
<1>1. CASE Upload(r)
  <2>1. UNCHANGED <<object, closed, begun, landed, tainted, spoiled, rewritten, broken, told>>
    BY <1>1 DEF Upload
  <2>2. Writers
    <3>1. PICK kept \in {ckpt, NoCheckpoint} :
            run' = [run EXCEPT ![r] =
              IF small THEN [IdleRun EXCEPT !.pc = "single", !.ver = file]
              ELSE IF matches(kept, file)
                THEN [IdleRun EXCEPT !.pc = "parts", !.uid = kept.uid, !.ver = file, !.done = kept.done,
                        !.work = [p \in Parts |-> IF kept.done[p] = 0 THEN "todo" ELSE "done"]]
                ELSE [IdleRun EXCEPT !.pc = "init", !.ver = file]]
      BY <1>1 DEF Upload
    <3>2. /\ run[r].pc = "idle" /\ run'[r].pc \in {"single", "parts", "init"}
          /\ \A q \in Runs \ {r} : run'[q] = run[q]
      BY <1>1, <3>1 DEF Upload, IInv, TypeInv, IdleRun
    <3> QED BY <3>2 DEF Writers
  <2> QED BY <2>1, <2>2, SameExcused, NothingPromised
<1>2. CASE OpenObject(r)
  <2>1. /\ UNCHANGED <<closed, begun, landed, tainted, spoiled, rewritten, broken, told>>
        /\ object' = WholeOf(Torn)
    BY <1>2 DEF OpenObject
  <2>2. run'[r].pc = "writing"
    BY <1>2 DEF OpenObject, IInv, TypeInv, RunStates
  <2>3. Excused' = Excused \cup {0}
    BY <2>1, <2>2 DEF Excused
  <2> QED BY <2>1, <2>3, PutPromised
<1>3. CASE uploadSingle(r)
  BY <1>3, SinglePromised
<1>4. CASE InitMultipart(r)
  <2>1. begun \in Nat /\ begun < MaxUploads /\ closed \subseteq 1 .. begun
    BY <1>4 DEF InitMultipart, IInv, TypeInv, Books
  <2>2. begun + 1 \in Uploads /\ begun + 1 \notin closed
    BY <2>1, UploadAssumption DEF Uploads
  <2>3. Writers
    BY <1>4, IdleRunType DEF InitMultipart, Ends, Writers, IInv, TypeInv, RunStates
  <2>4. /\ begun' = begun + 1
        /\ UNCHANGED <<object, closed, landed, tainted, spoiled, rewritten, broken, told>>
    BY <1>4 DEF InitMultipart
  <2> QED BY <2>1, <2>2, <2>3, <2>4, SameExcused, OpenPromised
<1>5. ASSUME NEW p \in Parts, SignPart(r, p) PROVE UNCHANGED Contract!contract
  <2>1. UNCHANGED <<object, closed, begun, landed, tainted, spoiled, rewritten, broken, told>>
    BY <1>5 DEF SignPart
  <2>2. \E w \in WorkStates : run' = [run EXCEPT ![r].work[p] = w]
    BY <1>5 DEF SignPart, GivesUp, RetryAction, WorkStates
  <2>3. Writers
    BY <2>2 DEF Writers, IInv, TypeInv, RunStates
  <2> QED BY <2>1, <2>3, SameExcused, NothingPromised
<1>6. ASSUME NEW p \in Parts, OpenPart(r, p) \/ MultipartPart(r, p)
      PROVE  Contract!ContractNext \/ UNCHANGED Contract!contract
  <2>1. PICK u \in Uploads : u = run[r].uid /\ u <= begun
    BY <1>6, UploadAssumption DEF OpenPart, MultipartPart, Sending, IInv, TypeInv, RunInv, Active, Uploads
  <2>2. /\ UNCHANGED <<object, closed, begun, landed, spoiled, broken, told>>
        /\ tainted' \in {tainted, tainted \cup {u}} /\ rewritten' \in {rewritten, rewritten \cup {u}}
        /\ tainted' = tainted \/ rewritten' = rewritten
    BY <1>6, <2>1 DEF OpenPart, MultipartPart, Stored
  <2>3. Writers
    <3>1. CASE OpenPart(r, p)
      <4>1. CASE RetryAction(r, p)
        BY <4>1 DEF RetryAction, Writers, IInv, TypeInv, RunStates
      <4>2. CASE run' = [q \in Runs |-> IF q = r THEN [run[q] EXCEPT !.work[p] = "writing"]
                                        ELSE CutPart(q, run[r].uid, p)]
        BY <4>2 DEF CutPart, Writers, IInv, TypeInv, RunStates
      <4> QED BY <3>1, <4>1, <4>2 DEF OpenPart
    <3>2. CASE MultipartPart(r, p)
      <4>1. \/ \E w \in {"todo", "failed"} : run' = [run EXCEPT ![r].work[p] = w]
            \/ \E w \in {"todo", "done", "failed"} :
                 run' = [run EXCEPT ![r].work[p] = w, ![r].done[p] = file]
        <5>1. \/ run' = [run EXCEPT ![r].work[p] = "done", ![r].done[p] = file]
              \/ GivesUp(r, p) \/ RetryAction(r, p)
              \/ run' \in {[run EXCEPT ![r].work[p] = w, ![r].done[p] = file] : w \in {"todo", "failed"}}
          BY <3>2 DEF MultipartPart
        <5> QED BY <5>1 DEF GivesUp, RetryAction
      <4>2. CASE \E w \in {"todo", "failed"} : run' = [run EXCEPT ![r].work[p] = w]
        BY <4>2 DEF Writers, IInv, TypeInv, RunStates
      <4>3. CASE \E w \in {"todo", "done", "failed"} :
                   run' = [run EXCEPT ![r].work[p] = w, ![r].done[p] = file]
        <5>1. PICK w \in {"todo", "done", "failed"} :
                run' = [run EXCEPT ![r].work[p] = w, ![r].done[p] = file]
          BY <4>3
        <5>2. run'[r].pc = run[r].pc /\ \A q \in Runs \ {r} : run'[q] = run[q]
          BY <5>1 DEF IInv, TypeInv, RunStates
        <5> QED BY <5>2 DEF Writers
      <4> QED BY <4>1, <4>2, <4>3
    <3> QED BY <1>6, <3>1, <3>2
  <2>4. Excused' \in {Excused, Excused \cup {u}}
    BY <2>2, <2>3 DEF Excused, Writers
  <2> QED BY <2>1, <2>2, <2>4, NothingPromised, ExceptPromised
<1>7. CASE Joined(r)
  <2>1. UNCHANGED <<object, closed, begun, landed, tainted, spoiled, rewritten, broken, told>>
    BY <1>7 DEF Joined
  <2>2. Writers
    BY <1>7, IdleRunType DEF Joined, Ends, Writers, IInv, TypeInv, RunStates
  <2> QED BY <2>1, <2>2, SameExcused, NothingPromised
<1>8. CASE Answered(r)
  <2>1. UNCHANGED <<object, closed, begun, landed, tainted, spoiled, rewritten, broken>>
    BY <1>8 DEF Answered
  <2>2. Excused' = Excused
    BY <1>8, <2>1, LeavesWriters, SameExcused DEF Answered, RegisterFile
  <2>3. CASE call[run[r].call].pc = "ok"
    <3>1. PICK u \in Uploads : u = run[r].uid
      BY <1>8, UploadAssumption DEF Answered, IInv, TypeInv, RunInv, Active, Uploads
    <3>2. u \in closed
      BY <1>8, <2>3, <3>1, WaitsForOwn DEF Answered, IInv, CallInv
    <3>3. told' = told \cup {u}
      BY <1>8, <2>3, <3>1 DEF Answered
    <3> QED BY <2>1, <2>2, <3>2, <3>3, TellPromised
  <2>4. CASE call[run[r].call].pc # "ok"
    <3>1. told' = told
      BY <1>8, <2>4 DEF Answered
    <3> QED BY <2>1, <2>2, <3>1, NothingPromised
  <2> QED BY <2>3, <2>4
<1>9. CASE Crash(r)
  <2>1. UNCHANGED <<object, closed, begun, landed, tainted, spoiled, rewritten, told>>
    BY <1>9 DEF Crash, CutsOff
  <2>2. run'[r].pc # "writing" /\ \A q \in Runs \ {r} : run'[q] = run[q]
    BY <1>9, IdleRunType DEF Crash, Ends, IInv, TypeInv
  <2>3. Excused' = Excused
    BY <1>9, <2>1, <2>2 DEF Crash, CutsOff, Excused
  <2> QED BY <2>1, <2>3, NothingPromised
<1>10. CASE TimedOut(r)
  <2>1. UNCHANGED <<object, closed, begun, landed, tainted, spoiled, rewritten, broken, told>>
    BY <1>10 DEF TimedOut
  <2>2. Excused' = Excused
    BY <1>10, <2>1, LeavesWriters, SameExcused DEF TimedOut
  <2> QED BY <2>1, <2>2, NothingPromised
<1> QED BY <1>1, <1>2, <1>3, <1>4, <1>5, <1>6, <1>7, <1>8, <1>9, <1>10 DEF Client

\* A completion stores the upload's parts, or leaves the object alone.
LEMMA CompletionPromised ==
    ASSUME IInv, NEW k \in Calls, NEW u \in Uploads, u = call[k].uid, NEW name, AtProvider(k, name),
           \/ Full(store[u]) /\ Installs(k, store[u]) /\ closed' \in {closed, closed \cup {u}}
           \/ UNCHANGED <<object, landed, closed>>,
           spoiled' = spoiled
    PROVE  Contract!ContractNext \/ UNCHANGED Contract!contract
<1>1. UNCHANGED <<begun, told>> /\ call[k].pc = "provider" /\ Excused' = Excused
  BY SameExcused DEF AtProvider, Writers
<1>2. CASE Full(store[u]) /\ Installs(k, store[u]) /\ closed' \in {closed, closed \cup {u}}
  <2>1. u \notin closed /\ u <= begun
    BY <1>1, AtProviderFacts
  <2>2. PICK c \in Contents : c = store[u] /\ (u \in Excused \/ \E v \in Versions : c = WholeOf(v))
    BY <1>1, <1>2, StoredWhole
  <2>3. object' = c /\ Full(c) /\ landed' = landed \cup {u}
    BY <1>2, <2>2 DEF Installs
  <2>4. closed' = closed \/ closed' = closed \cup {u}
    BY <1>2
  <2> QED BY <1>1, <2>1, <2>2, <2>3, <2>4, InstallPromised
<1>3. CASE UNCHANGED <<object, landed, closed>>
  BY <1>1, <1>3, NothingPromised
<1> QED BY <1>2, <1>3

LEMMA ServerPromised ==
    ASSUME IInv, NEW k \in Calls, Server(k) \/ Cancelled(k)
    PROVE  Contract!ContractNext \/ UNCHANGED Contract!contract
<1>1. CASE Acquire(k) \/ Cancelled(k)
  <2>1. UNCHANGED <<run, object, closed, begun, landed, tainted, spoiled, rewritten, broken, told>>
    BY <1>1 DEF Acquire, Cancelled, storage, history
  <2> QED BY <2>1, SameExcused, NothingPromised DEF Writers
<1>2. CASE CompleteS3(k)
  <2>1. PICK u \in Uploads : u = call[k].uid
    BY <1>2, CallsUpload DEF CompleteS3, AtProvider
  <2>2. Full(call[k].parts) /\ AtProvider(k, "s3")
    BY <1>2 DEF CompleteS3, AtProvider, IInv, CallInv
  <2>3. \/ Full(store[u]) /\ Installs(k, store[u]) /\ closed' \in {closed, closed \cup {u}}
        \/ UNCHANGED <<object, landed, closed>>
    BY <1>2, <2>1, <2>2 DEF CompleteS3, Succeeds, Fails, Untouched
  <2>4. spoiled' = spoiled
    BY <1>2 DEF CompleteS3, Untouched
  <2> QED BY <2>1, <2>2, <2>3, <2>4, CompletionPromised
<1>3. CASE CompleteAzure(k)
  <2>1. PICK u \in Uploads : u = call[k].uid
    BY <1>3, CallsUpload DEF CompleteAzure, AtProvider
  <2>2. AtProvider(k, "azure")
    BY <1>3 DEF CompleteAzure
  <2>3. \/ Full(store[u]) /\ Installs(k, store[u]) /\ closed' \in {closed, closed \cup {u}}
        \/ UNCHANGED <<object, landed, closed>>
    BY <1>3, <2>1 DEF CompleteAzure, Succeeds, Fails, Untouched
  <2>4. spoiled' = spoiled
    BY <1>3 DEF CompleteAzure, Untouched
  <2> QED BY <2>1, <2>2, <2>3, <2>4, CompletionPromised
<1>4. CASE CompleteGCS(k)
  <2>1. PICK u \in Uploads : u = call[k].uid
    BY <1>4, CallsUpload DEF CompleteGCS, AtProvider
  <2>2. AtProvider(k, "gcs")
    BY <1>4 DEF CompleteGCS
  <2>3. \/ Full(store[u]) /\ Installs(k, store[u]) /\ closed' \in {closed, closed \cup {u}}
        \/ UNCHANGED <<object, landed, closed>>
    BY <1>4, <2>1 DEF CompleteGCS, Fails, Untouched
  <2>4. spoiled' = spoiled
    BY <1>4 DEF CompleteGCS, Untouched
  <2> QED BY <2>1, <2>2, <2>3, <2>4, CompletionPromised
<1>5. CASE CompleteFile(k)
  <2>1. PICK u \in Uploads : u = call[k].uid
    BY <1>5, CallsUpload DEF CompleteFile, AtProvider
  <2>2. AtProvider(k, "file") /\ call[k].pc = "provider" /\ provider = "file"
    BY <1>5 DEF CompleteFile, AtProvider
  <2>3. /\ u \notin closed /\ u <= begun /\ store[u] \in Contents /\ Excused' = Excused
        /\ UNCHANGED <<begun, told>>
    BY <2>1, <2>2, AtProviderFacts, SameExcused DEF AtProvider, Writers, IInv, TypeInv
  <2>4. CASE /\ ~Full(store[u])
             /\ \E n \in Parts : /\ store[u][n] = 0 /\ \A q \in 1 .. n - 1 : store[u][q] # 0
                                 /\ object' = Prefix(store[u], n, 0)
             /\ Fails(k) /\ UNCHANGED <<store, landed, spoiled, faults>>
    <3>1. u \in spoiled' /\ closed' = closed
      BY <2>1, <2>2, <2>4, MissingIsSpoiled DEF Fails
    <3>2. object' \in Contract!Contents /\ Contract!CutShort(object')
      BY <2>3, <2>4, PrefixCutShort
    <3> QED BY <2>3, <2>4, <3>1, <3>2, TruncatePromised
  <2>5. CASE /\ Fails(k) /\ object' \in Prefixes(store[u])
             /\ spoiled' = spoiled \cup {u} /\ UNCHANGED <<store, landed>>
    <3>1. u \in spoiled' /\ closed' = closed
      BY <2>5 DEF Fails
    <3>2. PICK n \in Parts, last \in {0, Torn} :
            object' = Prefix(store[u], n, last) /\ \A q \in 1 .. n - 1 : store[u][q] # 0
      BY <2>5 DEF Prefixes
    <3>3. object' \in Contract!Contents /\ Contract!CutShort(object')
      BY <2>3, <3>2, PrefixCutShort
    <3> QED BY <2>3, <2>5, <3>1, <3>3, TruncatePromised
  <2>6. CASE /\ \/ Full(store[u]) /\ Installs(k, store[u]) /\ closed' \in {closed, closed \cup {u}}
                \/ UNCHANGED <<object, landed, closed>>
             /\ spoiled' = spoiled
    BY <2>1, <2>2, <2>6, CompletionPromised
  <2> QED BY <1>5, <2>1, <2>4, <2>5, <2>6 DEF CompleteFile, Fails, Untouched
<1>6. CASE DeletePart(k)
  <2>1. PICK u \in Uploads : u = call[k].uid
    BY <1>6, CallsUpload DEF DeletePart
  <2>2. /\ UNCHANGED <<object, begun, landed, told, tainted, rewritten, broken>>
        /\ u \notin closed /\ u <= begun /\ u \in landed
    BY <1>6, <2>1, AtProviderFacts DEF DeletePart
  <2>3. \/ UNCHANGED <<closed, spoiled>>
        \/ closed' = closed \cup {u} /\ UNCHANGED spoiled
        \/ UNCHANGED closed /\ spoiled' = spoiled \cup {u}
    BY <1>6, <2>1 DEF DeletePart, Succeeds, Fails
  <2>4. Writers
    <3>1. CASE run' = run
      BY <3>1 DEF Writers
    <3>2. CASE \E p \in Parts : run' = [q \in Runs |-> CutPart(q, u, p)]
      BY <3>2 DEF CutPart, Writers, IInv, TypeInv, RunStates
    <3> QED BY <1>6, <2>1, <3>1, <3>2 DEF DeletePart
  <2>5. Excused' = Excused
    BY <2>2, <2>4, SameExcused
  <2> QED BY <2>2, <2>3, <2>5, NothingPromised, ClosePromised, ExceptPromised
<1> QED BY <1>1, <1>2, <1>3, <1>4, <1>5, <1>6 DEF Server

\* Concurrent, crashed, abandoned and repeated uploads implement the contract: the
\* object goes from one whole version of the file to another, a completed upload never
\* touches it again, and success is reported only for a completed upload.  The prefixes
\* that failed completions and cut-off copies leave in a file bucket
\* (file/multipart.go:40-57, client/transfer/http.go:20-38) are exceptions of the contract.
THEOREM UploadsImplement == Spec => Implements
<1>1. Init => Contract!ContractInit
  <2> SUFFICES ASSUME Init PROVE Contract!ContractInit
    OBVIOUS
  <2>1. Excused = {}
    BY IdleRunType DEF Init, Excused
  <2>2. \A u \in Uploads : u \notin closed /\ ~(u <= begun)
    BY UploadAssumption DEF Init, Uploads
  <2>3. object = Absent /\ landed = {} /\ spoiled = {} /\ told = {}
    BY DEF Init
  <2> QED BY <2>1, <2>2, <2>3 DEF Contract!ContractInit, Contract!Uploads, Uploads
<1>2. IInv /\ IInv' /\ [Next]_vars => [Contract!ContractNext]_(Contract!contract)
  <2> SUFFICES ASSUME IInv, IInv', [Next]_vars
               PROVE  Contract!ContractNext \/ UNCHANGED Contract!contract
    OBVIOUS
  <2>1. CASE UNCHANGED vars \/ Restart \/ Edit
    <3>1. UNCHANGED <<object, closed, begun, landed, tainted, spoiled, rewritten, broken, told>>
      BY <2>1 DEF vars, Restart, Edit, storage, history
    <3>2. Writers
      BY <2>1, IdleRunType DEF vars, Restart, Edit, Writers, IInv, TypeInv
    <3> QED BY <3>1, <3>2, SameExcused, NothingPromised
  <2> QED BY <2>1, ClientPromised, ServerPromised DEF Next
<1> QED BY <1>1, <1>2, UploadInvariance, PTL DEF Spec, Implements, Contract!ContractSpec
=============================================================================
