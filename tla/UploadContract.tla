--------------------------- MODULE UploadContract ---------------------------
(***************************************************************************)
(* What the upload path promises about one stored object, whatever runs    *)
(* concurrently, crashes, restarts or is retried: the object changes only  *)
(* from one whole version of the source file to another, an upload that    *)
(* has been closed never touches it again, and a client is told of success *)
(* only for an upload that is closed.                                      *)
(*                                                                         *)
(* Exceptions are part of the promise, because the code has them:          *)
(*  - an upload during which the source file was edited may store a        *)
(*    mixture of its versions;                                             *)
(*  - in a file bucket a small file is written in its place: it is torn    *)
(*    while that goes on, and stays so after a write that was cut off, to  *)
(*    the next one that succeeds;                                          *)
(*  - in a file bucket the parts are written in their places too: an       *)
(*    upload of which two attempts wrote one part may store it torn;       *)
(*  - in a file bucket a completion that fails on its way, and any attempt *)
(*    after it, may leave a prefix of the parts as the object.             *)
(***************************************************************************)
EXTENDS Naturals

CONSTANTS
    MaxPart,      \* parts of the file
    MaxVersion,   \* versions of the source file
    MaxUploads,   \* multipart uploads
    Absent        \* no object

Parts   == 1 .. MaxPart
Uploads == 1 .. MaxUploads

\* The version each part came from; 0 is a part that is missing, Torn one that is
\* not the whole of one version.
Torn     == MaxVersion + 1
Contents == [Parts -> 0 .. Torn]

WholeOf(v) == [p \in Parts |-> v]
Complete(c) == \A p \in Parts : c[p] # 0
Whole(c)    == \E v \in 1 .. MaxVersion : c = WholeOf(v)

\* The parts up to one that is missing or torn.
CutShort(c) ==
    \E n \in Parts :
      /\ c[n] \in {0, Torn}
      /\ \A p \in Parts : (p < n => c[p] # 0) /\ (p > n => c[p] = 0)

VARIABLES
    content,   \* the object
    status,    \* status[u]: none, open or closed
    landed,    \* the uploads that have stored the object
    excused,   \* the uploads that may store it torn or mixed; 0 is the small file
    spoiled,   \* the uploads of a file bucket whose completion has failed
    told       \* the uploads a client was told have succeeded

contract == <<content, status, landed, excused, spoiled, told>>

ContractInit ==
    /\ content = Absent
    /\ status = [u \in Uploads |-> "none"]
    /\ landed = {} /\ excused = {} /\ spoiled = {} /\ told = {}

\* From here on an exception applies to an upload that has begun, or the excuse of
\* the small file.
Except(u) ==
    /\ u = 0 \/ status[u] # "none"
    /\ \/ excused' = excused \cup {u} /\ UNCHANGED spoiled
       \/ spoiled' = spoiled \cup {u} /\ UNCHANGED excused
    /\ UNCHANGED <<content, status, landed, told>>

Open(u) ==
    /\ status[u] = "none"
    /\ status' = [status EXCEPT ![u] = "open"]
    /\ UNCHANGED <<content, landed, excused, spoiled, told>>

\* An open upload stores the object, and may be closed by it.
Install(u) ==
    /\ status[u] = "open"
    /\ \E c \in Contents :
         /\ Complete(c) /\ (Whole(c) \/ u \in excused)
         /\ content' = c
    /\ landed' = landed \cup {u}
    /\ status' \in {status, [status EXCEPT ![u] = "closed"]}
    /\ UNCHANGED <<excused, spoiled, told>>

\* Only an upload that has stored the object is closed.
Close(u) ==
    /\ status[u] = "open" /\ u \in landed
    /\ status' = [status EXCEPT ![u] = "closed"]
    /\ UNCHANGED <<content, landed, excused, spoiled, told>>

\* A completion of an open upload fails, or one has failed before.
Truncate(u) ==
    /\ status[u] = "open"
    /\ spoiled' \in {spoiled, spoiled \cup {u}} /\ u \in spoiled'
    /\ \E c \in Contents : CutShort(c) /\ content' = c
    /\ UNCHANGED <<status, landed, excused, told>>

\* A client learns of success only once the upload is closed.
Tell(u) ==
    /\ status[u] = "closed"
    /\ told' = told \cup {u}
    /\ UNCHANGED <<content, status, landed, excused, spoiled>>

\* A small file is stored.  Only a whole version ends its excuse.
Put ==
    /\ \/ \E v \in 1 .. MaxVersion : content' = WholeOf(v) /\ excused' \in {excused, excused \ {0}}
       \/ content' = WholeOf(Torn) /\ excused' = excused \cup {0}
    /\ UNCHANGED <<status, landed, spoiled, told>>

ContractNext ==
    \/ Put
    \/ \E u \in Uploads :
         Open(u) \/ Install(u) \/ Close(u) \/ Tell(u) \/ Truncate(u) \/ Except(u)
    \/ Except(0)

ContractSpec == ContractInit /\ [][ContractNext]_contract
=============================================================================
