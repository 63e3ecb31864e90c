------------------------------ MODULE LfsVerify ------------------------------
(***************************************************************************)
(* Git LFS metadata staging.  A client stages the metadata of an object    *)
(* under its oid (the SHA-256), uploads the bytes, and asks the server to  *)
(* verify: the staged entry is taken out of lfs_pending_metadata, the      *)
(* object is registered from it and the upload is counted.  Entries expire *)
(* and are pruned by the next call that touches the table.                 *)
(*                                                                         *)
(* PopPendingMetadata selects and deletes in two statements of one         *)
(* transaction: under SQLite's single connection nothing runs in between,  *)
(* under PostgreSQL's READ COMMITTED anything may.  Candidates are told    *)
(* apart by a stamp, new for every staging.                                *)
(***************************************************************************)
EXTENDS Naturals, Database

CONSTANTS
    Oids,       \* LFS object ids
    MaxStamp    \* bound: entries staged

ASSUME LfsAssumption == MaxStamp \in Nat

Stamps == 1 .. MaxStamp
NoEntry == [stamp |-> 0, live |-> FALSE]

VARIABLES
    pending,     \* lfs_pending_metadata: the entry of each oid
    registered,  \* the oids that have an object
    uploads,     \* the oids for which Verify counted an upload
    verify,      \* verify[p]: the program counter, oid and stamp of call p
    stamp,       \* the last stamp given out
    takers       \* history: takers[o][s] is how many pops returned entry s of o

lfsVars == <<pending, registered, uploads, verify, stamp, takers>>

IdleVerify == [pc |-> "idle", oid |-> CHOOSE o \in Oids : TRUE, stamp |-> 0]

LfsInit ==
    /\ pending = [o \in Oids |-> NoEntry]
    /\ registered = {}
    /\ uploads = {}
    /\ verify = [p \in Calls |-> IdleVerify]
    /\ stamp = 0
    /\ takers = [o \in Oids |-> [s \in Stamps |-> 0]]

\* SQLite runs a statement only when no pop is between its two statements.
LfsConnection == Serial => \A p \in Calls : verify[p].pc # "delete"

\* Mutant: the comparison with the expiry time is the wrong way round.
PruneLive(entries) ==
    [o \in Oids |-> IF entries[o] # NoEntry /\ entries[o].live THEN NoEntry ELSE entries[o]]

\* DELETE FROM lfs_pending_metadata WHERE expires_time <= now
PruneExpired(entries) ==
    [o \in Oids |-> IF entries[o] # NoEntry /\ ~entries[o].live THEN NoEntry ELSE entries[o]]

\* Stage: prune, then upsert one entry for every candidate.
SavePendingMetadata(oids) ==
    /\ LfsConnection
    /\ stamp < MaxStamp
    /\ stamp' = stamp + 1
    /\ pending' = [o \in Oids |-> IF o \in oids THEN [stamp |-> stamp', live |-> TRUE]
                                  ELSE PruneExpired(pending)[o]]
    /\ UNCHANGED <<registered, uploads, verify, takers>>

\* The upload preparation looks at the entry, and prunes.
GetPendingMetadata ==
    /\ LfsConnection
    /\ pending' = PruneExpired(pending)
    /\ UNCHANGED <<registered, uploads, verify, stamp, takers>>

\* PendingMetadataTTL has passed.
Expire(o) ==
    /\ pending[o] # NoEntry /\ pending[o].live
    /\ pending' = [pending EXCEPT ![o].live = FALSE]
    /\ UNCHANGED <<registered, uploads, verify, stamp, takers>>

\* Verify begins: an object that is known is only counted.
Verify(p, oid) ==
    /\ LfsConnection
    /\ verify[p].pc = "idle"
    /\ verify' = [verify EXCEPT ![p] = [pc |-> IF oid \in registered THEN "count" ELSE "pop",
                                        oid |-> oid, stamp |-> 0]]
    /\ UNCHANGED <<pending, registered, uploads, stamp, takers>>

\* PopPendingMetadata, first half: prune and fetch.  Without a live entry the
\* pruning rolls back with the transaction and Verify fails.
PopFetch(p) ==
    /\ LfsConnection
    /\ verify[p].pc = "pop"
    /\ LET entry == pending[verify[p].oid]
       IN  verify' = [verify EXCEPT ![p] =
                        IF entry # NoEntry /\ entry.live
                          THEN [@ EXCEPT !.pc = "delete", !.stamp = entry.stamp]
                          ELSE IdleVerify]
    /\ UNCHANGED <<pending, registered, uploads, stamp, takers>>

\* Mutant: the entry is read but not deleted.
KeepEntry(entries, oid) == PruneExpired(entries)

\* DELETE FROM lfs_pending_metadata WHERE oid = ..., with the pruning (which no
\* call can see: every lookup compares the expiry time itself).
WithoutEntry(entries, oid) == [PruneExpired(entries) EXCEPT ![oid] = NoEntry]

\* Second half: the row of the oid goes, whichever entry it holds by now, and
\* the transaction commits.
PopDelete(p) ==
    /\ verify[p].pc = "delete"
    /\ pending' = WithoutEntry(pending, verify[p].oid)
    /\ takers' = [takers EXCEPT ![verify[p].oid][verify[p].stamp] = @ + 1]
    /\ verify' = [verify EXCEPT ![p].pc = "register"]
    /\ UNCHANGED <<registered, uploads, stamp>>

\* CandidateToRecord and RegisterObjects, a transaction of its own.
RegisterCandidate(p) ==
    /\ LfsConnection
    /\ verify[p].pc = "register"
    /\ registered' = registered \cup {verify[p].oid}
    /\ verify' = [verify EXCEPT ![p].pc = "count"]
    /\ UNCHANGED <<pending, uploads, stamp, takers>>

\* recordUpload ends the call.
RecordUpload(p) ==
    /\ LfsConnection
    /\ verify[p].pc = "count"
    /\ uploads' = uploads \cup {verify[p].oid}
    /\ verify' = [verify EXCEPT ![p] = IdleVerify]
    /\ UNCHANGED <<pending, registered, stamp, takers>>

\* A failed check or statement, a cancelled request or a crash ends the call
\* between any two steps; what has been committed stays.
Fail(p) ==
    /\ verify[p].pc # "idle"
    /\ verify' = [verify EXCEPT ![p] = IdleVerify]
    /\ UNCHANGED <<pending, registered, uploads, stamp, takers>>

\* A registered object is deleted by another request.
DeleteLfsObject(oid) ==
    /\ LfsConnection
    /\ oid \in registered
    /\ registered' = registered \ {oid}
    /\ UNCHANGED <<pending, uploads, verify, stamp, takers>>

LfsNext ==
    \/ \E oids \in (SUBSET Oids) \ {{}} : SavePendingMetadata(oids)
    \/ GetPendingMetadata
    \/ \E o \in Oids : Expire(o) \/ DeleteLfsObject(o)
    \/ \E p \in Calls :
         \/ \E oid \in Oids : Verify(p, oid)
         \/ PopFetch(p) \/ PopDelete(p) \/ RegisterCandidate(p) \/ RecordUpload(p) \/ Fail(p)

LfsSpec == LfsInit /\ [][LfsNext]_lfsVars

-----------------------------------------------------------------------------
(* Properties. *)

\* "The LFS implementation consumes entries atomically when it verifies an
\* upload" (internal/persistence/README.md:78): concurrent verifications of an
\* oid never register the same staged entry twice.
ConsumedOnce == \A o \in Oids, s \in Stamps : takers[o][s] <= 1

\* A staged entry that has not expired leaves the table only into the hands of
\* the verification that consumed it, or under a newer entry for the same oid:
\* a re-staging that races a verification is not thrown away unread.
StagedNotLost ==
    [][\A o \in Oids :
         LET entry == pending[o]
         IN  entry # NoEntry /\ entry.live /\ pending'[o] # entry =>
               \/ pending'[o] # NoEntry /\ pending'[o].stamp >= entry.stamp
               \/ takers'[o][entry.stamp] > takers[o][entry.stamp]]_lfsVars

=============================================================================
