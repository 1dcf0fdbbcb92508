---------------------------- MODULE CatalogStaging ----------------------------
(***************************************************************************)
(* The staging boundary of the catalog: collectors stage what a source     *)
(* says into a batch, somebody closes the batch, and reviewers promote or  *)
(* reject the records, all in sessions that overlap, statement by          *)
(* statement.                                                              *)
(*                                                                         *)
(* Every session makes one call and commits.  A record is named by its     *)
(* dedupe_key, which stands for the source, its record id and the hash of  *)
(* the raw payload; the texts and their checks are left out.               *)
(***************************************************************************)
EXTENDS FiniteSets, TLC

CONSTANTS
  Sessions,  \* collectors and reviewers, each with a session of its own
  Batches,   \* batches, created open
  Keys,      \* dedupe keys of records
  None       \* NULL, no row, nobody

Closed   == {"completed", "failed"}
Statuses == {"open"} \cup Closed
Reviews  == {"pending", "verified", "rejected"}

SourceRecord == [batch: Batches, review: Reviews]

(* One row for a record, and who promoted it. *)
Evidence == Keys \X Sessions

ASSUME NullAssumption == None \notin Sessions \cup SourceRecord

VARIABLES
  batch,      \* ingestion_batches: status
  record,     \* source_records: batch and review_status under a key
  evidence,   \* catalog_verified_evidence: records that were promoted, and by whom
  lock,       \* who has the row of a record locked
  batchLock,  \* who has written the row of a batch and not committed
  session     \* the calls under way

vars == <<batch, record, evidence, lock, batchLock, session>>

Idle == [pc |-> "idle", op |-> None, key |-> None, batch |-> None, review |-> None]

At(s, pc) == session[s].pc = pc
Is(s, op) == session[s].op = op

StagingTypeOK ==
  /\ batch \in [Batches -> Statuses]
  /\ record \in [Keys -> SourceRecord \cup {None}]
  /\ evidence \subseteq Evidence
  /\ \A k \in Keys : lock[k] # None =>
       session[lock[k]].key = k /\ session[lock[k]].pc \in {"review", "commit"}
  /\ \A b \in Batches : batchLock[b] # None =>
       session[batchLock[b]].batch = b /\ At(batchLock[b], "commit")

Init ==
  /\ batch = [b \in Batches |-> "open"]
  /\ record = [k \in Keys |-> None]
  /\ evidence = {}
  /\ lock = [k \in Keys |-> None]
  /\ batchLock = [b \in Batches |-> None]
  /\ session = [s \in Sessions |-> Idle]

-----------------------------------------------------------------------------
Free(locks, s) == [x \in DOMAIN locks |-> IF locks[x] = s THEN None ELSE locks[x]]

(* The transaction ends. *)
Leave(s) ==
  /\ session' = [session EXCEPT ![s] = Idle]
  /\ lock' = Free(lock, s)
  /\ batchLock' = Free(batchLock, s)

(* CatalogStagingError, or an answer that changes nothing. *)
Return(s) == Leave(s) /\ UNCHANGED <<batch, record, evidence>>

Goto(s, pc) == session' = [session EXCEPT ![s].pc = pc]

-----------------------------------------------------------------------------
(* stage_source_record *)

BeginStage(s, b, k) ==
  /\ At(s, "idle")
  /\ session' = [session EXCEPT ![s] =
                   [Idle EXCEPT !.pc = "batch", !.op = "stage", !.batch = b, !.key = k]]
  /\ UNCHANGED <<batch, record, evidence, lock, batchLock>>

(* session.get of the batch, without a lock *)
FindOpenBatch(s) ==
  /\ At(s, "batch") /\ Is(s, "stage")
  /\ batch[session[s].batch] = "open"
  /\ Goto(s, "insert")
  /\ UNCHANGED <<batch, record, evidence, lock, batchLock>>

NotOpen(s) ==
  /\ At(s, "batch") /\ Is(s, "stage")
  /\ batch[session[s].batch] # "open"
  /\ Return(s)

(* The uncommitted insert of a session. *)
Inserting(s) == At(s, "commit") /\ Is(s, "stage")

(* INSERT ... ON CONFLICT DO NOTHING waits for an uncommitted row.         *)
InsertRecord(s) ==
  LET k == session[s].key IN
  /\ At(s, "insert")
  /\ record[k] = None
  /\ \A t \in Sessions : Inserting(t) => session[t].key # k
  /\ Goto(s, "commit")
  /\ UNCHANGED <<batch, record, evidence, lock, batchLock>>

(* The record is there: it is returned. *)
AlreadyStaged(s) ==
  /\ At(s, "insert")
  /\ record[session[s].key] # None
  /\ Return(s)

CommitStage(s) ==
  /\ Inserting(s)
  /\ record' = [record EXCEPT ![session[s].key] =
                  [batch |-> session[s].batch, review |-> "pending"]]
  /\ Leave(s)
  /\ UNCHANGED <<batch, evidence>>

-----------------------------------------------------------------------------
(* complete_ingestion_batch *)

BeginComplete(s, b, op) ==
  /\ At(s, "idle") /\ op \in Closed
  /\ session' = [session EXCEPT ![s] = [Idle EXCEPT !.pc = "batch", !.op = op, !.batch = b]]
  /\ UNCHANGED <<batch, record, evidence, lock, batchLock>>

FindBatchToClose(s) ==
  /\ At(s, "batch") /\ session[s].op \in Closed
  /\ IF batch[session[s].batch] # "open" THEN Leave(s)
     ELSE Goto(s, "close") /\ UNCHANGED <<lock, batchLock>>
  /\ UNCHANGED <<batch, record, evidence>>

(* The UPDATE waits for another's. *)
CloseBatch(s) ==
  LET b == session[s].batch IN
  /\ At(s, "close")
  /\ batchLock[b] = None
  /\ batchLock' = [batchLock EXCEPT ![b] = s]
  /\ Goto(s, "commit")
  /\ UNCHANGED <<batch, record, evidence, lock>>

CommitClose(s) ==
  /\ At(s, "commit") /\ session[s].op \in Closed
  /\ batch' = [batch EXCEPT ![session[s].batch] = session[s].op]
  /\ Leave(s)
  /\ UNCHANGED <<record, evidence>>

-----------------------------------------------------------------------------
(* promote_verified_record, reject_staging_record *)

BeginReview(s, k, op) ==
  /\ At(s, "idle") /\ op \in {"promote", "reject"}
  /\ record[k] # None
  /\ session' = [session EXCEPT ![s] = [Idle EXCEPT !.pc = "record", !.op = op, !.key = k]]
  /\ UNCHANGED <<batch, record, evidence, lock, batchLock>>

(* Mutant: SELECT without FOR UPDATE. *)
ReadRecord(s) ==
  LET k == session[s].key IN
  /\ At(s, "record")
  /\ session' = [session EXCEPT ![s].pc = "review", ![s].review = record[k].review]
  /\ UNCHANGED <<batch, record, evidence, lock, batchLock>>

(* SELECT ... FOR UPDATE *)
LockRecord(s) ==
  LET k == session[s].key IN
  /\ At(s, "record")
  /\ lock[k] = None
  /\ lock' = [lock EXCEPT ![k] = s]
  /\ session' = [session EXCEPT ![s].pc = "review", ![s].review = record[k].review]
  /\ UNCHANGED <<batch, record, evidence, batchLock>>

HasEvidence(k) == \E e \in evidence : e[1] = k

(* A rejected record is refused; one that has evidence is returned as it   *)
(* is.                                                                     *)
Promote(s) ==
  /\ At(s, "review") /\ Is(s, "promote")
  /\ session[s].review # "rejected" /\ ~HasEvidence(session[s].key)
  /\ Goto(s, "commit")
  /\ UNCHANGED <<batch, record, evidence, lock, batchLock>>

Reject(s) ==
  /\ At(s, "review") /\ Is(s, "reject")
  /\ session[s].review # "verified"
  /\ Goto(s, "commit")
  /\ UNCHANGED <<batch, record, evidence, lock, batchLock>>

ReviewRefused(s) ==
  /\ At(s, "review")
  /\ \/ Is(s, "promote") /\ (session[s].review = "rejected" \/ HasEvidence(session[s].key))
     \/ Is(s, "reject") /\ session[s].review = "verified"
  /\ Return(s)

CommitReview(s) ==
  LET k == session[s].key IN
  /\ At(s, "commit") /\ session[s].op \in {"promote", "reject"}
  /\ record' = [record EXCEPT ![k].review = IF Is(s, "promote") THEN "verified" ELSE "rejected"]
  /\ evidence' = IF Is(s, "promote") THEN evidence \cup {<<k, s>>} ELSE evidence
  /\ Leave(s)
  /\ UNCHANGED batch

Abort(s) == ~At(s, "idle") /\ Return(s)

Progress(s) ==
  \/ FindOpenBatch(s) \/ NotOpen(s) \/ AlreadyStaged(s) \/ CommitStage(s)
  \/ FindBatchToClose(s) \/ CommitClose(s)
  \/ Promote(s) \/ Reject(s) \/ ReviewRefused(s) \/ CommitReview(s)

Waiting(s) == InsertRecord(s) \/ CloseBatch(s) \/ LockRecord(s)

Next ==
  \E s \in Sessions :
    \/ \E b \in Batches, k \in Keys : BeginStage(s, b, k)
    \/ \E b \in Batches, op \in Closed : BeginComplete(s, b, op)
    \/ \E k \in Keys, op \in {"promote", "reject"} : BeginReview(s, k, op)
    \/ Progress(s) \/ Waiting(s)
    \/ Abort(s)

Spec == Init /\ [][Next]_vars
-----------------------------------------------------------------------------
(* Properties *)

(* Promotion is idempotent (test_verified_promotion_is_explicit_idempotent *)
(* ...): a record has evidence exactly when it is verified, and one piece  *)
(* of it, however many reviewers promote, repeat and reject it at once.    *)
EvidenceIsTheReview ==
  /\ \A k \in Keys :
       HasEvidence(k) <=> record[k] # None /\ record[k].review = "verified"
  /\ \A e, f \in evidence : e[1] = f[1] => e = f

(* A decision stands: a record that is verified or rejected never gets     *)
(* another review, so evidence is not taken back in place, and evidence    *)
(* comes with the review it belongs to.                                    *)
PromotionStands ==
  [][/\ \A k \in Keys : record[k] # None /\ record[k].review # "pending" =>
          record'[k].review = record[k].review
     /\ EvidenceIsTheReview']_vars
===============================================================================
