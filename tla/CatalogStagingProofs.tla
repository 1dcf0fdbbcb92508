------------------------- MODULE CatalogStagingProofs -------------------------
(***************************************************************************)
(* The inductive invariant of CatalogStaging, and what follows from it for *)
(* any number of sessions, batches and records: a review is decided once,  *)
(* and evidence goes with it.  Then that of VerifiedKnowledge: what a      *)
(* session is bound to stays readable, for any number of versions, of      *)
(* readers, and of claims they share.  At the end, what Reconciliation and *)
(* RequirementManifest compute, for any number of observations and uses.   *)
(***************************************************************************)
EXTENDS CatalogStaging, VerifiedKnowledge, Reconciliation, FiniteSetTheorems, TLAPS

Ops == {"stage", "completed", "failed", "promote", "reject"}

CallRow ==
  [pc: {"idle", "batch", "insert", "close", "record", "review", "commit"},
   op: Ops \cup {None}, key: Keys \cup {None}, batch: Batches \cup {None},
   review: Reviews \cup {None}]

Reviewing(s) ==
  At(s, "review") \/ (At(s, "commit") /\ session[s].op \in {"promote", "reject"})

(* A collector names a batch and a key; the row it has inserted is nobody  *)
(* else's.                                                                 *)
StagesItsOwn(s) ==
  LET c == session[s] IN
  /\ c.pc \in {"batch", "insert", "close"} => c.batch \in Batches
  /\ c.pc = "batch" => c.op \in {"stage"} \cup Closed
  /\ c.pc = "batch" /\ c.op = "stage" => c.key \in Keys
  /\ c.pc = "insert" => c.op = "stage" /\ c.key \in Keys
  /\ c.pc = "close" => c.op \in Closed
  /\ Inserting(s) => /\ c.key \in Keys /\ c.batch \in Batches
                     /\ record[c.key] = None
                     /\ \A t \in Sessions : Inserting(t) /\ session[t].key = c.key => t = s

(* A closer has the row of its batch. *)
ClosesItsOwn(s) ==
  LET c == session[s] IN
  At(s, "commit") /\ c.op \in Closed => c.batch \in Batches

(* A reviewer decides on what the record says, and on what it goes on to   *)
(* say until the commit, because nobody else has it locked.                *)
ReviewsWhatIsThere(s) ==
  LET c == session[s] IN
  /\ c.pc = "commit" => c.op \in Ops
  /\ c.pc = "record" => c.op \in {"promote", "reject"}
                        /\ c.key \in Keys /\ record[c.key] # None
  /\ Reviewing(s) => /\ c.op \in {"promote", "reject"}
                     /\ c.key \in Keys /\ record[c.key] # None
                     /\ lock[c.key] = s
                     /\ c.review = record[c.key].review
  /\ At(s, "commit") /\ Is(s, "promote") => c.review # "rejected" /\ ~HasEvidence(c.key)
  /\ At(s, "commit") /\ Is(s, "reject") => c.review # "verified"

Typed ==
  /\ batch \in [Batches -> Statuses]
  /\ record \in [Keys -> SourceRecord \cup {None}]
  /\ evidence \subseteq Evidence
  /\ lock \in [Keys -> Sessions \cup {None}]
  /\ batchLock \in [Batches -> Sessions \cup {None}]
  /\ session \in [Sessions -> CallRow]

LocksHeld ==
  /\ \A k \in Keys : lock[k] # None =>
       session[lock[k]].key = k /\ session[lock[k]].pc \in {"review", "commit"}
  /\ \A b \in Batches : batchLock[b] # None =>
       session[batchLock[b]].batch = b /\ At(batchLock[b], "commit")

StagingInv ==
  /\ Typed
  /\ LocksHeld
  /\ \A s \in Sessions : StagesItsOwn(s)
  /\ \A s \in Sessions : ClosesItsOwn(s)
  /\ \A s \in Sessions : ReviewsWhatIsThere(s)
  /\ EvidenceIsTheReview

-----------------------------------------------------------------------------
(* A session without a lock goes from one unlocked statement to another. *)
LEMMA MoveKeeps ==
  ASSUME StagingInv, NEW s \in Sessions, NEW c \in CallRow,
         session' = [session EXCEPT ![s] = c],
         UNCHANGED <<batch, record, evidence, lock, batchLock>>,
         session[s].pc \notin {"review", "commit"},
         c.pc \notin {"review", "commit"},
         c.pc \in {"batch", "insert", "close"} => c.batch \in Batches,
         c.pc = "batch" => c.op \in {"stage"} \cup Closed,
         c.pc = "batch" /\ c.op = "stage" => c.key \in Keys,
         c.pc = "insert" => c.op = "stage" /\ c.key \in Keys,
         c.pc = "close" => c.op \in Closed,
         c.pc = "record" => c.op \in {"promote", "reject"}
                            /\ c.key \in Keys /\ record[c.key] # None
  PROVE  StagingInv'
<1>1. \A t \in Sessions : session'[t] = IF t = s THEN c ELSE session[t]
  BY DEF StagingInv, Typed
<1>2. Typed'
  BY DEF StagingInv, Typed
<1>3. LocksHeld'
  BY <1>1, NullAssumption DEF StagingInv, Typed, LocksHeld, At
<1>4. ASSUME NEW t \in Sessions PROVE StagesItsOwn(t)'
  BY <1>1 DEF StagingInv, StagesItsOwn, Inserting, At, Is
<1>5. ASSUME NEW t \in Sessions PROVE ClosesItsOwn(t)'
  BY <1>1 DEF StagingInv, ClosesItsOwn, At
<1>6. ASSUME NEW t \in Sessions PROVE ReviewsWhatIsThere(t)'
  BY <1>1 DEF StagingInv, ReviewsWhatIsThere, Reviewing, HasEvidence, At, Is
<1>7. EvidenceIsTheReview'
  BY DEF StagingInv, EvidenceIsTheReview, HasEvidence
<1>8. QED
  BY <1>2, <1>3, <1>4, <1>5, <1>6, <1>7 DEF StagingInv

(* The end of a transaction, whatever it has written: the locks that are   *)
(* left belong to others.                                                  *)
LEMMA LeaveKeepsLocks ==
  ASSUME StagingInv, NEW s \in Sessions, Leave(s)
  PROVE  /\ session' \in [Sessions -> CallRow]
         /\ \A t \in Sessions : session'[t] = IF t = s THEN Idle ELSE session[t]
         /\ lock' \in [Keys -> Sessions \cup {None}]
         /\ batchLock' \in [Batches -> Sessions \cup {None}]
         /\ \A k \in Keys, t \in Sessions : lock'[k] = t <=> lock[k] = t /\ t # s
         /\ LocksHeld'
<1>1. Idle \in CallRow
  BY DEF Idle, CallRow
<1>2. /\ session' \in [Sessions -> CallRow]
      /\ \A t \in Sessions : session'[t] = IF t = s THEN Idle ELSE session[t]
  BY <1>1 DEF StagingInv, Typed, Leave
<1>3. /\ lock' = [k \in Keys |-> IF lock[k] = s THEN None ELSE lock[k]]
      /\ batchLock' = [b \in Batches |-> IF batchLock[b] = s THEN None ELSE batchLock[b]]
  BY DEF StagingInv, Typed, Leave, Free
<1>4. /\ lock' \in [Keys -> Sessions \cup {None}]
      /\ batchLock' \in [Batches -> Sessions \cup {None}]
  BY <1>3 DEF StagingInv, Typed
<1>5. \A k \in Keys, t \in Sessions : lock'[k] = t <=> lock[k] = t /\ t # s
  BY <1>3, NullAssumption
<1>6. LocksHeld'
  BY <1>2, <1>3, NullAssumption DEF StagingInv, Typed, LocksHeld, At
<1>7. QED
  BY <1>2, <1>4, <1>5, <1>6

(* A transaction that ends without having written. *)
LEMMA ReturnKeeps ==
  ASSUME StagingInv, NEW s \in Sessions, Return(s)
  PROVE  StagingInv'
<1>1. Leave(s) /\ UNCHANGED <<batch, record, evidence>>
  BY DEF Return
<1>2. Typed' /\ LocksHeld'
  BY <1>1, LeaveKeepsLocks DEF StagingInv, Typed
<1>3. ASSUME NEW t \in Sessions PROVE StagesItsOwn(t)'
  BY <1>1, LeaveKeepsLocks DEF StagingInv, StagesItsOwn, Inserting, At, Is, Idle
<1>4. ASSUME NEW t \in Sessions PROVE ClosesItsOwn(t)'
  BY <1>1, LeaveKeepsLocks DEF StagingInv, ClosesItsOwn, At, Idle
<1>5. ASSUME NEW t \in Sessions PROVE ReviewsWhatIsThere(t)'
  BY <1>1, LeaveKeepsLocks
     DEF StagingInv, ReviewsWhatIsThere, Reviewing, HasEvidence, At, Is, Idle
<1>6. EvidenceIsTheReview'
  BY <1>1 DEF StagingInv, EvidenceIsTheReview, HasEvidence
<1>7. QED
  BY <1>2, <1>3, <1>4, <1>5, <1>6 DEF StagingInv

-----------------------------------------------------------------------------
(* Each statement of a session keeps the invariant. *)

LEMMA StatementsKeep ==
  ASSUME StagingInv, NEW s \in Sessions,
         \/ \E b \in Batches, k \in Keys : BeginStage(s, b, k)
         \/ \E b \in Batches, op \in Closed : BeginComplete(s, b, op)
         \/ \E k \in Keys, op \in {"promote", "reject"} : BeginReview(s, k, op)
         \/ FindOpenBatch(s) \/ FindBatchToClose(s)
  PROVE  StagingInv'
<1>1. ASSUME NEW b \in Batches, NEW k \in Keys, BeginStage(s, b, k) PROVE StagingInv'
  <2> DEFINE c == [Idle EXCEPT !.pc = "batch", !.op = "stage", !.batch = b, !.key = k]
  <2>1. c \in CallRow
    BY DEF Idle, CallRow, Ops
  <2>2. QED
    BY <1>1, <2>1, MoveKeeps DEF BeginStage, At, Idle
<1>2. ASSUME NEW b \in Batches, NEW op \in Closed, BeginComplete(s, b, op) PROVE StagingInv'
  <2> DEFINE c == [Idle EXCEPT !.pc = "batch", !.op = op, !.batch = b]
  <2>1. c \in CallRow /\ op # "stage"
    BY DEF Idle, CallRow, Ops, Closed
  <2>2. QED
    BY <1>2, <2>1, MoveKeeps DEF BeginComplete, At, Idle
<1>3. ASSUME NEW k \in Keys, NEW op \in {"promote", "reject"}, BeginReview(s, k, op)
      PROVE  StagingInv'
  <2> DEFINE c == [Idle EXCEPT !.pc = "record", !.op = op, !.key = k]
  <2>1. c \in CallRow
    BY DEF Idle, CallRow, Ops
  <2>2. QED
    BY <1>3, <2>1, MoveKeeps DEF BeginReview, At, Idle
<1>4. CASE FindOpenBatch(s)
  <2> DEFINE c == [session[s] EXCEPT !.pc = "insert"]
  <2>1. c \in CallRow /\ StagesItsOwn(s)
    BY DEF StagingInv, Typed, CallRow
  <2>2. QED
    BY <1>4, <2>1, MoveKeeps DEF FindOpenBatch, Goto, At, Is, StagesItsOwn, CallRow, StagingInv, Typed
<1>5. CASE FindBatchToClose(s)
  <2> DEFINE c == [session[s] EXCEPT !.pc = "close"]
  <2>1. c \in CallRow /\ StagesItsOwn(s)
    BY DEF StagingInv, Typed, CallRow
  <2>2. CASE batch[session[s].batch] # "open"
    BY <1>5, <2>2, ReturnKeeps DEF FindBatchToClose, Return
  <2>3. CASE batch[session[s].batch] = "open"
    BY <1>5, <2>1, <2>3, MoveKeeps
       DEF FindBatchToClose, Goto, At, Closed, StagesItsOwn, CallRow, StagingInv, Typed
  <2>4. QED
    BY <2>2, <2>3
<1>6. QED
  BY <1>1, <1>2, <1>3, <1>4, <1>5

LEMMA InsertKeeps ==
  ASSUME StagingInv, NEW s \in Sessions, InsertRecord(s)
  PROVE  StagingInv'
<1>1. /\ session[s] \in CallRow /\ session[s].pc = "insert"
      /\ session[s].op = "stage" /\ session[s].key \in Keys /\ session[s].batch \in Batches
      /\ record[session[s].key] = None
      /\ \A t \in Sessions : Inserting(t) => session[t].key # session[s].key
      /\ UNCHANGED <<batch, record, evidence, lock, batchLock>>
  BY DEF InsertRecord, StagingInv, Typed, StagesItsOwn, At
<1>2. /\ session' \in [Sessions -> CallRow]
      /\ \A t \in Sessions :
           session'[t] = IF t = s THEN [session[s] EXCEPT !.pc = "commit"] ELSE session[t]
  BY <1>1 DEF InsertRecord, Goto, StagingInv, Typed, CallRow
<1>3. Typed'
  BY <1>1, <1>2 DEF StagingInv, Typed
<1>4. LocksHeld'
  BY <1>1, <1>2, NullAssumption DEF StagingInv, Typed, LocksHeld, At, CallRow
<1>5. ASSUME NEW t \in Sessions PROVE StagesItsOwn(t)'
  BY <1>1, <1>2 DEF StagingInv, StagesItsOwn, Inserting, At, Is, CallRow
<1>6. ASSUME NEW t \in Sessions PROVE ClosesItsOwn(t)'
  BY <1>1, <1>2 DEF StagingInv, ClosesItsOwn, At, CallRow
<1>7. ASSUME NEW t \in Sessions PROVE ReviewsWhatIsThere(t)'
  BY <1>1, <1>2
     DEF StagingInv, ReviewsWhatIsThere, Reviewing, HasEvidence, At, Is, CallRow, Ops
<1>8. EvidenceIsTheReview'
  BY <1>1 DEF StagingInv, EvidenceIsTheReview, HasEvidence
<1>9. QED
  BY <1>3, <1>4, <1>5, <1>6, <1>7, <1>8 DEF StagingInv

LEMMA CloseKeeps ==
  ASSUME StagingInv, NEW s \in Sessions, CloseBatch(s)
  PROVE  StagingInv'
<1> DEFINE b == session[s].batch
<1>1. /\ session[s] \in CallRow /\ session[s].pc = "close" /\ session[s].op \in Closed
      /\ b \in Batches /\ batchLock[b] = None
      /\ batchLock' = [batchLock EXCEPT ![b] = s]
      /\ UNCHANGED <<batch, record, evidence, lock>>
  BY DEF CloseBatch, StagingInv, Typed, StagesItsOwn, At
<1>2. /\ session' \in [Sessions -> CallRow]
      /\ \A t \in Sessions :
           session'[t] = IF t = s THEN [session[s] EXCEPT !.pc = "commit"] ELSE session[t]
  BY <1>1 DEF CloseBatch, Goto, StagingInv, Typed, CallRow
<1>3. Typed'
  BY <1>1, <1>2 DEF StagingInv, Typed
<1>4. LocksHeld'
  BY <1>1, <1>2, NullAssumption DEF StagingInv, Typed, LocksHeld, At, CallRow
<1>5. ASSUME NEW t \in Sessions PROVE StagesItsOwn(t)'
  BY <1>1, <1>2 DEF StagingInv, StagesItsOwn, Inserting, At, Is, Closed, CallRow
<1>6. ASSUME NEW t \in Sessions PROVE ClosesItsOwn(t)'
  BY <1>1, <1>2 DEF StagingInv, ClosesItsOwn, At, CallRow
<1>7. ASSUME NEW t \in Sessions PROVE ReviewsWhatIsThere(t)'
  BY <1>1, <1>2
     DEF StagingInv, ReviewsWhatIsThere, Reviewing, HasEvidence, At, Is, Closed, CallRow, Ops
<1>8. EvidenceIsTheReview'
  BY <1>1 DEF StagingInv, EvidenceIsTheReview, HasEvidence
<1>9. QED
  BY <1>3, <1>4, <1>5, <1>6, <1>7, <1>8 DEF StagingInv

LEMMA LockKeeps ==
  ASSUME StagingInv, NEW s \in Sessions, LockRecord(s)
  PROVE  StagingInv'
<1> DEFINE k == session[s].key
<1>1. /\ session[s] \in CallRow /\ session[s].pc = "record"
      /\ session[s].op \in {"promote", "reject"}
      /\ k \in Keys /\ record[k] # None /\ record[k].review \in Reviews
      /\ lock[k] = None /\ lock' = [lock EXCEPT ![k] = s]
      /\ UNCHANGED <<batch, record, evidence, batchLock>>
  BY DEF LockRecord, StagingInv, Typed, SourceRecord, ReviewsWhatIsThere, At
<1>2. /\ session' \in [Sessions -> CallRow]
      /\ \A t \in Sessions \ {s} : session'[t] = session[t]
      /\ session'[s].pc = "review" /\ session'[s].op = session[s].op
      /\ session'[s].key = k /\ session'[s].batch = session[s].batch
      /\ session'[s].review = record[k].review
  BY <1>1 DEF LockRecord, StagingInv, Typed, CallRow
<1>3. Typed'
  BY <1>1, <1>2 DEF StagingInv, Typed
<1>4. LocksHeld'
  BY <1>1, <1>2, NullAssumption DEF StagingInv, Typed, LocksHeld, At
<1>5. ASSUME NEW t \in Sessions PROVE StagesItsOwn(t)'
  BY <1>1, <1>2 DEF StagingInv, StagesItsOwn, Inserting, At, Is
<1>6. ASSUME NEW t \in Sessions PROVE ClosesItsOwn(t)'
  BY <1>1, <1>2 DEF StagingInv, ClosesItsOwn, At
<1>7. ASSUME NEW t \in Sessions PROVE ReviewsWhatIsThere(t)'
  BY <1>1, <1>2, NullAssumption
     DEF StagingInv, Typed, ReviewsWhatIsThere, Reviewing, HasEvidence, At, Is
<1>8. EvidenceIsTheReview'
  BY <1>1 DEF StagingInv, EvidenceIsTheReview, HasEvidence
<1>9. QED
  BY <1>3, <1>4, <1>5, <1>6, <1>7, <1>8 DEF StagingInv

(* A reviewer that may decide, and does. *)
LEMMA DecideKeeps ==
  ASSUME StagingInv, NEW s \in Sessions, Promote(s) \/ Reject(s)
  PROVE  StagingInv'
<1>1. /\ session[s] \in CallRow /\ session[s].pc = "review"
      /\ \/ /\ session[s].op = "promote" /\ session[s].review # "rejected"
            /\ ~HasEvidence(session[s].key)
         \/ session[s].op = "reject" /\ session[s].review # "verified"
      /\ UNCHANGED <<batch, record, evidence, lock, batchLock>>
  BY DEF Promote, Reject, StagingInv, Typed, At, Is
<1>2. /\ session' \in [Sessions -> CallRow]
      /\ \A t \in Sessions :
           session'[t] = IF t = s THEN [session[s] EXCEPT !.pc = "commit"] ELSE session[t]
  BY <1>1 DEF Promote, Reject, Goto, StagingInv, Typed, CallRow
<1>3. Typed'
  BY <1>1, <1>2 DEF StagingInv, Typed
<1>4. LocksHeld'
  BY <1>1, <1>2, NullAssumption DEF StagingInv, Typed, LocksHeld, At, CallRow
<1>5. ASSUME NEW t \in Sessions PROVE StagesItsOwn(t)'
  BY <1>1, <1>2 DEF StagingInv, StagesItsOwn, Inserting, At, Is, CallRow
<1>6. ASSUME NEW t \in Sessions PROVE ClosesItsOwn(t)'
  BY <1>1, <1>2 DEF StagingInv, ClosesItsOwn, At, Closed, CallRow
<1>7. ASSUME NEW t \in Sessions PROVE ReviewsWhatIsThere(t)'
  BY <1>1, <1>2
     DEF StagingInv, ReviewsWhatIsThere, Reviewing, HasEvidence, At, Is, CallRow, Ops
<1>8. EvidenceIsTheReview'
  BY <1>1 DEF StagingInv, EvidenceIsTheReview, HasEvidence
<1>9. QED
  BY <1>3, <1>4, <1>5, <1>6, <1>7, <1>8 DEF StagingInv

-----------------------------------------------------------------------------
(* Each commit keeps the invariant. *)

(* A record nobody could have reviewed, and nobody else has inserted.      *)
LEMMA CommitStageKeeps ==
  ASSUME StagingInv, NEW s \in Sessions, CommitStage(s)
  PROVE  StagingInv'
<1> DEFINE k == session[s].key
           new == [batch |-> session[s].batch, review |-> "pending"]
<1>1. /\ Inserting(s) /\ k \in Keys /\ session[s].batch \in Batches /\ record[k] = None
      /\ \A t \in Sessions : Inserting(t) /\ session[t].key = k => t = s
      /\ record' = [record EXCEPT ![k] = new]
      /\ Leave(s) /\ UNCHANGED <<batch, evidence>>
  BY DEF CommitStage, StagingInv, StagesItsOwn
<1>2. new \in SourceRecord /\ new # None
  BY <1>1, NullAssumption DEF SourceRecord, Reviews
<1>3. Typed' /\ LocksHeld'
  BY <1>1, <1>2, LeaveKeepsLocks DEF StagingInv, Typed
<1>4. /\ record'[k] = new
      /\ \A x \in Keys \ {k} : record'[x] = record[x]
  BY <1>1 DEF StagingInv, Typed
<1>5. ASSUME NEW t \in Sessions PROVE StagesItsOwn(t)'
  BY <1>1, <1>4, LeaveKeepsLocks DEF StagingInv, StagesItsOwn, Inserting, At, Is, Idle
<1>6. ASSUME NEW t \in Sessions PROVE ClosesItsOwn(t)'
  BY <1>1, LeaveKeepsLocks DEF StagingInv, ClosesItsOwn, At, Idle
<1>7. ASSUME NEW t \in Sessions PROVE ReviewsWhatIsThere(t)'
  BY <1>1, <1>2, <1>4, LeaveKeepsLocks
     DEF StagingInv, ReviewsWhatIsThere, Reviewing, HasEvidence, At, Is, Idle
<1>8. EvidenceIsTheReview'
  <2>1. ~HasEvidence(k)
    BY <1>1 DEF StagingInv, EvidenceIsTheReview
  <2>2. QED
    BY <1>1, <1>4, <2>1 DEF StagingInv, EvidenceIsTheReview, HasEvidence
<1>9. QED
  BY <1>3, <1>5, <1>6, <1>7, <1>8 DEF StagingInv

LEMMA CommitCloseKeeps ==
  ASSUME StagingInv, NEW s \in Sessions, CommitClose(s)
  PROVE  StagingInv'
<1>1. /\ session[s].batch \in Batches /\ session[s].op \in Statuses
      /\ batch' = [batch EXCEPT ![session[s].batch] = session[s].op]
      /\ Leave(s) /\ UNCHANGED <<record, evidence>>
  BY DEF CommitClose, StagingInv, ClosesItsOwn, Statuses
<1>2. Typed' /\ LocksHeld'
  BY <1>1, LeaveKeepsLocks DEF StagingInv, Typed
<1>3. ASSUME NEW t \in Sessions PROVE StagesItsOwn(t)'
  BY <1>1, LeaveKeepsLocks DEF StagingInv, StagesItsOwn, Inserting, At, Is, Idle
<1>4. ASSUME NEW t \in Sessions PROVE ClosesItsOwn(t)'
  BY <1>1, LeaveKeepsLocks DEF StagingInv, ClosesItsOwn, At, Idle
<1>5. ASSUME NEW t \in Sessions PROVE ReviewsWhatIsThere(t)'
  BY <1>1, LeaveKeepsLocks
     DEF StagingInv, ReviewsWhatIsThere, Reviewing, HasEvidence, At, Is, Idle
<1>6. EvidenceIsTheReview'
  BY <1>1 DEF StagingInv, EvidenceIsTheReview, HasEvidence
<1>7. QED
  BY <1>2, <1>3, <1>4, <1>5, <1>6 DEF StagingInv

(* What a reviewer commits, on a record that only it could have changed.   *)
LEMMA CommitReviewWrites ==
  ASSUME StagingInv, NEW s \in Sessions, CommitReview(s)
  PROVE  LET k == session[s].key
             decision == IF Is(s, "promote") THEN "verified" ELSE "rejected"
         IN /\ Reviewing(s) /\ k \in Keys /\ record[k] \in SourceRecord /\ lock[k] = s
            /\ Leave(s) /\ UNCHANGED batch
            /\ record'[k] \in SourceRecord /\ record'[k].review = decision
            /\ record[k].review \in {"pending", decision}
            /\ record' \in [Keys -> SourceRecord \cup {None}]
            /\ \A x \in Keys \ {k} : record'[x] = record[x]
            /\ evidence' = IF Is(s, "promote") THEN evidence \cup {<<k, s>>} ELSE evidence
            /\ Is(s, "promote") => ~HasEvidence(k)
            /\ ~Is(s, "promote") => Is(s, "reject")
<1> DEFINE k == session[s].key
           decision == IF Is(s, "promote") THEN "verified" ELSE "rejected"
<1>1. /\ Reviewing(s) /\ At(s, "commit") /\ k \in Keys /\ lock[k] = s
      /\ record[k] \in SourceRecord /\ session[s].review = record[k].review
      /\ session[s].op \in {"promote", "reject"}
  BY DEF CommitReview, Reviewing, StagingInv, Typed, ReviewsWhatIsThere
<1>2. /\ Leave(s) /\ UNCHANGED batch
      /\ record' = [record EXCEPT ![k].review = decision]
      /\ evidence' = IF Is(s, "promote") THEN evidence \cup {<<k, s>>} ELSE evidence
  BY DEF CommitReview
<1>3. /\ Is(s, "promote") => record[k].review # "rejected" /\ ~HasEvidence(k)
      /\ Is(s, "reject") => record[k].review # "verified"
  BY <1>1 DEF StagingInv, ReviewsWhatIsThere
<1>4. Is(s, "promote") => record[k].review # "verified"
  BY <1>1, <1>3, NullAssumption DEF StagingInv, EvidenceIsTheReview, SourceRecord, Reviews
<1>5. record[k].review \in {"pending", decision}
  BY <1>1, <1>3, <1>4 DEF SourceRecord, Reviews, Is
<1>6. /\ record'[k] \in SourceRecord /\ record'[k].review = decision
      /\ record' \in [Keys -> SourceRecord \cup {None}]
      /\ \A x \in Keys \ {k} : record'[x] = record[x]
  BY <1>1, <1>2 DEF StagingInv, Typed, SourceRecord, Reviews
<1>7. QED
  BY <1>1, <1>2, <1>3, <1>5, <1>6 DEF Is

LEMMA CommitReviewKeeps ==
  ASSUME StagingInv, NEW s \in Sessions, CommitReview(s)
  PROVE  StagingInv'
<1> DEFINE decision == IF Is(s, "promote") THEN "verified" ELSE "rejected"
<1>1. PICK k \in Keys :
      /\ k = session[s].key /\ Reviewing(s) /\ record[k] \in SourceRecord /\ lock[k] = s
      /\ Leave(s) /\ UNCHANGED batch
      /\ record'[k] \in SourceRecord /\ record'[k].review = decision
      /\ record' \in [Keys -> SourceRecord \cup {None}]
      /\ \A x \in Keys \ {k} : record'[x] = record[x]
      /\ evidence' = IF Is(s, "promote") THEN evidence \cup {<<k, s>>} ELSE evidence
      /\ Is(s, "promote") => ~HasEvidence(k)
      /\ ~Is(s, "promote") => Is(s, "reject") /\ record[k].review \in {"pending", "rejected"}
  BY CommitReviewWrites
<1>2. record[k] # None /\ record'[k] # None
  BY <1>1, NullAssumption DEF SourceRecord, Reviews
<1>3. evidence' \subseteq Evidence
  BY <1>1 DEF StagingInv, Typed, Evidence
<1>4. Typed' /\ LocksHeld'
  BY <1>1, <1>3, LeaveKeepsLocks DEF StagingInv, Typed
<1>5. ASSUME NEW t \in Sessions PROVE StagesItsOwn(t)'
  BY <1>1, <1>2, LeaveKeepsLocks DEF StagingInv, StagesItsOwn, Inserting, At, Is, Idle
<1>6. ASSUME NEW t \in Sessions PROVE ClosesItsOwn(t)'
  BY <1>1, LeaveKeepsLocks DEF StagingInv, ClosesItsOwn, At, Idle
<1>7. ASSUME NEW x \in Keys \ {k} PROVE HasEvidence(x)' <=> HasEvidence(x)
  BY <1>1 DEF HasEvidence
<1>8. ASSUME NEW t \in Sessions PROVE ReviewsWhatIsThere(t)'
  <2>1. CASE t = s
    BY <1>1, <2>1, LeaveKeepsLocks DEF ReviewsWhatIsThere, Reviewing, At, Is, Idle
  <2>2. CASE t # s
    <3>1. session'[t] = session[t] /\ ReviewsWhatIsThere(t)
      BY <1>1, <2>2, LeaveKeepsLocks DEF StagingInv
    <3>2. Reviewing(t) => session[t].key # k
      BY <1>1, <2>2, <3>1 DEF ReviewsWhatIsThere
    <3>3. At(t, "commit") /\ Is(t, "promote") => ~HasEvidence(session[t].key)'
      BY <1>7, <3>1, <3>2 DEF ReviewsWhatIsThere, Reviewing, At, Is
    <3>4. QED
      BY <1>1, <1>2, <2>2, <3>1, <3>2, <3>3, LeaveKeepsLocks
         DEF ReviewsWhatIsThere, Reviewing, HasEvidence, At, Is
  <2>3. QED
    BY <2>1, <2>2
<1>9. EvidenceIsTheReview'
  <2>1. HasEvidence(k)' <=> decision = "verified"
    <3>1. CASE Is(s, "promote")
      <4>1. <<k, s>> \in evidence' /\ <<k, s>>[1] = k
        BY <1>1, <3>1
      <4>2. QED
        BY <3>1, <4>1 DEF HasEvidence
    <3>2. CASE ~Is(s, "promote")
      <4>1. evidence' = evidence /\ record[k].review # "verified"
        BY <1>1, <3>2
      <4>2. ~HasEvidence(k)
        BY <1>1, <4>1 DEF StagingInv, EvidenceIsTheReview
      <4>3. QED
        BY <3>2, <4>1, <4>2 DEF HasEvidence
    <3>3. QED
      BY <3>1, <3>2
  <2>2. \A x \in Keys : HasEvidence(x)' <=> record'[x] # None /\ record'[x].review = "verified"
    BY <1>1, <1>2, <1>7, <2>1 DEF StagingInv, EvidenceIsTheReview
  <2>3. ASSUME NEW e \in evidence', NEW f \in evidence', e[1] = f[1] PROVE e = f
    <3>1. e \in evidence /\ f \in evidence => e = f
      BY <2>3 DEF StagingInv, EvidenceIsTheReview
    <3>2. Is(s, "promote") => \A x \in evidence : x[1] # k
      BY <1>1 DEF HasEvidence
    <3>3. QED
      BY <1>1, <2>3, <3>1, <3>2
  <2>4. QED
    BY <2>2, <2>3 DEF EvidenceIsTheReview
<1>10. QED
  BY <1>4, <1>5, <1>6, <1>8, <1>9 DEF StagingInv
-----------------------------------------------------------------------------
LEMMA InitIsGood == Init => StagingInv
<1> SUFFICES ASSUME Init PROVE StagingInv
  OBVIOUS
<1>1. Idle \in CallRow /\ "open" \in Statuses
  BY DEF Idle, CallRow, Statuses
<1>2. Typed
  BY <1>1 DEF Init, Typed
<1>3. LocksHeld /\ EvidenceIsTheReview
  BY DEF Init, LocksHeld, EvidenceIsTheReview, HasEvidence
<1>4. \A s \in Sessions : session[s] = Idle
  BY DEF Init
<1>5. \A s \in Sessions : StagesItsOwn(s) /\ ClosesItsOwn(s) /\ ReviewsWhatIsThere(s)
  BY <1>4
     DEF StagesItsOwn, ClosesItsOwn, ReviewsWhatIsThere, Reviewing, Inserting, At, Is, Idle
<1>6. QED
  BY <1>2, <1>3, <1>5 DEF StagingInv

LEMMA NextKeeps == StagingInv /\ [Next]_vars => StagingInv'
<1> SUFFICES ASSUME StagingInv, [Next]_vars PROVE StagingInv'
  OBVIOUS
<1>1. CASE UNCHANGED vars
  BY <1>1
     DEF vars, StagingInv, Typed, LocksHeld, StagesItsOwn, ClosesItsOwn, ReviewsWhatIsThere,
         Reviewing, Inserting, EvidenceIsTheReview, HasEvidence, At, Is
<1>2. CASE Next
  <2>1. PICK s \in Sessions :
          \/ \E b \in Batches, k \in Keys : BeginStage(s, b, k)
          \/ \E b \in Batches, op \in Closed : BeginComplete(s, b, op)
          \/ \E k \in Keys, op \in {"promote", "reject"} : BeginReview(s, k, op)
          \/ Progress(s) \/ Waiting(s) \/ Abort(s)
    BY <1>2 DEF Next
  <2>2. CASE Return(s)
    BY <2>2, ReturnKeeps
  <2>3. CASE ~Return(s)
    BY <2>1, <2>3, StatementsKeep, InsertKeeps, CloseKeeps, LockKeeps, DecideKeeps,
       CommitStageKeeps, CommitCloseKeeps, CommitReviewKeeps
       DEF Progress, Waiting, Abort, NotOpen, AlreadyStaged, ReviewRefused
  <2>4. QED
    BY <2>2, <2>3
<1>3. QED
  BY <1>1, <1>2

(* The invariant, for any number of sessions, batches and records.         *)
THEOREM StagingIsSound == Spec => []StagingInv
BY InitIsGood, NextKeeps, PTL DEF Spec

(* The variables have their types, and locks belong to calls that use them.*)
THEOREM StagingTyped == Spec => []StagingTypeOK
<1>1. StagingInv => StagingTypeOK
  BY DEF StagingInv, Typed, LocksHeld, StagingTypeOK
<1>2. QED
  BY StagingIsSound, <1>1, PTL

(* stage_source_record, promote_verified_record, reject_staging_record:    *)
(* however sessions overlap, a review that was decided stays as it is, and *)
(* a record has one piece of evidence exactly when it is verified.         *)
THEOREM ReviewsStand == Spec => PromotionStands
<1>1. ASSUME StagingInv, [Next]_vars, NEW k \in Keys,
             record[k] # None, record[k].review # "pending"
      PROVE  record'[k].review = record[k].review
  <2>1. CASE UNCHANGED record
    BY <2>1
  <2>2. CASE record' # record
    <3>1. PICK s \in Sessions : CommitStage(s) \/ CommitReview(s)
      BY <1>1, <2>2
         DEF Next, vars, BeginStage, BeginComplete, BeginReview, Progress, Waiting, Abort,
             Return, FindOpenBatch, NotOpen, AlreadyStaged, FindBatchToClose, CommitClose,
             Promote, Reject, ReviewRefused, InsertRecord, CloseBatch, LockRecord
    <3>2. CASE CommitStage(s)
      <4>1. session[s].key \in Keys /\ record[session[s].key] = None
        BY <1>1, <3>2 DEF CommitStage, StagingInv, StagesItsOwn
      <4>2. QED
        BY <1>1, <3>2, <4>1 DEF CommitStage, StagingInv, Typed
    <3>3. CASE CommitReview(s)
      BY <1>1, <3>3, CommitReviewWrites
    <3>4. QED
      BY <3>1, <3>2, <3>3
  <2>3. QED
    BY <2>1, <2>2
<1>2. StagingInv /\ StagingInv' /\ [Next]_vars =>
        [/\ \A k \in Keys : record[k] # None /\ record[k].review # "pending" =>
              record'[k].review = record[k].review
         /\ EvidenceIsTheReview']_vars
  BY <1>1 DEF StagingInv
<1>3. QED
  BY StagingIsSound, <1>2, PTL DEF Spec, PromotionStands

-----------------------------------------------------------------------------
(* VerifiedKnowledge.  A version that is not a draft any more has its      *)
(* evidence in a state that a bound reader accepts, whatever happens to    *)
(* the versions that share it.                                             *)
EvidenceStands(status, states) ==
  \A v \in Versions : status[v] # "draft" => \A c \in ClaimsOf(v) : states[c] \in BoundStates

Reading ==
  [pc: {"definitions", "definition", "uses", "use evidence",
        "policy", "actions", "action evidence"},
   want: {"manifest", "procedure"}, bound: BOOLEAN, version: Versions \cup {0}]

(* A bound reader is on its way to the manifest or the procedure of a      *)
(* version that was published.                                             *)
ReadsPublished(q, status) ==
  q.pc # "idle" =>
    /\ q \in Reading
    /\ q.pc \in {"uses", "use evidence"} => q.want = "manifest"
    /\ q.pc \in {"policy", "actions", "action evidence"} => q.want = "procedure"
    /\ q.pc = "definitions" => ~q.bound
    /\ q.bound => q.version \in Versions /\ status[q.version] # "draft"

(* What BoundKnowledgeIsPinned says of one answer. *)
Pinned(a) ==
  a.bound =>
    /\ \/ a.outcome = "ok"
       \/ a.want = "procedure" /\ a.outcome \in GuidanceStates \ {"supported"}
       \/ a.want = "procedure" /\ a.outcome = "NOT_AVAILABLE" /\ Procedure[a.version] = <<>>
    /\ a.outcome = "ok" => a.content = WholeAnswer(a.want, a.version)

KnowledgeInv ==
  /\ definition \in [Versions -> {"draft", "verified", "superseded"}]
  /\ policy \in GuidanceStates
  /\ DOMAIN reader = Readers /\ DOMAIN answer = Readers
  /\ EvidenceStands(definition, claim)
  /\ \A r \in Readers : ReadsPublished(reader[r], definition)
  /\ \A r \in Readers : answer[r] # NoAnswer => Pinned(answer[r])

LEMMA ClaimsAreClaims ==
  ASSUME NEW v \in Versions
  PROVE  ClaimsOf(v) \subseteq Claims
<1>1. /\ Uses[v] \in Seq(Fact)
      /\ UseClaims[v] \in [DOMAIN Uses[v] -> (SUBSET Claims) \ {{}}]
      /\ Procedure[v] \in Seq((SUBSET Claims) \ {{}})
  BY KnowledgeAssumption
<1>2. \A i \in DOMAIN UseClaims[v] : UseClaims[v][i] \subseteq Claims
  BY <1>1
<1>3. \A i \in DOMAIN Procedure[v] : Procedure[v][i] \subseteq Claims
  BY <1>1
<1>4. QED
  BY <1>2, <1>3 DEF ClaimsOf

(* Publishing and superseding: the evidence of the other versions stands.  *)
LEMMA PublicationKeeps ==
  ASSUME KnowledgeInv,
         NEW status \in [Versions -> {"draft", "verified", "superseded"}],
         \A v \in Versions : definition[v] # "draft" => status[v] # "draft",
         SetStatus(status)
  PROVE  KnowledgeInv'
<1>1. definition' = status /\ claim' = ClaimsUnder(status)
      /\ UNCHANGED <<policy, reader, answer>>
  BY DEF SetStatus
<1>2. EvidenceStands(status, ClaimsUnder(status))
  <2> SUFFICES ASSUME NEW v \in Versions, status[v] # "draft", NEW c \in ClaimsOf(v)
               PROVE  ClaimsUnder(status)[c] \in BoundStates
    BY DEF EvidenceStands
  <2>1. c \in Claims
    BY ClaimsAreClaims
  <2>2. status[v] \in {"verified", "superseded"}
    OBVIOUS
  <2> DEFINE resting(s) == UNION {ClaimsOf(w) : w \in {w \in Versions : status[w] = s}}
  <2>3. c \in resting("verified") \/ c \in resting("superseded")
    BY <2>2
  <2>4. ClaimsUnder(status)[c] =
          IF c \in resting("verified") THEN "verified"
          ELSE IF c \in resting("superseded") THEN "superseded" ELSE claim[c]
    BY <2>1 DEF ClaimsUnder
  <2> HIDE DEF resting
  <2>5. QED
    BY <2>3, <2>4 DEF BoundStates
<1>3. \A r \in Readers : ReadsPublished(reader[r], status)
  BY DEF KnowledgeInv, ReadsPublished, Reading
<1>4. QED
  BY <1>1, <1>2, <1>3 DEF KnowledgeInv

(* A step of a reader that does not answer. *)
LEMMA ContinueKeeps ==
  ASSUME KnowledgeInv, NEW r \in Readers, NEW q,
         ReadsPublished(q, definition), Continue(r, q)
  PROVE  KnowledgeInv'
<1>1. reader' = [reader EXCEPT ![r] = q] /\ UNCHANGED <<definition, claim, policy, answer>>
  BY DEF Continue
<1>2. \A t \in Readers : ReadsPublished(reader'[t], definition')
  BY <1>1 DEF KnowledgeInv
<1>3. QED
  BY <1>1, <1>2 DEF KnowledgeInv

LEMMA AnswerKeeps ==
  ASSUME KnowledgeInv, NEW r \in Readers, NEW outcome, NEW content,
         Pinned([want |-> reader[r].want, bound |-> reader[r].bound,
                 version |-> reader[r].version, outcome |-> outcome, content |-> content]),
         Answer(r, outcome, content)
  PROVE  KnowledgeInv'
<1>1. PICK a : /\ Pinned(a)
               /\ answer' = [answer EXCEPT ![r] = a]
               /\ reader' = [reader EXCEPT ![r] = NotReading]
               /\ UNCHANGED <<definition, claim, policy>>
  BY DEF Answer
<1>2. ReadsPublished(NotReading, definition)
  BY DEF ReadsPublished, Reading, NotReading
<1>3. \A t \in Readers : ReadsPublished(reader'[t], definition')
  BY <1>1, <1>2 DEF KnowledgeInv
<1>4. \A t \in Readers : answer'[t] # NoAnswer => Pinned(answer'[t])
  BY <1>1 DEF KnowledgeInv
<1>5. QED
  BY <1>1, <1>3, <1>4 DEF KnowledgeInv

(* The evidence a bound reader finds is all the evidence there is.         *)
LEMMA EvidenceIsFound ==
  ASSUME KnowledgeInv, NEW v \in Versions, definition[v] # "draft",
         NEW claims, claims \subseteq ClaimsOf(v)
  PROVE  Supporting(claims, TRUE) = claims
BY DEF KnowledgeInv, EvidenceStands, Supporting, AllowedClaimStates, BoundStates

LEMMA UseEvidenceKeeps ==
  ASSUME KnowledgeInv, NEW r \in Readers, ReadUseEvidence(r)
  PROVE  KnowledgeInv'
<1> DEFINE v == reader[r].version
           found == [i \in DOMAIN Uses[v] |-> Supporting(UseClaims[v][i], reader[r].bound)]
           manifest == BuildRequirementManifest(Uses[v])
           whole == {<<k, manifest[k], UNION {found[i] : i \in manifest[k].uses}>> :
                       k \in DOMAIN manifest}
<1>1. /\ reader[r].pc = "use evidence" /\ reader[r].want = "manifest"
      /\ reader[r].bound \in BOOLEAN
      /\ reader[r].bound => v \in Versions /\ definition[v] # "draft"
  BY DEF ReadUseEvidence, KnowledgeInv, ReadsPublished, Reading
<1>2. CASE ~reader[r].bound
  <2>1. PICK outcome, content : Answer(r, outcome, content)
    BY DEF ReadUseEvidence, Fail
  <2>2. Pinned([want |-> reader[r].want, bound |-> reader[r].bound,
                version |-> reader[r].version, outcome |-> outcome, content |-> content])
    BY <1>2 DEF Pinned
  <2>3. QED
    BY <2>1, <2>2, AnswerKeeps
<1>3. CASE reader[r].bound
  <2>1. /\ v \in Versions /\ definition[v] # "draft"
        /\ UseClaims[v] \in [DOMAIN Uses[v] -> (SUBSET Claims) \ {{}}]
    BY <1>1, <1>3, KnowledgeAssumption
  <2>2. ASSUME NEW i \in DOMAIN Uses[v] PROVE found[i] = UseClaims[v][i]
    <3>1. UseClaims[v][i] \subseteq ClaimsOf(v)
      BY <2>1 DEF ClaimsOf
    <3>2. Supporting(UseClaims[v][i], TRUE) = UseClaims[v][i]
      BY <2>1, <3>1, EvidenceIsFound
    <3>3. QED
      BY <1>1, <1>3, <3>2
  <2>3. found = UseClaims[v]
    BY <2>1, <2>2
  <2>4. ~\E i \in DOMAIN found : found[i] = {}
    BY <2>1, <2>3
  <2>5. Answer(r, "ok", whole)
    BY <2>4 DEF ReadUseEvidence
  <2>6. whole = WholeAnswer("manifest", v)
    <3> HIDE DEF found, manifest
    <3>1. whole = {<<k, manifest[k], UNION {UseClaims[v][i] : i \in manifest[k].uses}>> :
                     k \in DOMAIN manifest}
      BY <2>3
    <3>2. QED
      BY <3>1 DEF WholeAnswer, manifest
  <2> HIDE DEF whole
  <2>7. Pinned([want |-> reader[r].want, bound |-> reader[r].bound,
                version |-> reader[r].version, outcome |-> "ok", content |-> whole])
    BY <1>1, <2>6 DEF Pinned
  <2>8. QED
    BY <2>5, <2>7, AnswerKeeps
<1>4. QED
  BY <1>1, <1>2, <1>3

LEMMA ActionEvidenceKeeps ==
  ASSUME KnowledgeInv, NEW r \in Readers, ReadActionEvidence(r)
  PROVE  KnowledgeInv'
<1> DEFINE v == reader[r].version
           actions == Procedure[v]
           found == [i \in DOMAIN actions |-> Supporting(actions[i], reader[r].bound)]
           whole == {<<i, found[i]>> : i \in DOMAIN found}
<1>1. /\ reader[r].pc = "action evidence" /\ reader[r].want = "procedure"
      /\ reader[r].bound \in BOOLEAN
      /\ reader[r].bound => v \in Versions /\ definition[v] # "draft"
  BY DEF ReadActionEvidence, KnowledgeInv, ReadsPublished, Reading
<1>2. CASE ~reader[r].bound
  <2>1. PICK outcome, content : Answer(r, outcome, content)
    BY DEF ReadActionEvidence, Fail
  <2>2. Pinned([want |-> reader[r].want, bound |-> reader[r].bound,
                version |-> reader[r].version, outcome |-> outcome, content |-> content])
    BY <1>2 DEF Pinned
  <2>3. QED
    BY <2>1, <2>2, AnswerKeeps
<1>3. CASE reader[r].bound
  <2>1. /\ v \in Versions /\ definition[v] # "draft"
        /\ actions \in Seq((SUBSET Claims) \ {{}})
    BY <1>1, <1>3, KnowledgeAssumption
  <2>2. ASSUME NEW i \in DOMAIN actions
        PROVE  found[i] = actions[i] /\ actions[i] # {}
    <3>1. actions[i] \subseteq ClaimsOf(v) /\ actions[i] # {}
      BY <2>1 DEF ClaimsOf
    <3>2. Supporting(actions[i], TRUE) = actions[i]
      BY <2>1, <3>1, EvidenceIsFound
    <3>3. QED
      BY <1>1, <1>3, <3>1, <3>2
  <2>3. ~\E i \in DOMAIN found : found[i] = {}
    BY <2>2
  <2>4. Answer(r, "ok", whole)
    BY <2>3 DEF ReadActionEvidence
  <2>5. whole = WholeAnswer("procedure", v)
    BY <2>2 DEF WholeAnswer
  <2> HIDE DEF whole
  <2>6. Pinned([want |-> reader[r].want, bound |-> reader[r].bound,
                version |-> reader[r].version, outcome |-> "ok", content |-> whole])
    BY <1>1, <2>5 DEF Pinned
  <2>7. QED
    BY <2>4, <2>6, AnswerKeeps
<1>4. QED
  BY <1>1, <1>2, <1>3

(* The SELECTs before the evidence. *)
LEMMA ReadKeeps ==
  ASSUME KnowledgeInv, NEW r \in Readers, Read(r)
  PROVE  KnowledgeInv'
<1> DEFINE q == reader[r]
           reply(outcome) == [want |-> q.want, bound |-> q.bound, version |-> q.version,
                              outcome |-> outcome, content |-> {}]
<1>1. ReadsPublished(q, definition) /\ policy \in GuidanceStates
      /\ definition \in [Versions -> {"draft", "verified", "superseded"}]
  BY DEF KnowledgeInv
<1>2. CASE FindVerified(r)
  <2>1. q.pc = "definitions" /\ q.want \in {"manifest", "procedure"} /\ q.bound = FALSE
    BY <1>1, <1>2 DEF FindVerified, ReadsPublished, Reading
  <2>2. \A outcome : Pinned(reply(outcome))
    BY <2>1 DEF Pinned
  <2>3. \A v \in Versions :
          ReadsPublished([q EXCEPT !.pc = First(q.want), !.version = v], definition)
    BY <1>1, <2>1 DEF ReadsPublished, Reading, First
  <2>4. \/ \E outcome : Answer(r, outcome, {})
        \/ \E v \in Versions : Continue(r, [q EXCEPT !.pc = First(q.want), !.version = v])
    <3> DEFINE found == {v \in Versions : definition[v] = "verified"}
    <3>1. CASE found = {} \/ Cardinality(found) > 1
      BY <1>2, <3>1 DEF FindVerified, Fail
    <3>2. CASE ~(found = {} \/ Cardinality(found) > 1)
      <4>1. (CHOOSE v \in found : TRUE) \in Versions
        BY <3>2
      <4>2. Continue(r, [q EXCEPT !.pc = First(q.want), !.version = CHOOSE v \in found : TRUE])
        BY <1>2, <3>2 DEF FindVerified
      <4>3. QED
        BY <4>1, <4>2
    <3>3. QED
      BY <3>1, <3>2
  <2>5. CASE \E outcome : Answer(r, outcome, {})
    BY <2>2, <2>5, AnswerKeeps
  <2>6. CASE \E v \in Versions : Continue(r, [q EXCEPT !.pc = First(q.want), !.version = v])
    BY <2>3, <2>6, ContinueKeeps
  <2>7. QED
    BY <2>4, <2>5, <2>6
<1>3. CASE FindBound(r)
  <2>1. q.pc = "definition" /\ q.want \in {"manifest", "procedure"} /\ q.bound \in BOOLEAN
    BY <1>1, <1>3 DEF FindBound, ReadsPublished, Reading
  <2>2. CASE definition[q.version] \in BoundStates
    <3>1. ReadsPublished([q EXCEPT !.pc = First(q.want)], definition)
      BY <1>1, <2>1 DEF ReadsPublished, Reading, First
    <3>2. QED
      BY <1>3, <2>2, <3>1, ContinueKeeps DEF FindBound
  <2>3. CASE definition[q.version] \notin BoundStates
    <3>1. ~q.bound
      BY <1>1, <2>1, <2>3 DEF ReadsPublished, Reading, BoundStates
    <3>2. Pinned(reply("BINDING_INVALID"))
      BY <3>1 DEF Pinned
    <3>3. QED
      BY <1>3, <2>3, <3>2, AnswerKeeps DEF FindBound, Fail
  <2>4. QED
    BY <2>2, <2>3
<1>4. CASE ReadUses(r)
  <2>1. ReadsPublished([q EXCEPT !.pc = "use evidence"], definition)
    BY <1>1, <1>4 DEF ReadUses, ReadsPublished, Reading
  <2>2. QED
    BY <1>4, <2>1, ContinueKeeps DEF ReadUses
<1>5. CASE ReadPolicy(r)
  <2>1. ReadsPublished([q EXCEPT !.pc = "actions"], definition)
    BY <1>1, <1>5 DEF ReadPolicy, ReadsPublished, Reading
  <2>2. policy # "supported" => Pinned(reply(policy))
    BY <1>1, <1>5 DEF ReadPolicy, ReadsPublished, Reading, Pinned, GuidanceStates
  <2>3. QED
    BY <1>5, <2>1, <2>2, ContinueKeeps, AnswerKeeps DEF ReadPolicy, Fail
<1>6. CASE ReadActions(r)
  <2>1. ReadsPublished([q EXCEPT !.pc = "action evidence"], definition)
    BY <1>1, <1>6 DEF ReadActions, ReadsPublished, Reading
  <2>2. Procedure[q.version] = <<>> => Pinned(reply("NOT_AVAILABLE"))
    BY <1>1, <1>6 DEF ReadActions, ReadsPublished, Reading, Pinned
  <2>3. QED
    BY <1>6, <2>1, <2>2, ContinueKeeps, AnswerKeeps DEF ReadActions, Fail
<1>7. QED
  BY <1>2, <1>3, <1>4, <1>5, <1>6, UseEvidenceKeeps, ActionEvidenceKeeps DEF Read

LEMMA KnowledgeNextKeeps == KnowledgeInv /\ [KnowledgeNext]_knowledgeVars => KnowledgeInv'
<1> SUFFICES ASSUME KnowledgeInv, [KnowledgeNext]_knowledgeVars PROVE KnowledgeInv'
  OBVIOUS
<1>1. CASE UNCHANGED knowledgeVars
  BY <1>1 DEF knowledgeVars, KnowledgeInv
<1>2. ASSUME NEW v \in Versions, Publish(v) \/ SupersedeVersion(v) PROVE KnowledgeInv'
  <2>1. definition \in [Versions -> {"draft", "verified", "superseded"}]
    BY DEF KnowledgeInv
  <2>2. PICK s \in {"verified", "superseded"} : SetStatus([definition EXCEPT ![v] = s])
    BY <1>2 DEF Publish, SupersedeVersion
  <2>3. QED
    BY <2>1, <2>2, PublicationKeeps
<1>3. ASSUME NEW v \in Versions, NEW w \in Versions, Replace(v, w) PROVE KnowledgeInv'
  <2>1. definition \in [Versions -> {"draft", "verified", "superseded"}]
    BY DEF KnowledgeInv
  <2>2. SetStatus([definition EXCEPT ![v] = "superseded", ![w] = "verified"])
    BY <1>3 DEF Replace
  <2>3. QED
    BY <2>1, <2>2, PublicationKeeps
<1>4. ASSUME NEW state \in GuidanceStates, ChangePolicy(state) PROVE KnowledgeInv'
  BY <1>4 DEF ChangePolicy, KnowledgeInv
<1>5. ASSUME NEW r \in Readers, NEW want \in {"manifest", "procedure"}, BeginVerified(r, want)
      PROVE  KnowledgeInv'
  <2>1. ReadsPublished([pc |-> "definitions", want |-> want, bound |-> FALSE, version |-> 0],
                       definition)
    BY DEF ReadsPublished, Reading
  <2>2. QED
    BY <1>5, <2>1, ContinueKeeps DEF BeginVerified
<1>6. ASSUME NEW r \in Readers, NEW want \in {"manifest", "procedure"}, NEW v \in Versions,
             BeginBound(r, want, v)
      PROVE  KnowledgeInv'
  <2>1. ReadsPublished([pc |-> "definition", want |-> want, bound |-> TRUE, version |-> v],
                       definition)
    BY <1>6 DEF BeginBound, ReadsPublished, Reading
  <2>2. QED
    BY <1>6, <2>1, ContinueKeeps DEF BeginBound
<1>7. QED
  BY <1>1, <1>2, <1>3, <1>4, <1>5, <1>6, ReadKeeps DEF KnowledgeNext

(* The invariant, for any versions, claims and readers. *)
THEOREM KnowledgeIsSound == KnowledgeSpec => []KnowledgeInv
<1>1. ASSUME KnowledgeInit PROVE KnowledgeInv
  <2>1. /\ definition = [v \in Versions |-> "draft"] /\ policy = "supported"
        /\ reader = [r \in Readers |-> NotReading] /\ answer = [r \in Readers |-> NoAnswer]
    BY <1>1 DEF KnowledgeInit
  <2>2. ReadsPublished(NotReading, definition)
    BY DEF ReadsPublished, NotReading
  <2>3. EvidenceStands(definition, claim)
    BY <2>1 DEF EvidenceStands
  <2>4. QED
    BY <2>1, <2>2, <2>3 DEF KnowledgeInv, GuidanceStates
<1>2. QED
  BY <1>1, KnowledgeNextKeeps, PTL DEF KnowledgeSpec

(* bound_requirement_manifest, _guidance_view: what a session is bound to  *)
(* is read whole, whatever is published, superseded or replaced between    *)
(* the SELECTs.                                                            *)
THEOREM BoundKnowledgeStays == KnowledgeSpec => []BoundKnowledgeIsPinned
<1>1. KnowledgeInv => BoundKnowledgeIsPinned
  BY DEF KnowledgeInv, Pinned, BoundKnowledgeIsPinned
<1>2. QED
  BY <1>1, KnowledgeIsSound, PTL

-----------------------------------------------------------------------------
(* Reconciliation.  The lemmas are about any sequence of observations, so  *)
(* that a log of them needs no induction but for its type.                 *)

TotallyOrders(R, V) ==
  /\ \A a, b \in V : a # b => <<a, b>> \in R \/ <<b, a>> \in R
  /\ \A a, b, c \in V : <<a, b>> \in R /\ <<b, c>> \in R => <<a, c>> \in R

(* Of finitely many things, one is ahead of the others.                    *)
LEMMA FiniteHasFirst ==
  ASSUME NEW V, IsFiniteSet(V), V # {}, NEW R, TotallyOrders(R, V)
  PROVE  \E t \in V : \A w \in V \ {t} : <<t, w>> \in R
<1> USE DEF TotallyOrders
<1> DEFINE Has(U) == \E t \in U : \A w \in U \ {t} : <<t, w>> \in R
           B == {U \in SUBSET V : U # {} /\ ~Has(U)}
<1>1. IsWellFoundedOn(StrictSubsetOrdering(V), SUBSET V)
  BY FS_StrictSubsetOrderingWellFounded, FS_FiniteSubsetsOfFinite
<1> SUFFICES ASSUME B # {} PROVE FALSE
  OBVIOUS
<1>2. PICK U \in B : \A P \in B : <<P, U>> \notin StrictSubsetOrdering(V)
  <2>1. B \subseteq SUBSET V
    OBVIOUS
  <2> HIDE DEF B
  <2>2. QED
    BY <1>1, <2>1, WFMin
<1>3. PICK x \in U : TRUE
  OBVIOUS
<1> DEFINE P == U \ {x}
<1>4. <<P, U>> \in StrictSubsetOrdering(V)
  BY <1>3 DEF StrictSubsetOrdering
<1>5. P \notin B
  BY <1>2, <1>4
<1>6. P = {} \/ Has(P)
  BY <1>5
<1>7. CASE P = {}
  BY <1>3, <1>7
<1>8. CASE Has(P)
  <2>1. PICK t \in P : \A w \in P \ {t} : <<t, w>> \in R
    BY <1>8
  <2>2. t # x /\ t \in V /\ x \in V
    BY <2>1, <1>3
  <2>3. CASE <<t, x>> \in R
    BY <2>1, <2>2, <2>3
  <2>4. CASE <<x, t>> \in R
    <3>1. \A w \in U \ {x} : <<x, w>> \in R
      BY <2>1, <2>2, <2>4
    <3>2. QED
      BY <3>1, <1>3
  <2>5. QED
    BY <2>2, <2>3, <2>4
<1>9. QED
  BY <1>6, <1>7, <1>8

(* What comes last in a sequence exists. *)
LEMMA LastWordExists ==
  ASSUME NEW obs \in Seq(Observation), NEW s \in Spoken(obs)
  PROVE  \E i \in DOMAIN obs : obs[i].source = s /\ IsLastWord(obs, i)
<1> DEFINE V == {i \in DOMAIN obs : obs[i].source = s}
           R == {p \in V \X V : p[1] > p[2]}
<1>1. V \subseteq 1..Len(obs) /\ V # {} /\ Len(obs) \in Nat
  BY DEF Spoken
<1>2. IsFiniteSet(V)
  BY <1>1, FS_Interval, FS_Subset
<1>3. V \subseteq Int
  BY <1>1
<1>4. TotallyOrders(R, V)
  BY <1>3 DEF TotallyOrders
<1>5. V # {}
  BY <1>1
<1>6. PICK t \in V : \A w \in V \ {t} : <<t, w>> \in R
  <2> HIDE DEF V, R
  <2>1. QED
    BY <1>2, <1>4, <1>5, FiniteHasFirst
<1>7. \A w \in V : ~(t < w)
  <2> SUFFICES ASSUME NEW w \in V, t < w PROVE FALSE
    OBVIOUS
  <2>1. t \in Int /\ w \in Int
    BY <1>3
  <2>2. w # t
    BY <2>1
  <2>3. t > w
    BY <1>6, <2>2
  <2>4. QED
    BY <2>1, <2>3
<1>8. QED
  BY <1>7 DEF IsLastWord

LEMMA LastWordIsKept ==
  ASSUME NEW obs \in Seq(Observation), NEW i \in DOMAIN obs, IsLastWord(obs, i)
  PROVE  BySource(obs)[obs[i].source] = obs[i]
<1> DEFINE LastOf(k) == obs[k].source = obs[i].source /\ IsLastWord(obs, k)
<1>1. DOMAIN obs \subseteq Int
  OBVIOUS
<1>2. \A k \in DOMAIN obs : LastOf(k) => k = i
  BY <1>1 DEF IsLastWord
<1>3. (CHOOSE k \in DOMAIN obs : LastOf(k)) = i
  BY <1>2
<1>4. QED
  BY <1>3 DEF BySource, Spoken

LEMMA BySourceIsFunction ==
  ASSUME NEW obs \in Seq(Observation)
  PROVE  /\ BySource(obs) \in [Spoken(obs) -> Observation]
         /\ \A s \in Spoken(obs) : BySource(obs)[s].source = s
         /\ Spoken(obs) \subseteq Sources
<1>1. ASSUME NEW s \in Spoken(obs)
      PROVE  BySource(obs)[s] \in Observation /\ BySource(obs)[s].source = s
  <2>1. PICK i \in DOMAIN obs : obs[i].source = s /\ IsLastWord(obs, i)
    BY LastWordExists
  <2>2. QED
    BY <2>1, LastWordIsKept
<1>2. DOMAIN BySource(obs) = Spoken(obs)
  BY DEF BySource
<1>3. Spoken(obs) \subseteq Sources
  <2>1. \A i \in DOMAIN obs : obs[i] \in Observation
    OBVIOUS
  <2>2. QED
    BY <2>1 DEF Spoken, Observation
<1>4. BySource(obs) = [s \in Spoken(obs) |-> BySource(obs)[s]]
  BY DEF BySource
<1>5. QED
  BY <1>1, <1>3, <1>4

(* Who has the same last words comes to the same votes.                    *)
LEMMA SameLastWords ==
  ASSUME NEW p \in Seq(Observation), NEW q \in Seq(Observation),
         \A i \in DOMAIN p : IsLastWord(p, i) =>
           \E k \in DOMAIN q : IsLastWord(q, k) /\ q[k] = p[i],
         Spoken(q) \subseteq Spoken(p)
  PROVE  BySource(q) = BySource(p)
<1>1. ASSUME NEW s \in Spoken(p)
      PROVE  s \in Spoken(q) /\ BySource(q)[s] = BySource(p)[s]
  <2>1. PICK i \in DOMAIN p : p[i].source = s /\ IsLastWord(p, i)
    BY LastWordExists
  <2>2. PICK k \in DOMAIN q : IsLastWord(q, k) /\ q[k] = p[i]
    BY <2>1
  <2>3. BySource(p)[s] = p[i] /\ BySource(q)[s] = q[k]
    BY <2>1, <2>2, LastWordIsKept
  <2>4. QED
    BY <2>1, <2>2, <2>3 DEF Spoken
<1>2. Spoken(p) = Spoken(q)
  BY <1>1
<1>3. /\ BySource(p) = [s \in Spoken(p) |-> BySource(p)[s]]
      /\ BySource(q) = [s \in Spoken(q) |-> BySource(q)[s]]
  BY DEF BySource
<1>4. QED
  BY <1>1, <1>2, <1>3

(* The votes of somebody at least, and what they are for.                  *)
SomeVotes(votes) ==
  /\ votes \in [DOMAIN votes -> Observation]
  /\ IsFiniteSet(DOMAIN votes) /\ DOMAIN votes # {}

ValuesOf(votes) == {votes[x].value : x \in DOMAIN votes}

Size(votes, v) == Cardinality(Group(votes, v))

LEMMA VotesAreCounted ==
  ASSUME NEW votes, SomeVotes(votes)
  PROVE  /\ IsFiniteSet(ValuesOf(votes)) /\ ValuesOf(votes) # {}
         /\ ValuesOf(votes) \subseteq Values
         /\ \A v : IsFiniteSet(Group(votes, v)) /\ Size(votes, v) \in Nat
         /\ \A v : Size(votes, v) = 0 <=> v \notin ValuesOf(votes)
<1> USE DEF SomeVotes
<1> DEFINE f == [x \in DOMAIN votes |-> votes[x].value]
<1>1. f \in Surjection(DOMAIN votes, ValuesOf(votes))
  BY DEF Surjection, ValuesOf
<1>2. IsFiniteSet(ValuesOf(votes))
  BY <1>1, FS_Surjection
<1>3. ValuesOf(votes) # {} /\ ValuesOf(votes) \subseteq Values
  BY DEF ValuesOf, Observation
<1>4. ASSUME NEW v
      PROVE  /\ IsFiniteSet(Group(votes, v)) /\ Size(votes, v) \in Nat
             /\ Size(votes, v) = 0 <=> v \notin ValuesOf(votes)
  <2>1. Group(votes, v) \subseteq DOMAIN votes
    BY DEF Group
  <2>2. IsFiniteSet(Group(votes, v))
    BY <2>1, FS_Subset
  <2>3. Group(votes, v) = {} <=> v \notin ValuesOf(votes)
    BY DEF Group, ValuesOf
  <2>4. QED
    BY <2>2, <2>3, FS_CardinalityType, FS_EmptySet DEF Size
<1>5. QED
  BY <1>2, <1>3, <1>4

(* To be ahead is a strict order of the values.                            *)
LEMMA AheadIsOrder ==
  ASSUME NEW votes, SomeVotes(votes)
  PROVE  /\ \A a, b : Ahead(votes, a, b) <=>
              \/ Size(votes, a) > Size(votes, b)
              \/ Size(votes, a) = Size(votes, b) /\ a < b
         /\ \A a, b \in Values : ~(Ahead(votes, a, b) /\ Ahead(votes, b, a))
         /\ \A a, b \in Values : a # b => Ahead(votes, a, b) \/ Ahead(votes, b, a)
         /\ \A a, b, c \in Values :
              Ahead(votes, a, b) /\ Ahead(votes, b, c) => Ahead(votes, a, c)
<1>1. \A a, b : Ahead(votes, a, b) <=>
                  \/ Size(votes, a) > Size(votes, b)
                  \/ Size(votes, a) = Size(votes, b) /\ a < b
  BY DEF Ahead, Size
<1>2. \A v : Size(votes, v) \in Nat
  BY VotesAreCounted
<1>3. QED
  BY <1>1, <1>2, ValuesAssumption

(* Of any values that are voted for, one is ahead of the others.           *)
LEMMA SomethingIsAhead ==
  ASSUME NEW votes, SomeVotes(votes), NEW V \in SUBSET ValuesOf(votes), V # {}
  PROVE  \E t \in V : \A w \in V \ {t} : Ahead(votes, t, w)
<1> DEFINE R == {p \in V \X V : Ahead(votes, p[1], p[2])}
<1>1. V \subseteq Values /\ IsFiniteSet(V)
  BY VotesAreCounted, FS_Subset
<1>2. \A a, b \in V : <<a, b>> \in R <=> Ahead(votes, a, b)
  OBVIOUS
<1>3. TotallyOrders(R, V)
  <2> HIDE DEF R
  <2>1. QED
    BY <1>1, <1>2, AheadIsOrder DEF TotallyOrders
<1>4. PICK t \in V : \A w \in V \ {t} : <<t, w>> \in R
  <2> HIDE DEF R
  <2>1. QED
    BY <1>1, <1>3, FiniteHasFirst
<1>5. QED
  BY <1>2, <1>4

(* The first two in the ranking are the first two.                         *)
LEMMA RankedIsRight ==
  ASSUME NEW votes, SomeVotes(votes)
  PROVE  LET first == Ranked(votes)[1] second == Ranked(votes)[2] IN
         /\ Len(Ranked(votes)) \in Nat \ {0}
         /\ first \in ValuesOf(votes)
         /\ \A w \in ValuesOf(votes) \ {first} : Ahead(votes, first, w)
         /\ Len(Ranked(votes)) > 1 =>
              /\ second \in ValuesOf(votes) \ {first}
              /\ \A w \in ValuesOf(votes) \ {first, second} : Ahead(votes, second, w)
         /\ Len(Ranked(votes)) = 1 => ValuesOf(votes) = {first}
<1> DEFINE values == ValuesOf(votes)
           n == Cardinality(values)
           AheadOf(v) == {w \in values : Ahead(votes, w, v)}
<1>1. IsFiniteSet(values) /\ values # {} /\ values \subseteq Values
  BY VotesAreCounted
<1>2. n \in Nat \ {0}
  BY <1>1, FS_CardinalityType, FS_EmptySet
<1>3. Ranked(votes) = [i \in 1..n |-> CHOOSE v \in values : Cardinality(AheadOf(v)) = i - 1]
  BY DEF Ranked, ValuesOf
<1>4. Len(Ranked(votes)) = n
  BY <1>2, <1>3
<1>5. \A v : IsFiniteSet(AheadOf(v))
  BY <1>1, FS_Subset
<1> HIDE DEF n, AheadOf
<1>6. PICK t \in values : \A w \in values \ {t} : Ahead(votes, t, w)
  BY <1>1, SomethingIsAhead
<1>7. AheadOf(t) = {}
  BY <1>1, <1>6, AheadIsOrder DEF AheadOf
<1>8. \A v \in values \ {t} : t \in AheadOf(v)
  BY <1>6 DEF AheadOf
<1>9. \A v \in values : Cardinality(AheadOf(v)) = 0 <=> v = t
  <2>1. \A v \in values : Cardinality(AheadOf(v)) = 0 <=> AheadOf(v) = {}
    BY <1>5, FS_EmptySet
  <2>2. QED
    BY <2>1, <1>7, <1>8
<1>10. Ranked(votes)[1] = t
  <2>1. Ranked(votes)[1] = CHOOSE v \in values : Cardinality(AheadOf(v)) = 0
    BY <1>2, <1>3
  <2>2. QED
    BY <2>1, <1>9
<1>11. ASSUME n > 1
       PROVE  /\ Ranked(votes)[2] \in values \ {t}
              /\ \A w \in values \ {t, Ranked(votes)[2]} : Ahead(votes, Ranked(votes)[2], w)
  <2>1. values \ {t} # {}
    <3> SUFFICES ASSUME values = {t} PROVE FALSE
      BY <1>6
    <3>1. n = 1
      BY FS_Singleton DEF n
    <3>2. QED
      BY <3>1, <1>11
  <2>2. PICK u \in values \ {t} : \A w \in (values \ {t}) \ {u} : Ahead(votes, u, w)
    BY <2>1, SomethingIsAhead
  <2>3. AheadOf(u) = {t}
    BY <1>1, <1>6, <2>2, AheadIsOrder DEF AheadOf
  <2>4. \A v \in values \ {t, u} : {t, u} \subseteq AheadOf(v)
    BY <1>6, <2>2 DEF AheadOf
  <2>5. \A v \in values : Cardinality(AheadOf(v)) = 1 <=> v = u
    <3>1. Cardinality(AheadOf(u)) = 1
      BY <2>3, FS_Singleton
    <3>2. ASSUME NEW v \in values, Cardinality(AheadOf(v)) = 1 PROVE v = u
      <4>1. PICK x : AheadOf(v) = {x}
        BY <3>2, <1>5, FS_Singleton
      <4>2. v # t
        BY <4>1, <1>7
      <4>3. QED
        BY <4>1, <4>2, <2>2, <2>4
    <3>3. QED
      BY <3>1, <3>2
  <2>6. Ranked(votes)[2] = CHOOSE v \in values : Cardinality(AheadOf(v)) = 1
    BY <1>2, <1>3, <1>11
  <2>7. Ranked(votes)[2] = u
    BY <2>5, <2>6, <2>2
  <2>8. QED
    BY <2>2, <2>7
<1>12. n = 1 => values = {t}
  BY <1>1, <1>6, FS_Singleton DEF n
<1>13. QED
  BY <1>2, <1>4, <1>6, <1>10, <1>11, <1>12

(* Who is not tied has more votes than any other.                          *)
LEMMA WinnerHasMost ==
  ASSUME NEW votes, SomeVotes(votes), ~Tied(votes)
  PROVE  \A w \in Values \ {Ranked(votes)[1]} : Size(votes, w) < Size(votes, Ranked(votes)[1])
<1> DEFINE first == Ranked(votes)[1]
           second == Ranked(votes)[2]
           n == Len(Ranked(votes))
<1>1. /\ n \in Nat \ {0}
      /\ first \in ValuesOf(votes)
      /\ \A w \in ValuesOf(votes) \ {first} : Ahead(votes, first, w)
      /\ n > 1 =>
           /\ second \in ValuesOf(votes) \ {first}
           /\ \A w \in ValuesOf(votes) \ {first, second} : Ahead(votes, second, w)
      /\ n = 1 => ValuesOf(votes) = {first}
  BY RankedIsRight
<1>2. /\ \A v : Size(votes, v) \in Nat
      /\ \A v : Size(votes, v) = 0 <=> v \notin ValuesOf(votes)
  BY VotesAreCounted
<1>3. n > 1 => Size(votes, second) # Size(votes, first)
  BY DEF Tied, Size
<1>4. \A a, b : Ahead(votes, a, b) => Size(votes, a) >= Size(votes, b)
  BY <1>2, AheadIsOrder
<1> HIDE DEF first, second, n
<1> SUFFICES ASSUME NEW w \in Values \ {first} PROVE Size(votes, w) < Size(votes, first)
  BY DEF first
<1>5. CASE w \notin ValuesOf(votes)
  <2>1. Size(votes, w) = 0 /\ Size(votes, first) # 0
    BY <1>1, <1>2, <1>5
  <2>2. QED
    BY <2>1, <1>2
<1>6. CASE w \in ValuesOf(votes)
  <2>1. n > 1
    <3>1. n # 1
      BY <1>1, <1>6
    <3>2. QED
      BY <1>1, <3>1
  <2>2. Size(votes, first) >= Size(votes, second) /\ Size(votes, second) # Size(votes, first)
    BY <1>1, <1>3, <1>4, <2>1
  <2>3. w = second \/ Size(votes, second) >= Size(votes, w)
    BY <1>1, <1>4, <1>6, <2>1
  <2>4. QED
    BY <2>2, <2>3, <1>2
<1>7. QED
  BY <1>5, <1>6

(* The votes that observations add up to.                                  *)
LEMMA ThereAreVotes ==
  ASSUME NEW obs \in Seq(Observation), obs # <<>>
  PROVE  SomeVotes(BySource(obs))
<1> DEFINE f == [i \in DOMAIN obs |-> obs[i].source]
<1>1. f \in Surjection(DOMAIN obs, Spoken(obs))
  BY DEF Surjection, Spoken
<1>2. IsFiniteSet(DOMAIN obs) /\ DOMAIN obs # {}
  <2>1. DOMAIN obs = 1..Len(obs) /\ Len(obs) \in Nat /\ Len(obs) # 0
    OBVIOUS
  <2>2. 1 \in 1..Len(obs) /\ IsFiniteSet(1..Len(obs))
    BY <2>1, FS_Interval
  <2>3. QED
    BY <2>1, <2>2
<1>3. IsFiniteSet(Spoken(obs))
  BY <1>1, <1>2, FS_Surjection
<1>4. Spoken(obs) # {}
  BY <1>2 DEF Spoken
<1>5. BySource(obs) \in [Spoken(obs) -> Observation]
  BY BySourceIsFunction
<1>6. DOMAIN BySource(obs) = Spoken(obs)
  BY <1>5
<1>7. QED
  BY <1>3, <1>4, <1>5, <1>6 DEF SomeVotes

(* Who says a value now is who is counted for it.                          *)
LEMMA SaysIsVote ==
  ASSUME observations \in Seq(Observation), NEW v
  PROVE  {s \in Sources : Says(s, v)} = Group(BySource(observations), v)
<1> DEFINE obs == observations
<1>1. \A i \in DOMAIN obs : i \in 1..Len(obs) /\ obs[i] \in Observation
  OBVIOUS
<1>2. ASSUME NEW i \in DOMAIN obs
      PROVE  (\A j \in i + 1..Len(obs) : obs[j].source # obs[i].source) <=> IsLastWord(obs, i)
  BY <1>1 DEF IsLastWord
<1>3. ASSUME NEW s \in Sources, Says(s, v)
      PROVE  s \in Group(BySource(obs), v)
  <2>1. PICK i \in DOMAIN obs :
          /\ obs[i].source = s /\ obs[i].value = v
          /\ \A j \in i + 1..Len(obs) : obs[j].source # s
    BY <1>3 DEF Says
  <2>2. BySource(obs)[s] = obs[i] /\ s \in Spoken(obs)
    BY <2>1, <1>2, LastWordIsKept DEF Spoken
  <2>3. QED
    BY <2>1, <2>2, BySourceIsFunction DEF Group
<1>4. ASSUME NEW s \in Group(BySource(obs), v)
      PROVE  s \in Sources /\ Says(s, v)
  <2>1. s \in Spoken(obs) /\ BySource(obs)[s].value = v /\ s \in Sources
    BY BySourceIsFunction DEF Group
  <2>2. PICK i \in DOMAIN obs : obs[i].source = s /\ IsLastWord(obs, i)
    BY <2>1, LastWordExists
  <2>3. obs[i].value = v
    BY <2>1, <2>2, LastWordIsKept
  <2>4. QED
    BY <2>1, <2>2, <2>3, <1>2 DEF Says
<1>5. QED
  BY <1>3, <1>4

LEMMA PromotionIsSupported ==
  ASSUME observations \in Seq(Observation)
  PROVE  PromotedValueIsSupported
<1> SUFFICES ASSUME observations # <<>>, Result.status \in Promoted
             PROVE  LET say(v) == {s \in Sources : Says(s, v)} IN
                    /\ \A v \in Values \ {Result.selected} :
                         Cardinality(say(v)) < Cardinality(say(Result.selected))
                    /\ IF Result.status = "verified"
                       THEN Cardinality(say(Result.selected)) >= Threshold
                       ELSE say(Result.selected) \cap Manufacturers # {}
  BY DEF PromotedValueIsSupported
<1> DEFINE votes == BySource(observations)
           first == Ranked(votes)[1]
<1>1. SomeVotes(votes)
  BY ThereAreVotes
<1>2. Result.status = Decision(votes) /\ Result.selected = first
  BY DEF Result, Reconcile, Entry
<1>3. ~Tied(votes)
  BY <1>2 DEF Decision, Promoted
<1>4. /\ Decision(votes) = "verified" => Cardinality(Group(votes, first)) >= Threshold
      /\ Decision(votes) # "verified" =>
           \E x \in Group(votes, first) : votes[x].source \in Manufacturers
  BY <1>2 DEF Decision, Promoted
<1>5. \A x \in DOMAIN votes : votes[x].source = x
  BY BySourceIsFunction
<1>6. \A v : {s \in Sources : Says(s, v)} = Group(votes, v)
  BY SaysIsVote
<1>7. \A v \in Values \ {first} : Cardinality(Group(votes, v)) < Cardinality(Group(votes, first))
  BY <1>1, <1>3, WinnerHasMost DEF Size
<1>8. Decision(votes) # "verified" => Group(votes, first) \cap Manufacturers # {}
  BY <1>4, <1>5 DEF Group
<1>9. QED
  BY <1>2, <1>4, <1>6, <1>7, <1>8

(* What a source says later takes the place of what it said.               *)
LEMMA FormerWordsAreGone ==
  ASSUME NEW obs \in Seq(Observation), NEW i \in 1..Len(obs) - 1,
         \E j \in i + 1..Len(obs) : obs[j].source = obs[i].source
  PROVE  BySource(RemoveAt(obs, i)) = BySource(obs)
<1> DEFINE q == RemoveAt(obs, i)
           n == Len(obs)
           From(k) == IF k < i THEN k ELSE k + 1
           To(k) == IF k < i THEN k ELSE k - 1
<1>1. n \in Nat /\ i \in 1..n /\ DOMAIN obs = 1..n /\ \A k \in 1..n : obs[k] \in Observation
  OBVIOUS
<1>2. /\ q \in Seq(Observation) /\ DOMAIN q = 1..(n - 1)
      /\ \A k \in 1..(n - 1) : q[k] = obs[From(k)]
  BY <1>1 DEF RemoveAt
<1> HIDE DEF q, n
<1>3. ~IsLastWord(obs, i)
  BY <1>1 DEF IsLastWord, n
<1>4. ASSUME NEW k \in DOMAIN obs, IsLastWord(obs, k)
      PROVE  \E m \in DOMAIN q : IsLastWord(q, m) /\ q[m] = obs[k]
  <2>1. k # i /\ k \in 1..n
    BY <1>1, <1>3, <1>4
  <2>2. To(k) \in 1..(n - 1) /\ From(To(k)) = k
    BY <1>1, <2>1
  <2>3. \A m \in 1..(n - 1) : To(k) < m => k < From(m) /\ From(m) \in 1..n
    BY <1>1, <2>1
  <2> HIDE DEF From, To
  <2>4. IsLastWord(q, To(k))
    BY <1>1, <1>2, <1>4, <2>2, <2>3 DEF IsLastWord
  <2>5. QED
    BY <1>2, <2>2, <2>4
<1>5. Spoken(q) \subseteq Spoken(obs)
  <2>1. \A k \in 1..(n - 1) : From(k) \in 1..n
    BY <1>1
  <2> HIDE DEF From
  <2>2. QED
    BY <1>1, <1>2, <2>1 DEF Spoken
<1>6. BySource(q) = BySource(obs)
  BY <1>2, <1>4, <1>5, SameLastWords
<1>7. QED
  BY <1>6 DEF q

(* Neighbours of different sources may change places.                      *)
LEMMA NeighboursMaySwap ==
  ASSUME NEW obs \in Seq(Observation), NEW i \in 1..Len(obs) - 1,
         obs[i].source # obs[i + 1].source
  PROVE  BySource([obs EXCEPT ![i] = obs[i + 1], ![i + 1] = obs[i]]) = BySource(obs)
<1> DEFINE q == [obs EXCEPT ![i] = obs[i + 1], ![i + 1] = obs[i]]
           n == Len(obs)
           To(k) == IF k = i THEN i + 1 ELSE IF k = i + 1 THEN i ELSE k
<1>1. /\ n \in Nat /\ i \in 1..n /\ i + 1 \in 1..n
      /\ DOMAIN obs = 1..n /\ \A k \in 1..n : obs[k] \in Observation
  OBVIOUS
<1>2. \A k \in 1..n : To(k) \in 1..n /\ To(To(k)) = k
  BY <1>1
<1>3. /\ q \in Seq(Observation) /\ DOMAIN q = 1..n
      /\ \A k \in 1..n : q[k] = obs[To(k)]
  <2>1. DOMAIN q = 1..n
    BY <1>1
  <2>2. \A k \in 1..n : q[k] = obs[To(k)]
    BY <1>1
  <2>3. \A k \in 1..n : q[k] \in Observation
    BY <1>1, <1>2, <2>2
  <2>4. q \in [1..n -> Observation]
    BY <2>1, <2>3
  <2>5. QED
    BY <1>1, <2>1, <2>2, <2>4
<1> HIDE DEF q, n
<1>4. \A k, m \in 1..n : k < m /\ ~(k = i /\ m = i + 1) => To(k) < To(m)
  BY <1>1
<1>5. ASSUME NEW k \in DOMAIN obs, IsLastWord(obs, k)
      PROVE  \E m \in DOMAIN q : IsLastWord(q, m) /\ q[m] = obs[k]
  <2>1. k \in 1..n /\ To(k) \in 1..n /\ To(To(k)) = k
    BY <1>1, <1>2
  <2>2. ASSUME NEW m \in 1..n, To(k) < m PROVE obs[To(m)].source # obs[k].source
    <3>1. CASE To(k) = i /\ m = i + 1
      <4>1. k = i + 1 /\ To(m) = i
        BY <1>1, <2>1, <3>1
      <4>2. QED
        BY <4>1
    <3>2. CASE ~(To(k) = i /\ m = i + 1)
      <4>1. k < To(m) /\ To(m) \in 1..n
        BY <1>2, <1>4, <2>1, <2>2, <3>2
      <4>2. QED
        BY <4>1, <1>1, <1>5 DEF IsLastWord
    <3>3. QED
      BY <3>1, <3>2
  <2> HIDE DEF To
  <2>3. IsLastWord(q, To(k))
    BY <1>3, <2>1, <2>2 DEF IsLastWord
  <2>4. QED
    BY <1>3, <2>1, <2>3
<1>6. Spoken(q) \subseteq Spoken(obs)
  <2> HIDE DEF To
  <2>1. QED
    BY <1>1, <1>2, <1>3 DEF Spoken
<1>7. BySource(q) = BySource(obs)
  BY <1>3, <1>5, <1>6, SameLastWords
<1>8. QED
  BY <1>7 DEF q

LEMMA LastWordsDecide ==
  ASSUME observations \in Seq(Observation)
  PROVE  OnlyLastWordsCount
<1> SUFFICES ASSUME NEW i \in 1..Len(observations) - 1
             PROVE
               IF \E j \in i + 1..Len(observations) : observations[j].source = observations[i].source
               THEN Reconcile(RemoveAt(observations, i)) = Result
               ELSE observations[i].source # observations[i + 1].source =>
                      Reconcile([observations EXCEPT ![i] = observations[i + 1],
                                                     ![i + 1] = observations[i]]) = Result
  BY DEF OnlyLastWordsCount
<1>1. CASE \E j \in i + 1..Len(observations) : observations[j].source = observations[i].source
  BY <1>1, FormerWordsAreGone DEF Reconcile, Result
<1>2. ASSUME observations[i].source # observations[i + 1].source
      PROVE  Reconcile([observations EXCEPT ![i] = observations[i + 1],
                                            ![i + 1] = observations[i]]) = Result
  BY <1>2, NeighboursMaySwap DEF Reconcile, Result
<1>3. QED
  BY <1>1, <1>2

(* A field is promoted by what more sources say now than say anything      *)
(* else, three of them or a manufacturer, whatever they said before and in *)
(* whatever order, for any sources, values and number of observations.     *)
THEOREM PromotionsAreByVotes == ReconciliationSpec => []PromotionIsByVotes
<1> DEFINE Inv == observations \in Seq(Observation)
<1>1. ReconciliationInit => Inv
  BY DEF ReconciliationInit
<1>2. Inv /\ [ReconciliationNext]_observations => Inv'
  BY DEF ReconciliationNext, Observe
<1>3. Inv => PromotionIsByVotes
  BY PromotionIsSupported, LastWordsDecide DEF PromotionIsByVotes
<1>4. QED
  BY <1>1, <1>2, <1>3, PTL DEF ReconciliationSpec

-----------------------------------------------------------------------------
(* The requirement manifest.  Its sum is a recursive function; what it is  *)
(* follows from any function that adds the terms up, as there is one       *)
(* (SumExists) and no other (SumIsUnique).                                 *)

AddsUp(g, q, n) ==
  /\ g \in [0..n -> Nat] /\ g[0] = 0
  /\ \A k \in 1..n : g[k] = g[k - 1] + q[k]

LEMMA LeastOf ==
  ASSUME NEW n \in Nat, NEW V, V \subseteq 0..n, V # {}
  PROVE  \E t \in V : \A w \in V : t <= w
<1> DEFINE R == {p \in V \X V : p[1] < p[2]}
<1>1. IsFiniteSet(V)
  <2>1. IsFiniteSet(0..n)
    BY FS_Interval
  <2>2. QED
    BY <2>1, FS_Subset
<1>2. \A v \in V : v \in Int
  OBVIOUS
<1>3. TotallyOrders(R, V)
  BY <1>2 DEF TotallyOrders
<1>4. PICK t \in V : \A w \in V \ {t} : <<t, w>> \in R
  <2> HIDE DEF R
  <2>1. QED
    BY ONLY V # {}, <1>1, <1>3, FiniteHasFirst
<1>5. ASSUME NEW w \in V PROVE t <= w
  <2>1. t \in Int /\ w \in Int
    BY <1>2
  <2>2. CASE w = t
    BY <2>1, <2>2
  <2>3. CASE w # t
    <3>1. t < w
      BY <1>4, <2>3
    <3>2. QED
      BY <2>1, <3>1
  <2>4. QED
    BY <2>2, <2>3
<1>6. QED
  BY <1>5

LEMMA SumExists ==
  ASSUME NEW n \in Nat, NEW q \in [1..n -> Nat]
  PROVE  \E g : AddsUp(g, q, n)
<1> DEFINE B == {m \in 0..n : ~\E g : AddsUp(g, q, m)}
<1> SUFFICES ASSUME B # {} PROVE FALSE
  <2>1. n \in 0..n /\ n \notin B => \E g : AddsUp(g, q, n)
    OBVIOUS
  <2>2. n \in 0..n
    OBVIOUS
  <2> HIDE DEF B
  <2>3. QED
    BY <2>1, <2>2
<1>1. PICK m \in B : \A w \in B : m <= w
  <2>1. B \subseteq 0..n
    OBVIOUS
  <2> HIDE DEF B
  <2>2. QED
    BY <2>1, LeastOf
<1>2. m # 0
  <2>1. AddsUp([k \in 0..0 |-> 0], q, 0)
    BY DEF AddsUp
  <2>2. QED
    BY <2>1
<1>3. m - 1 \in 0..n /\ m \in 1..n /\ m - 1 \in Nat /\ m \in Nat
  BY <1>2
<1>4. m - 1 \notin B
  BY <1>1, <1>3
<1>5. PICK g : AddsUp(g, q, m - 1)
  BY <1>3, <1>4
<1> DEFINE h == [k \in 0..m |-> IF k = m THEN g[m - 1] + q[m] ELSE g[k]]
<1>6. g[m - 1] \in Nat /\ q[m] \in Nat
  BY <1>3, <1>5 DEF AddsUp
<1>7. \A k \in 0..m : k # m => k \in 0..(m - 1) /\ h[k] = g[k] /\ g[k] \in Nat
  BY <1>3, <1>5 DEF AddsUp
<1>8. h[m] = g[m - 1] + q[m] /\ h[m] \in Nat
  BY <1>3, <1>6
<1>9. h \in [0..m -> Nat]
  BY <1>7, <1>8
<1>10. h[0] = 0
  BY <1>2, <1>3, <1>5, <1>7 DEF AddsUp
<1>11. ASSUME NEW k \in 1..m PROVE h[k] = h[k - 1] + q[k]
  <2>1. k - 1 \in 0..m /\ k - 1 # m /\ k \in 0..m /\ (k # m => k \in 1..(m - 1))
    BY <1>3
  <2>2. h[k - 1] = g[k - 1]
    BY <1>7, <2>1
  <2>3. CASE k = m
    BY <1>8, <2>2, <2>3
  <2>4. CASE k # m
    <3>1. g[k] = g[k - 1] + q[k]
      BY <1>5, <2>1, <2>4 DEF AddsUp
    <3>2. QED
      BY <1>7, <2>1, <2>2, <2>4, <3>1
  <2>5. QED
    BY <2>3, <2>4
<1> HIDE DEF h
<1>12. AddsUp(h, q, m)
  BY <1>9, <1>10, <1>11 DEF AddsUp
<1>13. QED
  BY <1>12

LEMMA SumIsUnique ==
  ASSUME NEW n \in Nat, NEW q, NEW g, NEW h, AddsUp(g, q, n), AddsUp(h, q, n)
  PROVE  g = h
<1> DEFINE B == {m \in 0..n : g[m] # h[m]}
<1> SUFFICES ASSUME B # {} PROVE FALSE
  <2>1. g \in [0..n -> Nat] /\ h \in [0..n -> Nat]
    BY DEF AddsUp
  <2>2. B = {} => \A m \in 0..n : g[m] = h[m]
    OBVIOUS
  <2> HIDE DEF B
  <2>3. QED
    BY <2>1, <2>2
<1>1. PICK m \in B : \A w \in B : m <= w
  <2>1. B \subseteq 0..n
    OBVIOUS
  <2> HIDE DEF B
  <2>2. QED
    BY <2>1, LeastOf
<1>2. m # 0
  BY DEF AddsUp
<1>3. m - 1 \in 0..n /\ m \in 1..n /\ ~(m <= m - 1)
  BY <1>2
<1>4. g[m - 1] = h[m - 1]
  BY <1>1, <1>3
<1>5. g[m] = h[m]
  BY <1>3, <1>4 DEF AddsUp
<1>6. QED
  BY <1>5

(* What a use adds to the sum. *)
Terms(fs, uses) ==
  [n \in 1..Len(fs) |-> IF n \in uses THEN fs[n].quantity ELSE 0]

Known(fs, uses) == \A i \in uses : i \in DOMAIN fs /\ fs[i].quantity \in Nat

LEMMA TermsAreNumbers ==
  ASSUME NEW fs \in Seq(Fact), NEW uses, Known(fs, uses)
  PROVE  Terms(fs, uses) \in [1..Len(fs) -> Nat] /\ Len(fs) \in Nat
BY DEF Terms, Known

LEMMA SumOfIs ==
  ASSUME NEW fs \in Seq(Fact), NEW uses, Known(fs, uses),
         NEW g, AddsUp(g, Terms(fs, uses), Len(fs))
  PROVE  SumOf(fs, uses) = g[Len(fs)] /\ SumOf(fs, uses) \in Nat
<1> DEFINE q == Terms(fs, uses)
           n == Len(fs)
           Equation(f) ==
             f = [k \in 0..n |-> IF k = 0 THEN 0
                                 ELSE f[k - 1] + (IF k \in uses THEN fs[k].quantity ELSE 0)]
<1>1. n \in Nat /\ q \in [1..n -> Nat]
  BY TermsAreNumbers
<1>2. \A k \in 1..n : q[k] = IF k \in uses THEN fs[k].quantity ELSE 0
  BY DEF Terms
<1>3. SumOf(fs, uses) = (CHOOSE f : Equation(f))[n]
  BY DEF SumOf
<1>4. ASSUME NEW f, AddsUp(f, q, n) PROVE Equation(f)
  <2>1. f = [k \in 0..n |-> f[k]]
    BY <1>4 DEF AddsUp
  <2>2. ASSUME NEW k \in 0..n
        PROVE  f[k] = IF k = 0 THEN 0
                      ELSE f[k - 1] + (IF k \in uses THEN fs[k].quantity ELSE 0)
    <3>1. k # 0 => k \in 1..n
      BY <1>1
    <3>2. QED
      BY <1>2, <1>4, <3>1 DEF AddsUp
  <2>3. QED
    BY <2>1, <2>2
<1>5. ASSUME NEW f, Equation(f) PROVE AddsUp(f, q, n)
  <2>1. DOMAIN f = 0..n /\ f[0] = 0
    BY <1>1, <1>5
  <2>2. ASSUME NEW k \in 1..n PROVE f[k] = f[k - 1] + q[k]
    <3>1. k \in 0..n /\ k # 0
      BY <1>1
    <3>2. QED
      BY <1>2, <1>5, <3>1
  <2>3. f \in [0..n -> Nat]
    <3> DEFINE B == {m \in 0..n : f[m] \notin Nat}
    <3> SUFFICES ASSUME B # {} PROVE FALSE
      BY <1>5, <2>1
    <3>1. PICK m \in B : \A w \in B : m <= w
      <4>1. B \subseteq 0..n
        OBVIOUS
      <4> HIDE DEF B
      <4>2. QED
        BY <1>1, <4>1, LeastOf
    <3>2. m # 0
      BY <2>1
    <3>3. m - 1 \in 0..n /\ m \in 1..n /\ ~(m <= m - 1)
      BY <1>1, <3>2
    <3>4. f[m - 1] \in Nat
      BY <3>1, <3>3
    <3>5. f[m] \in Nat
      BY <1>1, <2>2, <3>3, <3>4
    <3>6. QED
      BY <3>5
  <2>4. QED
    BY <2>1, <2>2, <2>3 DEF AddsUp
<1> HIDE DEF Equation, q, n
<1>6. Equation(CHOOSE f : Equation(f))
  BY <1>4 DEF q, n
<1>7. AddsUp(CHOOSE f : Equation(f), q, n)
  BY <1>5, <1>6
<1>8. (CHOOSE f : Equation(f)) = g
  BY <1>1, <1>7, SumIsUnique DEF q, n
<1>9. g[n] \in Nat
  BY <1>1 DEF AddsUp, q, n
<1>10. QED
  BY <1>3, <1>8, <1>9 DEF n

LEMMA FrontIs ==
  ASSUME NEW fs \in Seq(Fact), fs # <<>>
  PROVE  /\ Len(fs) \in Nat \ {0} /\ DOMAIN fs = 1..Len(fs)
         /\ Front(fs) \in Seq(Fact) /\ Len(Front(fs)) = Len(fs) - 1
         /\ DOMAIN Front(fs) = 1..(Len(fs) - 1)
         /\ \A k \in 1..(Len(fs) - 1) : Front(fs)[k] = fs[k]
<1>1. Len(fs) \in Nat \ {0} /\ DOMAIN fs = 1..Len(fs)
  OBVIOUS
<1>2. \A k \in 1..Len(fs) : fs[k] \in Fact
  OBVIOUS
<1>3. Front(fs) \in Seq(Fact) /\ Len(Front(fs)) = Len(fs) - 1
  BY <1>1, <1>2 DEF Front
<1>4. DOMAIN Front(fs) = 1..(Len(fs) - 1)
  BY <1>3
<1>5. \A k \in 1..(Len(fs) - 1) : Front(fs)[k] = fs[k]
  BY <1>1, <1>2 DEF Front
<1>6. QED
  BY <1>1, <1>3, <1>4, <1>5

(* One more use adds its quantity.                                         *)
LEMMA SumOfFront ==
  ASSUME NEW fs \in Seq(Fact), fs # <<>>, NEW uses, Known(fs, uses)
  PROVE  /\ Known(Front(fs), uses \ {Len(fs)})
         /\ SumOf(fs, uses) = SumOf(Front(fs), uses \ {Len(fs)})
                              + (IF Len(fs) \in uses THEN fs[Len(fs)].quantity ELSE 0)
<1> DEFINE n == Len(fs)
           p == Front(fs)
           rest == uses \ {n}
<1>1. /\ n \in Nat \ {0} /\ DOMAIN fs = 1..n
      /\ p \in Seq(Fact) /\ Len(p) = n - 1 /\ DOMAIN p = 1..(n - 1)
      /\ \A k \in 1..(n - 1) : p[k] = fs[k]
  BY FrontIs
<1>2. Known(p, rest)
  <2>1. \A i \in rest : i \in 1..(n - 1)
    BY <1>1 DEF Known
  <2>2. QED
    BY <1>1, <2>1 DEF Known
<1>3. PICK g : AddsUp(g, Terms(fs, uses), n)
  BY <1>1, TermsAreNumbers, SumExists
<1>4. \A k \in 1..n : Terms(fs, uses)[k] = IF k \in uses THEN fs[k].quantity ELSE 0
  BY DEF Terms
<1>5. \A k \in 1..(n - 1) : Terms(p, rest)[k] = Terms(fs, uses)[k]
  <2> SUFFICES ASSUME NEW k \in 1..(n - 1) PROVE Terms(p, rest)[k] = Terms(fs, uses)[k]
    OBVIOUS
  <2>1. Terms(p, rest)[k] = IF k \in rest THEN p[k].quantity ELSE 0
    BY <1>1 DEF Terms
  <2>2. k \in 1..n /\ k # n
    <3>1. n \in Nat
      BY <1>1
    <3> HIDE DEF n
    <3>2. QED
      BY <3>1
  <2>3. p[k] = fs[k]
    BY <1>1
  <2>4. QED
    BY <1>4, <2>1, <2>2, <2>3
<1> DEFINE h == [k \in 0..(n - 1) |-> g[k]]
<1>6. AddsUp(h, Terms(p, rest), n - 1)
  <2>1. \A k \in 0..(n - 1) : k \in 0..n /\ g[k] \in Nat
    BY <1>1, <1>3 DEF AddsUp
  <2>2. h \in [0..(n - 1) -> Nat] /\ h[0] = 0
    BY <1>1, <1>3, <2>1 DEF AddsUp
  <2>3. ASSUME NEW k \in 1..(n - 1) PROVE h[k] = h[k - 1] + Terms(p, rest)[k]
    <3>1. k \in 1..n /\ k \in 0..(n - 1) /\ k - 1 \in 0..(n - 1)
      BY <1>1
    <3>2. QED
      BY <1>3, <1>5, <3>1 DEF AddsUp
  <2> HIDE DEF h
  <2>4. QED
    BY <2>2, <2>3 DEF AddsUp
<1>7. SumOf(fs, uses) = g[n]
  BY <1>3, SumOfIs
<1>8. SumOf(p, rest) = h[n - 1]
  BY <1>1, <1>2, <1>6, SumOfIs
<1>9. h[n - 1] = g[n - 1]
  BY <1>1
<1>10. g[n] = g[n - 1] + Terms(fs, uses)[n] /\ n \in 1..n
  BY <1>1, <1>3 DEF AddsUp
<1>11. QED
  BY <1>2, <1>4, <1>7, <1>8, <1>9, <1>10

LEMMA NothingAddsUp ==
  ASSUME NEW fs \in Seq(Fact)
  PROVE  Known(fs, {}) /\ SumOf(fs, {}) = 0
<1>1. Known(fs, {}) /\ Len(fs) \in Nat
  BY DEF Known
<1>2. \A k \in 1..Len(fs) : Terms(fs, {})[k] = 0
  BY DEF Terms
<1> DEFINE g == [k \in 0..Len(fs) |-> 0]
<1>3. AddsUp(g, Terms(fs, {}), Len(fs))
  <2>1. \A k \in 1..Len(fs) : k \in 0..Len(fs) /\ k - 1 \in 0..Len(fs)
    BY <1>1
  <2>2. QED
    BY <1>1, <1>2, <2>1 DEF AddsUp
<1>4. g[Len(fs)] = 0
  BY <1>1
<1>5. QED
  BY <1>1, <1>3, <1>4, SumOfIs

(* Neighbours may change places: the sum differs only between them.        *)
Neighbours(r, q, i, n) ==
  /\ r[i] = q[i + 1] /\ r[i + 1] = q[i]
  /\ \A k \in 1..n : k \notin {i, i + 1} => r[k] = q[k]

LEMMA SumOfSwapped ==
  ASSUME NEW fs \in Seq(Fact), NEW gs \in Seq(Fact), NEW i \in 1..Len(fs) - 1,
         Len(gs) = Len(fs), NEW uses, NEW moved, Known(fs, uses), Known(gs, moved),
         Neighbours(Terms(gs, moved), Terms(fs, uses), i, Len(fs))
  PROVE  SumOf(gs, moved) = SumOf(fs, uses)
<1> DEFINE n == Len(fs)
           q == Terms(fs, uses)
           r == Terms(gs, moved)
<1>1. /\ n \in Nat /\ i \in 1..n /\ i + 1 \in 1..n
      /\ q \in [1..n -> Nat] /\ r \in [1..n -> Nat]
  BY TermsAreNumbers
<1>2. PICK g : AddsUp(g, q, n)
  BY <1>1, SumExists
<1> DEFINE h == [k \in 0..n |-> IF k = i THEN g[i - 1] + r[i] ELSE g[k]]
<1>3. /\ r[i] = q[i + 1] /\ r[i + 1] = q[i]
      /\ \A k \in 1..n : k \notin {i, i + 1} => r[k] = q[k]
  BY DEF Neighbours
<1> HIDE DEF q, r, n
<1>4. \A k \in 0..n : g[k] \in Nat
  BY <1>2 DEF AddsUp
<1>5. i - 1 \in 0..n /\ i - 1 # i /\ i \in 0..n /\ 0 \in 0..n /\ i # 0 /\ n # i
  BY <1>1 DEF n
<1>6. h \in [0..n -> Nat]
  <2>1. g[i - 1] + r[i] \in Nat
    BY <1>1, <1>4, <1>5
  <2>2. QED
    BY <1>4, <2>1
<1>7. /\ h[i] = g[i - 1] + r[i]
      /\ \A k \in 0..n : k # i => h[k] = g[k]
  BY <1>5
<1>8. \A k \in 1..n : g[k] = g[k - 1] + q[k]
  BY <1>2 DEF AddsUp
<1> HIDE DEF h
<1>9. ASSUME NEW k \in 1..n PROVE h[k] = h[k - 1] + r[k]
  <2>1. k \in 0..n /\ k - 1 \in 0..n
    BY <1>1
  <2>2. CASE k = i
    BY <1>5, <1>7, <2>2
  <2>3. CASE k = i + 1
    <3>1. h[k] = g[i + 1] /\ h[k - 1] = g[i - 1] + r[i]
      BY <1>1, <1>7, <2>1, <2>3
    <3>2. g[i + 1] = g[i] + q[i + 1] /\ g[i] = g[i - 1] + q[i]
      <4>1. g[i + 1] = g[(i + 1) - 1] + q[i + 1] /\ (i + 1) - 1 = i
        BY <1>1, <1>8
      <4>2. QED
        BY <4>1, <1>1, <1>8
    <3>3. g[i - 1] \in Nat /\ q[i] \in Nat /\ q[i + 1] \in Nat
      BY <1>1, <1>4, <1>5
    <3>4. QED
      BY <1>3, <2>3, <3>1, <3>2, <3>3
  <2>4. CASE k \notin {i, i + 1}
    <3>1. k # i /\ k - 1 # i
      BY <1>1, <2>4
    <3>2. QED
      BY <1>3, <1>7, <1>8, <2>1, <2>4, <3>1
  <2>5. QED
    BY <2>2, <2>3, <2>4
<1>10. AddsUp(h, r, n)
  <2>1. h[0] = 0
    BY <1>2, <1>5, <1>7 DEF AddsUp
  <2>2. QED
    BY <1>6, <1>9, <2>1 DEF AddsUp
<1>11. SumOf(gs, moved) = h[n] /\ SumOf(fs, uses) = g[n]
  BY <1>2, <1>10, SumOfIs DEF n, q, r
<1>12. h[n] = g[n]
  <2>1. n \in 0..n
    BY <1>1
  <2>2. QED
    BY <2>1, <1>5, <1>7
<1>13. QED
  BY <1>11, <1>12

-----------------------------------------------------------------------------
LEMMA MaxIsGreatest ==
  ASSUME NEW Q, IsFiniteSet(Q), Q # {}, \A x \in Q : x \in Nat
  PROVE  Max(Q) \in Q /\ \A y \in Q : Max(Q) >= y
<1> DEFINE R == {p \in Q \X Q : p[1] > p[2]}
<1>1. TotallyOrders(R, Q)
  BY DEF TotallyOrders
<1>2. PICK t \in Q : \A w \in Q \ {t} : <<t, w>> \in R
  <2> HIDE DEF R
  <2>1. QED
    BY ONLY IsFiniteSet(Q), Q # {}, <1>1, FiniteHasFirst
<1>3. \A y \in Q : t >= y
  <2> SUFFICES ASSUME NEW y \in Q PROVE t >= y
    OBVIOUS
  <2>1. y # t => t > y
    BY <1>2
  <2>2. QED
    BY <2>1
<1>4. QED
  BY <1>3 DEF Max

LEMMA MaxIsUnique ==
  ASSUME NEW Q, \A x \in Q : x \in Nat, NEW m \in Q, \A y \in Q : m >= y
  PROVE  Max(Q) = m
<1>1. Max(Q) \in Q /\ \A y \in Q : Max(Q) >= y
  BY DEF Max
<1>2. m >= Max(Q) /\ Max(Q) >= m
  BY <1>1
<1>3. QED
  BY <1>1, <1>2

(* The quantities of some uses.                                            *)
LEMMA QuantitiesAreFinite ==
  ASSUME NEW fs \in Seq(Fact), NEW uses \in SUBSET (DOMAIN fs)
  PROVE  IsFiniteSet({fs[i].quantity : i \in uses})
<1> DEFINE f == [i \in uses |-> fs[i].quantity]
<1>1. IsFiniteSet(uses)
  <2>1. DOMAIN fs = 1..Len(fs) /\ Len(fs) \in Nat
    OBVIOUS
  <2>2. IsFiniteSet(DOMAIN fs)
    BY <2>1, FS_Interval
  <2>3. QED
    BY <2>2, FS_Subset
<1>2. f \in Surjection(uses, {fs[i].quantity : i \in uses})
  BY DEF Surjection
<1>3. QED
  BY <1>1, <1>2, FS_Surjection

-----------------------------------------------------------------------------
(* Two uses of one key disagree on the unit or the mode.                   *)
Disagree(fs) ==
  \E i, j \in DOMAIN fs : fs[i].key = fs[j].key
                          /\ (fs[i].unit # fs[j].unit \/ fs[i].mode # fs[j].mode)

KeysOf(fs) == {fs[i].key : i \in DOMAIN fs}

Item(fs, k) == ManifestItem(fs, UsesOf(fs, k))

LEMMA FactsAreTyped ==
  ASSUME NEW fs \in Seq(Fact), NEW i \in DOMAIN fs
  PROVE  /\ i \in Nat /\ fs[i] \in Fact
         /\ fs[i].key \in RequirementKeys /\ fs[i].unit \in Units
         /\ fs[i].mode \in FulfillmentModes /\ fs[i].necessity \in Necessities
         /\ fs[i].quantity # Unknown => fs[i].quantity \in Nat
<1>1. i \in Nat /\ fs[i] \in Fact
  OBVIOUS
<1>2. QED
  BY <1>1, AmountsAssumption DEF Fact

(* The item of a key, where its uses agree. *)
LEMMA ItemIs ==
  ASSUME NEW fs \in Seq(Fact), ~Disagree(fs), NEW k \in KeysOf(fs)
  PROVE  LET U == UsesOf(fs, k) item == Item(fs, k) IN
         /\ U # {} /\ U \subseteq DOMAIN fs
         /\ \A i \in U : item.unit = fs[i].unit /\ item.mode = fs[i].mode
         /\ item.necessity = IF \E i \in U : fs[i].necessity = "required"
                             THEN "required" ELSE "recommended"
         /\ item.quantity = AggregateQuantity(fs, U, item.mode)
         /\ item.uses = U
         /\ item = [quantity |-> item.quantity, unit |-> item.unit, mode |-> item.mode,
                    necessity |-> item.necessity, uses |-> U]
<1> DEFINE U == UsesOf(fs, k)
           m == Min(U)
<1>1. U # {} /\ U \subseteq DOMAIN fs /\ \A i \in U : fs[i].key = k
  BY DEF UsesOf, KeysOf
<1>2. m \in U
  <2>1. Len(fs) \in Nat /\ U \subseteq 0..Len(fs)
    <3>1. DOMAIN fs = 1..Len(fs) /\ Len(fs) \in Nat
      OBVIOUS
    <3>2. QED
      BY <1>1, <3>1
  <2>2. PICK t \in U : \A w \in U : t <= w
    BY <1>1, <2>1, LeastOf
  <2> HIDE DEF U
  <2>3. QED
    BY <2>2 DEF Min
<1>3. \A i \in U : fs[m].unit = fs[i].unit /\ fs[m].mode = fs[i].mode
  BY <1>1, <1>2 DEF Disagree
<1> HIDE DEF m
<1>4. Item(fs, k) = [quantity |-> AggregateQuantity(fs, U, fs[m].mode),
                     unit |-> fs[m].unit, mode |-> fs[m].mode,
                     necessity |-> IF \E i \in U : fs[i].necessity = "required"
                                   THEN "required" ELSE "recommended",
                     uses |-> U]
  BY DEF Item, ManifestItem, m
<1> HIDE DEF U
<1>5. QED
  BY <1>1, <1>3, <1>4 DEF U

(* The quantity that is needed: unknown if a use does not say, the         *)
(* greatest of what is reused, the sum of what is consumed.                *)
LEMMA QuantityIs ==
  ASSUME NEW fs \in Seq(Fact), NEW uses \in SUBSET (DOMAIN fs), uses # {},
         NEW mode
  PROVE  LET q == AggregateQuantity(fs, uses, mode) IN
         /\ q \in Nat \cup {Unknown}
         /\ q = Unknown <=> \E i \in uses : fs[i].quantity = Unknown
         /\ q # Unknown =>
              /\ Known(fs, uses)
              /\ mode = "reusable" => /\ q \in {fs[i].quantity : i \in uses}
                                      /\ \A i \in uses : q >= fs[i].quantity
              /\ mode # "reusable" => q = SumOf(fs, uses)
<1> DEFINE Q == {fs[i].quantity : i \in uses}
<1>1. CASE \E i \in uses : fs[i].quantity = Unknown
  BY <1>1 DEF AggregateQuantity
<1>2. CASE ~\E i \in uses : fs[i].quantity = Unknown
  <2>1. Known(fs, uses)
    BY <1>2, FactsAreTyped DEF Known
  <2>2. IsFiniteSet(Q) /\ Q # {} /\ \A x \in Q : x \in Nat
    BY <2>1, QuantitiesAreFinite DEF Known
  <2>3. Max(Q) \in Q /\ \A y \in Q : Max(Q) >= y
    <3> HIDE DEF Q
    <3>1. QED
      BY <2>2, MaxIsGreatest
  <2>4. SumOf(fs, uses) \in Nat
    <3>1. \E g : AddsUp(g, Terms(fs, uses), Len(fs))
      BY <2>1, TermsAreNumbers, SumExists
    <3>2. QED
      BY <2>1, <3>1, SumOfIs
  <2>5. AggregateQuantity(fs, uses, mode) = IF mode = "reusable" THEN Max(Q) ELSE SumOf(fs, uses)
    BY <1>2 DEF AggregateQuantity
  <2>6. Unknown \notin Nat
    BY AmountsAssumption
  <2>7. CASE mode = "reusable"
    <3>1. Max(Q) \in Nat /\ \A i \in uses : fs[i].quantity \in Q
      BY <2>2, <2>3
    <3> HIDE DEF Q
    <3>2. AggregateQuantity(fs, uses, mode) = Max(Q)
      BY <2>5, <2>7
    <3>3. QED
      BY <1>2, <2>1, <2>3, <2>6, <2>7, <3>1, <3>2 DEF Q
  <2>8. CASE mode # "reusable"
    <3>1. AggregateQuantity(fs, uses, mode) = SumOf(fs, uses)
      BY <2>5, <2>8
    <3>2. QED
      BY <1>2, <2>1, <2>4, <2>6, <2>8, <3>1
  <2>9. QED
    BY <2>7, <2>8
<1>3. QED
  BY <1>1, <1>2

(* A manifest is one, or uses disagree.                                    *)
LEMMA ManifestIs ==
  ASSUME NEW fs \in Seq(Fact)
  PROVE  /\ BuildRequirementManifest(fs) = Conflict <=> Disagree(fs)
         /\ ~Disagree(fs) => BuildRequirementManifest(fs) = [k \in KeysOf(fs) |-> Item(fs, k)]
<1>1. Disagree(fs) => BuildRequirementManifest(fs) = Conflict
  BY DEF BuildRequirementManifest, Disagree
<1>2. ASSUME ~Disagree(fs)
      PROVE  BuildRequirementManifest(fs) = [k \in KeysOf(fs) |-> Item(fs, k)]
  BY <1>2 DEF BuildRequirementManifest, Disagree, KeysOf, Item
<1>3. ASSUME ~Disagree(fs) PROVE BuildRequirementManifest(fs) # Conflict
  <2>1. KeysOf(fs) \in SUBSET RequirementKeys
    BY FactsAreTyped DEF KeysOf
  <2>2. ASSUME NEW k \in KeysOf(fs) PROVE Item(fs, k) \in ManifestItems
    <3> DEFINE U == UsesOf(fs, k)
    <3>1. /\ U # {} /\ U \subseteq DOMAIN fs
          /\ \A i \in U : Item(fs, k).unit = fs[i].unit /\ Item(fs, k).mode = fs[i].mode
          /\ Item(fs, k).necessity = IF \E i \in U : fs[i].necessity = "required"
                                     THEN "required" ELSE "recommended"
          /\ Item(fs, k).quantity = AggregateQuantity(fs, U, Item(fs, k).mode)
          /\ Item(fs, k) = [quantity |-> Item(fs, k).quantity, unit |-> Item(fs, k).unit,
                            mode |-> Item(fs, k).mode, necessity |-> Item(fs, k).necessity,
                            uses |-> U]
      BY <1>3, ItemIs
    <3>2. PICK i \in U : TRUE
      BY <3>1
    <3>3. /\ Item(fs, k).unit \in Units /\ Item(fs, k).mode \in FulfillmentModes
          /\ Item(fs, k).necessity \in Necessities
      BY <3>1, <3>2, FactsAreTyped DEF Necessities
    <3>4. Item(fs, k).quantity \in Nat \cup {Unknown}
      <4> DEFINE mode == Item(fs, k).mode
      <4>1. U \in SUBSET (DOMAIN fs) /\ U # {}
        BY <3>1
      <4>2. Item(fs, k).quantity = AggregateQuantity(fs, U, mode)
        BY <3>1
      <4> HIDE DEF U, mode
      <4>3. AggregateQuantity(fs, U, mode) \in Nat \cup {Unknown}
        BY <4>1, QuantityIs
      <4>4. QED
        BY <4>2, <4>3
    <3>5. U \in SUBSET Nat
      BY <3>1, FactsAreTyped
    <3> HIDE DEF U
    <3>6. QED
      BY <3>1, <3>3, <3>4, <3>5 DEF ManifestItems
  <2>3. [k \in KeysOf(fs) |-> Item(fs, k)] \in [KeysOf(fs) -> ManifestItems]
    BY <2>2
  <2>4. QED
    BY <1>2, <1>3, <2>1, <2>3, ConflictAssumption
<1>4. QED
  BY <1>1, <1>2, <1>3

-----------------------------------------------------------------------------
(* What one more use changes.                                              *)
LEMMA FrontUses ==
  ASSUME NEW fs \in Seq(Fact), fs # <<>>
  PROVE  /\ Disagree(Front(fs)) => Disagree(fs)
         /\ \A k : UsesOf(Front(fs), k) = UsesOf(fs, k) \ {Len(fs)}
         /\ \A k : Len(fs) \in UsesOf(fs, k) <=> k = fs[Len(fs)].key
         /\ KeysOf(fs) = KeysOf(Front(fs)) \cup {fs[Len(fs)].key}
<1> DEFINE n == Len(fs)
           p == Front(fs)
<1>1. /\ n \in Nat \ {0} /\ DOMAIN fs = 1..n /\ DOMAIN p = 1..(n - 1)
      /\ \A k \in 1..(n - 1) : p[k] = fs[k]
  BY FrontIs
<1> HIDE DEF n, p
<1>2. n \in DOMAIN fs /\ DOMAIN p = DOMAIN fs \ {n}
  BY <1>1
<1>3. \A i \in DOMAIN p : p[i] = fs[i]
  BY <1>1
<1>4. Disagree(p) => Disagree(fs)
  BY <1>2, <1>3 DEF Disagree
<1>5. \A k : UsesOf(p, k) = UsesOf(fs, k) \ {n}
  BY <1>2, <1>3 DEF UsesOf
<1>6. \A k : n \in UsesOf(fs, k) <=> k = fs[n].key
  BY <1>2 DEF UsesOf
<1>7. KeysOf(fs) = KeysOf(p) \cup {fs[n].key}
  BY <1>2, <1>3 DEF KeysOf
<1>8. QED
  BY <1>4, <1>5, <1>6, <1>7 DEF n, p

LEMMA FrontQuantity ==
  ASSUME NEW fs \in Seq(Fact), fs # <<>>, NEW uses \in SUBSET (DOMAIN Front(fs)), NEW mode
  PROVE  AggregateQuantity(Front(fs), uses, mode) = AggregateQuantity(fs, uses, mode)
<1> DEFINE n == Len(fs)
           p == Front(fs)
<1>1. /\ n \in Nat \ {0} /\ DOMAIN fs = 1..n /\ DOMAIN p = 1..(n - 1)
      /\ \A k \in 1..(n - 1) : p[k] = fs[k]
  BY FrontIs
<1>2. n \notin uses /\ uses \ {n} = uses
  <2>1. n \notin 1..(n - 1)
    <3>1. n \in Nat
      BY <1>1
    <3> HIDE DEF n
    <3>2. QED
      BY <3>1
  <2>2. QED
    BY <1>1, <2>1
<1>3. \A i \in uses : p[i] = fs[i] /\ i \in DOMAIN fs
  <2>1. n \in Nat
    BY <1>1
  <2>2. \A i \in uses : i \in 1..(n - 1)
    BY <1>1
  <2> HIDE DEF n, p
  <2>3. QED
    BY <1>1, <2>1, <2>2
<1>4. CASE \E i \in uses : fs[i].quantity = Unknown
  BY <1>3, <1>4 DEF AggregateQuantity
<1>5. CASE ~\E i \in uses : fs[i].quantity = Unknown
  <2>1. Known(fs, uses)
    BY <1>3, <1>5, FactsAreTyped DEF Known
  <2>2. SumOf(fs, uses) = SumOf(p, uses)
    <3>1. Known(p, uses)
      BY <1>2, <2>1, SumOfFront
    <3>2. SumOf(p, uses) \in Nat
      <4>1. p \in Seq(Fact)
        BY FrontIs
      <4>2. \E g : AddsUp(g, Terms(p, uses), Len(p))
        BY <3>1, <4>1, TermsAreNumbers, SumExists
      <4>3. QED
        BY <3>1, <4>1, <4>2, SumOfIs
    <3>3. SumOf(fs, uses) = SumOf(p, uses) + 0
      BY <1>2, <2>1, SumOfFront
    <3> HIDE DEF p
    <3>4. QED
      BY <3>2, <3>3
  <2>3. {p[i].quantity : i \in uses} = {fs[i].quantity : i \in uses}
    BY <1>3
  <2>4. ~\E i \in uses : p[i].quantity = Unknown
    BY <1>3, <1>5
  <2> DEFINE P == {p[i].quantity : i \in uses}
             Q == {fs[i].quantity : i \in uses}
  <2>5. AggregateQuantity(p, uses, mode) = IF mode = "reusable" THEN Max(P) ELSE SumOf(p, uses)
    BY <2>4, Zenon DEF AggregateQuantity
  <2>6. AggregateQuantity(fs, uses, mode) = IF mode = "reusable" THEN Max(Q) ELSE SumOf(fs, uses)
    BY <1>5, Zenon DEF AggregateQuantity
  <2>7. P = Q
    BY <2>3
  <2> HIDE DEF p, n, P, Q
  <2>8. QED
    BY <2>2, <2>5, <2>6, <2>7 DEF p
<1>6. QED
  BY <1>4, <1>5

(* The item of another key stays.                                          *)
LEMMA OtherItemsStay ==
  ASSUME NEW fs \in Seq(Fact), fs # <<>>, NEW k \in KeysOf(fs), k # fs[Len(fs)].key
  PROVE  k \in KeysOf(Front(fs)) /\ Item(fs, k) = Item(Front(fs), k)
<1> DEFINE p == Front(fs)
           U == UsesOf(fs, k)
           m == Min(U)
<1>1. k \in KeysOf(p)
  BY FrontUses
<1>2. UsesOf(p, k) = U
  BY FrontUses
<1>3. U \in SUBSET (DOMAIN p) /\ U # {} /\ \A i \in U : p[i] = fs[i]
  <2>1. U \in SUBSET (DOMAIN p)
    BY <1>2 DEF UsesOf
  <2>2. U # {}
    BY DEF KeysOf, UsesOf
  <2>3. \A i \in DOMAIN p : p[i] = fs[i]
    BY FrontIs
  <2>4. QED
    BY <2>1, <2>2, <2>3
<1>4. m \in U
  <2>1. Len(fs) \in Nat /\ U \subseteq 0..Len(fs)
    <3>1. DOMAIN fs = 1..Len(fs) /\ Len(fs) \in Nat /\ U \subseteq DOMAIN fs
      BY DEF UsesOf
    <3>2. QED
      BY <3>1
  <2>2. PICK t \in U : \A w \in U : t <= w
    BY <1>3, <2>1, LeastOf
  <2> HIDE DEF U
  <2>3. QED
    BY <2>2 DEF Min
<1>5. p[m] = fs[m]
  BY <1>3, <1>4
<1>6. AggregateQuantity(p, U, fs[m].mode) = AggregateQuantity(fs, U, fs[m].mode)
  BY <1>3, FrontQuantity
<1>7. (\E i \in U : p[i].necessity = "required") <=> (\E i \in U : fs[i].necessity = "required")
  BY <1>3
<1> HIDE DEF p, U
<1>8. QED
  BY <1>1, <1>2, <1>5, <1>6, <1>7 DEF Item, ManifestItem, p, U

LEMMA FirstUse ==
  ASSUME NEW fs \in Seq(Fact), fs # <<>>, ~Disagree(fs),
         fs[Len(fs)].key \notin KeysOf(Front(fs))
  PROVE  Item(fs, fs[Len(fs)].key).quantity = fs[Len(fs)].quantity
<1> DEFINE n == Len(fs)
           k == fs[n].key
           U == UsesOf(fs, k)
           mode == Item(fs, k).mode
<1>1. UsesOf(Front(fs), k) = {}
  BY DEF KeysOf, UsesOf
<1>2. U = {n}
  BY <1>1, FrontUses
<1>3. k \in KeysOf(fs)
  BY FrontUses
<1>4. Item(fs, k).quantity = AggregateQuantity(fs, U, mode)
  BY <1>3, ItemIs
<1>5. U \in SUBSET (DOMAIN fs) /\ U # {}
  BY <1>2 DEF UsesOf
<1> DEFINE q == AggregateQuantity(fs, U, mode)
<1>6. /\ q = Unknown <=> \E i \in U : fs[i].quantity = Unknown
      /\ q # Unknown =>
           /\ Known(fs, U)
           /\ mode = "reusable" => q \in {fs[i].quantity : i \in U}
           /\ mode # "reusable" => q = SumOf(fs, U)
  <2> HIDE DEF U, mode
  <2>1. QED
    BY <1>5, QuantityIs
<1>7. CASE q = Unknown
  BY <1>2, <1>4, <1>6, <1>7
<1>8. CASE q # Unknown /\ mode = "reusable"
  <2>1. q \in {fs[i].quantity : i \in {n}}
    BY <1>2, <1>6, <1>8
  <2> HIDE DEF q
  <2>2. QED
    BY <1>4, <2>1 DEF q
<1>9. CASE q # Unknown /\ mode # "reusable"
  <2>1. Known(fs, {n}) /\ q = SumOf(fs, {n})
    BY <1>2, <1>6, <1>9
  <2>2. {n} \ {n} = {} /\ n \in {n}
    OBVIOUS
  <2>3. SumOf(fs, {n}) = SumOf(Front(fs), {}) + fs[n].quantity
    BY <2>1, <2>2, SumOfFront
  <2>4. SumOf(Front(fs), {}) = 0
    BY FrontIs, NothingAddsUp
  <2>5. fs[n].quantity \in Nat
    BY <2>1 DEF Known
  <2> HIDE DEF q, k, mode, U, n
  <2>6. q = fs[n].quantity
    BY <2>1, <2>3, <2>4, <2>5 DEF n
  <2>7. QED
    BY <1>4, <2>6 DEF q, k, mode, U, n
<1>10. QED
  BY <1>7, <1>8, <1>9

(* One more use of a key: what is consumed grows by its quantity, what is  *)
(* reused becomes the greater of the two, and unknown stays unknown.       *)
LEMMA FurtherUse ==
  ASSUME NEW fs \in Seq(Fact), fs # <<>>, ~Disagree(fs),
         fs[Len(fs)].key \in KeysOf(Front(fs))
  PROVE  LET f == fs[Len(fs)] q == Item(Front(fs), f.key).quantity item == Item(fs, f.key) IN
         /\ Unknown \in {q, f.quantity} <=> item.quantity = Unknown
         /\ item.quantity # Unknown =>
              IF f.mode = "consumed" THEN item.quantity = q + f.quantity
              ELSE item.quantity \in {q, f.quantity} /\ item.quantity >= q
         /\ Item(Front(fs), f.key).necessity = "required" => item.necessity = "required"
<1> DEFINE n == Len(fs)
           p == Front(fs)
           k == fs[n].key
           U == UsesOf(fs, k)
           V == UsesOf(p, k)
           mode == fs[n].mode
           q == AggregateQuantity(fs, V, mode)
           r == AggregateQuantity(fs, U, mode)
<1>1. /\ p \in Seq(Fact) /\ n \in DOMAIN fs /\ n \notin DOMAIN p
      /\ \A i \in DOMAIN p : i \in DOMAIN fs /\ p[i] = fs[i]
  <2>1. /\ n \in Nat \ {0} /\ DOMAIN fs = 1..n /\ DOMAIN p = 1..(n - 1) /\ p \in Seq(Fact)
        /\ \A i \in 1..(n - 1) : p[i] = fs[i]
    BY FrontIs
  <2> HIDE DEF n, p
  <2>2. QED
    BY <2>1
<1>2. ~Disagree(p) /\ k \in KeysOf(fs) /\ k \in KeysOf(p)
  BY FrontUses
<1>3. V = U \ {n} /\ n \in U
  BY FrontUses
<1>4. V # {} /\ V \in SUBSET (DOMAIN p)
  BY <1>1, <1>2, ItemIs
<1>5. U \in SUBSET (DOMAIN fs) /\ U # {} /\ V \in SUBSET (DOMAIN fs)
  BY <1>1, <1>3, <1>4 DEF UsesOf
<1>6. Item(fs, k).mode = mode /\ Item(fs, k).quantity = AggregateQuantity(fs, U, Item(fs, k).mode)
  BY <1>2, <1>3, ItemIs
<1>7. Item(p, k).mode = mode
  <2>1. PICK i \in V : TRUE
    BY <1>4
  <2>2. Item(p, k).mode = p[i].mode
    BY <1>1, <1>2, <2>1, ItemIs
  <2>3. fs[i] = p[i] /\ i \in U
    BY <1>1, <1>3, <1>4
  <2>4. Item(fs, k).mode = fs[i].mode
    BY <1>2, <2>3, ItemIs
  <2> HIDE DEF p, k, n, mode
  <2>5. QED
    BY <1>6, <2>2, <2>3, <2>4
<1>8. Item(p, k).quantity = AggregateQuantity(p, V, Item(p, k).mode)
  BY <1>1, <1>2, ItemIs
<1>9. Item(p, k).quantity = q
  BY <1>4, <1>7, <1>8, FrontQuantity
<1>10. Item(fs, k).quantity = r
  BY <1>6
<1>11. /\ q = Unknown <=> \E i \in V : fs[i].quantity = Unknown
       /\ q # Unknown =>
            /\ mode = "reusable" => /\ q \in {fs[i].quantity : i \in V}
                                    /\ \A i \in V : q >= fs[i].quantity
            /\ mode # "reusable" => q = SumOf(fs, V)
  <2> HIDE DEF V, mode
  <2>1. QED
    BY <1>4, <1>5, QuantityIs
<1>12. /\ r = Unknown <=> \E i \in U : fs[i].quantity = Unknown
       /\ r # Unknown =>
            /\ Known(fs, U)
            /\ mode = "reusable" => /\ r \in {fs[i].quantity : i \in U}
                                    /\ \A i \in U : r >= fs[i].quantity
            /\ mode # "reusable" => r = SumOf(fs, U)
  <2> HIDE DEF U, mode
  <2>1. QED
    BY <1>5, QuantityIs
<1>13. Unknown \in {q, fs[n].quantity} <=> r = Unknown
  <2> HIDE DEF U, V, q, r, mode, n
  <2>1. QED
    BY <1>3, <1>11, <1>12
<1>14. ASSUME r # Unknown PROVE q # Unknown /\ \A i \in U : fs[i].quantity \in Nat
  <2>1. Known(fs, U)
    BY <1>12, <1>14
  <2>2. QED
    BY <1>13, <1>14, <2>1 DEF Known
<1>15. ASSUME r # Unknown, mode = "reusable" PROVE r \in {q, fs[n].quantity} /\ r >= q
  <2>1. PICK i \in U : r = fs[i].quantity
    BY <1>12, <1>15
  <2>2. PICK j \in V : q = fs[j].quantity
    BY <1>11, <1>14, <1>15
  <2>3. j \in U /\ r >= q
    BY <1>3, <1>12, <1>15, <2>2
  <2>4. r \in Nat /\ q \in Nat
    BY <1>14, <1>15, <2>1, <2>2, <2>3
  <2>5. i # n => q >= r
    <3> SUFFICES ASSUME i # n PROVE q >= r
      OBVIOUS
    <3>1. i \in V
      BY <1>3
    <3>2. QED
      BY <1>11, <1>14, <1>15, <2>1, <3>1
  <2> HIDE DEF U, V, q, r, n
  <2>6. QED
    BY <2>1, <2>3, <2>4, <2>5
<1>16. ASSUME r # Unknown, mode # "reusable" PROVE r = q + fs[n].quantity
  <2>1. Known(fs, U) /\ r = SumOf(fs, U)
    BY <1>12, <1>16
  <2>2. SumOf(fs, U) = SumOf(p, V) + fs[n].quantity
    BY <1>3, <2>1, SumOfFront
  <2>3. q = AggregateQuantity(p, V, mode)
    BY <1>4, FrontQuantity
  <2>4. AggregateQuantity(p, V, mode) = SumOf(p, V)
    <3>1. q # Unknown
      BY <1>14, <1>16
    <3> HIDE DEF V, q, mode, p
    <3>2. QED
      BY <1>1, <1>4, <1>16, <2>3, <3>1, QuantityIs
  <2> HIDE DEF U, V, q, r, n, p, mode
  <2>5. QED
    BY <2>1, <2>2, <2>3, <2>4
<1>17. mode \in FulfillmentModes
  BY <1>1, FactsAreTyped
<1>18. Item(p, k).necessity = "required" => Item(fs, k).necessity = "required"
  <2> SUFFICES ASSUME Item(p, k).necessity = "required"
               PROVE  Item(fs, k).necessity = "required"
    OBVIOUS
  <2>1. Item(p, k).necessity = IF \E i \in V : p[i].necessity = "required"
                               THEN "required" ELSE "recommended"
    BY <1>1, <1>2, ItemIs
  <2>2. PICK i \in V : p[i].necessity = "required"
    <3> HIDE DEF p, V, k
    <3>1. QED
      BY <2>1
  <2>3. i \in U /\ fs[i].necessity = "required"
    BY <1>1, <1>3, <1>4, <2>2
  <2>4. Item(fs, k).necessity = IF \E i1 \in U : fs[i1].necessity = "required"
                                THEN "required" ELSE "recommended"
    BY <1>2, ItemIs
  <2> HIDE DEF p, U, V, k
  <2>5. QED
    BY <2>3, <2>4
<1> HIDE DEF q, r, U, V
<1>19. QED
  BY <1>9, <1>10, <1>13, <1>15, <1>16, <1>17, <1>18 DEF FulfillmentModes

LEMMA LastUseAlwaysAddsUp ==
  ASSUME facts \in Seq(Fact), facts # <<>>
  PROVE  LastUseAddsUp
<1> DEFINE f == facts[Len(facts)]
           p == Front(facts)
           before == BuildRequirementManifest(p)
           after == BuildRequirementManifest(facts)
<1> SUFFICES ASSUME after # Conflict
    PROVE /\ before # Conflict
          /\ \A k \in (DOMAIN after) \ {f.key} : k \in DOMAIN before /\ after[k] = before[k]
          /\ IF f.key \notin DOMAIN before THEN after[f.key].quantity = f.quantity
             ELSE LET q == before[f.key].quantity IN
                  /\ Unknown \in {q, f.quantity} <=> after[f.key].quantity = Unknown
                  /\ after[f.key].quantity # Unknown =>
                       IF f.mode = "consumed" THEN after[f.key].quantity = q + f.quantity
                       ELSE after[f.key].quantity \in {q, f.quantity} /\ after[f.key].quantity >= q
                  /\ before[f.key].necessity = "required" => after[f.key].necessity = "required"
  BY DEF LastUseAddsUp, Last
<1>1. ~Disagree(facts) /\ ~Disagree(p) /\ p \in Seq(Fact)
  BY ManifestIs, FrontUses, FrontIs
<1>2. after = [k \in KeysOf(facts) |-> Item(facts, k)]
  BY <1>1, ManifestIs
<1>3. before # Conflict /\ before = [k \in KeysOf(p) |-> Item(p, k)]
  BY <1>1, ManifestIs
<1>4. f.key \in KeysOf(facts)
  BY FrontUses
<1>5. \A k \in KeysOf(facts) \ {f.key} : k \in KeysOf(p) /\ Item(facts, k) = Item(p, k)
  BY OtherItemsStay
<1>6. f.key \notin KeysOf(p) => Item(facts, f.key).quantity = f.quantity
  BY <1>1, FirstUse
<1>7. f.key \in KeysOf(p) =>
        LET q == Item(p, f.key).quantity IN
        /\ Unknown \in {q, f.quantity} <=> Item(facts, f.key).quantity = Unknown
        /\ Item(facts, f.key).quantity # Unknown =>
             IF f.mode = "consumed" THEN Item(facts, f.key).quantity = q + f.quantity
             ELSE Item(facts, f.key).quantity \in {q, f.quantity} /\ Item(facts, f.key).quantity >= q
        /\ Item(p, f.key).necessity = "required" => Item(facts, f.key).necessity = "required"
  BY <1>1, FurtherUse
<1> HIDE DEF f, p, before, after
<1>8. DOMAIN before = KeysOf(p) /\ DOMAIN after = KeysOf(facts)
  BY <1>2, <1>3
<1>9. after[f.key] = Item(facts, f.key)
  BY <1>2, <1>4
<1>10. CASE f.key \notin KeysOf(p)
  BY <1>2, <1>3, <1>5, <1>6, <1>8, <1>9, <1>10
<1>11. CASE f.key \in KeysOf(p)
  <2>1. before[f.key] = Item(p, f.key)
    BY <1>3, <1>11
  <2>2. \A k \in (DOMAIN after) \ {f.key} : k \in DOMAIN before /\ after[k] = before[k]
    BY <1>2, <1>3, <1>5, <1>8
  <2>3. QED
    BY <1>3, <1>7, <1>8, <1>9, <1>11, <2>1, <2>2
<1>12. QED
  BY <1>10, <1>11

-----------------------------------------------------------------------------
(* Neighbouring rows read in the other order.                              *)
Exchanged(fs, i) == [fs EXCEPT ![i] = fs[i + 1], ![i + 1] = fs[i]]

Exchange(i, k) == IF k = i THEN i + 1 ELSE IF k = i + 1 THEN i ELSE k

LEMMA ExchangeIs ==
  ASSUME NEW fs \in Seq(Fact), NEW i \in 1..Len(fs) - 1, NEW gs, gs = Exchanged(fs, i)
  PROVE  /\ gs \in Seq(Fact) /\ Len(gs) = Len(fs) /\ DOMAIN gs = DOMAIN fs
         /\ i \in DOMAIN fs /\ i + 1 \in DOMAIN fs
         /\ \A k \in DOMAIN fs : /\ Exchange(i, k) \in DOMAIN fs
                                 /\ Exchange(i, Exchange(i, k)) = k
                                 /\ gs[k] = fs[Exchange(i, k)]
                                 /\ fs[k] = gs[Exchange(i, k)]
<1>1. DOMAIN fs = 1..Len(fs) /\ Len(fs) \in Nat /\ \A k \in 1..Len(fs) : fs[k] \in Fact
  OBVIOUS
<1>2. i \in 1..Len(fs) /\ i + 1 \in 1..Len(fs) /\ i # i + 1
  BY <1>1
<1>3. gs = [k \in 1..Len(fs) |-> IF k = i + 1 THEN fs[i]
                                 ELSE IF k = i THEN fs[i + 1] ELSE fs[k]]
  BY <1>1, <1>2 DEF Exchanged
<1>4. gs \in Seq(Fact) /\ Len(gs) = Len(fs) /\ DOMAIN gs = 1..Len(fs)
  BY <1>1, <1>2, <1>3
<1>5. ASSUME NEW k \in 1..Len(fs)
      PROVE  /\ Exchange(i, k) \in 1..Len(fs) /\ Exchange(i, Exchange(i, k)) = k
             /\ gs[k] = fs[Exchange(i, k)] /\ fs[k] = gs[Exchange(i, k)]
  <2>1. CASE k = i
    BY <1>2, <1>3, <2>1 DEF Exchange
  <2>2. CASE k = i + 1
    BY <1>2, <1>3, <2>2 DEF Exchange
  <2>3. CASE k \notin {i, i + 1}
    BY <1>2, <1>3, <2>3 DEF Exchange
  <2>4. QED
    BY <2>1, <2>2, <2>3
<1>6. QED
  BY <1>1, <1>2, <1>4, <1>5

LEMMA ExchangedQuantity ==
  ASSUME NEW fs \in Seq(Fact), NEW i \in 1..Len(fs) - 1,
         NEW gs, gs = Exchanged(fs, i), NEW k, NEW mode
  PROVE  AggregateQuantity(gs, UsesOf(gs, k), mode) = AggregateQuantity(fs, UsesOf(fs, k), mode)
<1>1. /\ gs \in Seq(Fact) /\ Len(gs) = Len(fs) /\ DOMAIN gs = DOMAIN fs
      /\ i \in DOMAIN fs /\ i + 1 \in DOMAIN fs
      /\ \A j \in DOMAIN fs : /\ Exchange(i, j) \in DOMAIN fs
                              /\ Exchange(i, Exchange(i, j)) = j
                              /\ gs[j] = fs[Exchange(i, j)]
                              /\ fs[j] = gs[Exchange(i, j)]
  <2>1. gs \in Seq(Fact) /\ Len(gs) = Len(fs) /\ DOMAIN gs = DOMAIN fs
    BY ExchangeIs
  <2>2. i \in DOMAIN fs /\ i + 1 \in DOMAIN fs
    BY ExchangeIs
  <2>3. \A j \in DOMAIN fs : /\ Exchange(i, j) \in DOMAIN fs
                              /\ Exchange(i, Exchange(i, j)) = j
                              /\ gs[j] = fs[Exchange(i, j)]
                              /\ fs[j] = gs[Exchange(i, j)]
    BY ExchangeIs
  <2>4. QED
    BY <2>1, <2>2, <2>3
<1> DEFINE U == UsesOf(fs, k)
           W == UsesOf(gs, k)
           P == {gs[j].quantity : j \in W}
           Q == {fs[j].quantity : j \in U}
<1>2. \A j \in U : Exchange(i, j) \in W /\ gs[Exchange(i, j)] = fs[j]
  BY <1>1 DEF UsesOf
<1>3. \A j \in W : Exchange(i, j) \in U /\ fs[Exchange(i, j)] = gs[j]
  BY <1>1 DEF UsesOf
<1>4. \A j \in DOMAIN fs : Exchange(i, j) \in W <=> j \in U
  <2> SUFFICES ASSUME NEW j \in DOMAIN fs PROVE Exchange(i, j) \in W <=> j \in U
    OBVIOUS
  <2>1. Exchange(i, Exchange(i, j)) = j
    BY <1>1
  <2> HIDE DEF U, W
  <2>2. QED
    BY <1>2, <1>3, <2>1
<1>5. U \in SUBSET (DOMAIN fs) /\ W \in SUBSET (DOMAIN gs)
  BY DEF UsesOf
<1> HIDE DEF U, W
<1>6. P = Q
  <2>1. ASSUME NEW j \in W PROVE gs[j].quantity \in Q
    <3>1. Exchange(i, j) \in U /\ fs[Exchange(i, j)].quantity = gs[j].quantity
      BY <1>3
    <3>2. \A x \in U : fs[x].quantity \in Q
      OBVIOUS
    <3> HIDE DEF Q
    <3>3. QED
      BY <3>1, <3>2
  <2>2. ASSUME NEW j \in U PROVE fs[j].quantity \in P
    <3>1. Exchange(i, j) \in W /\ gs[Exchange(i, j)].quantity = fs[j].quantity
      BY <1>2
    <3>2. \A x \in W : gs[x].quantity \in P
      OBVIOUS
    <3> HIDE DEF P
    <3>3. QED
      BY <3>1, <3>2
  <2>3. QED
    BY <2>1, <2>2
<1>7. (\E j \in W : gs[j].quantity = Unknown) <=> (\E j \in U : fs[j].quantity = Unknown)
  BY <1>2, <1>3
<1>8. CASE \E j \in U : fs[j].quantity = Unknown
  BY <1>7, <1>8 DEF AggregateQuantity, U, W
<1>9. CASE ~\E j \in U : fs[j].quantity = Unknown
  <2>1. Known(fs, U)
    BY <1>5, <1>9, FactsAreTyped DEF Known
  <2>2. Known(gs, W)
    BY <1>1, <1>5, <1>7, <1>9, FactsAreTyped DEF Known
  <2>3. DOMAIN fs = 1..Len(fs) /\ Len(fs) \in Nat
    OBVIOUS
  <2>4. /\ Terms(fs, U) = [j \in 1..Len(fs) |-> IF j \in U THEN fs[j].quantity ELSE 0]
        /\ Terms(gs, W) = [j \in 1..Len(fs) |-> IF j \in W THEN gs[j].quantity ELSE 0]
    BY <1>1 DEF Terms
  <2>5. \A j \in DOMAIN fs : Terms(gs, W)[Exchange(i, j)] = Terms(fs, U)[j]
    <3> SUFFICES ASSUME NEW j \in DOMAIN fs
                 PROVE  Terms(gs, W)[Exchange(i, j)] = Terms(fs, U)[j]
      OBVIOUS
    <3> DEFINE x == Exchange(i, j)
    <3>1. x \in DOMAIN fs /\ gs[x] = fs[j] /\ (x \in W <=> j \in U)
      BY <1>1, <1>4
    <3> HIDE DEF x
    <3>2. Terms(gs, W)[x] = IF x \in W THEN gs[x].quantity ELSE 0
      BY <2>3, <2>4, <3>1
    <3>3. Terms(fs, U)[j] = IF j \in U THEN fs[j].quantity ELSE 0
      BY <2>3, <2>4
    <3>4. QED
      BY <3>1, <3>2, <3>3 DEF x
  <2>6. /\ Exchange(i, i) = i + 1 /\ Exchange(i, i + 1) = i
        /\ \A j : j \notin {i, i + 1} => Exchange(i, j) = j
    BY DEF Exchange
  <2>7. Neighbours(Terms(gs, W), Terms(fs, U), i, Len(fs))
    BY <1>1, <2>3, <2>5, <2>6 DEF Neighbours
  <2>8. SumOf(gs, W) = SumOf(fs, U)
    BY <1>1, <2>1, <2>2, <2>7, SumOfSwapped
  <2>9. AggregateQuantity(gs, W, mode) = IF mode = "reusable" THEN Max(P) ELSE SumOf(gs, W)
    BY <1>7, <1>9, Zenon DEF AggregateQuantity
  <2>10. AggregateQuantity(fs, U, mode) = IF mode = "reusable" THEN Max(Q) ELSE SumOf(fs, U)
    BY <1>9, Zenon DEF AggregateQuantity
  <2> HIDE DEF P, Q
  <2>11. QED
    BY <1>6, <2>8, <2>9, <2>10 DEF U, W
<1>10. QED
  BY <1>8, <1>9

LEMMA ForgetUses ==
  ASSUME NEW q, NEW u, NEW m, NEW n, NEW U
  PROVE  [[quantity |-> q, unit |-> u, mode |-> m, necessity |-> n, uses |-> U]
            EXCEPT !.uses = {}]
         = [quantity |-> q, unit |-> u, mode |-> m, necessity |-> n, uses |-> {}]
OBVIOUS

LEMMA OrderIsOfNoEffect ==
  ASSUME NEW fs \in Seq(Fact), ~Disagree(fs), NEW i \in 1..Len(fs) - 1,
         NEW gs, gs = Exchanged(fs, i)
  PROVE  ~Disagree(gs) /\ Demand(gs) = Demand(fs)
<1>1. /\ gs \in Seq(Fact) /\ DOMAIN gs = DOMAIN fs
      /\ \A j \in DOMAIN fs : /\ Exchange(i, j) \in DOMAIN fs
                              /\ Exchange(i, Exchange(i, j)) = j
                              /\ gs[j] = fs[Exchange(i, j)]
                              /\ fs[j] = gs[Exchange(i, j)]
  BY ExchangeIs
<1>2. ~Disagree(gs)
  <2> SUFFICES ASSUME NEW j \in DOMAIN fs, NEW x \in DOMAIN fs, gs[j].key = gs[x].key
               PROVE  gs[j].unit = gs[x].unit /\ gs[j].mode = gs[x].mode
    BY <1>1 DEF Disagree
  <2> DEFINE j1 == Exchange(i, j)
             x1 == Exchange(i, x)
  <2>1. j1 \in DOMAIN fs /\ x1 \in DOMAIN fs /\ gs[j] = fs[j1] /\ gs[x] = fs[x1]
    BY <1>1
  <2> HIDE DEF j1, x1
  <2>2. QED
    BY <2>1 DEF Disagree
<1>3. KeysOf(gs) = KeysOf(fs)
  <2>1. ASSUME NEW j \in DOMAIN fs PROVE gs[j].key \in KeysOf(fs) /\ fs[j].key \in KeysOf(gs)
    <3> DEFINE x == Exchange(i, j)
    <3>1. x \in DOMAIN fs /\ x \in DOMAIN gs /\ gs[j] = fs[x] /\ fs[j] = gs[x]
      BY <1>1
    <3> HIDE DEF x
    <3>2. QED
      BY <3>1 DEF KeysOf
  <2>2. QED
    BY <1>1, <2>1 DEF KeysOf
<1>4. ASSUME NEW k \in KeysOf(fs)
      PROVE  [Item(gs, k) EXCEPT !.uses = {}] = [Item(fs, k) EXCEPT !.uses = {}]
  <2> DEFINE U == UsesOf(fs, k)
             W == UsesOf(gs, k)
             a == Item(fs, k)
             b == Item(gs, k)
  <2>1. /\ U # {}
        /\ \A j \in U : a.unit = fs[j].unit /\ a.mode = fs[j].mode
        /\ a.necessity = IF \E j \in U : fs[j].necessity = "required"
                         THEN "required" ELSE "recommended"
        /\ a.quantity = AggregateQuantity(fs, U, a.mode)
        /\ a = [quantity |-> a.quantity, unit |-> a.unit, mode |-> a.mode,
                necessity |-> a.necessity, uses |-> U]
    BY ItemIs
  <2>2. /\ \A j \in W : b.unit = gs[j].unit /\ b.mode = gs[j].mode
        /\ b.necessity = IF \E j \in W : gs[j].necessity = "required"
                         THEN "required" ELSE "recommended"
        /\ b.quantity = AggregateQuantity(gs, W, b.mode)
        /\ b = [quantity |-> b.quantity, unit |-> b.unit, mode |-> b.mode,
                necessity |-> b.necessity, uses |-> W]
    <3>1. gs \in Seq(Fact) /\ k \in KeysOf(gs)
      BY <1>1, <1>3
    <3>2. QED
      BY <1>2, <3>1, ItemIs
  <2>3. \A j \in U : Exchange(i, j) \in W /\ gs[Exchange(i, j)] = fs[j]
    BY <1>1 DEF UsesOf
  <2>4. \A j \in W : Exchange(i, j) \in U /\ fs[Exchange(i, j)] = gs[j]
    BY <1>1 DEF UsesOf
  <2>5. AggregateQuantity(gs, W, a.mode) = AggregateQuantity(fs, U, a.mode)
    <3> DEFINE mode == a.mode
    <3> HIDE DEF mode
    <3>1. AggregateQuantity(gs, W, mode) = AggregateQuantity(fs, U, mode)
      BY ExchangedQuantity
    <3>2. QED
      BY <3>1 DEF mode
  <2> HIDE DEF U, W, a, b
  <2>6. a.unit = b.unit /\ a.mode = b.mode
    <3>1. PICK j \in U : TRUE
      BY <2>1
    <3>2. a.unit = fs[j].unit /\ a.mode = fs[j].mode
      BY <2>1
    <3>3. b.unit = gs[Exchange(i, j)].unit /\ b.mode = gs[Exchange(i, j)].mode
      BY <2>2, <2>3
    <3>4. gs[Exchange(i, j)] = fs[j]
      BY <2>3
    <3>5. QED
      BY <3>2, <3>3, <3>4
  <2>7. a.necessity = b.necessity
    <3>1. (\E j \in W : gs[j].necessity = "required") <=> (\E j \in U : fs[j].necessity = "required")
      BY <2>3, <2>4
    <3>2. QED
      BY <2>1, <2>2, <3>1
  <2>8. a.quantity = b.quantity
    BY <2>1, <2>2, <2>5, <2>6
  <2>9. [b EXCEPT !.uses = {}] = [a EXCEPT !.uses = {}]
    <3> DEFINE aq == a.quantity
               au == a.unit
               am == a.mode
               an == a.necessity
    <3>1. /\ a = [quantity |-> aq, unit |-> au, mode |-> am, necessity |-> an, uses |-> U]
          /\ b = [quantity |-> aq, unit |-> au, mode |-> am, necessity |-> an, uses |-> W]
      BY <2>1, <2>2, <2>6, <2>7, <2>8
    <3> HIDE DEF aq, au, am, an
    <3>2. QED
      BY <3>1, ForgetUses
  <2>10. QED
    BY <2>9 DEF a, b
<1>5. Demand(fs) = [k \in KeysOf(fs) |-> [Item(fs, k) EXCEPT !.uses = {}]]
  <2>1. BuildRequirementManifest(fs) = [k \in KeysOf(fs) |-> Item(fs, k)]
    BY ManifestIs
  <2>2. QED
    BY <2>1 DEF Demand
<1>6. Demand(gs) = [k \in KeysOf(fs) |-> [Item(gs, k) EXCEPT !.uses = {}]]
  <2>1. BuildRequirementManifest(gs) = [k \in KeysOf(fs) |-> Item(gs, k)]
    BY <1>1, <1>2, <1>3, ManifestIs
  <2>2. QED
    BY <2>1 DEF Demand
<1>7. Demand(gs) = Demand(fs)
  <2> DEFINE F(k) == [Item(fs, k) EXCEPT !.uses = {}]
             G(k) == [Item(gs, k) EXCEPT !.uses = {}]
  <2>1. \A k \in KeysOf(fs) : G(k) = F(k)
    BY <1>4
  <2>2. Demand(fs) = [k \in KeysOf(fs) |-> F(k)] /\ Demand(gs) = [k \in KeysOf(fs) |-> G(k)]
    BY <1>5, <1>6
  <2> HIDE DEF F, G
  <2>3. QED
    BY <2>1, <2>2
<1>8. QED
  BY <1>2, <1>7

(* Of the uses of a definition, however many and in whatever order: one    *)
(* more adds its quantity to what is consumed and raises what is reused,   *)
(* nothing is known where one use says nothing, and two rows that are      *)
(* read in the other order make the same demand.                           *)
THEOREM QuantitiesAreNeverInvented ==
  ManifestSpec => []QuantitiesAreNotInvented
<1>1. ManifestInit => facts \in Seq(Fact)
  BY DEF ManifestInit
<1>2. facts \in Seq(Fact) /\ [ManifestNext]_facts => (facts \in Seq(Fact))'
  <2> SUFFICES ASSUME facts \in Seq(Fact), [ManifestNext]_facts PROVE facts' \in Seq(Fact)
    OBVIOUS
  <2>1. CASE ManifestNext
    <3>1. PICK f \in Fact : facts' = Append(facts, f)
      BY <2>1 DEF ManifestNext, AddUse
    <3>2. QED
      BY <3>1
  <2>2. CASE UNCHANGED facts
    BY <2>2
  <2>3. QED
    BY <2>1, <2>2
<1>3. facts \in Seq(Fact) => QuantitiesAreNotInvented
  <2> SUFFICES ASSUME facts \in Seq(Fact) PROVE QuantitiesAreNotInvented
    OBVIOUS
  <2>1. facts # <<>> => LastUseAddsUp
    BY LastUseAlwaysAddsUp
  <2>2. ASSUME BuildRequirementManifest(facts) # Conflict, NEW i \in 1..Len(facts) - 1
        PROVE  LET other == [facts EXCEPT ![i] = facts[i + 1], ![i + 1] = facts[i]]
               IN BuildRequirementManifest(other) # Conflict /\ Demand(other) = Demand(facts)
    <3> DEFINE other == Exchanged(facts, i)
    <3>1. ~Disagree(facts)
      BY <2>2, ManifestIs
    <3>2. ~Disagree(other) /\ Demand(other) = Demand(facts)
      BY <3>1, OrderIsOfNoEffect
    <3>3. other \in Seq(Fact)
      BY ExchangeIs
    <3>4. QED
      BY <3>2, <3>3, ManifestIs DEF Exchanged
  <2>3. QED
    BY <2>1, <2>2 DEF QuantitiesAreNotInvented
<1>4. QED
  BY <1>1, <1>2, <1>3, PTL DEF ManifestSpec
===============================================================================
