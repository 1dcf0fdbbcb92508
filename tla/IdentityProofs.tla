---------------------------- MODULE IdentityProofs ----------------------------
(***************************************************************************)
(* The package identity.  What merging does to a candidate, and what       *)
(* follows from it for VehicleIdentity with any fields, words, rows and    *)
(* callers: identity_hash is never taken, and answers stay covered.  For   *)
(* UserVehicle with any requests and VINs: a VIN is saved once, with       *)
(* matches that go with its identity, and no requests wait for each other. *)
(* For AuthSessions with any requests, accounts and tokens: attempts are   *)
(* counted, accounts are apart, and a sign-out is final.                   *)
(***************************************************************************)
EXTENDS VehicleIdentity, UserVehicle, AuthSessions, FiniteSetTheorems, TLAPS

(* Merging loses nothing of either side. *)
LEMMA MergeCovers ==
  ASSUME NEW id \in Descriptions, NEW input \in Descriptions, IsCandidate(id, input)
  PROVE  /\ Merge(id, input) \in Descriptions
         /\ \A f \in Fields : id[f] \subseteq Merge(id, input)[f]
         /\ \A f \in Fields : input[f] \subseteq Merge(id, input)[f]
<1> DEFINE m == Merge(id, input)
<1>1. ASSUME NEW f \in Fields
      PROVE  /\ m[f] \in {id[f], input[f]}
             /\ id[f] \subseteq m[f] /\ input[f] \subseteq m[f]
  <2>1. Compatible(f, id[f], input[f])
    BY DEF IsCandidate
  <2>2. m[f] = IF id[f] = {} \/ (f \in Structured /\ id[f] \subseteq input[f])
               THEN input[f] ELSE id[f]
    BY DEF Merge
  <2>3. QED
    BY <2>1, <2>2 DEF Compatible
<1>2. ASSUME NEW f \in Fields PROVE m[f] \in Detail(f)
  BY <1>1 DEF Descriptions
<1>3. m \in [Fields -> UNION {Detail(f) : f \in Fields}]
  <2>1. \A f \in Fields : m[f] \in UNION {Detail(g) : g \in Fields}
    BY <1>2
  <2>2. m = [f \in Fields |-> m[f]]
    BY DEF Merge
  <2>3. QED
    BY <2>1, <2>2
<1>4. m \in Descriptions
  BY <1>2, <1>3 DEF Descriptions
<1>5. QED
  BY <1>1, <1>4

(* The result is a candidate for the same input, ... *)
LEMMA MergedIsCandidate ==
  ASSUME NEW id \in Descriptions, NEW input \in Descriptions, IsCandidate(id, input)
  PROVE  IsCandidate(Merge(id, input), input)
<1> SUFFICES ASSUME NEW f \in Fields
             PROVE  Compatible(f, Merge(id, input)[f], input[f])
  BY DEF IsCandidate
<1>1. Compatible(f, id[f], input[f])
  BY DEF IsCandidate
<1>2. Merge(id, input)[f] = IF id[f] = {} \/ (f \in Structured /\ id[f] \subseteq input[f])
                            THEN input[f] ELSE id[f]
  BY DEF Merge
<1>3. QED
  BY <1>1, <1>2 DEF Compatible

(* Scores are natural numbers. *)
LEMMA Scores ==
  ASSUME NEW id, NEW input
  PROVE  Matched(id, input) \in Nat /\ Specificity(id) \in Nat
<1>1. /\ IsFiniteSet({f \in Fields : id[f] # {} /\ input[f] # {}})
      /\ IsFiniteSet({f \in Fields : id[f] # {}})
  BY FieldsAssumption, FS_Subset
<1>2. QED
  BY <1>1, FS_CardinalityType DEF Matched, Specificity

(* ... and never one of a lower score. *)
LEMMA MergedScoresNoLower ==
  ASSUME NEW id \in Descriptions, NEW input \in Descriptions, IsCandidate(id, input)
  PROVE  ~ScoresBelow(Merge(id, input), id, input)
<1> DEFINE m    == Merge(id, input)
           M(i) == {f \in Fields : i[f] # {} /\ input[f] # {}}
           S(i) == {f \in Fields : i[f] # {}}
<1>1. M(id) \subseteq M(m) /\ S(id) \subseteq S(m)
  BY MergeCovers
<1>2. IsFiniteSet(M(m)) /\ IsFiniteSet(S(m))
  BY FieldsAssumption, FS_Subset
<1>3. Cardinality(M(id)) <= Cardinality(M(m)) /\ Cardinality(S(id)) <= Cardinality(S(m))
  BY <1>1, <1>2, FS_Subset
<1>4. Matched(id, input) <= Matched(m, input) /\ Specificity(id) <= Specificity(m)
  BY <1>3 DEF Matched, Specificity
<1>5. /\ Matched(id, input) \in Nat /\ Matched(m, input) \in Nat
      /\ Specificity(id) \in Nat /\ Specificity(m) \in Nat
  BY Scores
<1> HIDE DEF m
<1>6. QED
  BY <1>4, <1>5 DEF ScoresBelow, m

(* The single best candidate has no equal: who scores no lower is it.      *)
LEMMA BestHasNoEqual ==
  ASSUME NEW input, NEW c, NEW d, Best(input) = {c}, d \in Candidates(input),
         ~ScoresBelow(rows[d].id, rows[c].id, input)
  PROVE  d = c
<1> DEFINE M(e) == Matched(rows[e].id, input)
           S(e) == Specificity(rows[e].id)
<1>1. \A e : M(e) \in Nat /\ S(e) \in Nat
  BY Scores
<1>2. ~ScoresBelow(rows[c].id, rows[d].id, input)
  BY DEF Best
<1>3. M(c) = M(d) /\ S(c) = S(d)
  <2>1. /\ M(c) \in Nat /\ M(d) \in Nat /\ S(c) \in Nat /\ S(d) \in Nat
    BY <1>1
  <2>2. /\ ~(M(d) < M(c)) /\ ~(M(d) = M(c) /\ S(d) < S(c))
        /\ ~(M(c) < M(d)) /\ ~(M(c) = M(d) /\ S(c) < S(d))
    BY <1>2 DEF ScoresBelow
  <2> HIDE DEF M, S
  <2>3. QED
    BY <2>1, <2>2
<1>4. ASSUME NEW e \in Candidates(input) PROVE ~ScoresBelow(rows[d].id, rows[e].id, input)
  <2>1. ~ScoresBelow(rows[c].id, rows[e].id, input)
    BY DEF Best
  <2>2. QED
    BY <1>3, <2>1 DEF ScoresBelow
<1>5. d \in Best(input)
  BY <1>4 DEF Best
<1>6. QED
  BY <1>5
-----------------------------------------------------------------------------
HashIsIdentity == \A c \in Rows : rows[c] # NoRow => rows[c].hash = rows[c].id

(* What a call has learnt holds until it writes, as nobody else may.       *)
CallKnows(r) ==
  LET c == call[r].row
      i == call[r].input
  IN
  /\ call[r].pc \in {"update", "found"} => c \in Rows /\ rows[c] # NoRow
  /\ call[r].pc = "update" => call[r].loaded = rows[c].id /\ IsCandidate(rows[c].id, i)
  /\ call[r].pc = "found" => \A f \in Fields : i[f] \subseteq rows[c].id[f]
  /\ call[r].pc \in {"update", "insert"} => ~HashTaken(r)

(* Nobody was told anything of a row that is not there. *)
NothingTold == \A c \in Rows : rows[c] = NoRow => \A f \in Fields : told[c][f] = {}

IdentityInv ==
  /\ IdentityTypeOK
  /\ HashIsIdentity
  /\ \A r \in Callers : CallKnows(r)
  /\ AnswersStayCovered
  /\ NothingTold

LEMMA StoredRow ==
  ASSUME IdentityInv, NEW c \in Rows
  PROVE  /\ c \in Stored <=> rows[c] # NoRow
         /\ rows[c] # NoRow => /\ rows[c] \in [id: Descriptions, hash: Descriptions]
                             /\ rows[c].hash = rows[c].id
                             /\ rows[c].id \in Descriptions
BY DEF IdentityInv, IdentityTypeOK, HashIsIdentity, Stored

LEMMA NothingIsADescription == Nothing \in Descriptions
<1>1. \A f \in Fields : Nothing[f] = {} /\ {} \in Detail(f)
  BY DEF Nothing, Detail
<1>2. Nothing \in [Fields -> UNION {Detail(f) : f \in Fields}]
  BY <1>1 DEF Nothing
<1>3. QED
  BY <1>1, <1>2 DEF Descriptions

LEMMA WordsOfADescription ==
  ASSUME NEW i \in Descriptions, NEW f \in Fields
  PROVE  i[f] \in SUBSET UNION {Words[g] : g \in Fields}
BY DEF Descriptions, Detail

-----------------------------------------------------------------------------
CallRow ==
  [pc: {"idle", "lock", "exact", "select", "update", "insert", "found"},
   input: Descriptions, row: Rows \cup {NoRow}, loaded: Descriptions]

(* A call that goes on without writing a row. *)
LEMMA ReadKeeps ==
  ASSUME IdentityInv, NEW r \in Callers,
         call' \in [Callers -> CallRow],
         \A t \in Callers \ {r} : call'[t] = call[t] /\ (advisory' = t <=> advisory = t),
         UNCHANGED <<rows, told>>,
         advisory' \in Callers \cup {NoRow},
         call'[r].pc \notin {"idle", "lock"} <=> advisory' = r,
         CallKnows(r)'
  PROVE  IdentityInv'
<1>1. IdentityTypeOK'
  BY DEF IdentityInv, IdentityTypeOK, CallRow, CallAt
<1>2. ASSUME NEW t \in Callers PROVE CallKnows(t)'
  BY DEF IdentityInv, CallKnows, HashTaken, NewHash, Merged, CallAt, Stored
<1>3. (HashIsIdentity /\ AnswersStayCovered /\ NothingTold)'
  BY DEF IdentityInv, HashIsIdentity, AnswersStayCovered, NothingTold, Stored
<1>4. QED
  BY <1>1, <1>2, <1>3 DEF IdentityInv

LEMMA ReturnTyped ==
  ASSUME IdentityInv, NEW r \in Callers, Return(r)
  PROVE  /\ call' \in [Callers -> CallRow]
         /\ call'[r].pc = "idle" /\ \A t \in Callers \ {r} : call'[t] = call[t]
BY NothingIsADescription DEF Return, IdentityInv, IdentityTypeOK, IdleCall, CallRow

LEMMA ReturnKeeps ==
  ASSUME IdentityInv, NEW r \in Callers, Return(r), UNCHANGED <<rows, told>>
  PROVE  IdentityInv'
<1>1. CallKnows(r)'
  BY ReturnTyped DEF CallKnows
<1>2. /\ advisory' \in Callers \cup {NoRow} /\ advisory' # r
      /\ \A t \in Callers \ {r} : advisory' = t <=> advisory = t
  BY NoRowAssumption DEF Return, IdentityInv, IdentityTypeOK
<1>3. QED
  BY <1>1, <1>2, ReturnTyped, ReadKeeps

(* A row is written, under the advisory lock, and its caller answered.     *)
LEMMA WriteKeeps ==
  ASSUME IdentityInv, NEW r \in Callers, advisory = r, NEW c \in Rows, NEW i \in Descriptions,
         rows' = [rows EXCEPT ![c] = [id |-> i, hash |-> i]],
         rows[c] # NoRow => \A f \in Fields : rows[c].id[f] \subseteq i[f],
         \A f \in Fields : call[r].input[f] \subseteq i[f],
         Answer(r, c), Return(r)
  PROVE  IdentityInv'
<1> DEFINE new == [id |-> i, hash |-> i]
<1>1. /\ new # NoRow /\ new \in [id: Descriptions, hash: Descriptions]
      /\ rows'[c] = new /\ \A d \in Rows \ {c} : rows'[d] = rows[d]
  BY NoRowAssumption DEF IdentityInv, IdentityTypeOK
<1>2. \A t \in Callers : call'[t] = IF t = r THEN IdleCall ELSE call[t]
  BY DEF Return, IdentityInv, IdentityTypeOK
<1>3. \A t \in Callers : call'[t].pc \in {"idle", "lock"}
  BY <1>2 DEF IdentityInv, IdentityTypeOK, CallAt, IdleCall
<1>4. /\ \A f \in Fields : told'[c][f] = told[c][f] \cup call[r].input[f]
      /\ \A d \in Rows \ {c} : told'[d] = told[d]
  BY DEF Answer, IdentityInv, IdentityTypeOK
<1>5. IdentityTypeOK'
  <2>1. rows' \in [Rows -> [id: Descriptions, hash: Descriptions] \cup {NoRow}]
    BY <1>1 DEF IdentityInv, IdentityTypeOK
  <2>2. advisory' = NoRow
    BY DEF Return
  <2>3. call' \in [Callers -> CallRow]
    BY ReturnTyped
  <2>4. call[r].input \in Descriptions
    BY DEF IdentityInv, IdentityTypeOK
  <2>5. told' \in [Rows -> [Fields -> SUBSET UNION {Words[f] : f \in Fields}]]
    <3>1. [f \in Fields |-> told[c][f] \cup call[r].input[f]]
            \in [Fields -> SUBSET UNION {Words[f] : f \in Fields}]
      BY <2>4, WordsOfADescription DEF IdentityInv, IdentityTypeOK
    <3>2. QED
      BY <3>1 DEF Answer, IdentityInv, IdentityTypeOK
  <2>6. \A t \in Callers : call'[t].pc \notin {"idle", "lock"} <=> advisory' = t
    BY <1>3, <2>2, NoRowAssumption
  <2>7. QED
    BY <2>1, <2>2, <2>3, <2>5, <2>6 DEF IdentityTypeOK, CallRow, CallAt
<1>6. HashIsIdentity'
  BY <1>1 DEF IdentityInv, HashIsIdentity
<1>7. ASSUME NEW t \in Callers PROVE CallKnows(t)'
  BY <1>3 DEF CallKnows
<1>8. AnswersStayCovered'
  <2>1. ASSUME NEW d \in Rows, rows'[d] # NoRow, NEW f \in Fields
        PROVE  told'[d][f] \subseteq rows'[d].id[f]
    <3>1. CASE d # c
      BY <1>1, <1>4, <2>1, <3>1 DEF IdentityInv, AnswersStayCovered, Stored
    <3>2. rows'[c].id = i /\ told'[c][f] = told[c][f] \cup call[r].input[f]
      BY <1>1, <1>4
    <3>3. CASE d = c /\ rows[c] # NoRow
      <4>1. told[c][f] \subseteq rows[c].id[f]
        BY <3>3 DEF IdentityInv, AnswersStayCovered, Stored
      <4>2. QED
        BY <3>2, <3>3, <4>1
    <3>4. CASE d = c /\ rows[c] = NoRow
      <4>1. told[c][f] = {}
        BY <3>4 DEF IdentityInv, NothingTold
      <4>2. QED
        BY <3>2, <3>4, <4>1
    <3>5. QED
      BY <3>1, <3>3, <3>4
  <2>2. QED
    BY <2>1 DEF AnswersStayCovered, Stored
<1>9. NothingTold'
  BY <1>1, <1>4 DEF IdentityInv, NothingTold
<1>10. QED
  BY <1>5, <1>6, <1>7, <1>8, <1>9 DEF IdentityInv
-----------------------------------------------------------------------------
LEMMA BeginResolveKeeps ==
  ASSUME IdentityInv, NEW r \in Callers, NEW i \in Descriptions, BeginResolve(r, i)
  PROVE  IdentityInv'
<1>1. /\ call' \in [Callers -> CallRow]
      /\ call'[r].pc = "lock" /\ \A t \in Callers \ {r} : call'[t] = call[t]
  BY DEF BeginResolve, IdentityInv, IdentityTypeOK, CallRow
<1>2. /\ UNCHANGED <<rows, told>> /\ advisory' = advisory
      /\ advisory # r /\ advisory \in Callers \cup {NoRow}
  BY DEF BeginResolve, CallAt, IdentityInv, IdentityTypeOK
<1>3. CallKnows(r)'
  BY <1>1 DEF CallKnows
<1>4. QED
  BY <1>1, <1>2, <1>3, ReadKeeps

LEMMA LockBaseIdentityKeeps ==
  ASSUME IdentityInv, NEW r \in Callers, LockBaseIdentity(r)
  PROVE  IdentityInv'
<1>1. /\ call' \in [Callers -> CallRow]
      /\ call'[r].pc = "exact" /\ \A t \in Callers \ {r} : call'[t] = call[t]
  BY DEF LockBaseIdentity, IdentityInv, IdentityTypeOK, CallRow
<1>2. /\ UNCHANGED <<rows, told>> /\ advisory' = r
      /\ \A t \in Callers \ {r} : advisory' = t <=> advisory = t
  BY NoRowAssumption DEF LockBaseIdentity
<1>3. CallKnows(r)'
  BY <1>1 DEF CallKnows
<1>4. QED
  BY <1>1, <1>2, <1>3, ReadKeeps

(* The lock is held from the lookup on. *)
LEMMA PastTheLock ==
  ASSUME IdentityInv, NEW r \in Callers, call[r].pc \notin {"idle", "lock"}
  PROVE  advisory = r /\ call[r].input \in Descriptions
BY DEF IdentityInv, IdentityTypeOK, CallAt

LEMMA FindExactKeeps ==
  ASSUME IdentityInv, NEW r \in Callers, FindExact(r)
  PROVE  IdentityInv'
<1>1. advisory' = r /\ advisory' = advisory /\ UNCHANGED <<rows, told>>
  BY PastTheLock DEF FindExact, CallAt
<1>2. CASE \E c \in Exact(r) : call' = [call EXCEPT ![r].pc = "found", ![r].row = c]
  <2>1. PICK c \in Exact(r) : call' = [call EXCEPT ![r].pc = "found", ![r].row = c]
    BY <1>2
  <2>2. c \in Rows /\ rows[c] # NoRow /\ rows[c].id = call[r].input
    BY StoredRow DEF Exact, Stored
  <2>3. /\ call' \in [Callers -> CallRow]
        /\ \A t \in Callers \ {r} : call'[t] = call[t]
    <3>1. call \in [Callers -> CallRow] /\ call[r] \in CallRow
      BY DEF IdentityInv, IdentityTypeOK, CallRow
    <3>2. [call[r] EXCEPT !.pc = "found", !.row = c] \in CallRow
      BY <2>2, <3>1 DEF CallRow
    <3>3. QED
      BY <2>1, <3>1, <3>2
  <2>4. call'[r].pc = "found" /\ call'[r].row = c /\ call'[r].input = call[r].input
    BY <2>1, <2>2 DEF IdentityInv, IdentityTypeOK
  <2>5. CallKnows(r)'
    BY <1>1, <2>2, <2>4 DEF CallKnows
  <2>6. QED
    BY <1>1, <2>3, <2>4, <2>5, ReadKeeps
<1>3. CASE call' = [call EXCEPT ![r].pc = "select"]
  <2>1. /\ call' \in [Callers -> CallRow]
        /\ call'[r].pc = "select" /\ \A t \in Callers \ {r} : call'[t] = call[t]
    BY <1>3 DEF IdentityInv, IdentityTypeOK, CallRow
  <2>2. CallKnows(r)'
    BY <2>1 DEF CallKnows
  <2>3. QED
    BY <1>1, <2>1, <2>2, ReadKeeps
<1>4. QED
  BY <1>2, <1>3 DEF FindExact

(* A row with the hash of the input would have been a candidate. *)
LEMMA SelectNoneKeeps ==
  ASSUME IdentityInv, NEW r \in Callers, SelectNone(r)
  PROVE  IdentityInv'
<1>1. advisory' = r /\ advisory' = advisory /\ UNCHANGED <<rows, told>>
  BY PastTheLock DEF SelectNone, CallAt
<1>2. /\ call' \in [Callers -> CallRow]
      /\ \A t \in Callers \ {r} : call'[t] = call[t]
      /\ call'[r].pc = "insert" /\ call'[r].input = call[r].input
  BY DEF SelectNone, IdentityInv, IdentityTypeOK, CallRow
<1>3. ASSUME NEW d \in Stored PROVE rows[d].hash # call[r].input
  <2>1. SUFFICES ASSUME rows[d].id = call[r].input PROVE FALSE
    BY StoredRow DEF Stored
  <2>2. IsCandidate(rows[d].id, call[r].input)
    BY <2>1 DEF IsCandidate, Compatible
  <2>3. QED
    BY <2>2 DEF SelectNone, Candidates
<1>4. CallKnows(r)'
  BY <1>1, <1>2, <1>3 DEF CallKnows, HashTaken, NewHash, CallAt, Stored
<1>5. QED
  BY <1>1, <1>2, <1>4, ReadKeeps

(* A row with the hash of the merged description would have been a         *)
(* candidate of no lower score: it is the best one.                        *)
LEMMA SelectBestKeeps ==
  ASSUME IdentityInv, NEW r \in Callers, NEW c \in Rows, SelectBest(r, c)
  PROVE  IdentityInv'
<1>1. advisory' = r /\ advisory' = advisory /\ UNCHANGED <<rows, told>>
  BY PastTheLock DEF SelectBest, CallAt
<1>2. PICK i, m, p : /\ i = call[r].input /\ m = Merge(rows[c].id, i)
                     /\ p = IF m = rows[c].id THEN "found" ELSE "update"
  OBVIOUS
<1>3. /\ rows[c] # NoRow /\ rows[c].id \in Descriptions
      /\ i \in Descriptions /\ IsCandidate(rows[c].id, i)
  <2>1. c \in Candidates(i)
    BY <1>2 DEF SelectBest, Best
  <2>2. i \in Descriptions
    BY <1>2 DEF IdentityInv, IdentityTypeOK
  <2>3. QED
    BY <2>1, <2>2, StoredRow DEF Candidates
<1>4. call' = [call EXCEPT ![r].row = c, ![r].loaded = rows[c].id, ![r].pc = p]
  BY <1>2 DEF SelectBest
<1>5. p \in {"found", "update"}
  BY <1>2
<1>6. /\ call' \in [Callers -> CallRow]
      /\ \A t \in Callers \ {r} : call'[t] = call[t]
  <2>1. call \in [Callers -> CallRow]
    BY DEF IdentityInv, IdentityTypeOK, CallRow
  <2>2. PICK u, v : /\ u = [call EXCEPT ![r].row = c]
                    /\ v = [u EXCEPT ![r].loaded = rows[c].id]
    OBVIOUS
  <2>3. u \in [Callers -> CallRow] /\ \A t \in Callers \ {r} : u[t] = call[t]
    BY <2>1, <2>2 DEF CallRow
  <2>4. v \in [Callers -> CallRow] /\ \A t \in Callers \ {r} : v[t] = call[t]
    BY <1>3, <2>2, <2>3 DEF CallRow
  <2>5. call' = [v EXCEPT ![r].pc = p]
    BY <1>4, <2>2
  <2>6. QED
    BY <1>5, <2>4, <2>5 DEF CallRow
<1>7. /\ call'[r].pc = p /\ call'[r].row = c
      /\ call'[r].input = i /\ call'[r].loaded = rows[c].id
  BY <1>2, <1>4 DEF IdentityInv, IdentityTypeOK
<1>8. \A f \in Fields : i[f] \subseteq m[f]
  BY <1>2, <1>3, MergeCovers
<1>9. ASSUME NEW d \in Stored, rows[d].hash = m PROVE d = c
  <2>1. rows[d].id = m
    BY <1>9, StoredRow DEF Stored
  <2>2. d \in Candidates(i)
    BY <1>2, <1>3, <2>1, MergedIsCandidate DEF Candidates
  <2>3. ~ScoresBelow(rows[d].id, rows[c].id, i)
    BY <1>2, <1>3, <2>1, MergedScoresNoLower
  <2>4. Best(i) = {c}
    BY <1>2 DEF SelectBest
  <2>5. QED
    BY <2>2, <2>3, <2>4, BestHasNoEqual
<1>10. CallKnows(r)'
  <2>1. CASE m = rows[c].id
    BY <1>1, <1>2, <1>3, <1>7, <1>8, <2>1 DEF CallKnows
  <2>2. CASE m # rows[c].id
    <3>1. NewHash(r)' = m
      BY <1>2, <1>7, <2>2 DEF NewHash, CallAt, Merged
    <3>2. ~HashTaken(r)'
      BY <1>1, <1>7, <1>9, <3>1 DEF HashTaken, Stored
    <3>3. QED
      BY <1>1, <1>2, <1>3, <1>7, <2>2, <3>2 DEF CallKnows
  <2>3. QED
    BY <2>1, <2>2
<1>11. QED
  BY <1>1, <1>5, <1>6, <1>7, <1>10, ReadKeeps

LEMMA EnrichKeeps ==
  ASSUME IdentityInv, NEW r \in Callers, Enrich(r)
  PROVE  IdentityInv'
<1>1. PICK c, i, m, old : /\ c = call[r].row /\ i = call[r].input
                          /\ m = Merged(r) /\ old = rows[c].id
  OBVIOUS
<1>2. call[r].pc = "update" /\ advisory = r
  BY PastTheLock DEF Enrich, CallAt
<1>3. /\ c \in Rows /\ rows[c] # NoRow
      /\ call[r].loaded = old /\ IsCandidate(old, i)
  BY <1>1, <1>2 DEF IdentityInv, CallKnows
<1>4. /\ old \in Descriptions /\ i \in Descriptions
      /\ rows[c] \in [id: Descriptions, hash: Descriptions]
  BY <1>1, <1>2, <1>3, StoredRow, PastTheLock
<1>5. m = Merge(old, i)
  BY <1>1, <1>3 DEF Merged
<1>6. /\ m \in Descriptions
      /\ \A f \in Fields : old[f] \subseteq m[f]
      /\ \A f \in Fields : i[f] \subseteq m[f]
  BY <1>3, <1>4, <1>5, MergeCovers
<1>7. [f \in Fields |-> IF m[f] # old[f] THEN m[f] ELSE old[f]] = m
  BY <1>6 DEF Descriptions
<1>8. rows' = [rows EXCEPT ![c] = [id |-> m, hash |-> m]]
  <2>1. rows' = [rows EXCEPT ![c] =
           [id |-> [f \in Fields |-> IF m[f] # old[f] THEN m[f] ELSE old[f]], hash |-> m]]
    BY <1>1, <1>3 DEF Enrich
  <2>2. QED
    BY <1>7, <2>1
<1>9. Answer(r, c) /\ Return(r)
  BY <1>1 DEF Enrich
<1>10. QED
  BY <1>1, <1>2, <1>3, <1>6, <1>8, <1>9, WriteKeeps

LEMMA CreateKeeps ==
  ASSUME IdentityInv, NEW r \in Callers, Create(r)
  PROVE  IdentityInv'
<1>1. PICK c : c = CHOOSE d \in Rows : rows[d] = NoRow
  OBVIOUS
<1>2. c \in Rows /\ rows[c] = NoRow
  <2>1. \E d \in Rows : rows[d] = NoRow
    BY DEF Create, Stored
  <2>2. QED
    BY <1>1, <2>1
<1>3. advisory = r /\ call[r].input \in Descriptions
  BY PastTheLock DEF Create, CallAt
<1>4. /\ rows' = [rows EXCEPT ![c] = [id |-> call[r].input, hash |-> call[r].input]]
      /\ Answer(r, c) /\ Return(r)
  BY <1>1 DEF Create
<1>5. QED
  BY <1>2, <1>3, <1>4, WriteKeeps

LEMMA MatchKeeps ==
  ASSUME IdentityInv, NEW r \in Callers, Match(r)
  PROVE  IdentityInv'
<1>1. PICK c, i : c = call[r].row /\ i = call[r].input
  OBVIOUS
<1>2. call[r].pc = "found" /\ i \in Descriptions
  BY <1>1, PastTheLock DEF Match, CallAt
<1>3. c \in Rows /\ rows[c] # NoRow /\ \A f \in Fields : i[f] \subseteq rows[c].id[f]
  BY <1>1, <1>2 DEF IdentityInv, CallKnows
<1>4. told' = [told EXCEPT ![c] = [f \in Fields |-> told[c][f] \cup i[f]]]
  BY <1>1 DEF Match, Answer
<1>5. /\ call' \in [Callers -> CallRow]
      /\ call'[r].pc = "idle" /\ \A t \in Callers \ {r} : call'[t] = call[t]
  BY ReturnTyped DEF Match
<1>6. /\ rows' = rows /\ advisory' \in Callers \cup {NoRow} /\ advisory' # r
      /\ \A t \in Callers \ {r} : advisory' = t <=> advisory = t
  BY NoRowAssumption DEF Match, Return, IdentityInv, IdentityTypeOK
<1>7. told' \in [Rows -> [Fields -> SUBSET UNION {Words[f] : f \in Fields}]]
  <2>1. [f \in Fields |-> told[c][f] \cup i[f]] \in [Fields -> SUBSET UNION {Words[f] : f \in Fields}]
    BY <1>2, <1>3, WordsOfADescription DEF IdentityInv, IdentityTypeOK
  <2>2. QED
    BY <1>4, <2>1 DEF IdentityInv, IdentityTypeOK
<1>8. IdentityTypeOK'
  BY <1>5, <1>6, <1>7 DEF IdentityInv, IdentityTypeOK, CallRow, CallAt
<1>9. HashIsIdentity'
  BY <1>6 DEF IdentityInv, HashIsIdentity
<1>10. ASSUME NEW t \in Callers PROVE CallKnows(t)'
  BY <1>5, <1>6 DEF IdentityInv, CallKnows, HashTaken, NewHash, Merged, CallAt, Stored
<1>11. /\ \A f \in Fields : told'[c][f] = told[c][f] \cup i[f]
       /\ \A d \in Rows \ {c} : told'[d] = told[d]
  BY <1>3, <1>4 DEF IdentityInv, IdentityTypeOK
<1>12. AnswersStayCovered'
  BY <1>3, <1>6, <1>11 DEF IdentityInv, AnswersStayCovered, Stored
<1>13. NothingTold'
  BY <1>3, <1>6, <1>11 DEF IdentityInv, NothingTold
<1>14. QED
  BY <1>8, <1>9, <1>10, <1>12, <1>13 DEF IdentityInv

-----------------------------------------------------------------------------
LEMMA InitIsGood == IdentityInit => IdentityInv
<1> SUFFICES ASSUME IdentityInit PROVE IdentityInv
  OBVIOUS
<1>1. \A r \in Callers : call[r] = IdleCall
  BY DEF IdentityInit
<1>2. \A r \in Callers : call[r].pc = "idle"
  BY <1>1 DEF IdleCall
<1>3. IdentityTypeOK
  <2>1. IdleCall \in CallRow
    BY NothingIsADescription DEF IdleCall, CallRow
  <2>2. Nothing \in [Fields -> SUBSET UNION {Words[f] : f \in Fields}]
    BY DEF Nothing
  <2>3. QED
    BY <1>2, <2>1, <2>2, NoRowAssumption
       DEF IdentityInit, IdentityTypeOK, CallRow, CallAt
<1>4. HashIsIdentity /\ AnswersStayCovered
  BY DEF IdentityInit, HashIsIdentity, AnswersStayCovered, Stored
<1>5. ASSUME NEW r \in Callers PROVE CallKnows(r)
  BY <1>2 DEF CallKnows
<1>6. NothingTold
  BY DEF IdentityInit, NothingTold, Nothing
<1>7. QED
  BY <1>3, <1>4, <1>5, <1>6 DEF IdentityInv

LEMMA NextKeeps == IdentityInv /\ [IdentityNext]_identityVars => IdentityInv'
<1> SUFFICES ASSUME IdentityInv, [IdentityNext]_identityVars PROVE IdentityInv'
  OBVIOUS
<1>1. ASSUME NEW r \in Callers, NEW i \in Descriptions, BeginResolve(r, i) PROVE IdentityInv'
  BY <1>1, BeginResolveKeeps
<1>2. ASSUME NEW r \in Callers, LockBaseIdentity(r) PROVE IdentityInv'
  BY <1>2, LockBaseIdentityKeeps
<1>3. ASSUME NEW r \in Callers, AbortCall(r) PROVE IdentityInv'
  BY <1>3, ReturnKeeps DEF AbortCall
<1>4. ASSUME NEW r \in Callers, ResolveProgress(r) PROVE IdentityInv'
  <2>1. CASE FindExact(r)
    BY <2>1, FindExactKeeps
  <2>2. CASE SelectNone(r)
    BY <2>2, SelectNoneKeeps
  <2>3. CASE \E c \in Rows : SelectBest(r, c)
    BY <2>3, SelectBestKeeps
  <2>4. CASE Ambiguous(r)
    BY <2>4, ReturnKeeps DEF Ambiguous
  <2>5. CASE Enrich(r)
    BY <2>5, EnrichKeeps
  <2>6. CASE Create(r)
    BY <2>6, CreateKeeps
  <2>7. CASE RowsUsedUp(r)
    BY <1>3, <2>7 DEF RowsUsedUp
  <2>8. CASE Match(r)
    BY <2>8, MatchKeeps
  <2>9. QED
    BY <1>4, <2>1, <2>2, <2>3, <2>4, <2>5, <2>6, <2>7, <2>8 DEF ResolveProgress
<1>5. CASE UNCHANGED identityVars
  <2>1. rows' = rows /\ advisory' = advisory /\ call' = call /\ told' = told
    BY <1>5 DEF identityVars
  <2>2. QED
    BY <2>1 DEF IdentityInv, IdentityTypeOK, HashIsIdentity, CallKnows, AnswersStayCovered,
                NothingTold, HashTaken, NewHash, Merged, CallAt, Stored
<1>6. QED
  BY <1>1, <1>2, <1>3, <1>4, <1>5 DEF IdentityNext

(* Of resolve_configuration: what a call has read of the rows of its base  *)
(* identity, and decided to write, is still so when it writes, because the *)
(* advisory lock is taken before the first look and kept until the end.    *)
THEOREM IdentityIsSound == IdentitySpec => []IdentityInv
<1>1. QED
  BY InitIsGood, NextKeeps, PTL DEF IdentitySpec

(* The rows, the calls and who has the advisory lock are of their types.   *)
THEOREM IdentityTyped == IdentitySpec => []IdentityTypeOK
<1>1. IdentityInv => IdentityTypeOK
  BY DEF IdentityInv
<1>2. QED
  BY <1>1, IdentityIsSound, PTL

(* The unique constraint of identity_hash is never run into: an insertion  *)
(* found no candidate, and whoever has the hash of the merged description  *)
(* is the best candidate itself, so resolve_configuration would not have   *)
(* chosen another.                                                         *)
THEOREM HashStaysFree == IdentitySpec => []HashNeverTaken
<1>1. IdentityInv => HashNeverTaken
  BY DEF IdentityInv, CallKnows, HashNeverTaken
<1>2. QED
  BY <1>1, IdentityIsSound, PTL

(* A row that resolve_configuration has answered goes on to cover what was *)
(* asked for, whoever enriches it later.                                   *)
THEOREM AnswersCovered == IdentitySpec => []AnswersStayCovered
<1>1. IdentityInv => AnswersStayCovered
  BY DEF IdentityInv
<1>2. QED
  BY <1>1, IdentityIsSound, PTL
-----------------------------------------------------------------------------
(* Requests for a VIN *)

Catalogs == [Identities -> SUBSET Configurations]

VinRequests ==
  [pc: {"idle", "existing", "cache", "provider", "match", "write"},
   op: {"decode", "save"}, vin: Vins \cup {None}, now: Nat, row: CacheRows \cup {None},
   identity: Identities \cup {None}, matches: SUBSET Configurations, observed: Nat,
   todo: SUBSET {"cache", "vehicle"}, been: SUBSET Catalogs]

VehicleTyped ==
  /\ clock \in 0..MaxClock
  /\ fits \in Catalogs
  /\ cache \in [Vins -> CacheRows \cup {None}]
  /\ lock \in [Vins -> Requests \cup {None}]
  /\ req \in [Requests -> VinRequests]

(* It has inserted its vehicle, and not committed. *)
HasInserted(q) == q.pc = "write" /\ q.op = "save" /\ "vehicle" \notin q.todo

(* What a request has, with the catalog f at the time now; its vehicle is  *)
(* inserted when its cache row is written.                                 *)
VinRequestIsRight(q, f, now, c) ==
  /\ q.pc # "idle" => q.vin \in Vins /\ f \in q.been
  /\ q.pc \in {"match", "write"} => q.identity \in Identities
  /\ q.observed <= now /\ (q.row # None => q.row.observed <= now)
  /\ q.row # None => q.vin \in Vins /\ c[q.vin] # None
  /\ q.pc = "write" => \E g \in q.been : q.matches = g[q.identity]
  /\ HasInserted(q) => "cache" \notin q.todo

(* A lock is of a request that has written the cache row. *)
HasWritten(q, v) == q.pc = "write" /\ q.vin = v /\ "cache" \notin q.todo

VehicleInv ==
  /\ VehicleTyped
  /\ \A v \in Vins : cache[v] # None => cache[v].observed <= clock
  /\ \A x \in vehicles : x.vin \in Vins /\ x.identity \in Identities
                          /\ x.configuration \in Configurations \cup {None}
  /\ \A r \in Requests : VinRequestIsRight(req[r], fits, clock, cache)
  /\ \A v \in Vins : lock[v] # None => HasWritten(req[lock[v]], v)
  /\ \A r \in Requests : HasInserted(req[r]) => ~Saved(req[r].vin)
  /\ \A r, q \in Requests :
       HasInserted(req[r]) /\ HasInserted(req[q]) /\ req[r].vin = req[q].vin => r = q
  /\ OneVehiclePerVin

(* One request moves on to q and keeps the lock it has; it may take the    *)
(* lock of its VIN.                                                        *)
LEMMA VinRequestMoves ==
  ASSUME VehicleInv, NEW r \in Requests, NEW q \in VinRequests,
         req' = [req EXCEPT ![r] = q], VinRequestIsRight(q, fits, clock, cache),
         UNCHANGED <<clock, fits, cache, vehicles>>,
         lock' \in [Vins -> Requests \cup {None}],
         \A v \in Vins : lock'[v] = lock[v] \/ lock'[v] = r,
         \A v \in Vins : lock'[v] = r => HasWritten(q, v),
         HasInserted(q) => ~Saved(q.vin),
         HasInserted(q) => \A t \in Requests : t # r /\ HasInserted(req[t]) => req[t].vin # q.vin
  PROVE  VehicleInv'
<1>1. /\ req' \in [Requests -> VinRequests] /\ req'[r] = q
      /\ \A t \in Requests : t # r => req'[t] = req[t]
  BY DEF VehicleInv, VehicleTyped
<1>2. VehicleTyped'
  BY <1>1 DEF VehicleInv, VehicleTyped
<1>3. /\ \A v \in Vins : cache'[v] # None => cache'[v].observed <= clock'
      /\ \A x \in vehicles' : x.vin \in Vins /\ x.identity \in Identities
                              /\ x.configuration \in Configurations \cup {None}
      /\ OneVehiclePerVin'
  BY DEF VehicleInv, OneVehiclePerVin
<1>4. \A t \in Requests : VinRequestIsRight(req'[t], fits', clock', cache')
  BY <1>1 DEF VehicleInv
<1>5. ASSUME NEW v \in Vins, lock'[v] # None PROVE HasWritten(req'[lock'[v]], v)
  <2>1. lock'[v] \in Requests
    BY <1>2, <1>5 DEF VehicleTyped
  <2>2. lock'[v] # r => lock'[v] = lock[v] /\ HasWritten(req[lock[v]], v)
    BY <1>5 DEF VehicleInv
  <2>3. QED
    BY <1>1, <2>1, <2>2
<1>6. ASSUME NEW t \in Requests, HasInserted(req'[t]) PROVE ~\E x \in vehicles' : x.vin = req'[t].vin
  BY <1>1, <1>6 DEF VehicleInv, Saved
<1>7. ASSUME NEW s \in Requests, NEW t \in Requests,
             HasInserted(req'[s]), HasInserted(req'[t]), req'[s].vin = req'[t].vin
      PROVE  s = t
  BY <1>1, <1>7 DEF VehicleInv
<1>8. \A t \in Requests : HasInserted(req'[t]) => ~Saved(req[t].vin)'
  BY <1>6 DEF Saved
<1>9. QED
  BY <1>2, <1>3, <1>4, <1>5, <1>7, <1>8 DEF VehicleInv

LEMMA IdleVinRequest ==
  /\ Idle \in VinRequests
  /\ ~HasInserted(Idle)
  /\ \A f, now, c : now \in Nat => VinRequestIsRight(Idle, f, now, c)
BY DEF Idle, VinRequests, HasInserted, VinRequestIsRight

(* The transaction ends: it has committed what it had, or nothing.         *)
LEMMA VinRequestLeaves ==
  ASSUME VehicleInv, NEW r \in Requests, Leave(r), UNCHANGED <<clock, fits>>,
         cache' \in [Vins -> CacheRows \cup {None}],
         \A v \in Vins : cache'[v] # None => cache'[v].observed <= clock,
         \A v \in Vins : cache[v] # None => cache'[v] # None,
         \/ vehicles' = vehicles
         \/ /\ HasInserted(req[r])
            /\ \E x : /\ vehicles' = vehicles \cup {x} /\ x.vin = req[r].vin
                      /\ x.identity \in Identities
                      /\ x.configuration \in Configurations \cup {None}
  PROVE  VehicleInv'
<1>1. /\ req' \in [Requests -> VinRequests] /\ req'[r] = Idle
      /\ \A t \in Requests : t # r => req'[t] = req[t]
  BY IdleVinRequest DEF VehicleInv, VehicleTyped, Leave
<1>2. /\ lock' \in [Vins -> Requests \cup {None}]
      /\ \A v \in Vins : lock'[v] # None => lock'[v] = lock[v] /\ lock'[v] # r
  BY DEF VehicleInv, VehicleTyped, Leave
<1>3. VehicleTyped'
  BY <1>1, <1>2 DEF VehicleInv, VehicleTyped
<1>4. HasInserted(req[r]) => req[r].vin \in Vins /\ ~Saved(req[r].vin)
  BY DEF VehicleInv, VinRequestIsRight, HasInserted
<1>5. /\ \A x \in vehicles' : x.vin \in Vins /\ x.identity \in Identities
                              /\ x.configuration \in Configurations \cup {None}
      /\ OneVehiclePerVin'
  BY <1>4 DEF VehicleInv, OneVehiclePerVin, Saved
<1>6. \A t \in Requests : VinRequestIsRight(req'[t], fits', clock', cache')
  <2>1. clock \in Nat
    BY BoundsAssumption DEF VehicleInv, VehicleTyped
  <2>2. \A t \in Requests : VinRequestIsRight(req[t], fits, clock, cache')
    BY DEF VehicleInv, VinRequestIsRight
  <2>3. QED
    BY <1>1, <2>1, <2>2, IdleVinRequest
<1>7. ASSUME NEW v \in Vins, lock'[v] # None PROVE HasWritten(req'[lock'[v]], v)
  <2>1. lock'[v] \in Requests /\ lock'[v] # r /\ lock'[v] = lock[v]
    BY <1>2, <1>7
  <2>2. HasWritten(req[lock[v]], v)
    BY <1>7, <2>1 DEF VehicleInv
  <2>3. QED
    BY <1>1, <2>1, <2>2
<1>8. ASSUME NEW t \in Requests, HasInserted(req'[t])
      PROVE  t # r /\ HasInserted(req[t]) /\ ~\E x \in vehicles' : x.vin = req'[t].vin
  <2>1. t # r /\ req'[t] = req[t]
    BY <1>1, <1>8, IdleVinRequest
  <2>2. ~Saved(req[t].vin) /\ (HasInserted(req[r]) => req[t].vin # req[r].vin)
    BY <1>8, <2>1 DEF VehicleInv
  <2>3. QED
    BY <1>8, <2>1, <2>2 DEF Saved
<1>9. ASSUME NEW s \in Requests, NEW t \in Requests,
             HasInserted(req'[s]), HasInserted(req'[t]), req'[s].vin = req'[t].vin
      PROVE  s = t
  BY <1>1, <1>8, <1>9 DEF VehicleInv
<1>10. \A t \in Requests : HasInserted(req'[t]) => ~Saved(req[t].vin)'
  BY <1>8 DEF Saved
<1>11. QED
  BY <1>3, <1>5, <1>6, <1>7, <1>9, <1>10 DEF VehicleInv
LEMMA RaiseKeeps == ASSUME VehicleInv, NEW r \in Requests, Raise(r) PROVE VehicleInv'
<1>1. /\ cache' \in [Vins -> CacheRows \cup {None}]
      /\ \A v \in Vins : cache'[v] # None => cache'[v].observed <= clock
      /\ \A v \in Vins : cache[v] # None => cache'[v] # None
  BY DEF VehicleInv, VehicleTyped, Raise
<1>2. QED
  BY <1>1, VinRequestLeaves DEF Raise

LEMMA BeginKeeps ==
  ASSUME VehicleInv, NEW r \in Requests, NEW op \in {"decode", "save"}, NEW v \in Vins,
         Begin(r, op, v)
  PROVE  VehicleInv'
<1>1. PICK q : q = [Idle EXCEPT !.op = op, !.vin = v, !.been = {fits},
                      !.pc = IF op = "save" THEN "existing" ELSE "cache"]
  OBVIOUS
<1>2. q.pc \in {"existing", "cache"} /\ q.vin = v /\ q.been = {fits} /\ q.observed = 0
      /\ q.row = None
  BY <1>1 DEF Idle
<1>3. fits \in Catalogs /\ clock \in Nat /\ lock \in [Vins -> Requests \cup {None}]
  BY BoundsAssumption DEF VehicleInv, VehicleTyped
<1>4. q \in VinRequests
  BY <1>1, <1>3 DEF Idle, VinRequests
<1>5. VinRequestIsRight(q, fits, clock, cache) /\ ~HasInserted(q)
  BY <1>2, <1>3 DEF VinRequestIsRight, HasInserted
<1>6. \A u \in Vins : lock[u] # r
  BY NobodyAssumption DEF VehicleInv, HasWritten, Begin, At
<1>7. req' = [req EXCEPT ![r] = q]
  BY <1>1 DEF Begin
<1>8. QED
  BY <1>3, <1>4, <1>5, <1>6, <1>7, VinRequestMoves DEF Begin

(* Until it writes, a request holds no lock and has inserted nothing. *)
LEMMA BeforeItWrites ==
  ASSUME VehicleInv, NEW r \in Requests, req[r].pc # "write"
  PROVE  \A v \in Vins : lock[v] # r
BY NobodyAssumption DEF VehicleInv, HasWritten

LEMMA VinRequestAdvances ==
  ASSUME VehicleInv, NEW r \in Requests, req[r].pc # "write",
         NEW q \in VinRequests, req' = [req EXCEPT ![r] = q],
         VinRequestIsRight(q, fits, clock, cache), ~HasInserted(q),
         UNCHANGED <<clock, fits, cache, vehicles, lock>>
  PROVE  VehicleInv'
<1>1. lock' \in [Vins -> Requests \cup {None}] /\ \A v \in Vins : lock'[v] # r
  BY BeforeItWrites DEF VehicleInv, VehicleTyped
<1>2. QED
  BY <1>1, VinRequestMoves

LEMMA FindExistingKeeps ==
  ASSUME VehicleInv, NEW r \in Requests, FindExisting(r) PROVE VehicleInv'
<1>1. CASE Leave(r)
  BY <1>1, RaiseKeeps DEF FindExisting, Raise
<1>2. CASE req' = [req EXCEPT ![r].pc = "cache"] /\ UNCHANGED lock
  <2>1. req[r] \in VinRequests /\ VinRequestIsRight(req[r], fits, clock, cache) /\ req[r].pc = "existing"
        /\ req \in [Requests -> VinRequests]
    BY DEF VehicleInv, VehicleTyped, FindExisting, At
  <2>2. PICK q : q = [req[r] EXCEPT !.pc = "cache"]
    OBVIOUS
  <2>3. q \in VinRequests /\ q.pc = "cache" /\ q.vin = req[r].vin /\ q.been = req[r].been
        /\ q.observed = req[r].observed /\ q.row = req[r].row
    BY <2>1, <2>2 DEF VinRequests
  <2>4. VinRequestIsRight(q, fits, clock, cache) /\ ~HasInserted(q)
    BY <2>1, <2>3 DEF VinRequestIsRight, HasInserted
  <2>5. req' = [req EXCEPT ![r] = q]
    BY <1>2, <2>1, <2>2
  <2>6. QED
    BY <1>2, <2>1, <2>3, <2>4, <2>5, VinRequestAdvances DEF FindExisting
<1>3. QED
  BY <1>1, <1>2 DEF FindExisting

LEMMA ReadCacheKeeps ==
  ASSUME VehicleInv, NEW r \in Requests, ReadCache(r) PROVE VehicleInv'
<1>1. /\ req[r] \in VinRequests /\ VinRequestIsRight(req[r], fits, clock, cache) /\ req[r].pc = "cache"
      /\ req \in [Requests -> VinRequests] /\ clock \in Nat
  BY BoundsAssumption DEF VehicleInv, VehicleTyped, ReadCache, At
<1>2. PICK v \in Vins : v = req[r].vin
  BY <1>1 DEF VinRequestIsRight
<1>3. PICK usable \in BOOLEAN : usable <=> Usable(v, clock)
  OBVIOUS
<1>4. usable => cache[v] \in CacheRows /\ cache[v].observed <= clock /\ cache[v].identity \in Identities
  BY <1>3 DEF VehicleInv, VehicleTyped, Usable, Cached, CacheRows
<1>5. PICK q : q = [req[r] EXCEPT !.now = clock, !.pc = IF usable THEN "match" ELSE "provider",
                      !.row = IF usable THEN cache[v] ELSE None,
                      !.identity = IF usable THEN cache[v].identity ELSE None]
  OBVIOUS
<1>6. /\ q \in VinRequests /\ q.pc = (IF usable THEN "match" ELSE "provider")
      /\ q.vin = v /\ q.been = req[r].been /\ q.observed = req[r].observed
      /\ q.row = (IF usable THEN cache[v] ELSE None)
      /\ q.identity = (IF usable THEN cache[v].identity ELSE None)
  BY <1>1, <1>2, <1>4, <1>5 DEF VinRequests
<1>7. VinRequestIsRight(q, fits, clock, cache) /\ ~HasInserted(q)
  BY <1>1, <1>4, <1>6 DEF VinRequestIsRight, HasInserted
<1>8. req' = [req EXCEPT ![r] = q]
  BY <1>1, <1>2, <1>3, <1>5 DEF ReadCache
<1>9. QED
  BY <1>1, <1>6, <1>7, <1>8, VinRequestAdvances DEF ReadCache

LEMMA AskProviderKeeps ==
  ASSUME VehicleInv, NEW r \in Requests, NEW i \in Identities, AskProvider(r, i)
  PROVE  VehicleInv'
<1>1. /\ req[r] \in VinRequests /\ VinRequestIsRight(req[r], fits, clock, cache)
      /\ req[r].pc = "provider" /\ req \in [Requests -> VinRequests]
  BY DEF VehicleInv, VehicleTyped, AskProvider, At
<1>2. PICK q : q = [req[r] EXCEPT !.identity = i, !.pc = "match"]
  OBVIOUS
<1>3. /\ q \in VinRequests /\ q.pc = "match" /\ q.vin = req[r].vin /\ q.been = req[r].been
      /\ q.observed = req[r].observed /\ q.row = req[r].row /\ q.identity = i
  BY <1>1, <1>2 DEF VinRequests
<1>4. VinRequestIsRight(q, fits, clock, cache) /\ ~HasInserted(q)
  BY <1>1, <1>3 DEF VinRequestIsRight, HasInserted
<1>5. req' = [req EXCEPT ![r] = q]
  BY <1>1, <1>2 DEF AskProvider
<1>6. QED
  BY <1>1, <1>3, <1>4, <1>5, VinRequestAdvances DEF AskProvider

(* The matches are those of the catalog as it is now. *)
LEMMA ResolveKeeps ==
  ASSUME VehicleInv, NEW r \in Requests, Resolve(r) PROVE VehicleInv'
<1>1. /\ req[r] \in VinRequests /\ VinRequestIsRight(req[r], fits, clock, cache)
      /\ req[r].pc = "match" /\ req \in [Requests -> VinRequests]
      /\ clock \in Nat /\ fits \in Catalogs
  BY BoundsAssumption DEF VehicleInv, VehicleTyped, Resolve, At
<1>2. PICK m \in SUBSET Configurations : m = fits[req[r].identity]
  BY <1>1 DEF VinRequestIsRight, Catalogs
<1>3. PICK at \in Nat : /\ at = IF req[r].row = None THEN clock ELSE req[r].row.observed
                        /\ at <= clock
  BY <1>1 DEF VinRequests, CacheRows, VinRequestIsRight
<1>4. PICK todo \in SUBSET {"cache", "vehicle"} :
        todo = (IF req[r].row = None \/ req[r].row.matches # m THEN {"cache"} ELSE {})
                 \cup (IF req[r].op = "save" THEN {"vehicle"} ELSE {})
  OBVIOUS
<1>5. PICK q : q = [req[r] EXCEPT !.matches = m, !.pc = "write", !.observed = at, !.todo = todo]
  OBVIOUS
<1>6. /\ q \in VinRequests /\ q.pc = "write" /\ q.vin = req[r].vin /\ q.been = req[r].been
      /\ q.observed = at /\ q.row = req[r].row /\ q.identity = req[r].identity
      /\ q.matches = m /\ q.todo = todo /\ q.op = req[r].op
  BY <1>1, <1>5 DEF VinRequests
<1>7. ~HasInserted(q)
  BY <1>4, <1>6 DEF HasInserted
<1>8. VinRequestIsRight(q, fits, clock, cache)
  BY <1>1, <1>2, <1>3, <1>6, <1>7 DEF VinRequestIsRight
<1>9. req' = [req EXCEPT ![r] = q]
  BY <1>1, <1>2, <1>3, <1>4, <1>5 DEF Resolve, MatchesNow
<1>10. QED
  BY <1>1, <1>6, <1>7, <1>8, <1>9, VinRequestAdvances DEF Resolve

(* A row is written: one thing less to do. *)
LEMMA WritesNext ==
  ASSUME VehicleInv, NEW r \in Requests, req[r].pc = "write", NEW w,
         req' = [req EXCEPT ![r].todo = @ \ {w}]
  PROVE  \E q \in VinRequests :
           /\ req' = [req EXCEPT ![r] = q]
           /\ q.pc = "write" /\ q.op = req[r].op /\ q.vin = req[r].vin
           /\ q.todo = req[r].todo \ {w}
           /\ (HasInserted(q) => "cache" \notin q.todo) => VinRequestIsRight(q, fits, clock, cache)
<1>1. /\ req[r] \in VinRequests /\ VinRequestIsRight(req[r], fits, clock, cache)
      /\ req \in [Requests -> VinRequests]
  BY DEF VehicleInv, VehicleTyped
<1>2. PICK q : q = [req[r] EXCEPT !.todo = @ \ {w}]
  OBVIOUS
<1>3. /\ q \in VinRequests /\ q.pc = "write" /\ q.vin = req[r].vin /\ q.been = req[r].been
      /\ q.observed = req[r].observed /\ q.row = req[r].row /\ q.identity = req[r].identity
      /\ q.matches = req[r].matches /\ q.todo = req[r].todo \ {w} /\ q.op = req[r].op
  BY <1>1, <1>2 DEF VinRequests
<1>4. (HasInserted(q) => "cache" \notin q.todo) => VinRequestIsRight(q, fits, clock, cache)
  BY <1>1, <1>3 DEF VinRequestIsRight
<1>5. req' = [req EXCEPT ![r] = q]
  BY <1>1, <1>2
<1>6. QED
  BY <1>3, <1>4, <1>5

LEMMA WriteCacheKeeps ==
  ASSUME VehicleInv, NEW r \in Requests, WriteCache(r) PROVE VehicleInv'
<1>1. req[r].pc = "write" /\ "cache" \in req[r].todo /\ lock[req[r].vin] = None
      /\ VinRequestIsRight(req[r], fits, clock, cache) /\ lock \in [Vins -> Requests \cup {None}]
  BY DEF WriteCache, At, VehicleInv, VehicleTyped
<1>2. PICK q \in VinRequests :
        /\ req' = [req EXCEPT ![r] = q]
        /\ q.pc = "write" /\ q.op = req[r].op /\ q.vin = req[r].vin
        /\ q.todo = req[r].todo \ {"cache"}
        /\ (HasInserted(q) => "cache" \notin q.todo) => VinRequestIsRight(q, fits, clock, cache)
  BY <1>1, WritesNext DEF WriteCache
<1>3. ~HasInserted(q)
  BY <1>1, <1>2 DEF HasInserted, VinRequestIsRight
<1>4. PICK v \in Vins : v = req[r].vin /\ lock' = [lock EXCEPT ![v] = r]
  BY <1>1 DEF VinRequestIsRight, WriteCache
<1>5. \A u \in Vins : lock[u] # r
  BY <1>1, NobodyAssumption DEF VehicleInv, HasWritten
<1>6. /\ lock' \in [Vins -> Requests \cup {None}]
      /\ \A u \in Vins : lock'[u] = lock[u] \/ lock'[u] = r
      /\ \A u \in Vins : lock'[u] = r => u = v
  BY <1>1, <1>4, <1>5
<1>7. HasWritten(q, v)
  BY <1>2, <1>4 DEF HasWritten
<1>8. VinRequestIsRight(q, fits, clock, cache) /\ UNCHANGED <<clock, fits, cache, vehicles>>
  BY <1>2, <1>3 DEF WriteCache
<1>9. QED
  BY <1>2, <1>3, <1>6, <1>7, <1>8, VinRequestMoves

(* The unique index: no row of the VIN is there, committed or not. *)
LEMMA InsertVehicleKeeps ==
  ASSUME VehicleInv, NEW r \in Requests, InsertVehicle(r) PROVE VehicleInv'
<1>1. /\ req[r].pc = "write" /\ "cache" \notin req[r].todo /\ ~Saved(req[r].vin)
      /\ Rivals(r) = {} /\ lock \in [Vins -> Requests \cup {None}]
  BY DEF InsertVehicle, At, Due, VehicleInv, VehicleTyped
<1>2. PICK q \in VinRequests :
        /\ req' = [req EXCEPT ![r] = q]
        /\ q.pc = "write" /\ q.op = req[r].op /\ q.vin = req[r].vin
        /\ q.todo = req[r].todo \ {"vehicle"}
        /\ (HasInserted(q) => "cache" \notin q.todo) => VinRequestIsRight(q, fits, clock, cache)
  BY <1>1, WritesNext DEF InsertVehicle
<1>3. \A t \in Requests : t # r /\ HasInserted(req[t]) => req[t].vin # q.vin
  BY <1>1, <1>2 DEF Rivals, Inserted, At, HasInserted
<1>4. \A v \in Vins : lock[v] = r => HasWritten(q, v)
  BY <1>1, <1>2, NobodyAssumption DEF VehicleInv, HasWritten
<1>5. VinRequestIsRight(q, fits, clock, cache)
  BY <1>1, <1>2
<1>6. QED
  BY <1>1, <1>2, <1>3, <1>4, <1>5, VinRequestMoves DEF InsertVehicle

(* What is cached and saved is what the request resolved. *)
LEMMA ConfigurationIsOne ==
  ASSUME NEW matches \in SUBSET Configurations
  PROVE  Configuration(matches) \in Configurations \cup {None}
BY FS_EmptySet DEF Configuration

LEMMA VinCommitKeeps ==
  ASSUME VehicleInv, NEW r \in Requests, Commit(r) PROVE VehicleInv'
<1>1. /\ req[r] \in VinRequests /\ VinRequestIsRight(req[r], fits, clock, cache) /\ req[r].pc = "write"
      /\ cache \in [Vins -> CacheRows \cup {None}] /\ req[r].vin \in Vins
      /\ req[r].identity \in Identities
  BY DEF VehicleInv, VehicleTyped, VinRequestIsRight, Commit, At
<1>2. cache' = cache \/ (Written(r) \in CacheRows /\ Written(r).observed <= clock
                            /\ cache' = [cache EXCEPT ![req[r].vin] = Written(r)])
  <2>1. CASE lock[req[r].vin] # r
    BY <2>1 DEF Commit
  <2>2. CASE lock[req[r].vin] = r /\ req[r].row = None
    <3>1. Written(r) \in CacheRows /\ Written(r).observed <= clock
      BY <1>1, <2>2 DEF Written, VinRequests, CacheRows, VinRequestIsRight
    <3>2. QED
      BY <2>2, <3>1 DEF Commit
  <2>3. CASE lock[req[r].vin] = r /\ req[r].row # None
    <3>1. cache[req[r].vin] # None
      BY <2>3 DEF VehicleInv, VinRequestIsRight
    <3>2. cache[req[r].vin] \in CacheRows /\ cache[req[r].vin].observed <= clock
      BY <1>1, <3>1 DEF VehicleInv
    <3>3. Written(r) \in CacheRows /\ Written(r).observed <= clock
      BY <1>1, <2>3, <3>2 DEF Written, VinRequests, CacheRows
    <3>4. QED
      BY <2>3, <3>3 DEF Commit
  <2>4. QED
    BY <2>1, <2>2, <2>3
<1>3. /\ cache' \in [Vins -> CacheRows \cup {None}]
      /\ \A v \in Vins : cache'[v] # None => cache'[v].observed <= clock
      /\ \A v \in Vins : cache[v] # None => cache'[v] # None
  BY <1>1, <1>2, NobodyAssumption DEF VehicleInv
<1>4. CASE ~Inserted(r)
  <2>1. vehicles' = vehicles
    BY <1>4 DEF Commit
  <2>2. QED
    BY <1>3, <2>1, VinRequestLeaves DEF Commit
<1>5. CASE Inserted(r)
  <2>1. HasInserted(req[r])
    BY <1>5 DEF Inserted, At, HasInserted
  <2>2. PICK c : c = Configuration(req[r].matches)
    OBVIOUS
  <2>3. c \in Configurations \cup {None}
    BY <1>1, <2>2, ConfigurationIsOne DEF VinRequests
  <2>4. PICK x : x = [vin |-> req[r].vin, identity |-> req[r].identity, by |-> r,
                      configuration |-> c]
    OBVIOUS
  <2>5. vehicles' = vehicles \cup {x}
    BY <1>5, <2>2, <2>4 DEF Commit
  <2>6. /\ x.vin = req[r].vin /\ x.identity \in Identities
        /\ x.configuration \in Configurations \cup {None}
    BY <1>1, <2>3, <2>4
  <2>7. QED
    BY <1>3, <2>1, <2>5, <2>6, VinRequestLeaves DEF Commit
<1>6. QED
  BY <1>4, <1>5

(* Every request under way has seen the catalog as it becomes. *)
LEMMA CatalogChangeKeeps ==
  ASSUME VehicleInv, NEW i \in Identities, NEW x \in Configurations, CatalogChange(i, x)
  PROVE  VehicleInv'
<1>1. req \in [Requests -> VinRequests] /\ fits \in Catalogs
      /\ UNCHANGED <<clock, cache, vehicles, lock>>
  BY DEF VehicleInv, VehicleTyped, CatalogChange
<1>2. PICK f : f = [fits EXCEPT ![i] = IF x \in @ THEN @ \ {x} ELSE @ \cup {x}]
  OBVIOUS
<1>3. f \in Catalogs /\ fits' = f
  BY <1>1, <1>2 DEF Catalogs, CatalogChange
<1>4. ASSUME NEW r \in Requests
      PROVE  /\ req'[r] \in VinRequests
             /\ VinRequestIsRight(req'[r], f, clock, cache)
             /\ req'[r].pc = req[r].pc /\ req'[r].op = req[r].op /\ req'[r].vin = req[r].vin
             /\ req'[r].todo = req[r].todo
  <2>1. req[r] \in VinRequests /\ VinRequestIsRight(req[r], fits, clock, cache)
    BY <1>1 DEF VehicleInv
  <2>2. CASE req[r].pc = "idle"
    <3>1. req'[r] = req[r]
      BY <2>2 DEF CatalogChange, At
    <3>2. QED
      BY <2>1, <2>2, <3>1 DEF VinRequestIsRight
  <2>3. CASE req[r].pc # "idle"
    <3>1. PICK q : q = [req[r] EXCEPT !.been = @ \cup {f}]
      OBVIOUS
    <3>2. req'[r] = q
      BY <1>3, <2>3, <3>1 DEF CatalogChange, At
    <3>3. /\ q \in VinRequests /\ q.pc = req[r].pc /\ q.op = req[r].op /\ q.vin = req[r].vin
          /\ q.row = req[r].row /\ q.identity = req[r].identity /\ q.matches = req[r].matches
          /\ q.observed = req[r].observed /\ q.todo = req[r].todo
          /\ q.been = req[r].been \cup {f}
      BY <1>3, <2>1, <3>1 DEF VinRequests
    <3>4. VinRequestIsRight(q, f, clock, cache)
      BY <2>1, <3>3 DEF VinRequestIsRight, HasInserted
    <3>5. QED
      BY <3>2, <3>3, <3>4
  <2>4. QED
    BY <2>2, <2>3
<1>5. VehicleTyped'
  <2>1. req' \in [Requests -> VinRequests]
    <3>1. req' = [r \in Requests |-> req'[r]]
      BY DEF CatalogChange
    <3>2. QED
      BY <1>4, <3>1
  <2>2. QED
    BY <1>1, <1>3, <2>1 DEF VehicleInv, VehicleTyped
<1>6. \A r \in Requests : HasInserted(req'[r]) <=> HasInserted(req[r])
  BY <1>4 DEF HasInserted
<1>7. ASSUME NEW v \in Vins, lock[v] # None PROVE HasWritten(req'[lock[v]], v)
  <2>1. lock[v] \in Requests /\ HasWritten(req[lock[v]], v)
    BY <1>7 DEF VehicleInv, VehicleTyped
  <2>2. QED
    BY <1>4, <2>1 DEF HasWritten
<1>8. \A r \in Requests : VinRequestIsRight(req'[r], fits', clock', cache')
  BY <1>1, <1>3, <1>4
<1>9. \A r \in Requests : HasInserted(req'[r]) => ~Saved(req[r].vin)'
  BY <1>1, <1>4, <1>6 DEF VehicleInv, Saved
<1>10. ASSUME NEW r \in Requests, NEW q \in Requests,
              HasInserted(req'[r]), HasInserted(req'[q]), req'[r].vin = req'[q].vin
       PROVE  r = q
  BY <1>4, <1>6, <1>10 DEF VehicleInv
<1>11. OneVehiclePerVin' /\ (\A v \in Vins : cache'[v] # None => cache'[v].observed <= clock')
       /\ \A y \in vehicles' : y.vin \in Vins /\ y.identity \in Identities
                               /\ y.configuration \in Configurations \cup {None}
  BY <1>1 DEF VehicleInv, OneVehiclePerVin
<1>12. \A v \in Vins : lock'[v] # None => HasWritten(req'[lock'[v]], v)
  BY <1>1, <1>7
<1>13. QED
  BY <1>5, <1>8, <1>9, <1>10, <1>11, <1>12 DEF VehicleInv

LEMMA ClockKeeps == ASSUME VehicleInv, Tick PROVE VehicleInv'
<1>1. clock' = clock + 1 /\ clock' \in 0..MaxClock /\ clock \in Nat
      /\ UNCHANGED <<fits, cache, vehicles, lock, req>>
  BY BoundsAssumption DEF VehicleInv, VehicleTyped, Tick
<1>2. PICK now \in Nat : now = clock + 1
  BY <1>1
<1>3. ASSUME NEW r \in Requests PROVE VinRequestIsRight(req[r], fits, now, cache)
  <2>1. req[r] \in VinRequests /\ VinRequestIsRight(req[r], fits, clock, cache)
    BY DEF VehicleInv, VehicleTyped
  <2>2. req[r].observed \in Nat /\ (req[r].row # None => req[r].row.observed \in Nat)
    BY <2>1 DEF VinRequests, CacheRows
  <2>3. req[r].observed <= now /\ (req[r].row # None => req[r].row.observed <= now)
    BY <1>1, <1>2, <2>1, <2>2 DEF VinRequestIsRight
  <2>4. QED
    BY <2>1, <2>3 DEF VinRequestIsRight
<1>4. \A r \in Requests : VinRequestIsRight(req'[r], fits', clock', cache')
  BY <1>1, <1>2, <1>3
<1>5. \A v \in Vins : cache'[v] # None => cache'[v].observed <= clock'
  <2>1. \A v \in Vins : cache[v] # None => cache[v].observed \in Nat /\ cache[v].observed <= clock
    BY DEF VehicleInv, VehicleTyped, CacheRows
  <2>2. QED
    BY <1>1, <2>1
<1>6. VehicleTyped'
  BY <1>1 DEF VehicleInv, VehicleTyped
<1>7. OneVehiclePerVin'
  BY <1>1 DEF VehicleInv, OneVehiclePerVin
<1>8. QED
  BY <1>1, <1>4, <1>5, <1>6, <1>7 DEF VehicleInv, Saved

LEMMA VehicleStep == VehicleInv /\ [Next]_vars => VehicleInv'
<1> SUFFICES ASSUME VehicleInv, [Next]_vars PROVE VehicleInv'
  OBVIOUS
<1>1. ASSUME UNCHANGED vars PROVE VehicleInv'
  BY <1>1 DEF vars, VehicleInv, VehicleTyped, Saved, OneVehiclePerVin
<1>2. ASSUME Tick PROVE VehicleInv'
  BY <1>2, ClockKeeps
<1>3. ASSUME NEW i \in Identities, NEW x \in Configurations, CatalogChange(i, x)
      PROVE  VehicleInv'
  BY <1>3, CatalogChangeKeeps
<1>4. ASSUME NEW r \in Requests, NEW op \in {"decode", "save"}, NEW v \in Vins, Begin(r, op, v)
      PROVE  VehicleInv'
  BY <1>4, BeginKeeps
<1>5. ASSUME NEW r \in Requests, Progress(r) \/ Waiting(r) \/ Abort(r) PROVE VehicleInv'
  BY <1>5, FindExistingKeeps, ReadCacheKeeps, AskProviderKeeps, ResolveKeeps, VinCommitKeeps,
     WriteCacheKeeps, InsertVehicleKeeps, RaiseKeeps DEF Progress, Waiting, VinExists, Abort
<1>6. QED
  BY <1>1, <1>2, <1>3, <1>4, <1>5 DEF Next

LEMMA VehicleStart == Init => VehicleInv
<1> SUFFICES ASSUME Init PROVE VehicleInv
  OBVIOUS
<1>1. /\ clock = 0 /\ vehicles = {} /\ fits \in Catalogs
      /\ \A v \in Vins : cache[v] = None /\ lock[v] = None
      /\ \A r \in Requests : req[r] = Idle
  BY DEF Init, Catalogs
<1>2. VehicleTyped
  BY <1>1, IdleVinRequest, BoundsAssumption DEF Init, VehicleTyped
<1>3. \A r \in Requests : VinRequestIsRight(req[r], fits, clock, cache) /\ ~HasInserted(req[r])
  BY <1>1, IdleVinRequest
<1>4. QED
  BY <1>1, <1>2, <1>3 DEF VehicleInv, OneVehiclePerVin, Saved

THEOREM VehicleInvariant == Spec => []VehicleInv
BY VehicleStart, VehicleStep, PTL DEF Spec

(* The cache, the saved vehicles and the requests are of their types, and  *)
(* a lock on a cache row is of a request that is writing it.               *)
THEOREM VehicleAlwaysTyped == Spec => []VehicleTypeOK
<1>1. VehicleInv => VehicleTypeOK
  <2> SUFFICES ASSUME VehicleInv PROVE VehicleTypeOK
    OBVIOUS
  <2>1. clock \in Nat
    BY BoundsAssumption DEF VehicleInv, VehicleTyped
  <2>2. ASSUME NEW v \in Vins
        PROVE  cache[v] \in [identity: Identities, matches: SUBSET Configurations,
                             observed: 0..clock] \cup {None}
    <3>1. cache[v] # None => cache[v] \in CacheRows /\ cache[v].observed <= clock
      BY DEF VehicleInv, VehicleTyped
    <3>2. QED
      BY <2>1, <3>1 DEF CacheRows
  <2>3. cache \in [Vins -> [identity: Identities, matches: SUBSET Configurations,
                            observed: 0..clock] \cup {None}]
    BY <2>2 DEF VehicleInv, VehicleTyped
  <2>4. \A v \in Vins : lock[v] # None => At(lock[v], "write") /\ req[lock[v]].vin = v
    BY DEF VehicleInv, HasWritten, At
  <2>5. \A r \in Requests : req[r].todo \subseteq {"cache", "vehicle"}
    BY DEF VehicleInv, VehicleTyped, VinRequests
  <2>6. QED
    BY <2>3, <2>4, <2>5 DEF VehicleInv, VehicleTyped, Catalogs, VehicleTypeOK
<1>2. QED
  BY <1>1, VehicleInvariant, PTL

(* A VIN is saved once, with matches its identity had during the request.  *)
THEOREM SavedVinsAreRight == Spec => []SavedVinIsRight
<1>1. VehicleInv => SavedVinIsRight
  BY DEF VehicleInv, VinRequestIsRight, SavedVinIsRight, MatchesBelongToIdentity, At
<1>2. QED
  BY <1>1, VehicleInvariant, PTL

(* The cache row is locked before the vehicle's: who has inserted a        *)
(* vehicle waits for nobody, and neither does, where nobody has, who is    *)
(* done with the cache.                                                    *)
THEOREM NobodyEverWaitsInACircle == Spec => []NobodyWaitsInACircle
<1>1. VehicleInv => NobodyWaitsInACircle
  <2> SUFFICES ASSUME VehicleInv, NEW W \in (SUBSET Requests) \ {{}}
               PROVE  \E r \in W : \A q \in W \ {r} : ~WaitsFor(r, q)
    BY DEF NobodyWaitsInACircle
  <2>1. \A t \in Requests : req[t] \in VinRequests /\ VinRequestIsRight(req[t], fits, clock, cache)
    BY DEF VehicleInv, VehicleTyped
  <2>2. \A t \in Requests : Inserted(t) <=> HasInserted(req[t])
    BY DEF Inserted, HasInserted, At
  <2>3. ASSUME NEW s \in Requests, NEW t \in Requests, WaitsFor(s, t), Due(s) = "cache"
        PROVE  /\ "cache" \in req[s].todo /\ ~HasInserted(req[s])
               /\ "cache" \notin req[t].todo /\ req[t].vin = req[s].vin /\ lock[req[s].vin] = t
    <3>1. "cache" \in req[s].todo /\ req[s].vin \in Vins /\ lock[req[s].vin] = t
      BY <2>1, <2>3 DEF WaitsFor, Due, At, VinRequestIsRight
    <3>2. HasWritten(req[t], req[s].vin)
      BY <3>1, NobodyAssumption DEF VehicleInv
    <3>3. QED
      BY <2>1, <3>1, <3>2 DEF HasWritten, VinRequestIsRight
  <2>4. ASSUME NEW s \in Requests, NEW t \in Requests, WaitsFor(s, t), Due(s) # "cache"
        PROVE  "vehicle" \in req[s].todo /\ HasInserted(req[t])
    <3>1. "cache" \notin req[s].todo /\ req[s].todo # {} /\ t \in Rivals(s)
      BY <2>4 DEF WaitsFor, Due
    <3>2. req[s].todo \in SUBSET {"cache", "vehicle"}
      BY <2>1 DEF VinRequests
    <3>3. QED
      BY <2>2, <3>1, <3>2 DEF Rivals
  <2>5. CASE \E r \in W : HasInserted(req[r])
    BY <2>3, <2>4, <2>5 DEF HasInserted
  <2>6. CASE ~(\E r \in W : HasInserted(req[r])) /\ \E r \in W : "cache" \notin req[r].todo
    BY <2>3, <2>4, <2>6
  <2>7. CASE ~(\E r \in W : HasInserted(req[r])) /\ ~\E r \in W : "cache" \notin req[r].todo
    <3>1. PICK r \in W : TRUE
      OBVIOUS
    <3>2. QED
      BY <2>3, <2>4, <2>7, <3>1
  <2>8. QED
    BY <2>5, <2>6, <2>7
<1>2. QED
  BY <1>1, VehicleInvariant, PTL

-----------------------------------------------------------------------------
(* The requests of AuthSessions.                                          *)

(* A request that has drawn a token and inserted its rows, and has not     *)
(* committed them.                                                         *)
Drawing(h)     == h.op \in Attempts /\ h.pc \in {"clear", "clearing", "flushed"}
Registering(h) == h.op = "register" /\ Drawing(h)
WithToken(h)   == h.op \notin Attempts /\ h.pc # "idle"

(* What is so of a request, given the users, the tokens and who has them   *)
(* locked: it is where one of its kind may be, its connections are those   *)
(* of that place, what it has drawn is nobody's, and a sign-out that is    *)
(* about to commit has the lock or nothing left to do.                     *)
HandlerIsRight(h, r, U, T, L) ==
  /\ h.pc \in {"idle", "resolve", "update"} => h.op \notin Attempts
  /\ h.pc \in {"limit", "counting", "verify", "clear", "clearing"} => h.op \in Attempts
  /\ h.conns = 0 <=> h.pc \in {"idle", "connect", "committed"}
  /\ h.op \in Attempts /\ h.pc # "committed" => h.id \in Identifiers
  /\ h.op = "register" /\ h.pc # "committed" => h.account \in Accounts
  /\ Drawing(h) => h.token \in Tokens /\ T[h.token] = Nil
  /\ Registering(h) => \A a \in U : ~Overlap(a, h.account)
  /\ WithToken(h) => h.token \in Tokens /\ T[h.token] # Nil
  /\ h.late => WithToken(h) /\ T[h.token].revoked
  /\ h.op = "use" /\ h.late => h.pc \notin {"update", "flushed", "committed"}
  /\ h.op = "logout" /\ h.pc = "flushed" => T[h.token].revoked \/ L[h.token] = r
  /\ h.op = "logout" /\ h.pc = "committed" => T[h.token].revoked

(* Of two requests: they have drawn different tokens, and register         *)
(* different people.                                                       *)
Apart(h, g) ==
  /\ Drawing(h) /\ Drawing(g) => h.token # g.token
  /\ Registering(h) /\ Registering(g) => ~Overlap(h.account, g.account)

CountersAreRight ==
  /\ limit \in [RateKeys -> CounterRow \cup {Nil}]
  /\ passed \in [RateKeys -> Nat]
  /\ AttemptsAreCounted

HandlersAreTyped ==
  /\ time \in 0..MaxTime
  /\ users \subseteq Accounts
  /\ token \in [Tokens -> TokenRow \cup {Nil}]
  /\ row \in [Tokens -> Handlers \cup {Nil}]
  /\ handler \in [Handlers -> HandlerRow]
  /\ loggedOut \subseteq Tokens

(* No rollback leaves a row locked. *)
LocksAreHeld ==
  \A t \in Tokens : row[t] # Nil =>
    handler[row[t]].pc = "flushed" /\ handler[row[t]].token = t

HandlersAreRight ==
  /\ HandlersAreTyped
  /\ OneAccountPerIdentity
  /\ \A t \in loggedOut : token[t] # Nil /\ token[t].revoked
  /\ \A r \in Handlers : HandlerIsRight(handler[r], r, users, token, row)
  /\ \A r, q \in Handlers : r # q => Apart(handler[r], handler[q])
  /\ LocksAreHeld

AuthInv == CountersAreRight /\ HandlersAreRight

-----------------------------------------------------------------------------
LEMMA AuthInitIsRight == AuthInit => AuthInv
<1> SUFFICES ASSUME AuthInit PROVE AuthInv
  OBVIOUS
<1>1. CountersAreRight
  BY SizeAssumption DEF AuthInit, CountersAreRight, AttemptsAreCounted
<1>2. Resting \in HandlerRow
  BY DEF Resting, HandlerRow, Ops
<1>3. HandlersAreTyped
  BY <1>2, SizeAssumption DEF AuthInit, HandlersAreTyped
<1>4. OneAccountPerIdentity
  BY DEF AuthInit, OneAccountPerIdentity
<1>5. \A r \in Handlers : HandlerIsRight(handler[r], r, users, token, row)
  BY DEF AuthInit, HandlerIsRight, Drawing, Registering, WithToken, Resting, Attempts
<1>6. \A r, q \in Handlers : r # q => Apart(handler[r], handler[q])
  BY DEF AuthInit, Apart, Drawing, Registering, Resting
<1>7. QED
  BY <1>1, <1>3, <1>4, <1>5, <1>6
     DEF AuthInv, HandlersAreRight, LocksAreHeld, AuthInit

(* One request goes on, and takes or gives back no locks but its own.      *)
LEMMA HandlerMoves ==
  ASSUME HandlersAreRight, NEW r \in Handlers, NEW h \in HandlerRow,
         handler' = [handler EXCEPT ![r] = h],
         row' \in [Tokens -> Handlers \cup {Nil}],
         \A t \in Tokens : row'[t] = row[t] \/ (row[t] \in {r, Nil} /\ row'[t] \in {r, Nil}),
         \A t \in Tokens : row'[t] = r => h.pc = "flushed" /\ h.token = t,
         HandlerIsRight(h, r, users, token, row'),
         \A q \in Handlers \ {r} : Apart(h, handler[q]),
         UNCHANGED <<time, users, token>>,
         loggedOut' \subseteq Tokens,
         \A t \in loggedOut' : token[t] # Nil /\ token[t].revoked
  PROVE  HandlersAreRight'
<1>1. HandlersAreTyped'
  BY DEF HandlersAreRight, HandlersAreTyped
<1>2. \A q \in Handlers \ {r} : handler'[q] = handler[q]
  BY DEF HandlersAreRight, HandlersAreTyped
<1>3. handler'[r] = h
  BY DEF HandlersAreRight, HandlersAreTyped
<1>4. ASSUME NEW q \in Handlers
      PROVE  HandlerIsRight(handler'[q], q, users', token', row')
  <2>1. CASE q = r
    BY <1>3, <2>1
  <2>2. CASE q # r
    <3>1. HandlerIsRight(handler[q], q, users, token, row) /\ handler[q] \in HandlerRow
      BY DEF HandlersAreRight, HandlersAreTyped
    <3>2. \A t \in Tokens : row[t] = q => row'[t] = q
      BY <2>2, NilAssumption
    <3>3. HandlerIsRight(handler[q], q, users, token, row')
      BY <3>1, <3>2 DEF HandlerIsRight, WithToken, Attempts
    <3>4. QED
      BY <1>2, <2>2, <3>3
  <2>3. QED
    BY <2>1, <2>2
<1>5. ASSUME NEW p \in Handlers, NEW q \in Handlers, p # q
      PROVE  Apart(handler'[p], handler'[q])
  <2>1. Apart(handler[p], handler[q])
    BY <1>5 DEF HandlersAreRight
  <2>2. CASE p = r
    BY <1>2, <1>3, <1>5, <2>2
  <2>3. CASE q = r
    <3>1. Apart(h, handler[p])
      BY <1>5, <2>3
    <3>2. Apart(handler[p], h)
      BY <3>1 DEF Apart, Overlap
    <3>3. QED
      BY <1>2, <1>3, <1>5, <2>3, <3>2
  <2>4. QED
    BY <1>2, <2>1, <2>2, <2>3
<1>6. LocksAreHeld'
  <2> SUFFICES ASSUME NEW t \in Tokens, row'[t] # Nil
               PROVE  handler'[row'[t]].pc = "flushed" /\ handler'[row'[t]].token = t
    BY DEF LocksAreHeld
  <2>1. CASE row'[t] = r
    BY <1>3, <2>1
  <2>2. CASE row'[t] # r
    <3>1. row'[t] = row[t] /\ row[t] \in Handlers \ {r}
      BY <2>2
    <3>2. QED
      BY <1>2, <3>1 DEF HandlersAreRight, LocksAreHeld
  <2>3. QED
    BY <2>1, <2>2
<1>7. OneAccountPerIdentity'
  BY DEF HandlersAreRight, OneAccountPerIdentity
<1>8. \A t \in loggedOut' : token'[t] # Nil /\ token'[t].revoked
  OBVIOUS
<1>9. QED
  BY <1>1, <1>4, <1>5, <1>6, <1>7, <1>8 DEF HandlersAreRight

(* A request goes on, and touches neither locks nor what is answered.      *)
LEMMA HandlerSteps ==
  ASSUME HandlersAreRight, NEW r \in Handlers, NEW h \in HandlerRow,
         handler' = [handler EXCEPT ![r] = h],
         ~ReqAt(r, "flushed"),
         HandlerIsRight(h, r, users, token, row),
         \A q \in Handlers \ {r} : Apart(h, handler[q]),
         UNCHANGED <<time, users, token, row, loggedOut>>
  PROVE  HandlersAreRight'
<1>1. \A t \in Tokens : row[t] # r
  BY NilAssumption DEF HandlersAreRight, LocksAreHeld, ReqAt
<1>2. /\ row' \in [Tokens -> Handlers \cup {Nil}] /\ loggedOut' \subseteq Tokens
      /\ \A t \in loggedOut' : token[t] # Nil /\ token[t].revoked
  BY DEF HandlersAreRight, HandlersAreTyped
<1>3. /\ \A t \in Tokens : row'[t] = row[t] \/ (row[t] \in {r, Nil} /\ row'[t] \in {r, Nil})
      /\ \A t \in Tokens : row'[t] = r => h.pc = "flushed" /\ h.token = t
      /\ HandlerIsRight(h, r, users, token, row')
  BY <1>1
<1>4. QED
  BY <1>2, <1>3, HandlerMoves

(* What is not drawing is apart from all others. *)
LEMMA NotDrawing ==
  ASSUME NEW h, ~Drawing(h), NEW g
  PROVE  Apart(h, g) /\ Apart(g, h)
BY DEF Apart, Registering

LEMMA ErrorKeeps ==
  ASSUME HandlersAreRight, NEW r \in Handlers, RaiseError(r)
  PROVE  HandlersAreRight'
<1>1. /\ Resting \in HandlerRow
      /\ HandlerIsRight(Resting, r, users, token, row')
  BY DEF Resting, HandlerRow, Ops, HandlerIsRight, Drawing, Registering, WithToken, Attempts
<1>2. \A q \in Handlers \ {r} : Apart(Resting, handler[q])
  BY NotDrawing DEF Resting, Drawing
<1>3. /\ row' \in [Tokens -> Handlers \cup {Nil}]
      /\ \A t \in Tokens : row'[t] = row[t] \/ (row[t] = r /\ row'[t] = Nil)
      /\ \A t \in Tokens : row'[t] # r
  BY NilAssumption DEF RaiseError, HandlersAreRight, HandlersAreTyped
<1>4. /\ loggedOut' \subseteq Tokens
      /\ \A t \in loggedOut' : token[t] # Nil /\ token[t].revoked
      /\ UNCHANGED <<time, users, token>> /\ handler' = [handler EXCEPT ![r] = Resting]
  BY DEF RaiseError, HandlersAreRight, HandlersAreTyped
<1>5. QED
  BY <1>1, <1>2, <1>3, <1>4, HandlerMoves

LEMMA BeginLoginKeeps ==
  ASSUME HandlersAreRight, NEW r \in Handlers, NEW a \in Accounts, NEW id \in Identifiers,
         NEW right \in BOOLEAN, BeginLogin(r, a, id, right)
  PROVE  HandlersAreRight'
<1>1. PICK h : h = [Resting EXCEPT !.pc = "connect", !.op = "login",
                                   !.account = a, !.id = id, !.right = right]
  OBVIOUS
<1>2. h \in HandlerRow /\ ~Drawing(h)
  BY <1>1 DEF Resting, HandlerRow, Ops, Attempts, Drawing
<1>3. HandlerIsRight(h, r, users, token, row)
  BY <1>1 DEF Resting, HandlerIsRight, Drawing, Registering, WithToken, Attempts
<1>4. QED
  BY <1>1, <1>2, <1>3, NotDrawing, HandlerSteps DEF BeginLogin, ReqAt

LEMMA BeginRegisterKeeps ==
  ASSUME HandlersAreRight, NEW r \in Handlers, NEW a \in Accounts, BeginRegister(r, a)
  PROVE  HandlersAreRight'
<1>1. PICK h : h = [Resting EXCEPT !.pc = "connect", !.op = "register",
                                   !.account = a, !.id = a.email]
  OBVIOUS
<1>2. h \in HandlerRow /\ ~Drawing(h) /\ h.id \in Identifiers
  BY <1>1 DEF Resting, HandlerRow, Ops, Attempts, Drawing, Identifiers, Emails
<1>3. HandlerIsRight(h, r, users, token, row)
  BY <1>1, <1>2 DEF Resting, HandlerIsRight, Drawing, Registering, WithToken, Attempts
<1>4. QED
  BY <1>1, <1>2, <1>3, NotDrawing, HandlerSteps DEF BeginRegister, ReqAt

LEMMA BeginWithTokenKeeps ==
  ASSUME HandlersAreRight, NEW r \in Handlers, NEW op \in {"use", "logout"},
         NEW t \in Tokens, BeginWithToken(r, op, t)
  PROVE  HandlersAreRight'
<1>0. (t \in loggedOut) \in BOOLEAN
  BY SMT
<1>1. PICK late \in BOOLEAN : late = (t \in loggedOut)
  BY <1>0
<1>2. PICK h : h = [Resting EXCEPT !.pc = "connect", !.op = op, !.token = t, !.late = late]
  OBVIOUS
<1>3. h \in HandlerRow /\ ~Drawing(h)
  BY <1>2 DEF Resting, HandlerRow, Ops, Attempts, Drawing
<1>4. late => token[t].revoked
  BY <1>1 DEF HandlersAreRight
<1>5. HandlerIsRight(h, r, users, token, row)
  BY <1>2, <1>4 DEF Resting, HandlerIsRight, Drawing, Registering, WithToken, Attempts,
                    BeginWithToken
<1>6. QED
  BY <1>1, <1>2, <1>3, <1>5, NotDrawing, HandlerSteps DEF BeginWithToken, ReqAt

LEMMA ConnectKeeps ==
  ASSUME HandlersAreRight, NEW r \in Handlers, Connect(r)
  PROVE  HandlersAreRight'
<1>1. /\ handler[r] \in HandlerRow /\ HandlerIsRight(handler[r], r, users, token, row)
      /\ handler[r].pc = "connect" /\ time \in Nat
  BY SizeAssumption DEF HandlersAreRight, HandlersAreTyped, Connect, ReqAt
<1>2. PICK pc \in {"limit", "resolve"} :
        pc = IF handler[r].op \in Attempts THEN "limit" ELSE "resolve"
  OBVIOUS
<1>3. PICK h : h = [handler[r] EXCEPT !.conns = 1, !.now = time, !.pc = pc]
  OBVIOUS
<1>4. /\ h \in HandlerRow /\ h.pc = pc /\ h.op = handler[r].op /\ h.conns = 1
      /\ h.id = handler[r].id /\ h.account = handler[r].account
      /\ h.token = handler[r].token /\ h.late = handler[r].late
  BY <1>1, <1>3 DEF HandlerRow
<1>5. HandlerIsRight(h, r, users, token, row)
  BY <1>1, <1>2, <1>4 DEF HandlerIsRight, Drawing, Registering, WithToken
<1>6. \A q \in Handlers \ {r} : Apart(h, handler[q])
  BY <1>4, NotDrawing DEF Drawing
<1>7. handler' = [handler EXCEPT ![r] = h]
  BY <1>2, <1>3 DEF Connect
<1>8. QED
  BY <1>1, <1>4, <1>5, <1>6, <1>7, HandlerSteps DEF Connect, ReqAt

LEMMA ConnectAgainKeeps ==
  ASSUME HandlersAreRight, NEW r \in Handlers, ConnectAgain(r)
  PROVE  HandlersAreRight'
<1>1. /\ handler[r] \in HandlerRow /\ HandlerIsRight(handler[r], r, users, token, row)
      /\ handler[r].pc \in {"limit", "clear"}
      /\ \A q \in Handlers \ {r} : Apart(handler[r], handler[q])
  BY DEF HandlersAreRight, HandlersAreTyped, ConnectAgain
<1>2. PICK pc \in {"counting", "clearing"} :
        pc = IF handler[r].pc = "limit" THEN "counting" ELSE "clearing"
  OBVIOUS
<1>3. PICK h : h = [handler[r] EXCEPT !.conns = 2, !.pc = pc]
  OBVIOUS
<1>4. /\ h \in HandlerRow /\ h.pc = pc /\ h.op = handler[r].op /\ h.conns = 2
      /\ h.id = handler[r].id /\ h.account = handler[r].account
      /\ h.token = handler[r].token /\ h.late = handler[r].late
  BY <1>1, <1>3 DEF HandlerRow
<1>5. Drawing(h) <=> Drawing(handler[r])
  BY <1>1, <1>2, <1>4 DEF Drawing
<1>6. HandlerIsRight(h, r, users, token, row)
  BY <1>1, <1>2, <1>4, <1>5 DEF HandlerIsRight, Registering, WithToken
<1>7. \A q \in Handlers \ {r} : Apart(h, handler[q])
  BY <1>1, <1>4, <1>5 DEF Apart, Registering
<1>8. handler' = [handler EXCEPT ![r] = h]
  BY <1>2, <1>3 DEF ConnectAgain, ReqAt
<1>9. QED
  BY <1>1, <1>4, <1>6, <1>7, <1>8, HandlerSteps DEF ConnectAgain, ReqAt

(* An attempt is counted: the request is over, or goes on to its password. *)
LEMMA ConsumeRateLimitKeepsHandlers ==
  ASSUME HandlersAreRight, NEW r \in Handlers, ConsumeRateLimit(r)
  PROVE  HandlersAreRight'
<1>1. /\ handler[r] \in HandlerRow /\ HandlerIsRight(handler[r], r, users, token, row)
      /\ handler[r].pc = "counting" /\ UNCHANGED <<time, users, token, row, loggedOut>>
  BY DEF HandlersAreRight, HandlersAreTyped, ConsumeRateLimit, ReqAt
<1>2. CASE handler' = [handler EXCEPT ![r] = Resting]
  <2>1. /\ Resting \in HandlerRow
        /\ HandlerIsRight(Resting, r, users, token, row)
    BY DEF Resting, HandlerRow, Ops, HandlerIsRight, Drawing, Registering, WithToken, Attempts
  <2>2. \A q \in Handlers \ {r} : Apart(Resting, handler[q])
    BY NotDrawing DEF Resting, Drawing
  <2>3. QED
    BY <1>1, <1>2, <2>1, <2>2, HandlerSteps DEF ReqAt
<1>3. CASE handler' = [handler EXCEPT ![r].conns = 1, ![r].pc = "verify", ![r].now = 0]
  <2>1. PICK h : h = [handler[r] EXCEPT !.conns = 1, !.pc = "verify", !.now = 0]
    OBVIOUS
  <2>2. /\ h \in HandlerRow /\ h.pc = "verify" /\ h.op = handler[r].op /\ h.conns = 1
        /\ h.id = handler[r].id /\ h.account = handler[r].account
        /\ h.token = handler[r].token /\ h.late = handler[r].late
    BY <1>1, <2>1 DEF HandlerRow
  <2>3. HandlerIsRight(h, r, users, token, row)
    BY <1>1, <2>2 DEF HandlerIsRight, Drawing, Registering, WithToken
  <2>4. \A q \in Handlers \ {r} : Apart(h, handler[q])
    BY <2>2, NotDrawing DEF Drawing
  <2>5. handler' = [handler EXCEPT ![r] = h]
    BY <1>3, <2>1
  <2>6. QED
    BY <1>1, <2>2, <2>3, <2>4, <2>5, HandlerSteps DEF ReqAt
<1>4. QED
  BY <1>2, <1>3 DEF ConsumeRateLimit

LEMMA ClearRateLimitKeepsHandlers ==
  ASSUME HandlersAreRight, NEW r \in Handlers, ClearRateLimit(r)
  PROVE  HandlersAreRight'
<1>1. /\ handler[r] \in HandlerRow /\ HandlerIsRight(handler[r], r, users, token, row)
      /\ handler[r].pc = "clearing"
      /\ \A q \in Handlers \ {r} : Apart(handler[r], handler[q])
  BY DEF HandlersAreRight, HandlersAreTyped, ClearRateLimit, ReqAt
<1>2. PICK h : h = [handler[r] EXCEPT !.conns = 1, !.pc = "flushed"]
  OBVIOUS
<1>3. /\ h \in HandlerRow /\ h.pc = "flushed" /\ h.op = handler[r].op /\ h.conns = 1
      /\ h.id = handler[r].id /\ h.account = handler[r].account
      /\ h.token = handler[r].token /\ h.late = handler[r].late
  BY <1>1, <1>2 DEF HandlerRow
<1>4. h.op \in Attempts /\ Drawing(h) /\ Drawing(handler[r])
  BY <1>1, <1>3 DEF HandlerIsRight, Drawing
<1>5. HandlerIsRight(h, r, users, token, row)
  BY <1>1, <1>3, <1>4 DEF HandlerIsRight, Registering, WithToken, Attempts
<1>6. \A q \in Handlers \ {r} : Apart(h, handler[q])
  BY <1>1, <1>3, <1>4 DEF Apart, Registering
<1>7. handler' = [handler EXCEPT ![r] = h]
  BY <1>2 DEF ClearRateLimit
<1>8. QED
  BY <1>1, <1>3, <1>5, <1>6, <1>7, HandlerSteps DEF ClearRateLimit, ReqAt

(* The counter itself. *)
LEMMA ConsumeRateLimitCounts ==
  ASSUME AuthInv, NEW r \in Handlers, ConsumeRateLimit(r)
  PROVE  CountersAreRight'
<1>1. /\ handler[r] \in HandlerRow /\ HandlerIsRight(handler[r], r, users, token, row)
      /\ handler[r].pc = "counting"
  BY DEF AuthInv, HandlersAreRight, HandlersAreTyped, ConsumeRateLimit, ReqAt
<1>2. PICK k \in RateKeys : k = Key(r)
  BY <1>1 DEF HandlerIsRight, Key, RateKeys
<1>3. handler[r].now \in Nat /\ AttemptLimit \in Nat \ {0}
  BY <1>1, SizeAssumption DEF HandlerRow
<1>4. /\ limit[k] \in CounterRow \cup {Nil} /\ passed[k] \in Nat
      /\ passed[k] <= AttemptLimit
      /\ limit[k] # Nil => passed[k] <= limit[k].attempts
  BY DEF AuthInv, CountersAreRight, AttemptsAreCounted
<1>5. PICK c \in CounterRow : /\ c = Counted(r)
                              /\ NewWindow(r) => c.attempts = 1
                              /\ ~NewWindow(r) => /\ passed[k] <= c.attempts
                                                  /\ c.attempts <= AttemptLimit =>
                                                       passed[k] + 1 <= c.attempts
  <2>1. CASE NewWindow(r)
    <3>1. PICK c : c = [start |-> handler[r].now, attempts |-> 1]
      OBVIOUS
    <3>2. c \in CounterRow /\ c.attempts = 1
      BY <1>3, <3>1 DEF CounterRow
    <3>3. c = Counted(r)
      BY <2>1, <3>1 DEF Counted
    <3>4. QED
      BY <2>1, <3>2, <3>3
  <2>2. CASE ~NewWindow(r)
    <3>1. limit[k] # Nil /\ limit[k] \in CounterRow /\ limit[k].attempts \in Nat
      BY <1>2, <1>3, <1>4, <2>2 DEF NewWindow, CounterRow
    <3>2. CASE limit[k].attempts > AttemptLimit
      <4>1. Counted(r) = limit[k]
        BY <1>2, <2>2, <3>2 DEF Counted
      <4>2. QED
        BY <1>3, <1>4, <2>2, <3>1, <3>2, <4>1
    <3>3. CASE ~(limit[k].attempts > AttemptLimit)
      <4>1. PICK c : c = [limit[k] EXCEPT !.attempts = @ + 1]
        OBVIOUS
      <4>2. c \in CounterRow /\ c.attempts = limit[k].attempts + 1
        BY <1>3, <3>1, <3>3, <4>1 DEF CounterRow
      <4>3. c = Counted(r)
        BY <1>2, <2>2, <3>3, <4>1 DEF Counted
      <4>4. QED
        BY <1>3, <1>4, <2>2, <3>1, <3>3, <4>2, <4>3
    <3>4. QED
      BY <3>2, <3>3
  <2>3. QED
    BY <2>1, <2>2
<1>6. limit' = [limit EXCEPT ![k] = c]
  BY <1>2, <1>5 DEF ConsumeRateLimit
<1>7. PICK n \in Nat : /\ passed' = [passed EXCEPT ![k] = n]
                       /\ n <= AttemptLimit /\ n <= c.attempts
  <2>1. c.attempts \in Nat
    BY <1>3 DEF CounterRow
  <2>2. CASE c.attempts > AttemptLimit
    <3>1. passed' = passed
      BY <1>5, <2>2 DEF ConsumeRateLimit
    <3>2. passed' = [passed EXCEPT ![k] = passed[k]]
      BY <3>1 DEF AuthInv, CountersAreRight
    <3>3. passed[k] <= c.attempts
      BY <1>3, <1>4, <2>1, <2>2
    <3>4. QED
      BY <1>4, <3>2, <3>3
  <2>3. CASE ~(c.attempts > AttemptLimit) /\ NewWindow(r)
    <3>1. passed' = [passed EXCEPT ![k] = 1]
      BY <1>2, <1>5, <2>3 DEF ConsumeRateLimit
    <3>2. 1 \in Nat /\ 1 <= AttemptLimit /\ 1 <= c.attempts
      BY <1>3, <1>5, <2>3
    <3>3. QED
      BY <3>1, <3>2
  <2>4. CASE ~(c.attempts > AttemptLimit) /\ ~NewWindow(r)
    <3>1. passed' = [passed EXCEPT ![k] = passed[k] + 1]
      BY <1>2, <1>5, <2>4 DEF ConsumeRateLimit
    <3>2. passed[k] + 1 \in Nat /\ passed[k] + 1 <= c.attempts
      BY <1>3, <1>4, <1>5, <2>1, <2>4
    <3>3. passed[k] + 1 <= AttemptLimit
      BY <1>3, <1>4, <2>1, <2>4, <3>2
    <3>4. QED
      BY <3>1, <3>2, <3>3
  <2>5. QED
    BY <2>2, <2>3, <2>4
<1>8. limit' \in [RateKeys -> CounterRow \cup {Nil}] /\ passed' \in [RateKeys -> Nat]
  BY <1>6, <1>7 DEF AuthInv, CountersAreRight
<1>9. AttemptsAreCounted'
  BY <1>6, <1>7 DEF AuthInv, CountersAreRight, AttemptsAreCounted
<1>10. QED
  BY <1>8, <1>9 DEF CountersAreRight

LEMMA ClearRateLimitCounts ==
  ASSUME AuthInv, NEW r \in Handlers, ClearRateLimit(r)
  PROVE  CountersAreRight'
<1>1. PICK k : limit' = [limit EXCEPT ![k] = Nil] /\ passed' = [passed EXCEPT ![k] = 0]
  BY DEF ClearRateLimit
<1>2. limit' \in [RateKeys -> CounterRow \cup {Nil}] /\ passed' \in [RateKeys -> Nat]
  BY <1>1 DEF AuthInv, CountersAreRight
<1>3. AttemptsAreCounted'
  BY <1>1, SizeAssumption DEF AuthInv, CountersAreRight, AttemptsAreCounted
<1>4. QED
  BY <1>2, <1>3 DEF CountersAreRight

(* A token is drawn, with the rows it is inserted with. *)
LEMMA DrawKeeps ==
  ASSUME HandlersAreRight, NEW r \in Handlers, NEW t \in Tokens, NEW h \in HandlerRow,
         handler' = [handler EXCEPT ![r] = h],
         handler[r].pc = "verify", Fresh(t),
         h.pc = "clear", h.op = handler[r].op, h.token = t, h.id = handler[r].id,
         h.conns = handler[r].conns, h.late = handler[r].late,
         h.op = "register" => /\ h.account = handler[r].account
                              /\ \A a \in users : ~Overlap(a, h.account)
                              /\ \A q \in UncommittedInserts(r) :
                                   ~Overlap(handler[q].account, h.account),
         UNCHANGED <<time, users, token, row, loggedOut>>
  PROVE  HandlersAreRight'
<1>1. /\ HandlerIsRight(handler[r], r, users, token, row)
      /\ \A q \in Handlers : handler[q].token # t
      /\ token[t] = Nil
  BY DEF HandlersAreRight, Fresh
<1>2. h.op \in Attempts /\ Drawing(h)
  BY <1>1 DEF HandlerIsRight, Drawing
<1>3. HandlerIsRight(h, r, users, token, row)
  BY <1>1, <1>2 DEF HandlerIsRight, Registering, WithToken, Attempts
<1>4. ASSUME NEW q \in Handlers \ {r}
      PROVE  Apart(h, handler[q])
  <2>1. ASSUME Registering(h), Registering(handler[q])
        PROVE  ~Overlap(h.account, handler[q].account)
    <3>1. q \in UncommittedInserts(r)
      BY <2>1 DEF UncommittedInserts, Registering, Drawing
    <3>2. QED
      BY <2>1, <3>1 DEF Registering, Overlap
  <2>2. QED
    BY <1>1, <2>1 DEF Apart
<1>5. QED
  BY <1>3, <1>4, HandlerSteps DEF ReqAt

LEMMA RegisterUserKeeps ==
  ASSUME HandlersAreRight, NEW r \in Handlers, NEW t \in Tokens, RegisterUser(r, t)
  PROVE  HandlersAreRight'
<1>1. handler[r] \in HandlerRow /\ time \in Nat
  BY SizeAssumption DEF HandlersAreRight, HandlersAreTyped
<1>2. PICK h : h = [handler[r] EXCEPT !.token = t, !.now = time, !.pc = "clear"]
  OBVIOUS
<1>3. /\ h \in HandlerRow /\ h.pc = "clear" /\ h.op = handler[r].op
      /\ h.token = t /\ h.id = handler[r].id /\ h.account = handler[r].account
      /\ h.conns = handler[r].conns /\ h.late = handler[r].late
  BY <1>1, <1>2 DEF HandlerRow
<1>4. handler' = [handler EXCEPT ![r] = h]
  BY <1>2 DEF RegisterUser
<1>5. /\ handler[r].pc = "verify" /\ Fresh(t)
      /\ \A a \in users : ~Overlap(a, handler[r].account)
      /\ \A q \in UncommittedInserts(r) : ~Overlap(handler[q].account, handler[r].account)
      /\ UNCHANGED <<time, users, token, row, loggedOut>>
  BY DEF RegisterUser, ReqAt
<1>6. QED
  BY <1>3, <1>4, <1>5, DrawKeeps

LEMMA AuthenticateUserKeeps ==
  ASSUME HandlersAreRight, NEW r \in Handlers, NEW t \in Tokens, AuthenticateUser(r, t)
  PROVE  HandlersAreRight'
<1>1. handler[r] \in HandlerRow /\ time \in Nat
  BY SizeAssumption DEF HandlersAreRight, HandlersAreTyped
<1>2. PICK h : h = [handler[r] EXCEPT !.token = t, !.now = time, !.pc = "clear",
                                      !.account = Nil, !.right = FALSE]
  OBVIOUS
<1>3. /\ h \in HandlerRow /\ h.pc = "clear" /\ h.op = handler[r].op
      /\ h.token = t /\ h.id = handler[r].id
      /\ h.conns = handler[r].conns /\ h.late = handler[r].late
  BY <1>1, <1>2 DEF HandlerRow
<1>4. handler' = [handler EXCEPT ![r] = h]
  BY <1>2 DEF AuthenticateUser
<1>5. /\ handler[r].pc = "verify" /\ Fresh(t) /\ h.op # "register"
      /\ UNCHANGED <<time, users, token, row, loggedOut>>
  BY <1>3 DEF AuthenticateUser, ReqAt
<1>6. QED
  BY <1>3, <1>4, <1>5, DrawKeeps

(* The row of a token is read. *)
LEMMA ReadTokenKeeps ==
  ASSUME HandlersAreRight, NEW r \in Handlers, NEW pc \in {"update", "flushed"},
         handler[r].pc = "resolve", handler[r].op \notin Attempts,
         handler' = [handler EXCEPT ![r].loaded = token[handler[r].token], ![r].pc = pc],
         handler[r].op = "use" => ~token[handler[r].token].revoked,
         handler[r].op = "logout" /\ pc = "flushed" => token[handler[r].token].revoked,
         UNCHANGED <<time, users, token, row, loggedOut>>
  PROVE  HandlersAreRight'
<1>1. /\ handler[r] \in HandlerRow /\ HandlerIsRight(handler[r], r, users, token, row)
      /\ token \in [Tokens -> TokenRow \cup {Nil}]
  BY DEF HandlersAreRight, HandlersAreTyped
<1>2. handler[r].token \in Tokens /\ token[handler[r].token] # Nil
  BY <1>1 DEF HandlerIsRight, WithToken
<1>3. PICK x \in TokenRow : x = token[handler[r].token]
  BY <1>1, <1>2
<1>4. PICK h : h = [handler[r] EXCEPT !.loaded = x, !.pc = pc]
  OBVIOUS
<1>5. /\ h \in HandlerRow /\ h.pc = pc /\ h.op = handler[r].op /\ h.conns = handler[r].conns
      /\ h.id = handler[r].id /\ h.account = handler[r].account
      /\ h.token = handler[r].token /\ h.late = handler[r].late
  BY <1>1, <1>4 DEF HandlerRow
<1>6. ~Drawing(h) /\ ~Registering(h)
  BY <1>5 DEF Drawing, Registering
<1>7. HandlerIsRight(h, r, users, token, row)
  BY <1>1, <1>2, <1>5, <1>6 DEF HandlerIsRight, WithToken, Attempts
<1>8. handler' = [handler EXCEPT ![r] = h]
  BY <1>3, <1>4
<1>9. QED
  BY <1>5, <1>6, <1>7, <1>8, NotDrawing, HandlerSteps DEF ReqAt

LEMMA ResolveAuthSessionKeeps ==
  ASSUME HandlersAreRight, NEW r \in Handlers, ResolveAuthSession(r)
  PROVE  HandlersAreRight'
<1>1. PICK pc \in {"update", "flushed"} :
        handler' = [handler EXCEPT ![r].loaded = token[handler[r].token], ![r].pc = pc]
  BY DEF ResolveAuthSession
<1>2. /\ handler[r].pc = "resolve" /\ handler[r].op = "use"
      /\ ~token[handler[r].token].revoked
      /\ UNCHANGED <<time, users, token, row, loggedOut>>
  BY DEF ResolveAuthSession, ReqAt
<1>3. QED
  BY <1>1, <1>2, ReadTokenKeeps DEF Attempts

LEMMA LoadForLogoutKeeps ==
  ASSUME HandlersAreRight, NEW r \in Handlers, LoadForLogout(r)
  PROVE  HandlersAreRight'
<1>1. PICK pc \in {"update", "flushed"} :
        /\ handler' = [handler EXCEPT ![r].loaded = token[handler[r].token], ![r].pc = pc]
        /\ pc = "flushed" => token[handler[r].token].revoked
  BY DEF LoadForLogout
<1>2. /\ handler[r].pc = "resolve" /\ handler[r].op = "logout"
      /\ UNCHANGED <<time, users, token, row, loggedOut>>
  BY DEF LoadForLogout, ReqAt
<1>3. QED
  BY <1>1, <1>2, ReadTokenKeeps DEF Attempts

(* Who is about to write a token has loaded it before it was revoked by an *)
(* answered sign-out, and now has it locked.                               *)
LEMMA UpdateTokenKeeps ==
  ASSUME HandlersAreRight, NEW r \in Handlers, UpdateToken(r)
  PROVE  HandlersAreRight'
<1>1. /\ handler[r] \in HandlerRow /\ HandlerIsRight(handler[r], r, users, token, row)
      /\ handler[r].pc = "update" /\ row \in [Tokens -> Handlers \cup {Nil}]
  BY DEF HandlersAreRight, HandlersAreTyped, UpdateToken, ReqAt
<1>2. PICK t \in Tokens : t = handler[r].token /\ token[t] # Nil
  BY <1>1 DEF HandlerIsRight, WithToken
<1>3. row[t] = Nil /\ row' = [row EXCEPT ![t] = r]
  BY <1>2 DEF UpdateToken
<1>4. PICK h : h = [handler[r] EXCEPT !.pc = "flushed"]
  OBVIOUS
<1>5. /\ h \in HandlerRow /\ h.pc = "flushed" /\ h.op = handler[r].op
      /\ h.conns = handler[r].conns /\ h.id = handler[r].id
      /\ h.account = handler[r].account /\ h.token = t /\ h.late = handler[r].late
  BY <1>1, <1>2, <1>4 DEF HandlerRow
<1>6. ~Drawing(h) /\ ~Registering(h) /\ h.op \notin Attempts
  BY <1>1, <1>5 DEF Drawing, Registering, HandlerIsRight
<1>7. row'[t] = r
  BY <1>1, <1>3
<1>8. HandlerIsRight(h, r, users, token, row')
  BY <1>1, <1>2, <1>5, <1>6, <1>7 DEF HandlerIsRight, WithToken
<1>9. \A u \in Tokens : row[u] # r
  BY <1>1, NilAssumption DEF HandlersAreRight, LocksAreHeld
<1>10. /\ row' \in [Tokens -> Handlers \cup {Nil}]
       /\ \A u \in Tokens : row'[u] = row[u] \/ (row[u] \in {r, Nil} /\ row'[u] \in {r, Nil})
       /\ \A u \in Tokens : row'[u] = r => h.pc = "flushed" /\ h.token = u
  BY <1>1, <1>3, <1>5, <1>9
<1>11. /\ handler' = [handler EXCEPT ![r] = h]
       /\ UNCHANGED <<time, users, token>> /\ loggedOut' \subseteq Tokens
       /\ \A u \in loggedOut' : token[u] # Nil /\ token[u].revoked
  BY <1>4 DEF UpdateToken, Goto, HandlersAreRight, HandlersAreTyped
<1>12. QED
  BY <1>5, <1>6, <1>8, <1>10, <1>11, NotDrawing, HandlerMoves

(* A commit writes one token: one that nobody knows, or a row that exists, *)
(* of which it may only set revoked.                                       *)
LEMMA CommitWrites ==
  ASSUME HandlersAreRight, NEW r \in Handlers, CommitRequest(r)
  PROVE  \E t \in Tokens, x \in TokenRow :
           /\ t = handler[r].token /\ token' = [token EXCEPT ![t] = x]
           /\ token[t] # Nil /\ token[t].revoked => x.revoked
           /\ handler[r].op = "logout" => x.revoked
           /\ token[t] = Nil <=> Drawing(handler[r])
<1>1. /\ handler[r] \in HandlerRow /\ HandlerIsRight(handler[r], r, users, token, row)
      /\ handler[r].pc = "flushed" /\ token \in [Tokens -> TokenRow \cup {Nil}]
  BY DEF HandlersAreRight, HandlersAreTyped, CommitRequest, ReqAt
<1>2. CASE handler[r].op \in Attempts
  <2>1. Drawing(handler[r]) /\ handler[r].op # "logout"
    BY <1>1, <1>2 DEF Drawing, Attempts
  <2>2. PICK t \in Tokens : t = handler[r].token /\ token[t] = Nil
    BY <1>1, <2>1 DEF HandlerIsRight
  <2>3. PICK n \in Nat : n = handler[r].now
    BY <1>1 DEF HandlerRow
  <2>4. PICK e \in Nat : e = n + SessionLife
    BY SizeAssumption
  <2>5. PICK x : x = [expires |-> e, revoked |-> FALSE, seen |-> n]
    OBVIOUS
  <2>6. x \in TokenRow
    BY <2>5 DEF TokenRow
  <2>7. token' = [token EXCEPT ![t] = x]
    BY <1>2, <2>2, <2>3, <2>4, <2>5 DEF CommitRequest, NewRow
  <2>8. QED
    BY <2>1, <2>2, <2>6, <2>7
<1>3. CASE handler[r].op \notin Attempts
  <2>1. ~Drawing(handler[r])
    BY <1>3 DEF Drawing
  <2>2. PICK t \in Tokens : t = handler[r].token /\ token[t] # Nil
    BY <1>1, <1>3 DEF HandlerIsRight, WithToken
  <2>3. PICK old \in TokenRow : old = token[t]
    BY <1>1, <2>2
  <2>4. CASE row[t] = r /\ handler[r].op = "use"
    <3>1. PICK n \in Nat : n = handler[r].now
      BY <1>1 DEF HandlerRow
    <3>2. PICK x : x = [old EXCEPT !.seen = n]
      OBVIOUS
    <3>3. x \in TokenRow /\ x.revoked = old.revoked
      BY <3>1, <3>2 DEF TokenRow
    <3>4. token' = [token EXCEPT ![t] = x]
      BY <1>3, <2>2, <2>3, <2>4, <3>1, <3>2 DEF CommitRequest, UpdatedRow
    <3>5. QED
      BY <2>1, <2>2, <2>3, <2>4, <3>3, <3>4
  <2>5. CASE row[t] = r /\ handler[r].op # "use"
    <3>1. PICK x : x = [old EXCEPT !.revoked = TRUE]
      OBVIOUS
    <3>2. x \in TokenRow /\ x.revoked
      BY <3>1 DEF TokenRow
    <3>3. token' = [token EXCEPT ![t] = x]
      BY <1>3, <2>2, <2>3, <2>5, <3>1 DEF CommitRequest, UpdatedRow
    <3>4. QED
      BY <2>1, <2>2, <3>2, <3>3
  <2>6. CASE row[t] # r
    <3>1. token' = [token EXCEPT ![t] = old]
      BY <1>3, <2>2, <2>3, <2>6 DEF CommitRequest
    <3>2. handler[r].op = "logout" => old.revoked
      BY <1>1, <2>2, <2>3, <2>6 DEF HandlerIsRight
    <3>3. QED
      BY <2>1, <2>2, <2>3, <3>1, <3>2
  <2>7. QED
    BY <2>4, <2>5, <2>6
<1>4. QED
  BY <1>2, <1>3

(* The others: whoever has drawn a token or registers somebody does so     *)
(* apart from the one that commits, and whoever has a token keeps it.      *)
LEMMA CommitLeavesOthers ==
  ASSUME HandlersAreRight, NEW r \in Handlers, NEW q \in Handlers \ {r},
         NEW t \in Tokens, NEW x \in TokenRow,
         t = handler[r].token, token' = [token EXCEPT ![t] = x],
         token[t] # Nil /\ token[t].revoked => x.revoked,
         token[t] = Nil <=> Drawing(handler[r]),
         users' = users \/ (Registering(handler[r]) /\ users' = users \cup {handler[r].account}),
         \A u \in Tokens : row[u] = q => row'[u] = q
  PROVE  HandlerIsRight(handler[q], q, users', token', row')
<1>1. PICK g, h : g = handler[q] /\ h = handler[r]
  OBVIOUS
<1>2. /\ HandlerIsRight(g, q, users, token, row) /\ Apart(h, g)
      /\ token \in [Tokens -> TokenRow \cup {Nil}] /\ x # Nil
  BY <1>1, NilAssumption DEF HandlersAreRight, HandlersAreTyped
<1>3. Drawing(g) => g.token \in Tokens /\ token'[g.token] = Nil
  BY <1>1, <1>2 DEF HandlerIsRight, Apart
<1>4. Registering(g) => \A a \in users' : ~Overlap(a, g.account)
  BY <1>1, <1>2 DEF HandlerIsRight, Apart
<1>5. WithToken(g) => /\ g.token \in Tokens /\ token[g.token] # Nil /\ token'[g.token] # Nil
                      /\ token[g.token].revoked => token'[g.token].revoked
  BY <1>1, <1>2 DEF HandlerIsRight
<1>6. g.late => WithToken(g) /\ token'[g.token].revoked
  BY <1>2, <1>5 DEF HandlerIsRight
<1>7. g.op = "logout" /\ g.pc = "flushed" => token'[g.token].revoked \/ row'[g.token] = q
  BY <1>2, <1>5 DEF HandlerIsRight, WithToken, Attempts
<1>8. g.op = "logout" /\ g.pc = "committed" => token'[g.token].revoked
  BY <1>2, <1>5 DEF HandlerIsRight, WithToken, Attempts
<1>9. HandlerIsRight(g, q, users', token', row')
  BY <1>2, <1>3, <1>4, <1>5, <1>6, <1>7, <1>8 DEF HandlerIsRight
<1>10. QED
  BY <1>1, <1>9

LEMMA CommitKeeps ==
  ASSUME HandlersAreRight, NEW r \in Handlers, CommitRequest(r)
  PROVE  HandlersAreRight'
<1>1. /\ handler[r] \in HandlerRow /\ HandlerIsRight(handler[r], r, users, token, row)
      /\ handler[r].pc = "flushed" /\ handler \in [Handlers -> HandlerRow]
      /\ token \in [Tokens -> TokenRow \cup {Nil}]
      /\ row \in [Tokens -> Handlers \cup {Nil}]
  BY DEF HandlersAreRight, HandlersAreTyped, CommitRequest, ReqAt
<1>2. PICK t \in Tokens, x \in TokenRow :
        /\ t = handler[r].token /\ token' = [token EXCEPT ![t] = x]
        /\ token[t] # Nil /\ token[t].revoked => x.revoked
        /\ handler[r].op = "logout" => x.revoked
        /\ token[t] = Nil <=> Drawing(handler[r])
  BY CommitWrites
<1>3. PICK h : h = [Resting EXCEPT !.pc = "committed", !.op = handler[r].op,
                                   !.token = t, !.late = handler[r].late]
  OBVIOUS
<1>4. /\ handler[r].op \in Ops /\ handler[r].late \in BOOLEAN
  BY <1>1 DEF HandlerRow
<1>5. /\ h \in HandlerRow /\ h.pc = "committed" /\ h.op = handler[r].op
      /\ h.token = t /\ h.late = handler[r].late /\ h.conns = 0
  BY <1>3, <1>4 DEF Resting, HandlerRow
<1>6. handler' = [handler EXCEPT ![r] = h]
  BY <1>2, <1>3 DEF CommitRequest
<1>7. /\ row' \in [Tokens -> Handlers \cup {Nil}]
      /\ \A u \in Tokens : row'[u] = row[u] \/ (row[u] = r /\ row'[u] = Nil)
  BY <1>1, <1>2 DEF CommitRequest
<1>8. \A u \in Tokens : row'[u] # r
  BY <1>1, <1>2, NilAssumption DEF CommitRequest, HandlersAreRight, LocksAreHeld
<1>9. users' = users \/ (Registering(handler[r]) /\ users' = users \cup {handler[r].account})
  BY <1>1 DEF CommitRequest, Registering, Drawing, Attempts
<1>10. token' \in [Tokens -> TokenRow \cup {Nil}] /\ x # Nil
  BY <1>1, <1>2, NilAssumption
<1>11. Registering(handler[r]) => /\ handler[r].account \in Accounts
                                  /\ \A a \in users : ~Overlap(a, handler[r].account)
  BY <1>1 DEF HandlerIsRight, Registering
<1>12. HandlersAreTyped'
  BY <1>1, <1>5, <1>6, <1>7, <1>9, <1>10, <1>11
     DEF HandlersAreRight, HandlersAreTyped, CommitRequest
<1>13. /\ \A q \in Handlers \ {r} : handler'[q] = handler[q]
       /\ handler'[r] = h
  BY <1>1, <1>6
<1>14. HandlerIsRight(h, r, users', token', row')
  <2>1. ~Drawing(h) /\ ~Registering(h)
    BY <1>5 DEF Drawing, Registering
  <2>2. token'[t] # Nil /\ token'[t] = x
    BY <1>1, <1>2, <1>10
  <2>3. h.late => WithToken(h) /\ x.revoked
    BY <1>1, <1>2, <1>5 DEF HandlerIsRight, WithToken
  <2>4. ~(h.op = "use" /\ h.late)
    BY <1>1, <1>5 DEF HandlerIsRight
  <2>5. QED
    BY <1>2, <1>5, <2>1, <2>2, <2>3, <2>4 DEF HandlerIsRight, WithToken
<1>15. ASSUME NEW q \in Handlers
       PROVE  HandlerIsRight(handler'[q], q, users', token', row')
  <2>1. CASE q = r
    BY <1>13, <1>14, <2>1
  <2>2. CASE q # r
    <3>1. \A u \in Tokens : row[u] = q => row'[u] = q
      BY <1>7, <2>2
    <3>2. HandlerIsRight(handler[q], q, users', token', row')
      BY <1>2, <1>9, <2>2, <3>1, CommitLeavesOthers
    <3>3. QED
      BY <1>13, <2>2, <3>2
  <2>3. QED
    BY <2>1, <2>2
<1>16. ASSUME NEW p \in Handlers, NEW q \in Handlers, p # q
       PROVE  Apart(handler'[p], handler'[q])
  <2>1. ~Drawing(h) /\ Apart(handler[p], handler[q])
    BY <1>5, <1>16 DEF Drawing, HandlersAreRight
  <2>2. QED
    BY <1>13, <1>16, <2>1, NotDrawing
<1>17. OneAccountPerIdentity'
  BY <1>9, <1>11 DEF HandlersAreRight, OneAccountPerIdentity, Overlap
<1>18. \A u \in loggedOut' : token'[u] # Nil /\ token'[u].revoked
  BY <1>1, <1>2, <1>10 DEF HandlersAreRight, CommitRequest, HandlersAreTyped
<1>19. LocksAreHeld'
  <2> SUFFICES ASSUME NEW u \in Tokens, row'[u] # Nil
               PROVE  handler'[row'[u]].pc = "flushed" /\ handler'[row'[u]].token = u
    BY DEF LocksAreHeld
  <2>1. row'[u] = row[u] /\ row[u] \in Handlers \ {r}
    BY <1>7, <1>8
  <2>2. QED
    BY <1>13, <2>1 DEF HandlersAreRight, LocksAreHeld
<1>20. QED
  BY <1>12, <1>15, <1>16, <1>17, <1>18, <1>19 DEF HandlersAreRight

LEMMA AnswerKeeps ==
  ASSUME HandlersAreRight, NEW r \in Handlers, Respond(r)
  PROVE  HandlersAreRight'
<1>1. /\ Resting \in HandlerRow
      /\ HandlerIsRight(Resting, r, users, token, row)
  BY DEF Resting, HandlerRow, Ops, HandlerIsRight, Drawing, Registering, WithToken, Attempts
<1>2. \A q \in Handlers \ {r} : Apart(Resting, handler[q])
  BY NotDrawing DEF Resting, Drawing
<1>3. /\ handler[r].pc = "committed" /\ HandlerIsRight(handler[r], r, users, token, row)
      /\ \A t \in Tokens : row[t] # r
      /\ row \in [Tokens -> Handlers \cup {Nil}] /\ row' = row
  BY NilAssumption DEF Respond, ReqAt, HandlersAreRight, HandlersAreTyped, LocksAreHeld
<1>4. handler[r].op = "logout" =>
        /\ handler[r].token \in Tokens /\ token[handler[r].token] # Nil
        /\ token[handler[r].token].revoked
  BY <1>3 DEF HandlerIsRight, WithToken, Attempts
<1>5. /\ loggedOut' \subseteq Tokens
      /\ \A t \in loggedOut' : token[t] # Nil /\ token[t].revoked
  BY <1>4 DEF Respond, HandlersAreRight, HandlersAreTyped
<1>6. UNCHANGED <<time, users, token>> /\ handler' = [handler EXCEPT ![r] = Resting]
  BY DEF Respond
<1>7. QED
  BY <1>1, <1>2, <1>3, <1>5, <1>6, HandlerMoves

LEMMA TimeKeeps ==
  ASSUME AuthInv, TimePasses \/ UNCHANGED authVars
  PROVE  AuthInv'
<1>1. /\ time' \in 0..MaxTime
      /\ UNCHANGED <<users, token, limit, row, handler, passed, loggedOut>>
  BY SizeAssumption DEF TimePasses, authVars, AuthInv, HandlersAreRight, HandlersAreTyped
<1>2. HandlersAreRight'
  BY <1>1 DEF AuthInv, HandlersAreRight, HandlersAreTyped, OneAccountPerIdentity, LocksAreHeld
<1>3. CountersAreRight'
  BY <1>1 DEF AuthInv, CountersAreRight, AttemptsAreCounted
<1>4. QED
  BY <1>2, <1>3 DEF AuthInv

(* What leaves the counters alone. *)
LEMMA CountersStay ==
  ASSUME AuthInv, UNCHANGED <<limit, passed>>
  PROVE  CountersAreRight'
BY DEF AuthInv, CountersAreRight, AttemptsAreCounted

LEMMA RequestBegins ==
  ASSUME AuthInv, NEW r \in Handlers,
         \/ \E a \in Accounts, right \in BOOLEAN :
              BeginLogin(r, a, a.email, right) \/ BeginLogin(r, a, a.username, right)
         \/ \E a \in Accounts : BeginRegister(r, a)
         \/ \E op \in {"use", "logout"}, t \in Tokens : BeginWithToken(r, op, t)
  PROVE  AuthInv'
<1>1. HandlersAreRight'
  <2>1. ASSUME NEW a \in Accounts, NEW right \in BOOLEAN,
               BeginLogin(r, a, a.email, right) \/ BeginLogin(r, a, a.username, right)
        PROVE  HandlersAreRight'
    <3>1. a.email \in Identifiers /\ a.username \in Identifiers
      BY DEF Identifiers, Emails
    <3>2. QED
      BY <2>1, <3>1, BeginLoginKeeps DEF AuthInv
  <2>2. QED
    BY <2>1, BeginRegisterKeeps, BeginWithTokenKeeps DEF AuthInv
<1>2. UNCHANGED <<limit, passed>>
  BY DEF BeginLogin, BeginRegister, BeginWithToken
<1>3. QED
  BY <1>1, <1>2, CountersStay DEF AuthInv

LEMMA RunningKeeps ==
  ASSUME AuthInv, NEW r \in Handlers, Running(r)
  PROVE  AuthInv'
<1>1. CASE ConsumeRateLimit(r)
  BY <1>1, ConsumeRateLimitCounts, ConsumeRateLimitKeepsHandlers DEF AuthInv
<1>2. CASE ClearRateLimit(r)
  BY <1>2, ClearRateLimitCounts, ClearRateLimitKeepsHandlers DEF AuthInv
<1>3. CASE IdentityConflict(r) \/ InvalidCredentials(r) \/ SessionRefused(r)
  <2>1. RaiseError(r)
    BY <1>3 DEF IdentityConflict, InvalidCredentials, SessionRefused
  <2>2. UNCHANGED <<limit, passed>>
    BY <2>1 DEF RaiseError
  <2>3. QED
    BY <2>1, <2>2, ErrorKeeps, CountersStay DEF AuthInv
<1>4. CASE \/ \E t \in Tokens : AuthenticateUser(r, t)
           \/ ResolveAuthSession(r) \/ LoadForLogout(r) \/ CommitRequest(r) \/ Respond(r)
  <2>1. UNCHANGED <<limit, passed>>
    BY <1>4 DEF AuthenticateUser, ResolveAuthSession, LoadForLogout, CommitRequest, Respond
  <2>2. HandlersAreRight'
    BY <1>4, AuthenticateUserKeeps, ResolveAuthSessionKeeps, LoadForLogoutKeeps, CommitKeeps,
       AnswerKeeps DEF AuthInv
  <2>3. QED
    BY <2>1, <2>2, CountersStay DEF AuthInv
<1>5. QED
  BY <1>1, <1>2, <1>3, <1>4 DEF Running

LEMMA GrantedKeeps ==
  ASSUME AuthInv, NEW r \in Handlers, Granted(r)
  PROVE  AuthInv'
<1>1. UNCHANGED <<limit, passed>>
  BY DEF Granted, Connect, ConnectAgain, RegisterUser, UpdateToken
<1>2. HandlersAreRight'
  BY ConnectKeeps, ConnectAgainKeeps, RegisterUserKeeps, UpdateTokenKeeps DEF Granted, AuthInv
<1>3. QED
  BY <1>1, <1>2, CountersStay DEF AuthInv

LEMMA AuthNextKeeps == AuthInv /\ [AuthNext]_authVars => AuthInv'
<1> SUFFICES ASSUME AuthInv, [AuthNext]_authVars PROVE AuthInv'
  OBVIOUS
<1>1. CASE TimePasses \/ UNCHANGED authVars
  BY <1>1, TimeKeeps
<1>2. ASSUME NEW r \in Handlers,
             \/ \E a \in Accounts, right \in BOOLEAN :
                  BeginLogin(r, a, a.email, right) \/ BeginLogin(r, a, a.username, right)
             \/ \E a \in Accounts : BeginRegister(r, a)
             \/ \E op \in {"use", "logout"}, t \in Tokens : BeginWithToken(r, op, t)
      PROVE  AuthInv'
  BY <1>2, RequestBegins
<1>3. ASSUME NEW r \in Handlers, PoolTimeout(r) \/ Rollback(r)
      PROVE  AuthInv'
  <2>1. RaiseError(r)
    BY <1>3 DEF PoolTimeout, Rollback
  <2>2. UNCHANGED <<limit, passed>>
    BY <2>1 DEF RaiseError
  <2>3. QED
    BY <2>1, <2>2, ErrorKeeps, CountersStay DEF AuthInv
<1>4. QED
  BY <1>1, <1>2, <1>3, RunningKeeps, GrantedKeeps DEF AuthNext

(* For any requests, accounts, tokens, limits and times, and a pool of any *)
(* size: whatever overlaps, raises and rolls back, a counter, the accounts *)
(* and the tokens are as AuthInv says.                                     *)
THEOREM AuthIsSound == AuthSpec => []AuthInv
<1>1. AuthInit => AuthInv
  BY AuthInitIsRight
<1>2. AuthInv /\ [AuthNext]_authVars => AuthInv'
  BY AuthNextKeeps
<1>3. QED
  BY <1>1, <1>2, PTL DEF AuthSpec

(* Type correctness of the authentication tables and requests.             *)
THEOREM AuthTyped == AuthSpec => []AuthTypeOK
<1>1. AuthInv => AuthTypeOK
  BY DEF AuthInv, CountersAreRight, HandlersAreRight, HandlersAreTyped, AuthTypeOK
<1>2. QED
  BY <1>1, AuthIsSound, PTL

(* consume_rate_limit: overlapping and failing attempts are all counted.   *)
THEOREM AttemptsAlwaysCounted == AuthSpec => []AttemptsAreCounted
<1>1. AuthInv => AttemptsAreCounted
  BY DEF AuthInv, CountersAreRight
<1>2. QED
  BY <1>1, AuthIsSound, PTL

(* register_user: an email and a username belong to one account.           *)
THEOREM AccountsStayApart == AuthSpec => []OneAccountPerIdentity
<1>1. AuthInv => OneAccountPerIdentity
  BY DEF AuthInv, HandlersAreRight
<1>2. QED
  BY <1>1, AuthIsSound, PTL

(* revoke_auth_session, resolve_auth_session: after the answer to a        *)
(* sign-out nobody is let in with its token, and no request that loaded    *)
(* the row before brings it back.                                          *)
THEOREM SignOutsAreFinal == AuthSpec => SignOutIsFinal
<1>1. AuthInv => LogoutIsFinal
  BY DEF AuthInv, HandlersAreRight, HandlerIsRight, LogoutIsFinal
<1> DEFINE Kept == \A t \in Tokens : token[t] # Nil /\ token[t].revoked =>
                     token'[t] # Nil /\ token'[t].revoked
<1>2. ASSUME AuthInv, [AuthNext]_authVars
      PROVE  [Kept]_authVars
  <2>1. ASSUME NEW r \in Handlers, CommitRequest(r)
        PROVE  Kept
    <3>1. PICK t \in Tokens, x \in TokenRow :
            /\ token' = [token EXCEPT ![t] = x]
            /\ token[t] # Nil /\ token[t].revoked => x.revoked
      BY <1>2, <2>1, CommitWrites DEF AuthInv
    <3>2. x # Nil /\ token \in [Tokens -> TokenRow \cup {Nil}]
      BY <1>2, NilAssumption DEF AuthInv, HandlersAreRight, HandlersAreTyped
    <3>3. QED
      BY <3>1, <3>2
  <2>2. ASSUME token' = token
        PROVE  Kept
    BY <2>2
  <2>3. ASSUME NEW r \in Handlers, Running(r), ~CommitRequest(r)
        PROVE  token' = token
    <3>1. RaiseError(r) => token' = token
      BY DEF RaiseError
    <3>2. QED
      BY <2>3, <3>1
         DEF Running, ConsumeRateLimit, ClearRateLimit, IdentityConflict, InvalidCredentials,
             AuthenticateUser, ResolveAuthSession, SessionRefused, LoadForLogout, Respond
  <2>4. ASSUME NEW r \in Handlers, Granted(r)
        PROVE  token' = token
    BY <2>4 DEF Granted, Connect, ConnectAgain, RegisterUser, UpdateToken
  <2>5. ASSUME NEW r \in Handlers, PoolTimeout(r) \/ Rollback(r)
        PROVE  token' = token
    BY <2>5 DEF PoolTimeout, Rollback, RaiseError
  <2>6. ASSUME NEW r \in Handlers,
               \/ \E a \in Accounts, right \in BOOLEAN :
                    BeginLogin(r, a, a.email, right) \/ BeginLogin(r, a, a.username, right)
               \/ \E a \in Accounts : BeginRegister(r, a)
               \/ \E op \in {"use", "logout"}, t \in Tokens : BeginWithToken(r, op, t)
        PROVE  token' = token
    BY <2>6 DEF BeginLogin, BeginRegister, BeginWithToken
  <2>7. ASSUME TimePasses \/ UNCHANGED authVars
        PROVE  token' = token
    BY <2>7 DEF TimePasses, authVars
  <2>8. (\E r \in Handlers : CommitRequest(r)) \/ token' = token
    BY <1>2, <2>3, <2>4, <2>5, <2>6, <2>7 DEF AuthNext
  <2>9. QED
    BY <2>1, <2>2, <2>8
<1>3. QED
  BY <1>1, <1>2, AuthIsSound, PTL DEF AuthSpec, SignOutIsFinal, RevokedStaysRevoked
===============================================================================
