--------------------------- MODULE VehicleIdentity ---------------------------
(***************************************************************************)
(* The canonical write path of vehicle configurations, as concurrent       *)
(* calls: resolve_configuration finds the stored configuration that a      *)
(* description of a vehicle means, adds what the description knows more,   *)
(* or stores a new one.                                                    *)
(*                                                                         *)
(* The rows are those of one base identity (year, market, make, model);    *)
(* calls for another take another advisory lock and read other rows.  A    *)
(* detail is the set of the words that comparison_key makes of it, {} when *)
(* it is NULL; a detail that is compared as a whole has at most one word.  *)
(***************************************************************************)
EXTENDS FiniteSets, Integers

CONSTANTS
  Callers,     \* calls that may overlap, each in a session of its own
  Rows,        \* ids of configurations
  Fields,      \* OPTIONAL_IDENTITY_FIELDS
  Structured,  \* STRUCTURED_DETAIL_FIELDS: compared word by word
  Words,       \* the words of a field
  NoRow        \* no row, nobody

ASSUME FieldsAssumption ==
  /\ Structured \subseteq Fields
  /\ IsFiniteSet(Fields)
  /\ DOMAIN Words = Fields

Detail(f) ==
  IF f \in Structured THEN SUBSET Words[f] ELSE {{}} \cup {{w} : w \in Words[f]}

Descriptions ==
  {i \in [Fields -> UNION {Detail(f) : f \in Fields}] :
     \A f \in Fields : i[f] \in Detail(f)}

ASSUME NoRowAssumption ==
  NoRow \notin Callers \cup [id: Descriptions, hash: Descriptions]

VARIABLES
  rows,      \* vehicle_configurations: id and hash of a row
  advisory,  \* who has pg_advisory_xact_lock of the base identity
  call,      \* the calls under way
  told       \* the details callers asked for and were answered a row with

identityVars == <<rows, advisory, call, told>>

Nothing  == [f \in Fields |-> {}]
IdleCall == [pc |-> "idle", input |-> Nothing, row |-> NoRow, loaded |-> Nothing]
Stored   == {c \in Rows : rows[c] # NoRow}

IdentityTypeOK ==
  /\ rows \in [Rows -> [id: Descriptions, hash: Descriptions] \cup {NoRow}]
  /\ advisory \in Callers \cup {NoRow}
  /\ call \in [Callers -> [pc: {"idle", "lock", "exact", "select", "update", "insert", "found"},
                           input: Descriptions, row: Rows \cup {NoRow}, loaded: Descriptions]]
  /\ \A r \in Callers : call[r].pc \notin {"idle", "lock"} <=> advisory = r
  /\ told \in [Rows -> [Fields -> SUBSET UNION {Words[f] : f \in Fields}]]

IdentityInit ==
  /\ rows = [c \in Rows |-> NoRow]
  /\ advisory = NoRow
  /\ call = [r \in Callers |-> IdleCall]
  /\ told = [c \in Rows |-> Nothing]

-----------------------------------------------------------------------------
(* What the code computes from a stored identity and a supplied one. *)

(* _compatible *)
Compatible(f, current, supplied) ==
  \/ current = {} \/ supplied = {}
  \/ IF f \in Structured THEN current \subseteq supplied \/ supplied \subseteq current
     ELSE current = supplied

(* _candidate_is_compatible *)
IsCandidate(id, input) == \A f \in Fields : Compatible(f, id[f], input[f])

(* _candidate_score, of a compatible candidate *)
Matched(id, input) == Cardinality({f \in Fields : id[f] # {} /\ input[f] # {}})
Specificity(id)    == Cardinality({f \in Fields : id[f] # {}})

ScoresBelow(a, b, input) ==
  \/ Matched(a, input) < Matched(b, input)
  \/ Matched(a, input) = Matched(b, input) /\ Specificity(a) < Specificity(b)

(* Mutant: what was stored gives way to what is supplied. *)
Overwrite(id, input) ==
  [f \in Fields |-> IF input[f] # {} THEN input[f] ELSE id[f]]

(* _merge_candidate *)
Merge(id, input) ==
  [f \in Fields |->
     IF id[f] = {} \/ (f \in Structured /\ id[f] \subseteq input[f])
     THEN input[f] ELSE id[f]]

Candidates(input) == {c \in Stored : IsCandidate(rows[c].id, input)}

Best(input) ==
  {c \in Candidates(input) : \A d \in Candidates(input) :
     ~ScoresBelow(rows[c].id, rows[d].id, input)}

-----------------------------------------------------------------------------
CallAt(r, pc) == call[r].pc = pc

(* The transaction ends and with it the advisory lock. *)
Return(r) ==
  /\ call' = [call EXCEPT ![r] = IdleCall]
  /\ advisory' = IF advisory = r THEN NoRow ELSE advisory

(* The caller is given row c for its input. *)
Answer(r, c) ==
  told' = [told EXCEPT ![c] = [f \in Fields |-> @[f] \cup call[r].input[f]]]

BeginResolve(r, i) ==
  /\ CallAt(r, "idle")
  /\ call' = [call EXCEPT ![r].pc = "lock", ![r].input = i]
  /\ UNCHANGED <<rows, advisory, told>>

(* Mutant: the lock is taken, but not waited for. *)
TakeLock(r) ==
  /\ CallAt(r, "lock")
  /\ advisory' = r
  /\ call' = [call EXCEPT ![r].pc = "exact"]
  /\ UNCHANGED <<rows, told>>

(* _lock_base_identity *)
LockBaseIdentity(r) ==
  /\ CallAt(r, "lock")
  /\ advisory = NoRow
  /\ advisory' = r
  /\ call' = [call EXCEPT ![r].pc = "exact"]
  /\ UNCHANGED <<rows, told>>

Exact(r) == {c \in Stored : rows[c].hash = call[r].input}

FindExact(r) ==
  /\ CallAt(r, "exact")
  /\ \/ \E c \in Exact(r) : call' = [call EXCEPT ![r].pc = "found", ![r].row = c]
     \/ Exact(r) = {} /\ call' = [call EXCEPT ![r].pc = "select"]
  /\ UNCHANGED <<rows, advisory, told>>

(* SELECT ... FOR UPDATE, and the choice among the candidates.  Nobody else *)
(* writes the rows of a base identity, so the row locks are not told apart *)
(* from the advisory one.                                                  *)
SelectNone(r) ==
  /\ CallAt(r, "select")
  /\ Candidates(call[r].input) = {}
  /\ call' = [call EXCEPT ![r].pc = "insert"]
  /\ UNCHANGED <<rows, advisory, told>>

SelectBest(r, c) ==
  /\ CallAt(r, "select")
  /\ Best(call[r].input) = {c}
  /\ call' = [call EXCEPT ![r].row = c, ![r].loaded = rows[c].id,
       ![r].pc = IF Merge(rows[c].id, call[r].input) = rows[c].id THEN "found" ELSE "update"]
  /\ UNCHANGED <<rows, advisory, told>>

(* AmbiguousVehicleIdentityError, after a rollback. *)
Ambiguous(r) ==
  /\ CallAt(r, "select")
  /\ Cardinality(Best(call[r].input)) > 1
  /\ Return(r)
  /\ UNCHANGED <<rows, told>>

Merged(r) == Merge(call[r].loaded, call[r].input)

(* What the write of a call puts into identity_hash. *)
NewHash(r) == IF CallAt(r, "update") THEN Merged(r) ELSE call[r].input

HashTaken(r) ==
  \E c \in Stored : c # call[r].row /\ rows[c].hash = NewHash(r)

(* "enriched".  UPDATE writes the details that were NULL or extended. *)
Enrich(r) ==
  LET c == call[r].row IN
  /\ CallAt(r, "update")
  /\ ~HashTaken(r)
  /\ rows' = [rows EXCEPT ![c] =
       [id |-> [f \in Fields |->
          IF Merged(r)[f] # call[r].loaded[f] THEN Merged(r)[f] ELSE @.id[f]],
        hash |-> Merged(r)]]
  /\ Answer(r, c)
  /\ Return(r)

(* "created" *)
Create(r) ==
  LET c == CHOOSE c \in Rows : rows[c] = NoRow IN
  /\ CallAt(r, "insert")
  /\ ~HashTaken(r) /\ Stored # Rows
  /\ rows' = [rows EXCEPT ![c] = [id |-> call[r].input, hash |-> call[r].input]]
  /\ Answer(r, c)
  /\ Return(r)

(* "matched": the transaction ends when the caller ends it. *)
Match(r) ==
  /\ CallAt(r, "found")
  /\ Answer(r, call[r].row)
  /\ Return(r)
  /\ UNCHANGED rows

(* An exception, the violated constraint of identity_hash among them, or a *)
(* lost connection.                                                        *)
AbortCall(r) ==
  /\ ~CallAt(r, "idle")
  /\ Return(r)
  /\ UNCHANGED <<rows, told>>

(* Bound: a call that would create a row beyond Rows has to abort. *)
RowsUsedUp(r) ==
  /\ CallAt(r, "insert")
  /\ Stored = Rows
  /\ AbortCall(r)

ResolveProgress(r) ==
  \/ FindExact(r)
  \/ SelectNone(r) \/ \E c \in Rows : SelectBest(r, c)
  \/ Ambiguous(r)
  \/ Enrich(r) \/ Create(r)
  \/ RowsUsedUp(r)
  \/ Match(r)

IdentityNext ==
  \E r \in Callers :
    \/ \E i \in Descriptions : BeginResolve(r, i)
    \/ LockBaseIdentity(r)
    \/ ResolveProgress(r)
    \/ AbortCall(r)

IdentitySpec == IdentityInit /\ [][IdentityNext]_identityVars

-----------------------------------------------------------------------------
(* Properties *)

(* identity_hash is unique, and neither an enrichment, whose result was    *)
(* not looked up, nor an insertion ever runs into the constraint: what     *)
(* a candidate would become by merging is not stored as another row.       *)
HashNeverTaken ==
  \A r \in Callers : call[r].pc \in {"update", "insert"} => ~HashTaken(r)

(* Every row that was answered says, then and later, at least what was     *)
(* asked for: no enrichment takes a detail back that another caller had    *)
(* been told.                                                              *)
AnswersStayCovered ==
  \A c \in Stored, f \in Fields : told[c][f] \subseteq rows[c].id[f]
===============================================================================
