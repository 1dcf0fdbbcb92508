----------------------------- MODULE GuidedRepair -----------------------------
(***************************************************************************)
(* Guided repair: a session is bound to a verified repair definition, the  *)
(* owner reports what is at hand for each requirement, and completes,      *)
(* skips or blocks the actions of its procedure, one at a time.  Several   *)
(* sessions of one owner share the garage, which remembers reusable tools. *)
(*                                                                         *)
(* Both mutations run inside the frame of RepairSession, under the lock of *)
(* their session row.  They are two steps or more here, from the           *)
(* statements that read to the commit, because other sessions of the owner *)
(* write the garage in between.                                            *)
(*                                                                         *)
(* A definition has one manifest (what build_requirement_manifest merged). *)
(* Every definition lists every requirement and has the same procedure;    *)
(* quantities are whole, so a required quantity of None ("any") is 1.  The *)
(* states "ordered" and "unavailable" are like "missing", the mode         *)
(* "replace_if_damaged" like "reuse_existing", "replacement_required" like *)
(* "consumed".  "reusable" is a reusable tool, equipment or workspace.     *)
(***************************************************************************)
EXTENDS RepairSession

CONSTANTS
  Definitions,   \* versions of the repair definition
  Requirements,  \* requirement definitions
  Manifest,      \* Manifest[v][q]: quantity, unit and mode of q in version v
  Actions,       \* the positions of the procedure's actions
  Procedures,    \* procedures the knowledge tables may hold
  Quantities,    \* quantities an owner reports
  None           \* NULL, no row

Modes == {"reusable", "consumed", "reuse_existing"}

ASSUME ActionsAssumption == Actions \subseteq Nat

ASSUME ManifestAssumption ==
  /\ \A v \in Definitions, q \in Requirements :
       Manifest[v][q].quantity \in Nat \ {0} /\ Manifest[v][q].mode \in Modes
  /\ Quantities \subseteq Nat

(* procedure_actions, their dependencies and the requirements they use.    *)
ProcedureTables ==
  [Actions -> [deps: SUBSET Actions, skippable: BOOLEAN, needs: SUBSET Requirements]]

ASSUME ProceduresAssumption == Procedures \subseteq ProcedureTables

(* What a mutation of the readiness or of the progress says. *)
Requests ==
  [about: Requirements, version: Definitions, state: {"have", "missing"},
   quantity: Nat, remember: BOOLEAN]
  \cup [about: Actions, version: Definitions, state: {"completed", "skipped", "blocked"}]

GarageRow ==
  [quantity: Nat \ {0}, unit: {Manifest[v][q].unit : v \in Definitions, q \in Requirements}]

(* Ids of actions are not ids of requirements, and NULL is no value.       *)
ASSUME GuidedNullAssumption ==
  /\ Requirements \cap Actions = {}
  /\ None \notin Definitions \cup Requirements \cup Actions \cup Nat
  /\ None \notin Requests \cup GarageRow

VARIABLES
  procedure,  \* procedure_actions, their dependencies and required uses
  verified,   \* the definitions in status "verified"
  bound,      \* repair_sessions.repair_definition_id
  readiness,  \* repair_requirement_states
  progress,   \* repair_procedure_action_states; "pending" is no row
  garage,     \* user_garage_inventory_items
  said,       \* said[s][k]: the payload of the domain event under key k
  job         \* the mutation that holds the row of the session

catalogVars == <<procedure, verified>>
guidedVars  == <<bound, readiness, progress, garage, said>>
allVars     == <<vars, catalogVars, guidedVars, job>>

Readinesses == {"have", "missing"}
Persisted   == {"completed", "skipped", "blocked"}
Resolved    == {"completed", "skipped"}

GuidedTypeOK ==
  /\ procedure \in Procedures
  /\ verified \subseteq Definitions
  /\ bound \in [Sessions -> Definitions \cup {None}]
  /\ \A s \in Sessions, q \in Requirements : readiness[s][q] # None =>
       /\ readiness[s][q].state \in Readinesses
       /\ bound[s] # None
       /\ readiness[s][q].state = "have" =>
            readiness[s][q].quantity >= Manifest[bound[s]][q].quantity
  /\ progress \in [Sessions -> [Actions -> Persisted \cup {"pending"}]]
  /\ garage \in [Requirements -> GarageRow \cup {None}]

GuidedInit ==
  /\ Init
  /\ procedure \in Procedures
  /\ verified \in {{v} : v \in Definitions}
  /\ bound = [s \in Sessions |-> None]
  /\ readiness = [s \in Sessions |-> [q \in Requirements |-> None]]
  /\ progress = [s \in Sessions |-> [a \in Actions |-> "pending"]]
  /\ garage = [q \in Requirements |-> None]
  /\ said = [s \in Sessions |-> [k \in Keys |-> None]]
  /\ job = [s \in Sessions |-> None]

-----------------------------------------------------------------------------
(* The procedure *)

(* Mutant: the order of positions is not compared with the dependencies.   *)
DependenciesKnown(p) == \A a \in Actions : p[a].deps \subseteq Actions

(* _validate_dependency_graph does not raise: a dependency is earlier, and *)
(* the loop that resolves eligible actions never runs dry.                 *)
ValidDependencyGraph(p) ==
  /\ \A a \in Actions : p[a].deps \subseteq {b \in Actions : b < a}
  /\ \A rest \in (SUBSET Actions) \ {{}} : \E a \in rest : p[a].deps \cap rest = {}

IsResolved(s, a) == progress[s][a] \in Resolved

ProcedureComplete(s) == \A a \in Actions : IsResolved(s, a)

Eligible(s) ==
  {a \in Actions : ~IsResolved(s, a) /\ \A b \in procedure[a].deps : IsResolved(s, b)}

(* Mutant: the dependencies are not looked at, the last one is taken.      *)
LastUnresolved(s, a) ==
  ~IsResolved(s, a) /\ \A b \in Actions : ~IsResolved(s, b) => b <= a

(* current_action: the eligible one of the lowest position. *)
IsCurrent(s, a) == a \in Eligible(s) /\ \A b \in Eligible(s) : a <= b

-----------------------------------------------------------------------------
(* Readiness *)

Target(s, q) == Manifest[bound[s]][q]

GarageSatisfies(target, row) ==
  row # None /\ row.unit = target.unit /\ row.quantity >= target.quantity

(* readiness_state = "have": the session's row, else _default_item_state. *)
Have(s, q) ==
  IF readiness[s][q] # None
  THEN readiness[s][q].state = "have"
  ELSE \/ Target(s, q).mode = "reuse_existing"
       \/ GarageSatisfies(Target(s, q), garage[q])

(* inventory_blockers of an action *)
InventoryBlockers(s, a) == {q \in procedure[a].needs : ~Have(s, q)}

InventoryBlocked(s, a) == InventoryBlockers(s, a) # {}

(* guidance_status, of an incomplete procedure *)
GuidanceStatus(s, a) ==
  CASE progress[s][a] = "blocked" -> "action_blocked"
    [] progress[s][a] # "blocked" /\ InventoryBlocked(s, a) -> "inventory_blocked"
    [] OTHER -> "action_available"

(* The part of _guidance_view that a workspace shows: where the procedure  *)
(* stands, its current action, and what is missing for it.                 *)
Guidance(s) ==
  IF ProcedureComplete(s)
  THEN [status |-> "procedure_complete", action |-> None, blockers |-> {}]
  ELSE LET a == CHOOSE a \in Actions : IsCurrent(s, a)
       IN [status |-> GuidanceStatus(s, a), action |-> a,
           blockers |-> InventoryBlockers(s, a)]

(* explain_guidance: the reason it gives, with the blockers it lists.      *)
Explanation(s) ==
  LET guidance == Guidance(s) IN
  CASE guidance.status = "procedure_complete" ->
         [reason |-> "verified_procedure_complete", blockers |-> {}]
    [] guidance.status = "inventory_blocked" ->
         [reason |-> "current_action_inventory_blocked", blockers |-> guidance.blockers]
    [] guidance.status = "action_blocked" ->
         [reason |-> "current_action_physically_blocked", blockers |-> guidance.blockers]
    [] OTHER -> [reason |-> "next_verified_action", blockers |-> {}]

(* _session_context raises nothing. *)
IsBound(s) == bound[s] # None

(* The next verified action of a resume answer: the current one when       *)
(* nothing keeps it from being done, or why there is none.                 *)
NextVerifiedAction(s) ==
  LET guidance == Guidance(s)
      Unavailable(reason) == [status |-> "unavailable", reason |-> reason]
  IN
  CASE ~IsBound(s) -> Unavailable("repair_plan_not_available")
    [] IsBound(s) /\ guidance.status = "action_available" ->
         [status |-> "available", label |-> guidance.action]
    [] OTHER -> Unavailable(guidance.status)

ResolvedQuantity(target, state, quantity) ==
  IF quantity # None THEN quantity
  ELSE IF state = "have" THEN target.quantity ELSE 0

(* _resolved_quantity does not refuse the report. *)
Enough(target, state, have) == state = "have" => have >= target.quantity

(* Mutant: the garage has the quantity reported last. *)
RememberLatest(row, quantity, unit) == [quantity |-> quantity, unit |-> unit]

(* _remember_reusable_requirement: what becomes of the garage row.         *)
Remember(row, quantity, unit) ==
  IF row = None THEN [quantity |-> quantity, unit |-> unit]
  ELSE IF row.unit = unit /\ quantity > row.quantity THEN [row EXCEPT !.quantity = quantity]
  ELSE row

-----------------------------------------------------------------------------
(* The lock of a session row, and of a garage row *)

LockFree(s) == job[s] = None

At(s, stage) == job[s] # None /\ job[s].stage = stage

(* Mutant: SELECT without FOR UPDATE. *)
GarageNeverLocked(q) == TRUE

GarageFree(q) == \A s \in Sessions : job[s] # None => job[s].locked # q

BeginJob(s, k, d, stage, request) ==
  /\ LockFree(s)
  /\ PrepareDomainMutation(s, k, d)
  /\ job' = [job EXCEPT ![s] =
       [stage |-> stage, key |-> k, device |-> d, request |-> request,
        locked |-> None, row |-> None]]
  /\ UNCHANGED <<vars, catalogVars, guidedVars>>

EndJob(s) ==
  /\ AppendDomainEvent(s, job[s].key, job[s].device)
  /\ said' = [said EXCEPT ![s][job[s].key] = job[s].request]
  /\ job' = [job EXCEPT ![s] = None]
  /\ UNCHANGED <<catalogVars, bound>>

Rollback(s) ==
  /\ job' = [job EXCEPT ![s] = None]
  /\ UNCHANGED <<vars, catalogVars, guidedVars>>

-----------------------------------------------------------------------------
(* Requests *)

(* _locked_session and _require_edit_lease raise nothing. *)
MayBind(s, d) ==
  /\ LockFree(s)
  /\ session[s] # NoSession /\ projection[s] # Missing
  /\ HasEditLease(projection[s], d)

(* An exact vehicle has a canonical configuration; the others are refused. *)
(* Projections are not lost here (RepairSession has that), so there is no  *)
(* rebuild.  Binding again what is bound writes nothing.                   *)
BindRepairDefinition(s, v, d) ==
  /\ MayBind(s, d)
  /\ verified = {v}
  /\ bound[s] = None
  /\ bound' = [bound EXCEPT ![s] = v]
  /\ UNCHANGED <<vars, catalogVars, readiness, progress, garage, said, job>>

(* update_repair_readiness, up to the garage. *)
BeginReadiness(s, k, d, q, state, quantity) ==
  LET have     == ResolvedQuantity(Target(s, q), state, quantity)
      remember == state = "have" /\ Target(s, q).mode = "reusable"
  IN
  /\ IsBound(s)
  /\ Enough(Target(s, q), state, have)
  /\ BeginJob(s, k, d, IF remember THEN "garage" ELSE "commit",
       [about |-> q, version |-> bound[s], state |-> state,
        quantity |-> have, remember |-> remember])

(* SELECT ... FOR UPDATE waits for a row that another transaction has      *)
(* locked; a row that is not committed yet is not there.                   *)
LockGarage(s) ==
  LET q == job[s].request.about IN
  /\ At(s, "garage")
  /\ garage[q] = None \/ GarageFree(q)
  /\ job' = [job EXCEPT ![s] =
       IF garage[q] = None
       THEN [job[s] EXCEPT !.stage = "insert"]
       ELSE [job[s] EXCEPT !.stage = "commit", !.locked = q, !.row = garage[q]]]
  /\ UNCHANGED <<vars, catalogVars, guidedVars>>

(* INSERT waits for an uncommitted insert of the same requirement, ...     *)
InsertGarage(s) ==
  LET q == job[s].request.about IN
  /\ At(s, "insert")
  /\ GarageFree(q)
  /\ garage[q] = None
  /\ job' = [job EXCEPT ![s] = [job[s] EXCEPT !.stage = "commit", !.locked = q]]
  /\ UNCHANGED <<vars, catalogVars, guidedVars>>

(* ... and violates uq_user_garage_inventory_requirement once there is one. *)
GarageTaken(s) ==
  /\ At(s, "insert")
  /\ garage[job[s].request.about] # None
  /\ Rollback(s)

IsReadiness(request) == request # None /\ request.about \in Requirements

(* The rows of the requirement and of the garage, and the event.           *)
CommitReadiness(s) ==
  LET r == job[s].request IN
  /\ At(s, "commit") /\ IsReadiness(r)
  /\ readiness' = [readiness EXCEPT ![s][r.about] =
                     [state |-> r.state, quantity |-> r.quantity]]
  /\ garage' = [garage EXCEPT ![r.about] =
       IF r.remember THEN Remember(job[s].row, r.quantity, Target(s, r.about).unit) ELSE @]
  /\ UNCHANGED progress
  /\ EndJob(s)

(* The checks of update_action_progress, made under the lock.              *)
MayProgress(s, a, state) ==
  /\ IsCurrent(s, a)
  /\ state = "completed" => ~InventoryBlocked(s, a)
  /\ state = "skipped" => procedure[a].skippable
  /\ progress[s][a] \notin Resolved

(* update_action_progress, up to the write of the action's row. *)
BeginProgress(s, k, d, a, state) ==
  /\ IsBound(s)
  /\ ValidDependencyGraph(procedure)
  /\ MayProgress(s, a, state)
  /\ BeginJob(s, k, d, "commit", [about |-> a, version |-> bound[s], state |-> state])

(* Mutant: a row that is there is not updated. *)
CommitFirstProgress(s) ==
  LET r == job[s].request IN
  /\ At(s, "commit") /\ ~IsReadiness(r)
  /\ progress' = [progress EXCEPT ![s][r.about] = IF @ = "pending" THEN r.state ELSE @]
  /\ UNCHANGED <<readiness, garage>>
  /\ EndJob(s)

(* The row of the action is inserted or updated, the event appended.       *)
CommitProgress(s) ==
  LET r == job[s].request IN
  /\ At(s, "commit") /\ ~IsReadiness(r)
  /\ progress' = [progress EXCEPT ![s][r.about] = r.state]
  /\ UNCHANGED <<readiness, garage>>
  /\ EndJob(s)

Abort(s) == ~LockFree(s) /\ Rollback(s)

(* A new version is verified and the old one superseded, outside the API.  *)
Supersede(v) ==
  /\ v \notin verified
  /\ verified' = {v}
  /\ UNCHANGED <<vars, procedure, guidedVars, job>>

SessionStep(s) ==
  /\ \/ \E v \in Vehicles, d \in Devices : CreateRepairSession(s, v, d)
     \/ LockFree(s) /\ \E d \in Devices : AcquireEditLease(s, d, TRUE)
     \/ LockFree(s) /\ \E k \in Keys, d \in Devices : AppendStatusEvent(s, "session_archived", k, d)
  /\ UNCHANGED <<catalogVars, guidedVars, job>>

GuidedNext ==
  \/ \E v \in Definitions : Supersede(v)
  \/ Tick /\ UNCHANGED <<catalogVars, guidedVars, job>>
  \/ \E s \in Sessions :
       \/ SessionStep(s)
       \/ \E v \in Definitions, d \in Devices : BindRepairDefinition(s, v, d)
       \/ \E k \in Keys, d \in Devices :
            \/ \E q \in Requirements, state \in Readinesses, n \in Quantities \cup {None} :
                 BeginReadiness(s, k, d, q, state, n)
            \/ \E a \in Actions, state \in Persisted : BeginProgress(s, k, d, a, state)
       \/ LockGarage(s)
       \/ InsertGarage(s)
       \/ GarageTaken(s)
       \/ CommitReadiness(s)
       \/ CommitProgress(s)
       \/ Abort(s)

GuidedSpec == GuidedInit /\ [][GuidedNext]_allVars
-----------------------------------------------------------------------------
(* Properties *)

(* _guidance_view raises no integrity error for a procedure that passes    *)
(* the validation, whatever was completed, skipped or blocked: there is a  *)
(* next action until the procedure is complete (so the assertion of        *)
(* explain_guidance holds), and no action is recorded as skipped that may  *)
(* not be.  Guidance and the mutation agree, though each decides for       *)
(* itself: of the actions only the current one may be completed, skipped   *)
(* or blocked, "PartGraph will not allow this action to complete" is said  *)
(* exactly when it is true of an action that is not blocked, and a blocked *)
(* action is not passed over.  A resume answer calls an action available   *)
(* when it may be completed there and then.                                *)
GuidanceIsDefined ==
  ValidDependencyGraph(procedure) => \A s \in Sessions :
    /\ \A a \in Actions : progress[s][a] = "skipped" => procedure[a].skippable
    /\ ProcedureComplete(s) \/ \E a \in Actions : IsCurrent(s, a)
    /\ NextVerifiedAction(s).status = "available" =>
         MayProgress(s, NextVerifiedAction(s).label, "completed")
    /\ IsBound(s) =>
         LET guidance == Guidance(s) IN
         /\ \A a \in Actions, state \in Persisted :
              MayProgress(s, a, state) => a = guidance.action
         /\ Explanation(s).reason = "verified_procedure_complete" <=> guidance.action = None
         /\ guidance.action # None =>
              LET a == guidance.action IN
              /\ Explanation(s).reason = "current_action_physically_blocked"
                   <=> progress[s][a] = "blocked"
              /\ Explanation(s).reason = "next_verified_action"
                   <=> MayProgress(s, a, "completed") /\ progress[s][a] = "pending"
              /\ Explanation(s).blockers = {} => MayProgress(s, a, "completed")

(* Actions are worked off in the order of their positions, without a gap,  *)
(* though the code only asks for the dependencies: the earliest unresolved *)
(* action is always eligible.                                              *)
WorkedInOrder ==
  \A s \in Sessions, a \in Actions : progress[s][a] # "pending" =>
    \A b \in Actions : b < a => IsResolved(s, b)

(* The readiness and progress rows are what the latest event about them    *)
(* says, and there is a row exactly when there is such an event.           *)
RowsAbout(s, x) == {e \in events[s] : said[s][e.key] # None /\ said[s][e.key].about = x}

LatestSaid(s, x) == said[s][Latest(RowsAbout(s, x)).key]

ProgressAgrees ==
  \A s \in Sessions :
    /\ \A a \in Actions : progress[s][a] =
         IF RowsAbout(s, a) = {} THEN "pending" ELSE LatestSaid(s, a).state
    /\ \A q \in Requirements :
         IF RowsAbout(s, q) = {} THEN readiness[s][q] = None
         ELSE /\ readiness[s][q].state = LatestSaid(s, q).state
              /\ readiness[s][q].quantity = LatestSaid(s, q).quantity

(* The garage has the largest quantity of a tool that any session of the   *)
(* owner ever reported in the unit of the garage row: of two sessions that *)
(* report at the same time, neither loses the other's report.              *)
Reported(q) ==
  {r \in {said[s][k] : s \in Sessions, k \in Keys} :
     IsReadiness(r) /\ r.about = q /\ r.remember}

GarageKeepsBest ==
  \A q \in Requirements :
    IF garage[q] = None THEN Reported(q) = {}
    ELSE LET same == {r.quantity : r \in {r \in Reported(q) :
                                            Manifest[r.version][q].unit = garage[q].unit}}
         IN garage[q].quantity \in same /\ \A n \in same : n <= garage[q].quantity

(* What a session's readiness and progress were checked against is what it *)
(* is bound to: a new version of the definition does not reach a session   *)
(* that was bound before ("cannot be silently re-bound").                  *)
RecordsMatchBinding ==
  \A s \in Sessions, k \in Keys : said[s][k] # None => said[s][k].version = bound[s]

(* The records of a session agree with its log and with its binding.       *)
RecordsAgree == ProgressAgrees /\ RecordsMatchBinding

(* An action is completed only when everything it requires is at hand at   *)
(* the commit, although the inventory was looked at before, and the garage *)
(* is shared with sessions that hold other locks.                          *)
CompletedWithInventory ==
  [][\A s \in Sessions, a \in Actions :
       (progress'[s][a] = "completed" /\ progress[s][a] # "completed")
       => ~InventoryBlocked(s, a)]_allVars
===============================================================================
