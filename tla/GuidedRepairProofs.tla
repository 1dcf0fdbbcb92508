-------------------------- MODULE GuidedRepairProofs --------------------------
(***************************************************************************)
(* Guided repair for any number of sessions, requirements, actions and     *)
(* versions: the guidance is defined whatever was completed, skipped or    *)
(* blocked, actions are worked off in order and with everything at hand,   *)
(* the tables say what the log says, and the garage loses no report.       *)
(*                                                                         *)
(* The invariant is the one of RepairSession together with what a mutation *)
(* that holds its session row may rely on until it commits.                *)
(***************************************************************************)
EXTENDS GuidedRepair, RepairSessionProofs

ReadinessRow == [state: Readinesses, quantity: Nat]

Job ==
  [stage: {"garage", "insert", "commit"}, key: Keys, device: Devices, request: Requests,
   locked: Requirements \cup {None}, row: GarageRow \cup {None}]

TablesAreTyped ==
  /\ procedure \in Procedures
  /\ verified \subseteq Definitions
  /\ bound \in [Sessions -> Definitions \cup {None}]
  /\ readiness \in [Sessions -> [Requirements -> ReadinessRow \cup {None}]]
  /\ progress \in [Sessions -> [Actions -> Persisted \cup {"pending"}]]
  /\ garage \in [Requirements -> GarageRow \cup {None}]
  /\ said \in [Sessions -> [Keys -> Requests \cup {None}]]
  /\ job \in [Sessions -> Job \cup {None}]

(* What was said was said under a key of the log, of the bound version.    *)
SaidInLog ==
  \A s \in Sessions, k \in Keys : said[s][k] # None =>
    /\ said[s][k].version = bound[s]
    /\ \E e \in events[s] : e.key = k

ReadinessIsEnough ==
  \A s \in Sessions, q \in Requirements : readiness[s][q] # None =>
    /\ bound[s] # None
    /\ readiness[s][q].state = "have" =>
         readiness[s][q].quantity >= Manifest[bound[s]][q].quantity

(* A mutation under way: its session is there and not archived, its key    *)
(* is not used, and it was checked against the bound version.              *)
JobIsPrepared ==
  \A s \in Sessions : job[s] # None =>
    /\ session[s] # NoSession /\ projection[s] # Missing
    /\ projection[s].status # "archived"
    /\ KeyUnused(s, job[s].key)
    /\ job[s].request.version = bound[s]

(* A report of readiness: enough of what it says is at hand; to be written *)
(* to the garage it has the row locked, or is inserting it, and the row is *)
(* as it was read.                                                         *)
ReportsHoldTheGarage ==
  \A s \in Sessions : job[s] # None /\ IsReadiness(job[s].request) =>
    LET j == job[s]
        q == j.request.about
    IN
    /\ j.request.state = "have" => j.request.quantity >= Manifest[bound[s]][q].quantity
    /\ j.request.remember => j.request.state = "have"
    /\ j.locked = IF j.request.remember /\ j.stage = "commit" THEN q ELSE None
    /\ j.stage # "commit" => j.request.remember
    /\ j.stage # "commit" => j.row = None
    /\ j.locked # None => garage[q] = j.row

OneLockPerRow ==
  \A s, t \in Sessions :
    /\ job[s] # None /\ job[t] # None
    /\ job[s].locked # None /\ job[s].locked = job[t].locked
    => s = t

(* A report of progress may still be made when it is committed.            *)
ProgressIsStillAllowed ==
  \A s \in Sessions : job[s] # None /\ ~IsReadiness(job[s].request) =>
    /\ job[s].stage = "commit" /\ job[s].locked = None
    /\ ValidDependencyGraph(procedure)
    /\ \E a \in Actions, state \in Persisted :
         /\ job[s].request.about = a /\ job[s].request.state = state
         /\ MayProgress(s, a, state)

SkippedWereSkippable ==
  \A s \in Sessions, a \in Actions : progress[s][a] = "skipped" => procedure[a].skippable

GInv ==
  /\ IInv /\ TablesAreTyped
  /\ SaidInLog /\ ReadinessIsEnough
  /\ JobIsPrepared /\ ReportsHoldTheGarage /\ OneLockPerRow /\ ProgressIsStillAllowed
  /\ WorkedInOrder /\ SkippedWereSkippable
  /\ ProgressAgrees /\ GarageKeepsBest

-----------------------------------------------------------------------------
(* The procedure: of the actions that are left, the first is the current   *)
(* one, and so there is one as long as any is left.                        *)
LEMMA CurrentIsFirst ==
  ASSUME ValidDependencyGraph(procedure), NEW s \in Sessions, NEW a \in Actions,
         IsCurrent(s, a), NEW b \in Actions, b < a
  PROVE  IsResolved(s, b)
<1> SUFFICES ASSUME ~IsResolved(s, b) PROVE FALSE
  OBVIOUS
<1> DEFINE rest == {c \in Actions : c < a /\ ~IsResolved(s, c)}
<1>1. PICK c \in rest : procedure[c].deps \cap rest = {}
  <2>1. rest \in (SUBSET Actions) \ {{}}
    OBVIOUS
  <2>2. QED
    BY <2>1 DEF ValidDependencyGraph
<1>2. \A d \in procedure[c].deps : d \in Actions /\ d < a
  <2> TAKE d \in procedure[c].deps
  <2>1. d \in Actions /\ d < c
    BY DEF ValidDependencyGraph
  <2>2. c < a /\ c \in Nat /\ d \in Nat /\ a \in Nat
    BY <2>1, ActionsAssumption
  <2>3. QED
    BY <2>1, <2>2
<1>3. c \in Eligible(s)
  BY <1>1, <1>2 DEF Eligible
<1>4. a <= c /\ c < a
  BY <1>3 DEF IsCurrent
<1>5. QED
  BY <1>4, ActionsAssumption

LEMMA SomethingIsCurrent ==
  ASSUME ValidDependencyGraph(procedure), NEW s \in Sessions, ~ProcedureComplete(s)
  PROVE  \E a \in Actions : IsCurrent(s, a)
<1> DEFINE rest == {a \in Actions : ~IsResolved(s, a)}
<1>1. PICK c \in rest : procedure[c].deps \cap rest = {}
  <2>1. rest \in (SUBSET Actions) \ {{}}
    BY DEF ProcedureComplete
  <2>2. QED
    BY <2>1 DEF ValidDependencyGraph
<1>2. c \in Eligible(s)
  BY <1>1 DEF Eligible, ValidDependencyGraph
<1>3. Eligible(s) \in SUBSET Nat /\ Eligible(s) # {}
  BY <1>2, ActionsAssumption DEF Eligible
<1>4. PICK a \in Eligible(s) : \A b \in Eligible(s) : a <= b
  BY <1>3, LeastNatural
<1>5. QED
  BY <1>4 DEF IsCurrent, Eligible

LEMMA CurrentIsOne ==
  ASSUME NEW s \in Sessions, NEW a \in Actions, NEW b \in Actions,
         IsCurrent(s, a), IsCurrent(s, b)
  PROVE  a = b
BY ActionsAssumption DEF IsCurrent

(* What is at hand stays at hand while a session's own rows stay: the      *)
(* garage only grows.                                                      *)
GarageGrows ==
  \A q \in Requirements : garage[q] # None =>
    /\ garage'[q] # None
    /\ garage'[q].unit = garage[q].unit
    /\ garage'[q].quantity >= garage[q].quantity

LEMMA HaveIsKept ==
  ASSUME TablesAreTyped, TablesAreTyped', GarageGrows,
         NEW s \in Sessions, NEW q \in Requirements,
         readiness'[s] = readiness[s], bound'[s] = bound[s], bound[s] # None,
         Have(s, q)
  PROVE  Have(s, q)'
<1>1. CASE readiness[s][q] # None
  BY <1>1 DEF Have
<1>2. CASE readiness[s][q] = None
  <2>1. CASE GarageSatisfies(Target(s, q), garage[q])
    <3>1. garage[q] \in GarageRow /\ garage'[q] \in GarageRow
      BY <2>1 DEF GarageSatisfies, TablesAreTyped, GarageGrows
    <3>2. Target(s, q).quantity \in Nat
      BY ManifestAssumption DEF Target, TablesAreTyped
    <3>3. garage'[q].quantity >= Target(s, q).quantity
      BY <2>1, <3>1, <3>2 DEF GarageSatisfies, GarageGrows, GarageRow
    <3>4. GarageSatisfies(Target(s, q), garage'[q])
      BY <2>1, <3>3 DEF GarageSatisfies, GarageGrows
    <3>5. Target(s, q)' = Target(s, q)
      BY DEF Target
    <3>6. QED
      BY <1>2, <3>4, <3>5 DEF Have
  <2>2. CASE Target(s, q).mode = "reuse_existing"
    BY <1>2, <2>2 DEF Have, Target
  <2>3. QED
    BY <1>2, <2>1, <2>2 DEF Have
<1>3. QED
  BY <1>1, <1>2

-----------------------------------------------------------------------------
(* The log: what was said about a thing stays said of it alone.            *)
SameAbout(s, x) ==
  /\ RowsAbout(s, x)' = RowsAbout(s, x)
  /\ RowsAbout(s, x) # {} => LatestSaid(s, x)' = LatestSaid(s, x)

(* Rows under keys nothing was said under leave what was said alone.       *)
LEMMA SilentRows ==
  ASSUME SaidInLog, UNCHANGED <<said, bound>>,
         \A s \in Sessions : events[s] \subseteq events'[s],
         \A s \in Sessions : \A e \in events'[s] \ events[s] : e.key \in Keys /\ KeyUnused(s, e.key)
  PROVE  SaidInLog' /\ \A s \in Sessions : \A x : SameAbout(s, x)
<1>1. SaidInLog'
  BY DEF SaidInLog
<1>2. ASSUME NEW s \in Sessions, NEW e \in events'[s] \ events[s] PROVE said[s][e.key] = None
  BY <1>2 DEF SaidInLog, KeyUnused
<1>3. ASSUME NEW s \in Sessions, NEW x PROVE SameAbout(s, x)
  <2>1. RowsAbout(s, x)' = RowsAbout(s, x)
    BY <1>2 DEF RowsAbout
  <2>2. QED
    BY <2>1 DEF SameAbout, LatestSaid
<1>4. QED
  BY <1>1, <1>3

(* The invariant of the parts that no step of RepairSession writes.        *)
LEMMA SilentStep ==
  ASSUME GInv, IInv', SaidInLog', JobIsPrepared', UNCHANGED <<catalogVars, guidedVars, job>>,
         \A s \in Sessions : \A x : SameAbout(s, x)
  PROVE  GInv'
<1>1. TablesAreTyped' /\ ReadinessIsEnough' /\ ReportsHoldTheGarage' /\ OneLockPerRow'
  BY DEF GInv, catalogVars, guidedVars, TablesAreTyped, ReadinessIsEnough,
         ReportsHoldTheGarage, OneLockPerRow
<1>2. ProgressIsStillAllowed' /\ SkippedWereSkippable' /\ WorkedInOrder'
  BY DEF GInv, catalogVars, guidedVars, ProgressIsStillAllowed, SkippedWereSkippable, WorkedInOrder,
         MayProgress, IsCurrent, Eligible, IsResolved, InventoryBlocked, InventoryBlockers, Have,
         Target, GarageSatisfies, ValidDependencyGraph
<1>3. ProgressAgrees'
  BY DEF GInv, guidedVars, ProgressAgrees, SameAbout
<1>4. GarageKeepsBest'
  BY DEF GInv, guidedVars, GarageKeepsBest, Reported
<1>5. QED
  BY <1>1, <1>2, <1>3, <1>4 DEF GInv

(* A session step while no mutation holds the row of its session.          *)
LEMMA SessionStepKeeps ==
  ASSUME GInv, NEW s \in Sessions, SessionStep(s)
  PROVE  GInv'
<1> DEFINE Quiet ==
      /\ IInv'
      /\ job[s] = None
      /\ \A t \in Sessions \ {s} : /\ session'[t] = session[t] /\ events'[t] = events[t]
                                   /\ projection'[t] = projection[t]
      /\ \A t \in Sessions : events[t] \subseteq events'[t]
      /\ \A e \in events'[s] \ events[s] : e.key \in Keys /\ KeyUnused(s, e.key)
<1> HIDE DEF Quiet
<1>0. DOMAIN session = Sessions /\ DOMAIN events = Sessions /\ DOMAIN projection = Sessions
  BY DEF GInv, IInv
<1>1. Quiet
  <2>1. ASSUME NEW v \in Vehicles, NEW d \in Devices, CreateRepairSession(s, v, d)
        PROVE  Quiet
    <3>1. IInv' /\ job[s] = None
      BY <2>1, CreateKeeps DEF GInv, JobIsPrepared, CreateRepairSession
    <3>2. events[s] = {}
      <4>1. Good(session[s], events[s], projection[s])
        BY DEF GInv, IInv
      <4>2. QED
        BY <2>1, <4>1, NullAssumption DEF Good, CreateRepairSession
    <3>3. s \in Keys
      BY SessionsAssumption
    <3>4. QED
      BY <1>0, <2>1, <3>1, <3>2, <3>3 DEF Quiet, CreateRepairSession, KeyUnused
  <2>2. ASSUME NEW d \in Devices, LockFree(s), AcquireEditLease(s, d, TRUE)
        PROVE  Quiet
    <3>1. IInv' /\ job[s] = None
      BY <2>2, AcquireKeeps DEF GInv, LockFree
    <3>2. QED
      BY <1>0, <2>2, <3>1 DEF Quiet, AcquireEditLease
  <2>3. ASSUME NEW k \in Keys, NEW d \in Devices, LockFree(s),
               AppendStatusEvent(s, "session_archived", k, d)
        PROVE  Quiet
    <3>1. IInv' /\ job[s] = None
      BY <2>3, AppendStatusKeeps DEF GInv, LockFree, LIFECYCLE_EVENT_TYPES
    <3>2. QED
      BY <1>0, <2>3, <3>1 DEF Quiet, AppendStatusEvent, AppendRow
  <2>4. QED
    BY <2>1, <2>2, <2>3 DEF SessionStep
<1>2. UNCHANGED <<catalogVars, guidedVars, job>>
  BY DEF SessionStep
<1>3. JobIsPrepared'
  BY <1>1, <1>2 DEF Quiet, GInv, JobIsPrepared, guidedVars, KeyUnused
<1>4. SaidInLog' /\ \A t \in Sessions : \A x : SameAbout(t, x)
  BY <1>1, <1>2, SilentRows DEF Quiet, GInv, guidedVars
<1>5. QED
  BY <1>1, <1>2, <1>3, <1>4, SilentStep DEF Quiet

LEMMA QuietKeeps ==
  ASSUME GInv, UNCHANGED <<session, events, projection, archivedVehicles>>,
         clock' \in Nat, UNCHANGED <<catalogVars, guidedVars, job>>
  PROVE  GInv'
<1>1. IInv'
  BY DEF GInv, IInv
<1>2. JobIsPrepared'
  BY DEF GInv, JobIsPrepared, guidedVars, KeyUnused
<1>3. SaidInLog' /\ \A t \in Sessions : \A x : SameAbout(t, x)
  BY SilentRows DEF GInv, guidedVars
<1>4. QED
  BY <1>1, <1>2, <1>3, SilentStep

(* A new version is verified: nothing else of the model reads `verified`.  *)
LEMMA SupersedeKeeps ==
  ASSUME GInv, NEW v \in Definitions, Supersede(v)
  PROVE  GInv'
<1>1. UNCHANGED <<vars, procedure, guidedVars, job>> /\ verified' = {v}
  BY DEF Supersede
<1>2. IInv'
  BY <1>1 DEF vars, GInv, IInv
<1>3. TablesAreTyped' /\ ReadinessIsEnough' /\ ReportsHoldTheGarage' /\ OneLockPerRow'
  BY <1>1 DEF GInv, guidedVars, TablesAreTyped, ReadinessIsEnough, ReportsHoldTheGarage, OneLockPerRow
<1>4. ProgressIsStillAllowed' /\ SkippedWereSkippable' /\ WorkedInOrder'
  BY <1>1 DEF GInv, guidedVars, ProgressIsStillAllowed, SkippedWereSkippable, WorkedInOrder,
         MayProgress, IsCurrent, Eligible, IsResolved, InventoryBlocked, InventoryBlockers, Have,
         Target, GarageSatisfies, ValidDependencyGraph
<1>5. SaidInLog' /\ JobIsPrepared'
  BY <1>1 DEF GInv, guidedVars, vars, SaidInLog, JobIsPrepared, KeyUnused
<1>6. ProgressAgrees' /\ GarageKeepsBest'
  <2>1. \A s \in Sessions : \A x : SameAbout(s, x)
    BY <1>1 DEF guidedVars, vars, SameAbout, LatestSaid, RowsAbout
  <2>2. ProgressAgrees'
    BY <1>1, <2>1 DEF GInv, guidedVars, ProgressAgrees, SameAbout
  <2>3. GarageKeepsBest'
    BY <1>1 DEF GInv, guidedVars, GarageKeepsBest, Reported
  <2>4. QED
    BY <2>2, <2>3
<1>7. QED
  BY <1>2, <1>3, <1>4, <1>5, <1>6 DEF GInv

(* A session is bound once: before, nothing was reported in it.            *)
LEMMA BindKeeps ==
  ASSUME GInv, NEW s \in Sessions, NEW v \in Definitions, NEW d \in Devices,
         BindRepairDefinition(s, v, d)
  PROVE  GInv'
<1>1. /\ bound' = [bound EXCEPT ![s] = v] /\ bound[s] = None /\ job[s] = None
      /\ UNCHANGED <<vars, catalogVars, readiness, progress, garage, said, job>>
  BY DEF BindRepairDefinition, MayBind, LockFree
<1>2. /\ \A t \in Sessions \ {s} : bound'[t] = bound[t]
      /\ \A k \in Keys : said[s][k] = None
      /\ \A q \in Requirements : readiness[s][q] = None
  <2>1. \A k \in Keys : said[s][k] # None => said[s][k].version \in Definitions
    BY DEF GInv, TablesAreTyped, Requests
  <2>2. QED
    BY <1>1, <2>1, GuidedNullAssumption DEF GInv, TablesAreTyped, SaidInLog, ReadinessIsEnough
<1>3. IInv'
  BY <1>1 DEF vars, GInv, IInv
<1>4. TablesAreTyped' /\ ReadinessIsEnough' /\ OneLockPerRow'
  BY <1>1, <1>2 DEF GInv, catalogVars, TablesAreTyped, ReadinessIsEnough, OneLockPerRow
<1>5. ReportsHoldTheGarage'
  BY <1>1, <1>2 DEF GInv, ReportsHoldTheGarage
<1>6. ProgressIsStillAllowed'
  <2>1. ASSUME NEW t \in Sessions \ {s}, NEW a \in Actions, NEW state, MayProgress(t, a, state)
        PROVE  MayProgress(t, a, state)'
    BY <1>1, <1>2, <2>1 DEF catalogVars, MayProgress, IsCurrent, Eligible, IsResolved,
         InventoryBlocked, InventoryBlockers, Have, Target, GarageSatisfies
  <2>2. QED
    BY <1>1, <2>1 DEF GInv, catalogVars, ProgressIsStillAllowed
<1>7. SkippedWereSkippable' /\ WorkedInOrder'
  BY <1>1 DEF GInv, catalogVars, SkippedWereSkippable, WorkedInOrder, IsResolved
<1>8. SaidInLog' /\ JobIsPrepared'
  BY <1>1, <1>2 DEF GInv, vars, SaidInLog, JobIsPrepared, KeyUnused
<1>9. ProgressAgrees' /\ GarageKeepsBest'
  <2>1. \A t \in Sessions : \A x : SameAbout(t, x)
    BY <1>1 DEF vars, SameAbout, LatestSaid, RowsAbout
  <2>2. ProgressAgrees'
    BY <1>1, <2>1 DEF GInv, ProgressAgrees, SameAbout
  <2>3. GarageKeepsBest'
    BY <1>1 DEF GInv, GarageKeepsBest, Reported
  <2>4. QED
    BY <2>2, <2>3
<1>10. QED
  BY <1>3, <1>4, <1>5, <1>6, <1>7, <1>8, <1>9 DEF GInv

-----------------------------------------------------------------------------
(* Steps of a mutation that write nothing yet.                             *)
LEMMA JobKeeps ==
  ASSUME GInv, NEW s \in Sessions, NEW j \in Job \cup {None},
         job' = [job EXCEPT ![s] = j], UNCHANGED <<vars, catalogVars, guidedVars>>,
         j # None =>
           /\ session[s] # NoSession /\ projection[s] # Missing
           /\ projection[s].status # "archived"
           /\ KeyUnused(s, j.key)
           /\ j.request.version = bound[s],
         j # None /\ IsReadiness(j.request) =>
           /\ j.request.state = "have" =>
                j.request.quantity >= Manifest[bound[s]][j.request.about].quantity
           /\ j.request.remember => j.request.state = "have"
           /\ j.locked = IF j.request.remember /\ j.stage = "commit" THEN j.request.about ELSE None
           /\ j.stage # "commit" => j.request.remember
           /\ j.stage # "commit" => j.row = None
           /\ j.locked # None => garage[j.locked] = j.row,
         j # None /\ ~IsReadiness(j.request) =>
           /\ j.stage = "commit" /\ j.locked = None
           /\ ValidDependencyGraph(procedure)
           /\ \E a \in Actions, state \in Persisted :
                j.request.about = a /\ j.request.state = state /\ MayProgress(s, a, state),
         j # None /\ j.locked # None =>
           \A t \in Sessions \ {s} : job[t] # None => job[t].locked # j.locked
  PROVE  GInv'
<1>1. /\ job' \in [Sessions -> Job \cup {None}] /\ job'[s] = j
      /\ \A t \in Sessions \ {s} : job'[t] = job[t]
  BY DEF GInv, TablesAreTyped
<1>2. IInv' /\ TablesAreTyped'
  BY <1>1 DEF vars, catalogVars, guidedVars, GInv, IInv, TablesAreTyped
<1>3. SaidInLog' /\ ReadinessIsEnough'
  BY DEF vars, guidedVars, GInv, SaidInLog, ReadinessIsEnough
<1>4. JobIsPrepared'
  BY <1>1 DEF vars, guidedVars, GInv, JobIsPrepared, KeyUnused
<1>5. ReportsHoldTheGarage'
  BY <1>1 DEF guidedVars, GInv, ReportsHoldTheGarage
<1>6. OneLockPerRow'
  BY <1>1 DEF GInv, OneLockPerRow
<1>7. ProgressIsStillAllowed'
  <2>1. ASSUME NEW t \in Sessions, NEW a \in Actions, NEW state, MayProgress(t, a, state)
        PROVE  MayProgress(t, a, state)'
    BY <2>1 DEF catalogVars, guidedVars, MayProgress, IsCurrent, Eligible, IsResolved,
         InventoryBlocked, InventoryBlockers, Have, Target, GarageSatisfies
  <2>2. QED
    BY <1>1, <2>1 DEF GInv, catalogVars, ProgressIsStillAllowed
<1>8. SkippedWereSkippable' /\ WorkedInOrder'
  BY DEF GInv, catalogVars, guidedVars, SkippedWereSkippable, WorkedInOrder, IsResolved
<1>9. ProgressAgrees' /\ GarageKeepsBest'
  <2>1. \A t \in Sessions : \A x : SameAbout(t, x)
    BY DEF guidedVars, vars, SameAbout, LatestSaid, RowsAbout
  <2>2. ProgressAgrees'
    BY <2>1 DEF GInv, guidedVars, ProgressAgrees, SameAbout
  <2>3. GarageKeepsBest'
    BY DEF GInv, guidedVars, GarageKeepsBest, Reported
  <2>4. QED
    BY <2>2, <2>3
<1>10. QED
  BY <1>2, <1>3, <1>4, <1>5, <1>6, <1>7, <1>8, <1>9 DEF GInv

LEMMA RollbackKeeps ==
  ASSUME GInv, NEW s \in Sessions, Rollback(s)
  PROVE  GInv'
BY JobKeeps DEF Rollback

(* A report of readiness is of a requirement, one of progress of an action. *)
LEMMA RequestIsTyped ==
  ASSUME GInv, NEW s \in Sessions, job[s] # None
  PROVE  /\ job[s] \in Job /\ job[s].request \in Requests
         /\ IsReadiness(job[s].request) =>
              /\ job[s].request.about \in Requirements /\ job[s].request.state \in Readinesses
              /\ job[s].request.quantity \in Nat /\ job[s].request.remember \in BOOLEAN
         /\ ~IsReadiness(job[s].request) =>
              job[s].request.about \in Actions /\ job[s].request.state \in Persisted
<1>1. job[s] \in Job
  BY DEF GInv, TablesAreTyped
<1>2. PICK r \in Requests : r = job[s].request
  BY <1>1 DEF Job
<1>3. CASE r \in [about: Requirements, version: Definitions, state: {"have", "missing"},
                  quantity: Nat, remember: BOOLEAN]
  BY <1>1, <1>2, <1>3, GuidedNullAssumption DEF IsReadiness, Readinesses
<1>4. CASE r \in [about: Actions, version: Definitions, state: {"completed", "skipped", "blocked"}]
  BY <1>1, <1>2, <1>4, GuidedNullAssumption DEF IsReadiness, Persisted
<1>5. QED
  BY <1>2, <1>3, <1>4 DEF Requests

LEMMA ReportIsReady ==
  ASSUME GInv, NEW s \in Sessions, NEW j, j = job[s], j # None, j.stage # "commit"
  PROVE  /\ j \in Job /\ IsReadiness(j.request) /\ j.request.about \in Requirements
         /\ j.request.remember /\ j.request.state = "have" /\ j.locked = None /\ j.row = None
         /\ j.request.quantity >= Manifest[bound[s]][j.request.about].quantity
         /\ session[s] # NoSession /\ projection[s] # Missing
         /\ projection[s].status # "archived"
         /\ KeyUnused(s, j.key)
         /\ j.request.version = bound[s]
<1>1. j \in Job /\ IsReadiness(j.request) /\ j.request.about \in Requirements
  BY RequestIsTyped DEF GInv, ProgressIsStillAllowed
<1>2. /\ j.request.remember /\ j.request.state = "have" /\ j.locked = None /\ j.row = None
      /\ j.request.quantity >= Manifest[bound[s]][j.request.about].quantity
  BY <1>1 DEF GInv, ReportsHoldTheGarage
<1>3. QED
  BY <1>1, <1>2 DEF GInv, JobIsPrepared

(* A report of readiness moves on, with the same request under its key.    *)
LEMMA ReportKeeps ==
  ASSUME GInv, NEW s \in Sessions, NEW j, j = job[s], j # None, j.stage # "commit",
         NEW n \in Job, n.key = j.key, n.request = j.request,
         n.locked = IF n.stage = "commit" THEN j.request.about ELSE None,
         n.stage # "commit" => n.row = None,
         n.stage = "commit" =>
           /\ n.row = garage[j.request.about]
           /\ \A t \in Sessions : job[t] # None => job[t].locked # j.request.about,
         job' = [job EXCEPT ![s] = n], UNCHANGED <<vars, catalogVars, guidedVars>>
  PROVE  GInv'
<1>1. /\ session[s] # NoSession /\ projection[s] # Missing
      /\ projection[s].status # "archived"
      /\ KeyUnused(s, n.key)
      /\ n.request.version = bound[s]
  BY ReportIsReady
<1>2. IsReadiness(n.request)
  BY ReportIsReady
<1>3. /\ n.request.state = "have" =>
           n.request.quantity >= Manifest[bound[s]][n.request.about].quantity
      /\ n.request.remember => n.request.state = "have"
      /\ n.locked = IF n.request.remember /\ n.stage = "commit" THEN n.request.about ELSE None
      /\ n.stage # "commit" => n.request.remember
      /\ n.stage # "commit" => n.row = None
      /\ n.locked # None => garage[n.locked] = n.row
  BY ReportIsReady
<1>4. n.locked # None => \A t \in Sessions \ {s} : job[t] # None => job[t].locked # n.locked
  OBVIOUS
<1>5. QED
  BY <1>1, <1>2, <1>3, <1>4, JobKeeps

LEMMA LockGarageKeeps ==
  ASSUME GInv, NEW s \in Sessions, LockGarage(s)
  PROVE  GInv'
<1>1. PICK j, q : j = job[s] /\ q = j.request.about
  OBVIOUS
<1>2. /\ j # None /\ j.stage = "garage" /\ (garage[q] = None \/ GarageFree(q))
      /\ UNCHANGED <<vars, catalogVars, guidedVars>>
  BY <1>1 DEF LockGarage, At
<1>3. j \in Job /\ IsReadiness(j.request) /\ q \in Requirements /\ j.request.remember
  BY <1>1, <1>2, ReportIsReady
<1>4. CASE garage[q] = None
  <2>1. PICK n : n = [j EXCEPT !.stage = "insert"]
    OBVIOUS
  <2>2. /\ n \in Job /\ n.key = j.key /\ n.request = j.request /\ n.stage = "insert"
        /\ n.locked = None /\ n.row = None
    <3>1. j \in Job /\ j.locked = None /\ j.row = None
      BY <1>1, <1>2, ReportIsReady
    <3>2. QED
      BY <2>1, <3>1 DEF Job
  <2>3. job' = [job EXCEPT ![s] = n]
    BY <1>1, <1>4, <2>1 DEF LockGarage
  <2>4. QED
    BY <1>1, <1>2, <2>2, <2>3, ReportKeeps
<1>5. CASE garage[q] # None
  <2>1. PICK n : n = [j EXCEPT !.stage = "commit", !.locked = q, !.row = garage[q]]
    OBVIOUS
  <2>2. garage[q] \in GarageRow
    BY <1>3, <1>5 DEF GInv, TablesAreTyped
  <2>3. /\ n \in Job /\ n.key = j.key /\ n.request = j.request /\ n.stage = "commit"
        /\ n.locked = q /\ n.row = garage[q]
    BY <1>3, <2>1, <2>2 DEF Job
  <2>4. job' = [job EXCEPT ![s] = n]
    BY <1>1, <1>5, <2>1 DEF LockGarage
  <2>5. \A t \in Sessions : job[t] # None => job[t].locked # q
    BY <1>2, <1>5 DEF GarageFree
  <2>6. QED
    BY <1>1, <1>2, <2>3, <2>4, <2>5, ReportKeeps
<1>6. QED
  BY <1>4, <1>5

LEMMA InsertGarageKeeps ==
  ASSUME GInv, NEW s \in Sessions, InsertGarage(s)
  PROVE  GInv'
<1>1. PICK j, q : j = job[s] /\ q = j.request.about
  OBVIOUS
<1>2. /\ j # None /\ j.stage = "insert" /\ GarageFree(q) /\ garage[q] = None
      /\ UNCHANGED <<vars, catalogVars, guidedVars>>
  BY <1>1 DEF InsertGarage, At
<1>3. j \in Job /\ IsReadiness(j.request) /\ q \in Requirements /\ j.request.remember
  BY <1>1, <1>2, ReportIsReady
<1>4. PICK n : n = [j EXCEPT !.stage = "commit", !.locked = q]
  OBVIOUS
<1>5. /\ n \in Job /\ n.key = j.key /\ n.request = j.request /\ n.stage = "commit"
      /\ n.locked = q /\ n.row = j.row
  BY <1>3, <1>4 DEF Job
<1>6. job' = [job EXCEPT ![s] = n]
  BY <1>1, <1>4 DEF InsertGarage
<1>7. \A t \in Sessions : job[t] # None => job[t].locked # q
  BY <1>2 DEF GarageFree
<1>8. j.row = None
  BY <1>1, <1>2, ReportIsReady
<1>9. QED
  BY <1>1, <1>2, <1>5, <1>6, <1>7, <1>8, ReportKeeps

(* A mutation begins with what it was checked for.                         *)
LEMMA BeginKeeps ==
  ASSUME GInv, NEW s \in Sessions, NEW k \in Keys, NEW d \in Devices,
         NEW stage \in {"garage", "insert", "commit"}, NEW r \in Requests,
         BeginJob(s, k, d, stage, r), r.version = bound[s],
         IsReadiness(r) =>
           /\ r.state = "have" => r.quantity >= Manifest[bound[s]][r.about].quantity
           /\ r.remember => r.state = "have"
           /\ stage = IF r.remember THEN "garage" ELSE "commit",
         ~IsReadiness(r) =>
           /\ stage = "commit" /\ ValidDependencyGraph(procedure)
           /\ \E a \in Actions, state \in Persisted :
                r.about = a /\ r.state = state /\ MayProgress(s, a, state)
  PROVE  GInv'
<1>1. PICK n : n = [stage |-> stage, key |-> k, device |-> d, request |-> r,
                    locked |-> None, row |-> None]
  OBVIOUS
<1>2. /\ n \in Job /\ n.stage = stage /\ n.key = k /\ n.request = r
      /\ n.locked = None /\ n.row = None
  BY <1>1 DEF Job
<1>3. job' = [job EXCEPT ![s] = n] /\ UNCHANGED <<vars, catalogVars, guidedVars>>
  BY <1>1 DEF BeginJob
<1>4. /\ session[s] # NoSession /\ projection[s] # Missing
      /\ projection[s].status # "archived" /\ KeyUnused(s, k)
  BY DEF BeginJob, PrepareDomainMutation, HasEditLease
<1>5. QED
  BY <1>2, <1>3, <1>4, JobKeeps

LEMMA BeginReadinessKeeps ==
  ASSUME GInv, NEW s \in Sessions, NEW k \in Keys, NEW d \in Devices,
         NEW q \in Requirements, NEW state \in Readinesses, NEW n \in Quantities \cup {None},
         BeginReadiness(s, k, d, q, state, n)
  PROVE  GInv'
<1>1. PICK have, remember : /\ have = ResolvedQuantity(Target(s, q), state, n)
                            /\ remember = (state = "have" /\ Target(s, q).mode = "reusable")
  OBVIOUS
<1>2. PICK r : r = [about |-> q, version |-> bound[s], state |-> state,
                    quantity |-> have, remember |-> remember]
  OBVIOUS
<1>3. /\ bound[s] \in Definitions /\ Enough(Target(s, q), state, have)
      /\ BeginJob(s, k, d, IF remember THEN "garage" ELSE "commit", r)
  BY <1>1, <1>2 DEF BeginReadiness, IsBound, GInv, TablesAreTyped
<1>4. Target(s, q).quantity \in Nat \ {0}
  BY <1>3, ManifestAssumption DEF Target
<1>5. have \in Nat /\ remember \in BOOLEAN
  BY <1>1, <1>4, ManifestAssumption DEF ResolvedQuantity
<1>6. r \in Requests /\ r # None
  BY <1>2, <1>3, <1>5, GuidedNullAssumption DEF Requests, Readinesses
<1>7. /\ IsReadiness(r) /\ r.about = q /\ r.version = bound[s] /\ r.state = state
      /\ r.quantity = have /\ r.remember = remember
  BY <1>2, <1>6 DEF IsReadiness
<1>8. state = "have" => have >= Manifest[bound[s]][q].quantity
  BY <1>3 DEF Enough, Target
<1>9. remember => state = "have"
  BY <1>1
<1>10. QED
  BY <1>3, <1>5, <1>6, <1>7, <1>8, <1>9, BeginKeeps

LEMMA BeginProgressKeeps ==
  ASSUME GInv, NEW s \in Sessions, NEW k \in Keys, NEW d \in Devices,
         NEW a \in Actions, NEW state \in Persisted,
         BeginProgress(s, k, d, a, state)
  PROVE  GInv'
<1>1. PICK r : r = [about |-> a, version |-> bound[s], state |-> state]
  OBVIOUS
<1>2. /\ bound[s] \in Definitions /\ ValidDependencyGraph(procedure)
      /\ MayProgress(s, a, state)
      /\ BeginJob(s, k, d, "commit", r)
  BY <1>1 DEF BeginProgress, IsBound, GInv, TablesAreTyped
<1>3. r \in Requests
  BY <1>1, <1>2 DEF Requests, Persisted
<1>4. r.about = a /\ r.version = bound[s] /\ r.state = state
  BY <1>1
<1>5. ~IsReadiness(r)
  BY <1>4, GuidedNullAssumption DEF IsReadiness
<1>6. QED
  BY <1>2, <1>3, <1>4, <1>5, BeginKeeps

-----------------------------------------------------------------------------
(* The commits. *)

(* The log after the event: it is the latest about its subject, and says   *)
(* nothing of any other.                                                   *)
LEMMA EndJobDoes ==
  ASSUME GInv, NEW s \in Sessions, NEW j, j = job[s], j # None, EndJob(s)
  PROVE  /\ IInv'
         /\ said' = [said EXCEPT ![s][j.key] = j.request]
         /\ job' = [job EXCEPT ![s] = None]
         /\ UNCHANGED <<session, catalogVars, bound>>
         /\ \A t \in Sessions \ {s} : projection'[t] = projection[t] /\ events'[t] = events[t]
         /\ events[s] \subseteq events'[s]
         /\ said[s][j.key] = None
         /\ \E e \in events'[s] : e.key = j.key
         /\ \A t \in Sessions : \A x : ~(t = s /\ x = j.request.about) => SameAbout(t, x)
         /\ (RowsAbout(s, j.request.about) # {})'
         /\ LatestSaid(s, j.request.about)' = j.request
<1>1. /\ session[s] # NoSession /\ projection[s] # Missing
      /\ projection[s].status # "archived" /\ KeyUnused(s, j.key)
      /\ j \in Job /\ j.key \in Keys /\ j.device \in Devices /\ j.request \in Requests
  BY RequestIsTyped DEF GInv, JobIsPrepared, Job
<1>2. /\ AppendDomainEvent(s, j.key, j.device)
      /\ said' = [said EXCEPT ![s][j.key] = j.request]
      /\ job' = [job EXCEPT ![s] = None]
      /\ UNCHANGED <<catalogVars, bound>>
  BY DEF EndJob
<1>3. IInv'
  BY <1>1, <1>2, AppendDomainKeeps DEF GInv
<1>4. PICK e \in Row(Keys, Devices) :
        /\ events' = [events EXCEPT ![s] = events[s] \cup {e}]
        /\ e.key = j.key
        /\ \A f \in events[s] : f.key # j.key /\ f.seq \in Nat /\ f.seq < e.seq
  BY <1>1, <1>2, DomainRowIsLast DEF GInv
<1>5. events'[s] = events[s] \cup {e} /\ \A t \in Sessions \ {s} : events'[t] = events[t]
  BY <1>4 DEF GInv, IInv
<1>6. UNCHANGED session /\ \A t \in Sessions \ {s} : projection'[t] = projection[t]
  BY <1>2 DEF AppendDomainEvent, GInv, IInv
<1>7. said[s][j.key] = None
  BY <1>1 DEF GInv, SaidInLog, KeyUnused
<1>8. /\ said'[s][j.key] = j.request
      /\ \A k \in Keys : k # j.key => said'[s][k] = said[s][k]
      /\ \A t \in Sessions \ {s} : said'[t] = said[t]
  BY <1>1, <1>2 DEF GInv, TablesAreTyped
<1>9. j.request # None
  BY <1>1, GuidedNullAssumption
<1>10. \A t \in Sessions : events[t] \subseteq Row(Keys, Devices)
  BY DEF GInv, IInv
<1>11. ASSUME NEW t \in Sessions, NEW x, ~(t = s /\ x = j.request.about)
       PROVE  SameAbout(t, x)
  <2>1. RowsAbout(t, x)' = RowsAbout(t, x)
    <3>1. CASE t # s
      BY <1>5, <1>8, <3>1 DEF RowsAbout
    <3>2. CASE t = s
      <4>1. \A f \in events[s] : f.key \in Keys /\ said'[s][f.key] = said[s][f.key]
        BY <1>4, <1>8, <1>10 DEF Row
      <4>2. QED
        BY <1>4, <1>5, <1>8, <1>11, <3>2, <4>1 DEF RowsAbout
    <3>3. QED
      BY <3>1, <3>2
  <2>2. ASSUME RowsAbout(t, x) # {} PROVE LatestSaid(t, x)' = LatestSaid(t, x)
    <3>1. Latest(RowsAbout(t, x)) \in events[t]
      <4>1. RowsAbout(t, x) \in SUBSET events[t]
        BY DEF RowsAbout
      <4>2. QED
        BY <2>2, <4>1, SomeRowIsLast DEF GInv
    <3>2. said'[t][Latest(RowsAbout(t, x)).key] = said[t][Latest(RowsAbout(t, x)).key]
      BY <1>4, <1>8, <1>10, <3>1 DEF Row
    <3>3. QED
      BY <2>1, <3>2 DEF LatestSaid
  <2>3. QED
    BY <2>1, <2>2 DEF SameAbout
<1>12. PICK x : x = j.request.about
  OBVIOUS
<1>13. e \in RowsAbout(s, x)' /\ RowsAbout(s, x)' \subseteq events[s] \cup {e}
  BY <1>4, <1>5, <1>8, <1>9, <1>12 DEF RowsAbout
<1>14. Latest(RowsAbout(s, x)') = e
  <2>1. PICK rows : rows = RowsAbout(s, x)'
    OBVIOUS
  <2>2. e \in rows /\ \A f \in rows : f.seq \in Int /\ (f # e => f.seq < e.seq)
    BY <1>4, <1>13, <2>1 DEF Row
  <2>3. QED
    BY <2>1, <2>2, LatestIsUnique
<1>15. LatestSaid(s, x)' = j.request
  BY <1>4, <1>8, <1>14 DEF LatestSaid
<1>16. QED
  BY <1>2, <1>3, <1>4, <1>5, <1>6, <1>7, <1>11, <1>12, <1>13, <1>15

(* What a commit keeps for the other sessions and for the log.             *)
LEMMA CommitKeeps ==
  ASSUME GInv, NEW s \in Sessions, NEW j, j = job[s], j # None, EndJob(s), TablesAreTyped'
  PROVE  SaidInLog' /\ JobIsPrepared' /\ OneLockPerRow'
<1>1. /\ \A t \in Sessions \ {s} : /\ job'[t] = job[t] /\ said'[t] = said[t]
                                   /\ projection'[t] = projection[t] /\ events'[t] = events[t]
      /\ job'[s] = None /\ UNCHANGED <<session, bound>>
      /\ \A k \in Keys : k # j.key => said'[s][k] = said[s][k]
      /\ said'[s][j.key] = j.request
      /\ events[s] \subseteq events'[s]
      /\ \E e \in events'[s] : e.key = j.key
  <2>1. j.key \in Keys
    BY RequestIsTyped DEF Job
  <2>2. QED
    BY <2>1, EndJobDoes DEF GInv, TablesAreTyped
<1>2. SaidInLog'
  <2>1. j.request.version = bound[s]
    BY DEF GInv, JobIsPrepared
  <2>2. ASSUME NEW t \in Sessions, NEW k \in Keys, said'[t][k] # None
        PROVE  said'[t][k].version = bound[t] /\ \E e \in events'[t] : e.key = k
    <3>1. CASE t = s /\ k = j.key
      BY <1>1, <2>1, <3>1
    <3>2. CASE ~(t = s /\ k = j.key)
      <4>1. said'[t][k] = said[t][k] /\ events[t] \subseteq events'[t]
        BY <1>1, <3>2
      <4>2. QED
        BY <2>2, <4>1 DEF GInv, SaidInLog
    <3>3. QED
      BY <3>1, <3>2
  <2>3. QED
    BY <1>1, <2>2 DEF SaidInLog
<1>3. JobIsPrepared'
  BY <1>1 DEF GInv, JobIsPrepared, KeyUnused
<1>4. OneLockPerRow'
  BY <1>1 DEF GInv, OneLockPerRow
<1>5. QED
  BY <1>2, <1>3, <1>4

(* What a report of progress relies on stays, while its session is not     *)
(* written and the garage only grows.                                      *)
LEMMA MayProgressIsKept ==
  ASSUME TablesAreTyped, TablesAreTyped', GarageGrows, UNCHANGED procedure,
         NEW s \in Sessions, readiness'[s] = readiness[s], progress'[s] = progress[s],
         bound'[s] = bound[s], bound[s] # None,
         NEW a \in Actions, NEW state, MayProgress(s, a, state)
  PROVE  MayProgress(s, a, state)'
<1>1. IsCurrent(s, a)'
  BY DEF MayProgress, IsCurrent, Eligible, IsResolved
<1>2. ASSUME state = "completed" PROVE ~InventoryBlocked(s, a)'
  <2>1. ASSUME NEW q \in procedure[a].needs PROVE Have(s, q)'
    <3>1. q \in Requirements
      BY ProceduresAssumption DEF TablesAreTyped, ProcedureTables
    <3>2. Have(s, q)
      BY <1>2 DEF MayProgress, InventoryBlocked, InventoryBlockers
    <3>3. QED
      BY <3>1, <3>2, HaveIsKept
  <2>2. QED
    BY <2>1 DEF InventoryBlocked, InventoryBlockers
<1>3. QED
  BY <1>1, <1>2 DEF MayProgress

LEMMA OthersMayProgress ==
  ASSUME GInv, NEW s \in Sessions, EndJob(s), job[s] # None, TablesAreTyped', GarageGrows,
         \A t \in Sessions \ {s} : readiness'[t] = readiness[t] /\ progress'[t] = progress[t]
  PROVE  ProgressIsStillAllowed'
<1>1. /\ UNCHANGED <<procedure, bound>> /\ job'[s] = None
      /\ \A t \in Sessions \ {s} : job'[t] = job[t]
  BY EndJobDoes DEF GInv, TablesAreTyped, catalogVars
<1>2. ASSUME NEW t \in Sessions \ {s}, job[t] # None, NEW a \in Actions, NEW state,
             MayProgress(t, a, state)
      PROVE  MayProgress(t, a, state)'
  <2>1. bound[t] # None
    <3>1. job[t].request.version \in Definitions
      BY <1>2, RequestIsTyped DEF Requests
    <3>2. QED
      BY <1>2, <3>1, GuidedNullAssumption DEF GInv, JobIsPrepared
  <2>2. QED
    BY <1>1, <1>2, <2>1, MayProgressIsKept DEF GInv
<1>3. QED
  BY <1>1, <1>2 DEF GInv, ProgressIsStillAllowed

(* What remembering does to a row: the unit stays, the quantity is the     *)
(* larger of the two when the units are the same.                          *)
LEMMA RememberDoes ==
  ASSUME NEW row \in GarageRow \cup {None}, NEW n \in Nat \ {0},
         NEW v \in Definitions, NEW q \in Requirements, NEW g,
         g = Remember(row, n, Manifest[v][q].unit)
  PROVE  /\ g \in GarageRow
         /\ row = None => g.unit = Manifest[v][q].unit /\ g.quantity = n
         /\ row # None =>
              /\ g.unit = row.unit /\ g.quantity >= row.quantity
              /\ row.unit = Manifest[v][q].unit =>
                   g.quantity >= n /\ g.quantity \in {n, row.quantity}
              /\ row.unit # Manifest[v][q].unit => g.quantity = row.quantity
<1>1. CASE row = None
  BY <1>1 DEF Remember, GarageRow
<1>2. CASE row # None /\ row.unit = Manifest[v][q].unit /\ n > row.quantity
  <2>1. row \in GarageRow
    BY <1>2
  <2>2. g = [row EXCEPT !.quantity = n]
    BY <1>2 DEF Remember
  <2>3. g \in GarageRow /\ g.unit = row.unit /\ g.quantity = n
    BY <2>1, <2>2 DEF GarageRow
  <2>4. QED
    BY <1>2, <2>1, <2>3 DEF GarageRow
<1>3. CASE row # None /\ ~(row.unit = Manifest[v][q].unit /\ n > row.quantity)
  <2>1. row \in GarageRow /\ g = row
    BY <1>3 DEF Remember
  <2>2. QED
    BY <1>3, <2>1 DEF GarageRow
<1>4. QED
  BY <1>1, <1>2, <1>3

(* GarageKeepsBest of one row of the garage and the reports about it.      *)
BestOf(row, reports, q) ==
  IF row = None THEN reports = {}
  ELSE /\ \E r \in reports : Manifest[r.version][q].unit = row.unit /\ r.quantity = row.quantity
       /\ \A r \in reports : Manifest[r.version][q].unit = row.unit => r.quantity <= row.quantity

LEMMA BestIsBestOf ==
  GarageKeepsBest <=> \A q \in Requirements : BestOf(garage[q], Reported(q), q)
BY DEF GarageKeepsBest, BestOf

(* One more report is remembered.                                          *)
LEMMA BestIsRemembered ==
  ASSUME NEW row \in GarageRow \cup {None}, NEW q \in Requirements, NEW reports, NEW r,
         reports \subseteq Requests, \A x \in reports : IsReadiness(x),
         r.version \in Definitions, r.quantity \in Nat \ {0},
         NEW g, g = Remember(row, r.quantity, Manifest[r.version][q].unit),
         BestOf(row, reports, q)
  PROVE  BestOf(g, reports \cup {r}, q)
<1>1. /\ g \in GarageRow
      /\ row = None => g.unit = Manifest[r.version][q].unit /\ g.quantity = r.quantity
      /\ row # None =>
           /\ g.unit = row.unit /\ g.quantity >= row.quantity
           /\ row.unit = Manifest[r.version][q].unit =>
                g.quantity >= r.quantity /\ g.quantity \in {r.quantity, row.quantity}
           /\ row.unit # Manifest[r.version][q].unit => g.quantity = row.quantity
  <2>1. PICK v, n : v = r.version /\ n = r.quantity
    OBVIOUS
  <2>2. QED
    BY <2>1, RememberDoes
<1>2. g # None
  BY <1>1, GuidedNullAssumption
<1>3. \A x \in reports : x.quantity \in Nat
  BY GuidedNullAssumption DEF Requests, IsReadiness
<1>4. CASE row = None
  BY <1>1, <1>2, <1>4 DEF BestOf, GarageRow
<1>5. CASE row # None
  <2>1. row \in GarageRow /\ row.quantity \in Nat /\ g.quantity \in Nat
    BY <1>1, <1>5 DEF GarageRow
  <2>2. \E x \in reports \cup {r} :
          Manifest[x.version][q].unit = g.unit /\ x.quantity = g.quantity
    BY <1>1, <1>5, <2>1 DEF BestOf
  <2>3. ASSUME NEW x \in reports \cup {r}, Manifest[x.version][q].unit = g.unit
        PROVE  x.quantity <= g.quantity
    <3>1. CASE x \in reports
      BY <1>1, <1>3, <1>5, <2>1, <2>3, <3>1 DEF BestOf
    <3>2. CASE x = r
      BY <1>1, <1>5, <2>1, <2>3, <3>2
    <3>3. QED
      BY <3>1, <3>2
  <2>4. QED
    BY <1>2, <2>2, <2>3 DEF BestOf
<1>6. QED
  BY <1>4, <1>5

(* What was said is reported, and nothing else.                            *)
LEMMA ReportedGrows ==
  ASSUME GInv, NEW s \in Sessions, NEW j, j = job[s], j # None, EndJob(s), NEW q \in Requirements
  PROVE  Reported(q)' = IF IsReadiness(j.request) /\ j.request.about = q /\ j.request.remember
                        THEN Reported(q) \cup {j.request} ELSE Reported(q)
<1>1. /\ j.key \in Keys /\ said[s][j.key] = None
      /\ said'[s][j.key] = j.request
      /\ \A t \in Sessions, k \in Keys : ~(t = s /\ k = j.key) => said'[t][k] = said[t][k]
  <2>1. j.key \in Keys
    BY RequestIsTyped DEF Job
  <2>2. QED
    BY <2>1, EndJobDoes DEF GInv, TablesAreTyped
<1>2. ASSUME NEW r, r \in Reported(q)'
      PROVE  \/ r \in Reported(q)
             \/ r = j.request /\ IsReadiness(r) /\ r.about = q /\ r.remember
  BY <1>1, <1>2 DEF Reported
<1>3. ASSUME NEW r, r \in Reported(q) PROVE r \in Reported(q)'
  <2>1. PICK t \in Sessions, k \in Keys : r = said[t][k]
    BY <1>3 DEF Reported
  <2>2. IsReadiness(r) /\ r.about = q /\ r.remember
    BY <1>3 DEF Reported
  <2>3. r = said'[t][k]
    BY <1>1, <2>1, <2>2 DEF IsReadiness
  <2>4. QED
    BY <2>2, <2>3 DEF Reported
<1>4. ASSUME IsReadiness(j.request), j.request.about = q, j.request.remember
      PROVE  j.request \in Reported(q)'
  BY <1>1, <1>4 DEF Reported
<1>5. QED
  BY <1>2, <1>3, <1>4

(* The garage after a commit, and what the other mutations rely on in it.  *)
LEMMA OthersHoldTheGarage ==
  ASSUME GInv, NEW s \in Sessions, NEW j, j = job[s], j # None, j.stage = "commit", EndJob(s),
         TablesAreTyped',
         \A q \in Requirements : garage'[q] # garage[q] =>
           IsReadiness(j.request) /\ j.request.remember /\ j.request.about = q
  PROVE  ReportsHoldTheGarage'
<1>1. job'[s] = None /\ UNCHANGED bound /\ \A t \in Sessions \ {s} : job'[t] = job[t]
  BY EndJobDoes DEF GInv, TablesAreTyped
<1>2. ASSUME NEW t \in Sessions \ {s}, job[t] # None, IsReadiness(job[t].request),
             job[t].locked # None
      PROVE  garage'[job[t].request.about] = garage[job[t].request.about]
  <2>1. PICK q : q = job[t].request.about
    OBVIOUS
  <2>2. q \in Requirements /\ job[t].locked = q /\ q # None
    BY <1>2, <2>1, RequestIsTyped, GuidedNullAssumption DEF GInv, ReportsHoldTheGarage
  <2>3. CASE IsReadiness(j.request) /\ j.request.remember /\ j.request.about = q
    <3>1. j.locked = q
      BY <2>3 DEF GInv, ReportsHoldTheGarage
    <3>2. QED
      BY <1>2, <2>2, <3>1 DEF GInv, OneLockPerRow
  <2>4. QED
    BY <2>1, <2>2, <2>3
<1>3. QED
  BY <1>1, <1>2 DEF GInv, ReportsHoldTheGarage

LEMMA CommitReadinessKeeps ==
  ASSUME GInv, NEW s \in Sessions, CommitReadiness(s)
  PROVE  GInv'
<1>1. PICK j, r, q : j = job[s] /\ r = j.request /\ q = r.about
  OBVIOUS
<1>2. /\ j # None /\ j.stage = "commit" /\ IsReadiness(r)
      /\ UNCHANGED progress /\ EndJob(s)
      /\ readiness' = [readiness EXCEPT ![s][q] = [state |-> r.state, quantity |-> r.quantity]]
      /\ garage' = [garage EXCEPT ![q] =
           IF r.remember THEN Remember(j.row, r.quantity, Target(s, q).unit) ELSE garage[q]]
  BY <1>1 DEF CommitReadiness, At
<1>3. /\ j \in Job /\ r \in Requests /\ q \in Requirements /\ r.state \in Readinesses
      /\ r.quantity \in Nat /\ r.remember \in BOOLEAN
      /\ r.version = bound[s] /\ r.version \in Definitions
  BY <1>1, <1>2, RequestIsTyped DEF GInv, JobIsPrepared, Requests, IsReadiness
<1>4. /\ r.state = "have" => r.quantity >= Manifest[r.version][q].quantity
      /\ r.remember => r.state = "have" /\ garage[q] = j.row
  <2>1. q # None
    BY <1>3, GuidedNullAssumption
  <2>2. QED
    BY <1>1, <1>2, <1>3, <2>1 DEF GInv, ReportsHoldTheGarage
<1>5. r.remember => r.quantity \in Nat \ {0}
  <2>1. Manifest[r.version][q].quantity \in Nat \ {0}
    BY <1>3, ManifestAssumption
  <2>2. QED
    BY <1>3, <1>4, <2>1
<1>6. PICK g : g = IF r.remember THEN Remember(garage[q], r.quantity, Manifest[r.version][q].unit)
                   ELSE garage[q]
  OBVIOUS
<1>7. garage' = [garage EXCEPT ![q] = g]
  BY <1>2, <1>3, <1>4, <1>6 DEF Target
<1>8. garage[q] \in GarageRow \cup {None}
  BY <1>3 DEF GInv, TablesAreTyped
<1>9. /\ g \in GarageRow \cup {None}
      /\ garage[q] # None =>
           g # None /\ g.unit = garage[q].unit /\ g.quantity >= garage[q].quantity
  <2>1. CASE r.remember
    <3>1. PICK row, n, v : row = garage[q] /\ n = r.quantity /\ v = r.version
      OBVIOUS
    <3>2. g = Remember(row, n, Manifest[v][q].unit)
      BY <1>6, <2>1, <3>1
    <3>3. g \in GarageRow /\ (row # None => g.unit = row.unit /\ g.quantity >= row.quantity)
      BY <1>3, <1>5, <1>8, <2>1, <3>1, <3>2, RememberDoes
    <3>4. QED
      BY <3>1, <3>3, GuidedNullAssumption
  <2>2. CASE ~r.remember
    BY <1>6, <1>8, <2>2 DEF GarageRow
  <2>3. QED
    BY <2>1, <2>2
<1>10. /\ garage'[q] = g /\ \A x \in Requirements \ {q} : garage'[x] = garage[x]
       /\ garage' \in [Requirements -> GarageRow \cup {None}]
  BY <1>3, <1>7, <1>9 DEF GInv, TablesAreTyped
<1>11. GarageGrows
  <2>1. \A x \in Requirements : garage[x] # None => garage[x] \in GarageRow
    BY DEF GInv, TablesAreTyped
  <2>2. QED
    BY <1>9, <1>10, <2>1 DEF GarageGrows, GarageRow
<1>12. PICK row \in ReadinessRow : row = [state |-> r.state, quantity |-> r.quantity]
  BY <1>3 DEF ReadinessRow
<1>13. /\ readiness'[s][q] = row /\ \A x \in Requirements \ {q} : readiness'[s][x] = readiness[s][x]
       /\ \A t \in Sessions \ {s} : readiness'[t] = readiness[t]
       /\ readiness' \in [Sessions -> [Requirements -> ReadinessRow \cup {None}]]
       /\ row.state = r.state /\ row.quantity = r.quantity
  BY <1>2, <1>3, <1>12 DEF GInv, TablesAreTyped
<1>14. /\ IInv'
       /\ said' = [said EXCEPT ![s][j.key] = r]
       /\ job' = [job EXCEPT ![s] = None]
       /\ UNCHANGED <<session, procedure, verified, bound>>
       /\ \A t \in Sessions : \A x : ~(t = s /\ x = q) => SameAbout(t, x)
       /\ RowsAbout(s, q)' # {}
       /\ LatestSaid(s, q)' = r
  BY <1>1, <1>2, EndJobDoes DEF catalogVars
<1>15. TablesAreTyped'
  <2>1. j.key \in Keys
    BY <1>3 DEF Job
  <2>2. QED
    BY <1>2, <1>3, <1>10, <1>13, <1>14, <2>1 DEF GInv, TablesAreTyped
<1>16. SaidInLog' /\ JobIsPrepared' /\ OneLockPerRow'
  BY <1>1, <1>2, <1>15, CommitKeeps
<1>17. ReadinessIsEnough'
  <2>1. bound[s] # None
    BY <1>3, GuidedNullAssumption
  <2>2. QED
    BY <1>3, <1>4, <1>13, <1>14, <2>1 DEF GInv, ReadinessIsEnough
<1>18. ReportsHoldTheGarage'
  <2>1. \A x \in Requirements : garage'[x] # garage[x] => x = q /\ r.remember
    BY <1>6, <1>10
  <2>2. QED
    BY <1>1, <1>2, <1>15, <2>1, OthersHoldTheGarage
<1>19. ProgressIsStillAllowed'
  BY <1>1, <1>2, <1>11, <1>13, <1>15, OthersMayProgress
<1>20. WorkedInOrder' /\ SkippedWereSkippable'
  BY <1>2, <1>14 DEF GInv, WorkedInOrder, SkippedWereSkippable, IsResolved
<1>21. ProgressAgrees'
  <2>1. ASSUME NEW t \in Sessions, NEW a \in Actions
        PROVE  SameAbout(t, a)
    BY <1>3, <1>14, GuidedNullAssumption
  <2>2. ASSUME NEW t \in Sessions, NEW x \in Requirements
        PROVE  IF RowsAbout(t, x)' = {} THEN readiness'[t][x] = None
               ELSE /\ readiness'[t][x].state = LatestSaid(t, x)'.state
                    /\ readiness'[t][x].quantity = LatestSaid(t, x)'.quantity
    <3>1. CASE t = s /\ x = q
      BY <1>13, <1>14, <3>1
    <3>2. CASE ~(t = s /\ x = q)
      <4>1. SameAbout(t, x) /\ readiness'[t][x] = readiness[t][x]
        BY <1>13, <1>14, <3>2
      <4>2. QED
        BY <4>1 DEF GInv, ProgressAgrees, SameAbout
    <3>3. QED
      BY <3>1, <3>2
  <2>3. QED
    BY <1>2, <2>1, <2>2 DEF GInv, ProgressAgrees, SameAbout
<1>22. GarageKeepsBest'
  <2>1. ASSUME NEW x \in Requirements PROVE BestOf(garage'[x], Reported(x)', x)
    <3>1. BestOf(garage[x], Reported(x), x)
      BY BestIsBestOf DEF GInv
    <3>2. CASE x = q /\ r.remember
      <4>1. PICK old, new : old = Reported(x) /\ new = Reported(x)'
        OBVIOUS
      <4>2. new = old \cup {r}
        BY <1>1, <1>2, <3>2, <4>1, ReportedGrows
      <4>3. old \subseteq Requests /\ \A y \in old : IsReadiness(y)
        BY <4>1 DEF GInv, TablesAreTyped, Reported, IsReadiness
      <4>4. g = Remember(garage[q], r.quantity, Manifest[r.version][q].unit)
        BY <1>6, <3>2
      <4>5. BestOf(g, old \cup {r}, q)
        <5>1. PICK row0 : row0 = garage[q]
          OBVIOUS
        <5>2. QED
          BY <1>3, <1>5, <1>8, <3>1, <3>2, <4>1, <4>3, <4>4, <5>1, BestIsRemembered
      <4>6. QED
        BY <1>10, <3>2, <4>1, <4>2, <4>5
    <3>3. CASE ~(x = q /\ r.remember)
      <4>1. Reported(x)' = Reported(x)
        BY <1>1, <1>2, <3>3, ReportedGrows
      <4>2. garage'[x] = garage[x]
        BY <1>6, <1>10, <3>3
      <4>3. QED
        BY <3>1, <4>1, <4>2
    <3>4. QED
      BY <3>2, <3>3
  <2>2. QED
    BY <2>1 DEF GarageKeepsBest, BestOf
<1>23. QED
  BY <1>14, <1>15, <1>16, <1>17, <1>18, <1>19, <1>20, <1>21, <1>22 DEF GInv

(* A report of progress that is committed was allowed at its commit.       *)
LEMMA CommittedIsAllowed ==
  ASSUME GInv, NEW s \in Sessions, CommitProgress(s)
  PROVE  /\ job[s].request.about \in Actions /\ job[s].request.state \in Persisted
         /\ MayProgress(s, job[s].request.about, job[s].request.state)
         /\ ValidDependencyGraph(procedure)
BY DEF GInv, ProgressIsStillAllowed, CommitProgress, At

LEMMA CommitProgressKeeps ==
  ASSUME GInv, NEW s \in Sessions, CommitProgress(s)
  PROVE  GInv'
<1>1. PICK j, r, a, state : j = job[s] /\ r = j.request /\ a = r.about /\ state = r.state
  OBVIOUS
<1>2. /\ j # None /\ j.stage = "commit" /\ ~IsReadiness(r)
      /\ UNCHANGED <<readiness, garage>> /\ EndJob(s)
      /\ progress' = [progress EXCEPT ![s][a] = state]
  BY <1>1 DEF CommitProgress, At
<1>3. /\ a \in Actions /\ state \in Persisted /\ MayProgress(s, a, state)
      /\ ValidDependencyGraph(procedure) /\ j \in Job /\ r \in Requests
  BY <1>1, <1>2, CommittedIsAllowed, RequestIsTyped
<1>4. /\ progress'[s][a] = state
      /\ \A b \in Actions \ {a} : progress'[s][b] = progress[s][b]
      /\ \A t \in Sessions \ {s} : progress'[t] = progress[t]
      /\ progress' \in [Sessions -> [Actions -> Persisted \cup {"pending"}]]
  BY <1>2, <1>3 DEF GInv, TablesAreTyped
<1>5. /\ IInv'
      /\ said' = [said EXCEPT ![s][j.key] = r]
      /\ job' = [job EXCEPT ![s] = None]
      /\ UNCHANGED <<session, procedure, verified, bound>>
      /\ \A t \in Sessions : \A x : ~(t = s /\ x = a) => SameAbout(t, x)
      /\ RowsAbout(s, a)' # {}
      /\ LatestSaid(s, a)' = r
  BY <1>1, <1>2, EndJobDoes DEF catalogVars
<1>6. TablesAreTyped'
  <2>1. j.key \in Keys
    BY <1>3 DEF Job
  <2>2. QED
    BY <1>2, <1>3, <1>4, <1>5, <2>1 DEF GInv, TablesAreTyped
<1>7. SaidInLog' /\ JobIsPrepared' /\ OneLockPerRow'
  BY <1>1, <1>2, <1>6, CommitKeeps
<1>8. ReadinessIsEnough'
  BY <1>2, <1>5 DEF GInv, ReadinessIsEnough
<1>9. ReportsHoldTheGarage'
  BY <1>1, <1>2, <1>6, OthersHoldTheGarage
<1>10. ProgressIsStillAllowed'
  <2>1. GarageGrows
    <3>1. \A x \in Requirements : garage[x] # None => garage[x].quantity \in Nat
      BY DEF GInv, TablesAreTyped, GarageRow
    <3>2. QED
      BY <1>2, <3>1 DEF GarageGrows
  <2>2. QED
    BY <1>1, <1>2, <1>4, <1>6, <2>1, OthersMayProgress
<1>11. SkippedWereSkippable'
  BY <1>3, <1>4, <1>5 DEF GInv, SkippedWereSkippable, MayProgress
<1>12. WorkedInOrder'
  <2>1. ASSUME NEW b \in Actions, IsResolved(s, b) PROVE IsResolved(s, b)'
    <3>1. b # a
      BY <1>3, <2>1 DEF MayProgress, IsCurrent, Eligible
    <3>2. QED
      BY <1>4, <2>1, <3>1 DEF IsResolved
  <2>2. \A b \in Actions : b < a => IsResolved(s, b)
    BY <1>3, CurrentIsFirst DEF MayProgress
  <2>3. ASSUME NEW t \in Sessions, NEW b \in Actions, progress'[t][b] # "pending",
               NEW c \in Actions, c < b
        PROVE  IsResolved(t, c)'
    <3>1. CASE t = s /\ b = a
      BY <2>1, <2>2, <2>3, <3>1
    <3>2. CASE t = s /\ b # a
      BY <1>4, <2>1, <2>3, <3>2 DEF GInv, WorkedInOrder
    <3>3. CASE t # s
      BY <1>4, <2>3, <3>3 DEF GInv, WorkedInOrder, IsResolved
    <3>4. QED
      BY <3>1, <3>2, <3>3
  <2>4. QED
    BY <2>3 DEF WorkedInOrder
<1>13. ProgressAgrees'
  <2>1. ASSUME NEW t \in Sessions, NEW x \in Requirements
        PROVE  SameAbout(t, x)
    BY <1>3, <1>5, GuidedNullAssumption
  <2>2. ASSUME NEW t \in Sessions, NEW b \in Actions
        PROVE  progress'[t][b] = IF RowsAbout(t, b)' = {} THEN "pending"
                                 ELSE LatestSaid(t, b)'.state
    <3>1. CASE t = s /\ b = a
      BY <1>1, <1>4, <1>5, <3>1
    <3>2. CASE ~(t = s /\ b = a)
      <4>1. SameAbout(t, b) /\ progress'[t][b] = progress[t][b]
        BY <1>4, <1>5, <3>2
      <4>2. QED
        BY <4>1 DEF GInv, ProgressAgrees, SameAbout
    <3>3. QED
      BY <3>1, <3>2
  <2>3. QED
    BY <1>2, <2>1, <2>2 DEF GInv, ProgressAgrees, SameAbout
<1>14. GarageKeepsBest'
  <2>1. \A x \in Requirements : Reported(x)' = Reported(x)
    BY <1>1, <1>2, ReportedGrows
  <2>2. QED
    BY <1>2, <2>1 DEF GInv, GarageKeepsBest
<1>15. QED
  BY <1>5, <1>6, <1>7, <1>8, <1>9, <1>10, <1>11, <1>12, <1>13, <1>14 DEF GInv

-----------------------------------------------------------------------------
(* The invariant. *)
LEMMA GuidedInitHolds ==
  ASSUME GuidedInit
  PROVE  GInv
<1>1. IInv
  BY InitIInv DEF GuidedInit
<1>2. /\ \A s \in Sessions : bound[s] = None /\ job[s] = None
      /\ \A s \in Sessions, q \in Requirements : readiness[s][q] = None
      /\ \A s \in Sessions, a \in Actions : progress[s][a] = "pending"
      /\ \A s \in Sessions, k \in Keys : said[s][k] = None
      /\ \A q \in Requirements : garage[q] = None
  BY DEF GuidedInit
<1>3. TablesAreTyped
  BY DEF GuidedInit, TablesAreTyped
<1>4. SaidInLog /\ ReadinessIsEnough /\ JobIsPrepared /\ ReportsHoldTheGarage
      /\ OneLockPerRow /\ ProgressIsStillAllowed /\ WorkedInOrder /\ SkippedWereSkippable
  BY <1>2 DEF SaidInLog, ReadinessIsEnough, JobIsPrepared, ReportsHoldTheGarage, OneLockPerRow,
     ProgressIsStillAllowed, WorkedInOrder, SkippedWereSkippable
<1>5. ProgressAgrees
  <2>1. \A s \in Sessions : \A x : RowsAbout(s, x) = {}
    <3>1. \A s \in Sessions : events[s] = {}
      BY DEF GuidedInit, Init
    <3>2. QED
      BY <3>1 DEF RowsAbout
  <2>2. QED
    BY <1>2, <2>1 DEF ProgressAgrees
<1>6. GarageKeepsBest
  BY <1>2 DEF GarageKeepsBest, Reported, IsReadiness
<1>7. QED
  BY <1>1, <1>3, <1>4, <1>5, <1>6 DEF GInv

LEMMA GuidedStepHolds ==
  ASSUME GInv, [GuidedNext]_allVars
  PROVE  GInv'
<1>1. ASSUME NEW v \in Definitions, Supersede(v) PROVE GInv'
  BY <1>1, SupersedeKeeps
<1>2. CASE Tick /\ UNCHANGED <<catalogVars, guidedVars, job>>
  <2>1. UNCHANGED <<session, events, projection, archivedVehicles>> /\ clock' \in Nat
    BY <1>2 DEF Tick, GInv, IInv
  <2>2. QED
    BY <1>2, <2>1, QuietKeeps
<1>3. CASE UNCHANGED allVars
  <2>1. UNCHANGED <<session, events, projection, archivedVehicles>> /\ clock' \in Nat
    BY <1>3 DEF allVars, vars, GInv, IInv
  <2>2. QED
    BY <1>3, <2>1, QuietKeeps DEF allVars
<1>4. ASSUME NEW s \in Sessions, SessionStep(s) PROVE GInv'
  BY <1>4, SessionStepKeeps
<1>5. ASSUME NEW s \in Sessions, NEW v \in Definitions, NEW d \in Devices,
             BindRepairDefinition(s, v, d)
      PROVE  GInv'
  BY <1>5, BindKeeps
<1>6. ASSUME NEW s \in Sessions, NEW k \in Keys, NEW d \in Devices, NEW q \in Requirements,
             NEW state \in Readinesses, NEW n \in Quantities \cup {None},
             BeginReadiness(s, k, d, q, state, n)
      PROVE  GInv'
  BY <1>6, BeginReadinessKeeps
<1>7. ASSUME NEW s \in Sessions, NEW k \in Keys, NEW d \in Devices, NEW a \in Actions,
             NEW state \in Persisted, BeginProgress(s, k, d, a, state)
      PROVE  GInv'
  BY <1>7, BeginProgressKeeps
<1>8. ASSUME NEW s \in Sessions,
             \/ LockGarage(s) \/ InsertGarage(s) \/ GarageTaken(s)
             \/ CommitReadiness(s) \/ CommitProgress(s) \/ Abort(s)
      PROVE  GInv'
  BY <1>8, LockGarageKeeps, InsertGarageKeeps, RollbackKeeps, CommitReadinessKeeps,
     CommitProgressKeeps DEF GarageTaken, Abort
<1>9. QED
  BY <1>1, <1>2, <1>3, <1>4, <1>5, <1>6, <1>7, <1>8 DEF GuidedNext

LEMMA GuidedInvariant == GuidedSpec => []GInv
<1>1. GuidedInit => GInv
  BY GuidedInitHolds
<1>2. GInv /\ [GuidedNext]_allVars => GInv'
  BY GuidedStepHolds
<1>3. QED
  BY <1>1, <1>2, PTL DEF GuidedSpec

-----------------------------------------------------------------------------
(* Every table of the model keeps its type, those of the session core too: *)
(* a row of readiness says "have" only of enough for the bound version.    *)
THEOREM GuidedTyped == GuidedSpec => [](TypeOK /\ GuidedTypeOK)
<1>1. GInv => TypeOK
  BY IInvTyped DEF GInv
<1>2. GInv => GuidedTypeOK
  <2> SUFFICES ASSUME GInv PROVE GuidedTypeOK
    OBVIOUS
  <2>1. ASSUME NEW s \in Sessions, NEW q \in Requirements, readiness[s][q] # None
        PROVE  readiness[s][q].state \in Readinesses
    BY <2>1 DEF GInv, TablesAreTyped, ReadinessRow
  <2>2. QED
    BY <2>1 DEF GInv, TablesAreTyped, ReadinessIsEnough, GuidedTypeOK
<1>3. QED
  BY <1>1, <1>2, GuidedInvariant, PTL

(* Actions are worked off in the order of their positions, without a gap,  *)
(* whatever the dependencies of a valid procedure are.                     *)
THEOREM OrderIsKept == GuidedSpec => []WorkedInOrder
<1>1. GInv => WorkedInOrder
  BY DEF GInv
<1>2. QED
  BY <1>1, GuidedInvariant, PTL

(* The rows of readiness and progress are what the log says last, checked  *)
(* against the version the session is bound to.                            *)
THEOREM RecordsAlwaysAgree == GuidedSpec => []RecordsAgree
<1>1. GInv => RecordsAgree
  BY DEF GInv, SaidInLog, RecordsAgree, RecordsMatchBinding
<1>2. QED
  BY <1>1, GuidedInvariant, PTL

(* Of any number of sessions that report a tool at the same time, none     *)
(* loses another's report: the garage has the largest.                     *)
THEOREM GarageLosesNothing == GuidedSpec => []GarageKeepsBest
<1>1. GInv => GarageKeepsBest
  BY DEF GInv
<1>2. QED
  BY <1>1, GuidedInvariant, PTL

-----------------------------------------------------------------------------
(* The guidance *)

(* What _guidance_view finds: the current action, unless all is resolved.  *)
LEMMA GuidanceFinds ==
  ASSUME TablesAreTyped, ValidDependencyGraph(procedure), NEW s \in Sessions
  PROVE  \/ /\ ProcedureComplete(s)
            /\ Guidance(s).status = "procedure_complete" /\ Guidance(s).action = None
            /\ Guidance(s).blockers = {}
         \/ \E a \in Actions :
              /\ ~ProcedureComplete(s) /\ IsCurrent(s, a)
              /\ progress[s][a] \in {"pending", "blocked"}
              /\ Guidance(s).status = GuidanceStatus(s, a)
              /\ Guidance(s).action = a
              /\ Guidance(s).blockers = InventoryBlockers(s, a)
<1>1. CASE ProcedureComplete(s)
  BY <1>1 DEF Guidance
<1>2. CASE ~ProcedureComplete(s)
  <2>1. \E a \in Actions : IsCurrent(s, a)
    BY <1>2, SomethingIsCurrent
  <2>2. PICK a : a = CHOOSE b \in Actions : IsCurrent(s, b)
    OBVIOUS
  <2>3. a \in Actions /\ IsCurrent(s, a)
    BY <2>1, <2>2
  <2>4. Guidance(s) = [status |-> GuidanceStatus(s, a), action |-> a,
                       blockers |-> InventoryBlockers(s, a)]
    BY <1>2, <2>2 DEF Guidance
  <2>5. progress[s][a] \in {"pending", "blocked"}
    BY <2>3 DEF TablesAreTyped, Persisted, IsCurrent, Eligible, IsResolved, Resolved
  <2>6. QED
    BY <1>2, <2>3, <2>4, <2>5
<1>3. QED
  BY <1>1, <1>2

(* When the current action may be completed, and what is said of it.       *)
LEMMA CurrentIsExplained ==
  ASSUME TablesAreTyped, ValidDependencyGraph(procedure), NEW s \in Sessions, NEW a \in Actions,
         IsCurrent(s, a), progress[s][a] \in {"pending", "blocked"},
         Guidance(s).status = GuidanceStatus(s, a), Guidance(s).action = a,
         Guidance(s).blockers = InventoryBlockers(s, a)
  PROVE  /\ MayProgress(s, a, "completed") <=> InventoryBlockers(s, a) = {}
         /\ Explanation(s).reason # "verified_procedure_complete"
         /\ Explanation(s).reason = "current_action_physically_blocked" <=> progress[s][a] = "blocked"
         /\ Explanation(s).reason = "next_verified_action"
              <=> MayProgress(s, a, "completed") /\ progress[s][a] = "pending"
         /\ Explanation(s).blockers = {} => MayProgress(s, a, "completed")
         /\ Guidance(s).status = "action_available" => MayProgress(s, a, "completed")
<1>1. MayProgress(s, a, "completed") <=> InventoryBlockers(s, a) = {}
  BY DEF MayProgress, InventoryBlocked, Resolved
<1>2. PICK g : g = Guidance(s)
  OBVIOUS
<1>3. Explanation(s) =
        CASE g.status = "procedure_complete" ->
               [reason |-> "verified_procedure_complete", blockers |-> {}]
          [] g.status = "inventory_blocked" ->
               [reason |-> "current_action_inventory_blocked", blockers |-> g.blockers]
          [] g.status = "action_blocked" ->
               [reason |-> "current_action_physically_blocked", blockers |-> g.blockers]
          [] OTHER -> [reason |-> "next_verified_action", blockers |-> {}]
  BY <1>2 DEF Explanation
<1>4. CASE progress[s][a] = "blocked"
  <2>1. g.status = "action_blocked"
    BY <1>2, <1>4 DEF GuidanceStatus
  <2>2. Explanation(s) = [reason |-> "current_action_physically_blocked",
                          blockers |-> InventoryBlockers(s, a)]
    BY <1>2, <1>3, <2>1
  <2>3. QED
    BY <1>1, <1>2, <1>4, <2>1, <2>2
<1>5. CASE progress[s][a] = "pending" /\ InventoryBlockers(s, a) # {}
  <2>1. g.status = "inventory_blocked"
    BY <1>2, <1>5 DEF GuidanceStatus, InventoryBlocked
  <2>2. Explanation(s) = [reason |-> "current_action_inventory_blocked",
                          blockers |-> InventoryBlockers(s, a)]
    BY <1>2, <1>3, <2>1
  <2>3. QED
    BY <1>1, <1>2, <1>5, <2>1, <2>2
<1>6. CASE progress[s][a] = "pending" /\ InventoryBlockers(s, a) = {}
  <2>1. g.status = "action_available"
    BY <1>2, <1>6 DEF GuidanceStatus, InventoryBlocked
  <2>2. Explanation(s) = [reason |-> "next_verified_action", blockers |-> {}]
    BY <1>3, <2>1
  <2>3. QED
    BY <1>1, <1>6, <2>2
<1>7. QED
  BY <1>4, <1>5, <1>6

(* The guidance of every session, after whatever was completed, skipped or *)
(* blocked, has a next action until the procedure is complete, is the one  *)
(* the mutation allows, and is explained and resumed as it is.             *)
THEOREM GuidanceAlwaysDefined == GuidedSpec => []GuidanceIsDefined
<1> DEFINE Right(s) ==
      /\ ProcedureComplete(s) \/ \E a \in Actions : IsCurrent(s, a)
      /\ NextVerifiedAction(s).status = "available" =>
           MayProgress(s, NextVerifiedAction(s).label, "completed")
      /\ \A a \in Actions, state \in Persisted :
           MayProgress(s, a, state) => a = Guidance(s).action
      /\ Explanation(s).reason = "verified_procedure_complete" <=> Guidance(s).action = None
      /\ Guidance(s).action # None =>
           LET a == Guidance(s).action IN
           /\ Explanation(s).reason = "current_action_physically_blocked"
                <=> progress[s][a] = "blocked"
           /\ Explanation(s).reason = "next_verified_action"
                <=> MayProgress(s, a, "completed") /\ progress[s][a] = "pending"
           /\ Explanation(s).blockers = {} => MayProgress(s, a, "completed")
<1> HIDE DEF Right
<1>1. ASSUME GInv, ValidDependencyGraph(procedure), NEW s \in Sessions
      PROVE  Right(s)
  <2>0. TablesAreTyped
    BY <1>1 DEF GInv
  <2>1. CASE /\ ProcedureComplete(s)
             /\ Guidance(s).status = "procedure_complete" /\ Guidance(s).action = None
             /\ Guidance(s).blockers = {}
    <3>1. NextVerifiedAction(s).status = "unavailable"
      BY <2>1 DEF NextVerifiedAction
    <3>2. ASSUME NEW a \in Actions, NEW state PROVE ~MayProgress(s, a, state)
      BY <2>1 DEF ProcedureComplete, MayProgress, IsCurrent, Eligible
    <3>3. Explanation(s).reason = "verified_procedure_complete"
      BY <2>1 DEF Explanation
    <3>4. QED
      BY <2>1, <3>1, <3>2, <3>3 DEF Right
  <2>2. ASSUME NEW a \in Actions, ~ProcedureComplete(s), IsCurrent(s, a),
               progress[s][a] \in {"pending", "blocked"},
               Guidance(s).status = GuidanceStatus(s, a), Guidance(s).action = a,
               Guidance(s).blockers = InventoryBlockers(s, a)
        PROVE  Right(s)
    <3>1. /\ Explanation(s).reason # "verified_procedure_complete"
          /\ Explanation(s).reason = "current_action_physically_blocked"
               <=> progress[s][a] = "blocked"
          /\ Explanation(s).reason = "next_verified_action"
               <=> MayProgress(s, a, "completed") /\ progress[s][a] = "pending"
          /\ Explanation(s).blockers = {} => MayProgress(s, a, "completed")
          /\ Guidance(s).status = "action_available" => MayProgress(s, a, "completed")
      BY <2>0, <1>1, <2>2, CurrentIsExplained
    <3>2. NextVerifiedAction(s).status = "available" =>
            MayProgress(s, NextVerifiedAction(s).label, "completed")
      <4>1. CASE IsBound(s) /\ Guidance(s).status = "action_available"
        <5>1. NextVerifiedAction(s) = [status |-> "available", label |-> a]
          BY <2>2, <4>1 DEF NextVerifiedAction
        <5>2. QED
          BY <3>1, <4>1, <5>1
      <4>2. CASE ~(IsBound(s) /\ Guidance(s).status = "action_available")
        BY <4>2 DEF NextVerifiedAction
      <4>3. QED
        BY <4>1, <4>2
    <3>3. a # None
      BY GuidedNullAssumption
    <3>4. ASSUME NEW b \in Actions, NEW state \in Persisted, MayProgress(s, b, state)
          PROVE  b = a
      BY <2>2, <3>4, CurrentIsOne DEF MayProgress
    <3>5. QED
      BY <2>2, <3>1, <3>2, <3>3, <3>4 DEF Right
  <2>3. QED
    BY <1>1, <2>0, <2>1, <2>2, GuidanceFinds
<1>2. GInv => GuidanceIsDefined
  BY <1>1 DEF GInv, SkippedWereSkippable, GuidanceIsDefined, Right
<1>3. QED
  BY <1>2, GuidedInvariant, PTL

-----------------------------------------------------------------------------
(* Two facts about steps *)

(* Which steps write the progress, and which the log.                      *)
LEMMA WhoWrites ==
  ASSUME [GuidedNext]_allVars
  PROVE  /\ progress' # progress => \E s \in Sessions : CommitProgress(s)
         /\ events' # events =>
              \E s \in Sessions : SessionStep(s) \/ (job[s] # None /\ EndJob(s))
<1> DEFINE Quiet == UNCHANGED <<events, progress>>
<1>1. UNCHANGED allVars => Quiet
  BY DEF allVars, vars, guidedVars
<1>2. \A v \in Definitions : Supersede(v) => Quiet
  BY DEF Supersede, vars, guidedVars
<1>3. Tick /\ UNCHANGED <<catalogVars, guidedVars, job>> => Quiet
  BY DEF Tick, guidedVars
<1>4. ASSUME NEW s \in Sessions
      PROVE  /\ \A v \in Definitions, d \in Devices : BindRepairDefinition(s, v, d) => Quiet
             /\ LockGarage(s) \/ InsertGarage(s) \/ GarageTaken(s) \/ Abort(s) => Quiet
  BY DEF BindRepairDefinition, LockGarage, InsertGarage, GarageTaken, Abort, Rollback,
     vars, guidedVars
<1>5. ASSUME NEW s \in Sessions, NEW k \in Keys, NEW d \in Devices
      PROVE  /\ \A q \in Requirements, state \in Readinesses, n \in Quantities \cup {None} :
                  BeginReadiness(s, k, d, q, state, n) => Quiet
             /\ \A a \in Actions, state \in Persisted : BeginProgress(s, k, d, a, state) => Quiet
  BY DEF BeginReadiness, BeginProgress, BeginJob, vars, guidedVars
<1>6. ASSUME NEW s \in Sessions
      PROVE  /\ SessionStep(s) \/ CommitReadiness(s) => UNCHANGED progress
             /\ CommitReadiness(s) \/ CommitProgress(s) => job[s] # None /\ EndJob(s)
  BY DEF SessionStep, CommitReadiness, CommitProgress, At, guidedVars
<1> HIDE DEF Quiet
<1>7. \/ Quiet
      \/ \E s \in Sessions : SessionStep(s) \/ CommitReadiness(s) \/ CommitProgress(s)
  BY <1>1, <1>2, <1>3, <1>4, <1>5 DEF GuidedNext
<1>8. QED
  BY <1>6, <1>7 DEF Quiet

(* An action is completed only when everything it requires is at hand at   *)
(* the commit, though the mutation looked before it wrote and the garage   *)
(* has other writers.                                                      *)
THEOREM CompletionIsEquipped == GuidedSpec => CompletedWithInventory
<1> DEFINE Equipped == \A s \in Sessions, a \in Actions :
      (progress'[s][a] = "completed" /\ progress[s][a] # "completed") => ~InventoryBlocked(s, a)
<1>1. ASSUME GInv, [GuidedNext]_allVars PROVE Equipped
  <2> SUFFICES ASSUME NEW s \in Sessions, NEW a \in Actions,
                      progress'[s][a] = "completed", progress[s][a] # "completed"
               PROVE  ~InventoryBlocked(s, a)
    OBVIOUS
  <2>0. progress' # progress
    OBVIOUS
  <2>1. \E t \in Sessions : CommitProgress(t)
    BY <1>1, <2>0, WhoWrites
  <2>2. PICK t \in Sessions : CommitProgress(t)
    BY <2>1
  <2>3. PICK b, state : b = job[t].request.about /\ state = job[t].request.state
    OBVIOUS
  <2>4. progress' = [progress EXCEPT ![t][b] = state]
    BY <2>2, <2>3 DEF CommitProgress
  <2>5. b \in Actions /\ MayProgress(t, b, state)
    BY <1>1, <2>2, <2>3, CommittedIsAllowed
  <2>6. t = s /\ b = a /\ state = "completed"
    BY <1>1, <2>4, <2>5 DEF GInv, TablesAreTyped
  <2>7. QED
    BY <2>5, <2>6 DEF MayProgress
<1>2. QED
  BY <1>1, GuidedInvariant, PTL DEF GuidedSpec, CompletedWithInventory

(* With the mutations of guided repair, which hold a session row over      *)
(* several statements, the log is still the abstract history: it grows at  *)
(* its end only, also when the lease ran out before the commit.            *)
THEOREM GuidedHistory == GuidedSpec => ImplementsHistory
<1>1. GuidedInit => History!Init
  BY DEF GuidedInit, Init, History!Init
<1>2. ASSUME GInv, [GuidedNext]_allVars PROVE [History!Next]_events
  <2> SUFFICES ASSUME events' # events PROVE History!Next
    OBVIOUS
  <2>1. ASSUME NEW s \in Sessions, SessionStep(s) PROVE History!Next
    <3>1. Next
      BY <2>1 DEF SessionStep, AcquireEditLease, Next, LIFECYCLE_EVENT_TYPES
    <3>2. QED
      BY <1>2, <3>1, StepRefines DEF GInv
  <2>2. ASSUME NEW s \in Sessions, job[s] # None, EndJob(s) PROVE History!Next
    <3>1. PICK k \in Keys, d \in Devices : k = job[s].key /\ d = job[s].device
      BY <1>2, <2>2, RequestIsTyped DEF Job
    <3>2. /\ session[s] # NoSession /\ projection[s] # Missing
          /\ projection[s].status # "archived" /\ KeyUnused(s, k)
      BY <1>2, <2>2, <3>1 DEF GInv, JobIsPrepared
    <3>3. AppendDomainEvent(s, k, d)
      BY <2>2, <3>1 DEF EndJob
    <3>4. QED
      BY <1>2, <3>1, <3>2, <3>3, DomainExtends DEF GInv
  <2>3. QED
    BY <1>2, <2>1, <2>2, WhoWrites
<1>3. QED
  BY <1>1, <1>2, GuidedInvariant, PTL DEF GuidedSpec, ImplementsHistory, History!Spec
===============================================================================
