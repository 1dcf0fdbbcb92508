---------------------------- MODULE RepairSession -----------------------------
(***************************************************************************)
(* The repair-session service, one action per request, each request one    *)
(* committed database transaction: the event log, the projection row and   *)
(* its edit lease, the idempotency keys, the archive flag of the vehicle,  *)
(* and the repair of a projection that was lost or is behind the log.      *)
(* A request that raises rolls back and is no step.                        *)
(*                                                                         *)
(* One owner: every statement of the service is restricted to user_id, and *)
(* (user_id, creation key) is unique, so a session is named by the key     *)
(* that created it.  The title is part of what a creation request says;    *)
(* here the vehicle stands for the whole request.                          *)
(***************************************************************************)
EXTENDS SessionLog

CONSTANTS
  Vehicles,      \* the owner's vehicles
  Devices,       \* device ids sent in X-PartGraph-Device-ID
  Keys,          \* idempotency keys
  Sessions,      \* the keys used to create sessions
  LeaseSeconds,  \* settings.repair_edit_lease_seconds
  MaxClock,      \* bound of the clock
  NoDevice,      \* NULL editor_device_id
  NoSession,     \* no row in repair_sessions
  Missing        \* no row in repair_session_projections

ASSUME SessionsAssumption == Sessions \subseteq Keys
ASSUME LeaseAssumption    == LeaseSeconds \in Nat \ {0} /\ MaxClock \in Nat

SessionRow == [vehicle: Vehicles, archived: BOOLEAN]

ProjectionRow ==
  [status: Statuses, seq: Nat \ {0}, device: Devices \cup {NoDevice}, expires: Nat]

ASSUME NullAssumption ==
  /\ NoDevice \notin Devices
  /\ NoSession \notin SessionRow
  /\ Missing \notin ProjectionRow

VARIABLES
  clock,            \* datetime.now(UTC)
  archivedVehicles, \* vehicles with archived_at set
  session,          \* repair_sessions
  events,           \* repair_session_events
  projection        \* repair_session_projections

vars == <<clock, archivedVehicles, session, events, projection>>

TypeOK ==
  /\ clock \in Nat
  /\ archivedVehicles \subseteq Vehicles
  /\ session \in [Sessions -> SessionRow \cup {NoSession}]
  /\ events \in [Sessions -> SUBSET Row(Keys, Devices)]
  /\ projection \in [Sessions -> ProjectionRow \cup {Missing}]
  /\ \A s \in Sessions : projection[s] # Missing =>
       (projection[s].device = NoDevice <=> projection[s].expires = 0)

Init ==
  /\ clock = 0
  /\ archivedVehicles = {}
  /\ session = [s \in Sessions |-> NoSession]
  /\ events = [s \in Sessions |-> {}]
  /\ projection = [s \in Sessions |-> Missing]

-----------------------------------------------------------------------------
(* The lease *)

LeaseExpiry == clock + LeaseSeconds

LeaseView(p, d) ==
  IF p.device = NoDevice \/ p.expires <= clock THEN "available"
  ELSE IF p.device = d THEN "owned" ELSE "held_by_other"

(* Mutant: a free lease is good enough to write. *)
LeaseNotHeldByOther(p, d) == p.status # "archived" /\ LeaseView(p, d) # "held_by_other"

(* _require_edit_lease does not raise. *)
HasEditLease(p, d) == p.status # "archived" /\ LeaseView(p, d) = "owned"

-----------------------------------------------------------------------------
(* The projection and its repair *)

(* The columns last_event_id, last_event_at and projection_version are     *)
(* written together with current_sequence and checked together with it, so *)
(* `seq` stands for them.                                                  *)
ProjectionCurrent(s) ==
  /\ projection[s] # Missing
  /\ projection[s].seq = Latest(events[s]).seq
  /\ projection[s].status = Status(events[s])

(* Mutants: a rebuild starts without a lease; it restores one regardless.  *)
PreservesNothing(s) == FALSE

PreservesEvenArchived(s) ==
  projection[s] # Missing /\ projection[s].device # NoDevice /\ projection[s].expires > clock

PreservesLease(s) ==
  /\ projection[s] # Missing
  /\ projection[s].device # NoDevice
  /\ projection[s].expires > clock
  /\ Status(events[s]) # "archived"

(* Mutants: half of the lease survives; the status is not recomputed.      *)
RebuiltWithHalfALease(s) ==
  [status  |-> Status(events[s]),
   seq     |-> Latest(events[s]).seq,
   device  |-> NoDevice,
   expires |-> IF PreservesLease(s) THEN projection[s].expires ELSE 0]

RebuiltWithOldStatus(s) ==
  [status  |-> IF projection[s] = Missing THEN Status(events[s]) ELSE projection[s].status,
   seq     |-> Latest(events[s]).seq,
   device  |-> IF PreservesLease(s) THEN projection[s].device ELSE NoDevice,
   expires |-> IF PreservesLease(s) THEN projection[s].expires ELSE 0]

RebuiltProjection(s) ==
  [status  |-> Status(events[s]),
   seq     |-> Latest(events[s]).seq,
   device  |-> IF PreservesLease(s) THEN projection[s].device ELSE NoDevice,
   expires |-> IF PreservesLease(s) THEN projection[s].expires ELSE 0]

(* Mutant: archived_at follows the row that is being repaired. *)
ArchivedInProjection(s) == projection[s] # Missing /\ projection[s].status = "archived"

(* archive_event is not None *)
ArchivedInLog(s) == \E e \in events[s] : e.type = "session_archived"

RebuildProjection(s) ==
  /\ Replayable(events[s])
  /\ projection' = [projection EXCEPT ![s] = RebuiltProjection(s)]
  /\ session' = [session EXCEPT ![s].archived = ArchivedInLog(s)]

(* The projection as _bundle(for_update=True) hands it to a request. *)
LockedProjection(s) ==
  IF projection[s] = Missing THEN RebuiltProjection(s) ELSE projection[s]

-----------------------------------------------------------------------------
(* Requests *)

CreateRepairSession(s, v, d) ==
  /\ v \notin archivedVehicles
  /\ session[s] = NoSession
  /\ session' = [session EXCEPT ![s] = [vehicle |-> v, archived |-> FALSE]]
  /\ events' = [events EXCEPT ![s] =
       {[seq |-> 1, type |-> "session_started", key |-> s, device |-> d]}]
  /\ projection' = [projection EXCEPT ![s] =
       [status |-> "active", seq |-> 1, device |-> d, expires |-> LeaseExpiry]]
  /\ UNCHANGED <<clock, archivedVehicles>>

(* GET resume: rebuild the projection when it is missing or not current. *)
ResumeRepairSession(s) ==
  /\ session[s] # NoSession
  /\ ~ProjectionCurrent(s)
  /\ RebuildProjection(s)
  /\ UNCHANGED <<clock, archivedVehicles, events>>

(* The creation request again: the vehicle is checked first, then the row  *)
(* found under the key must be of the same request; the answer is a resume *)
(* of the session that exists.                                             *)
RepeatCreateRepairSession(s, v) ==
  /\ v \notin archivedVehicles
  /\ session[s] # NoSession
  /\ session[s].vehicle = v
  /\ ResumeRepairSession(s)

(* GET events repairs a missing projection, and looks at nothing else. *)
EventHistory(s) ==
  /\ session[s] # NoSession
  /\ projection[s] = Missing
  /\ RebuildProjection(s)
  /\ UNCHANGED <<clock, archivedVehicles, events>>

AcquireEditLease(s, d, takeover) ==
  LET p == LockedProjection(s) IN
  /\ session[s] # NoSession
  /\ projection[s] = Missing => Replayable(events[s])
  /\ p.status # "archived"
  /\ takeover \/ LeaseView(p, d) # "held_by_other"
  /\ projection' = [projection EXCEPT ![s] =
       [p EXCEPT !.device = d, !.expires = LeaseExpiry]]
  /\ session' = [session EXCEPT ![s].archived =
       IF projection[s] = Missing THEN ArchivedInLog(s) ELSE @]
  /\ UNCHANGED <<clock, archivedVehicles, events>>

(* Mutants: no look-up of the key; no unique constraint. *)
KeyNotLookedUp(s, k) == TRUE

SequenceUnconstrained(s, n) == TRUE

(* No row of the session has the key. *)
KeyUnused(s, k) == \A e \in events[s] : e.key # k

(* The unique constraint on (session_id, sequence). *)
SequenceFree(s, n) == \A e \in events[s] : e.seq # n

(* INSERT the row after the one the projection names, and renew the lease. *)
AppendRow(s, p, type, k, d) ==
  /\ KeyUnused(s, k)
  /\ SequenceFree(s, p.seq + 1)
  /\ events' = [events EXCEPT ![s] = @ \cup
       {[seq |-> p.seq + 1, type |-> type, key |-> k, device |-> d]}]

(* A missing projection is rebuilt without a lease, so a mutation that     *)
(* finds it missing raises LEASE_REQUIRED and its rebuild rolls back: the  *)
(* two mutations below need the row.                                       *)

StatusTransition(status, type) ==
  \/ type = "session_paused"   /\ status = "active"
  \/ type = "session_resumed"  /\ status = "paused"
  \/ type = "session_archived" /\ status \in {"active", "paused"}

AppendStatusEvent(s, type, k, d) ==
  LET p == projection[s] IN
  /\ session[s] # NoSession
  /\ p # Missing
  /\ HasEditLease(p, d)
  /\ StatusTransition(p.status, type)
  /\ AppendRow(s, p, type, k, d)
  /\ projection' = [projection EXCEPT ![s] =
       [status  |-> StatusAfterEvent(type),
        seq     |-> p.seq + 1,
        device  |-> IF type = "session_archived" THEN NoDevice ELSE d,
        expires |-> IF type = "session_archived" THEN 0 ELSE LeaseExpiry]]
  /\ session' = [session EXCEPT ![s].archived = @ \/ type = "session_archived"]
  /\ UNCHANGED <<clock, archivedVehicles>>

(* What every repair-memory, readiness and guidance mutation begins and    *)
(* ends with.                                                              *)
PrepareDomainMutation(s, k, d) ==
  /\ session[s] # NoSession
  /\ projection[s] # Missing
  /\ KeyUnused(s, k)
  /\ HasEditLease(projection[s], d)

AppendDomainEvent(s, k, d) ==
  /\ AppendRow(s, projection[s], "domain", k, d)
  /\ projection' = [projection EXCEPT ![s] =
       [projection[s] EXCEPT !.seq = @ + 1, !.device = d, !.expires = LeaseExpiry]]
  /\ UNCHANGED <<clock, archivedVehicles, session>>

DomainMutation(s, k, d) == PrepareDomainMutation(s, k, d) /\ AppendDomainEvent(s, k, d)

(* A mutation under a key the log has, of the same type, returns the row   *)
(* it finds: no lease is asked for, and only _bundle's repair is written.  *)
RepeatMutation(s, k) ==
  /\ session[s] # NoSession
  /\ ~KeyUnused(s, k)
  /\ projection[s] = Missing
  /\ RebuildProjection(s)
  /\ UNCHANGED <<clock, archivedVehicles, events>>

ArchiveUserVehicle(v) ==
  /\ v \notin archivedVehicles
  /\ archivedVehicles' = archivedVehicles \cup {v}
  /\ UNCHANGED <<clock, session, events, projection>>

-----------------------------------------------------------------------------
(* The environment: time, and what the tests do to a projection row behind *)
(* the service's back.                                                     *)

Tick ==
  /\ clock < MaxClock
  /\ clock' = clock + 1
  /\ UNCHANGED <<archivedVehicles, session, events, projection>>

LoseProjection(s) ==
  /\ projection[s] # Missing
  /\ projection' = [projection EXCEPT ![s] = Missing]
  /\ UNCHANGED <<clock, archivedVehicles, session, events>>

(* The row falls behind the log: its sequence alone, or with the status    *)
(* that went with it.  The lease columns stay.                             *)
StaleProjection(s, n, status) ==
  /\ projection[s] # Missing
  /\ n < Latest(events[s]).seq
  /\ status \in {projection[s].status, Status(Before(events[s], n + 1))}
  /\ projection' = [projection EXCEPT ![s].seq = n, ![s].status = status]
  /\ UNCHANGED <<clock, archivedVehicles, session, events>>

-----------------------------------------------------------------------------
Next ==
  \/ Tick
  \/ \E v \in Vehicles : ArchiveUserVehicle(v)
  \/ \E s \in Sessions :
       \/ \E v \in Vehicles :
            \/ RepeatCreateRepairSession(s, v)
            \/ \E d \in Devices : CreateRepairSession(s, v, d)
       \/ ResumeRepairSession(s)
       \/ EventHistory(s)
       \/ \E d \in Devices, takeover \in BOOLEAN : AcquireEditLease(s, d, takeover)
       \/ \E k \in Keys : RepeatMutation(s, k)
       \/ \E k \in Keys, d \in Devices :
            \/ DomainMutation(s, k, d)
            \/ \E type \in LIFECYCLE_EVENT_TYPES : AppendStatusEvent(s, type, k, d)
       \/ LoseProjection(s)
       \/ \E e \in events[s], status \in Statuses : StaleProjection(s, e.seq, status)

Spec == Init /\ [][Next]_vars
-----------------------------------------------------------------------------
(* Properties *)

(* The event log never reaches a state in which rebuilding the projection  *)
(* raises REPAIR_SESSION_STATE_CORRUPT (_reduce_status), whatever mutations *)
(* run against a projection that is behind the log: the unique constraint  *)
(* on the sequence refuses what a stale status would let through.          *)
HistoryReplays ==
  \A s \in Sessions : session[s] # NoSession => Replayable(events[s])

(* A projection that names the last row of the log tells the log's status; *)
(* one that does not is behind it, never ahead.  append_status_event and   *)
(* append_domain_event trust the row without looking at the log.           *)
ProjectionBehindOrRight ==
  \A s \in Sessions : projection[s] # Missing =>
    /\ projection[s].seq <= Latest(events[s]).seq
    /\ projection[s].seq = Latest(events[s]).seq =>
         projection[s].status = Status(events[s])

(* GET /repair-sessions filters on repair_sessions.archived_at and shows   *)
(* the status of the projection: a session listed as open never shows      *)
(* "archived", and one hidden as archived has archived in its log.         *)
Closed(s) == \E e \in events[s] : e.type = "session_archived"

Listed(s) == session[s] # NoSession /\ projection[s] # Missing /\ ~session[s].archived

ListedSessionsAreOpen ==
  \A s \in Sessions :
    /\ Listed(s) => projection[s].status # "archived"
    /\ session[s] # NoSession => (session[s].archived <=> Closed(s))

(* An archived session has no editor once its projection is current: the   *)
(* archive clears the lease, and a rebuild does not bring back one that a  *)
(* device acquired on a stale row.                                         *)
ArchivedSessionHasNoEditor ==
  \A s \in Sessions :
    /\ ProjectionCurrent(s)
    /\ projection[s].status = "archived"
    => projection[s].device = NoDevice

(* The history of a session is closed by its archive event, and no device  *)
(* writes a row unless it held the lease when the request ran.             *)
LiveEditor(s, d) ==
  projection[s] # Missing /\ projection[s].device = d /\ projection[s].expires > clock

OnlyTheEditorWrites ==
  [][\A s \in Sessions : \A e \in events'[s] \ events[s] :
       session[s] # NoSession => ~Closed(s) /\ LiveEditor(s, e.device)]_vars

(* A live lease is dropped only by archiving: rebuilding a projection that *)
(* is there keeps it (the `preserved` columns of rebuild_projection), and  *)
(* nothing else clears it.                                                 *)
LiveLeaseIsKept ==
  [][\A s \in Sessions, d \in Devices :
       LiveEditor(s, d) /\ projection'[s] # Missing /\ projection'[s].device = NoDevice
       => \E e \in events'[s] : e.type = "session_archived"]_vars

(* The service implements the abstract history. *)
History == INSTANCE SessionHistory

ImplementsHistory == History!Spec
===============================================================================
