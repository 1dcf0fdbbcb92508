---------------------------- MODULE SessionRequests ---------------------------
(***************************************************************************)
(* Concurrent requests on one repair session, statement by statement.      *)
(* Each request is one PostgreSQL transaction at READ COMMITTED: an        *)
(* unlocked SELECT sees what is committed when it runs, SELECT ... FOR     *)
(* UPDATE waits for the row lock of the session, nothing a transaction     *)
(* writes is seen before it commits, and it may roll back at any point     *)
(* (an exception, a lost connection, a crash).  The answer is sent after   *)
(* the commit and may be lost.  A client may send any request at any time, *)
(* so a retry with the same key is one of the behaviours.                  *)
(*                                                                         *)
(* SQLAlchemy keeps the first copy of a row a transaction loads: a later   *)
(* SELECT ... FOR UPDATE of the same row waits for the lock but does not   *)
(* refresh that copy, and the UPDATE it flushes has only the columns that  *)
(* differ from it.  `loaded` is that copy, `mem` the one that a snapshot's  *)
(* answer is made of.                                                      *)
(*                                                                         *)
(* RepairSession is the same service with every request in one step; here  *)
(* nothing damages the projection, except that it may be missing at first. *)
(***************************************************************************)
EXTENDS SessionLog

CONSTANTS
  Requests,      \* requests that may be in flight at once
  Devices,
  Keys,
  CreationKey,   \* the key the session is created under
  ClientOps,     \* the operations clients ask for
  LeaseSeconds,
  MaxClock,      \* bound of the clock
  NoDevice,
  NoRequest,     \* the session row is not locked
  Missing        \* no projection row

(* What a client asks for: a mutation is named by the event it appends.    *)
LeaseOps  == {"acquire", "takeover"}
Mutations == EventTypes \ {"session_started"}
Snapshotting == {"create", "snapshot"}
Ops       == Snapshotting \cup LeaseOps \cup Mutations

ASSUME OpsAssumption  == ClientOps \subseteq Ops
ASSUME KeyAssumption  == CreationKey \in Keys
ASSUME TimeAssumption == LeaseSeconds \in Nat \ {0} /\ MaxClock \in Nat

ProjectionRow ==
  [status: Statuses, seq: Nat \ {0}, device: Devices \cup {NoDevice}, expires: Nat]

ASSUME NullAssumption ==
  /\ NoDevice \notin Devices
  /\ NoRequest \notin Requests
  /\ Missing \notin ProjectionRow

VARIABLES
  clock,
  vehicleArchived,  \* archived_at of the vehicle is set
  events,           \* committed rows of repair_session_events
  row,              \* the committed projection row
  lock,             \* the transaction that holds the session row
  req,              \* the requests in flight
  answered          \* the (key, event) pairs clients got a 2xx answer for

vars == <<clock, vehicleArchived, events, row, lock, req, answered>>

Nothing == [rows |-> {}, proj |-> Missing]

Idle == [pc |-> "idle", op |-> "snapshot", key |-> CreationKey, device |-> NoDevice,
         loaded |-> Missing, mem |-> Missing, latest |-> 0, write |-> Nothing,
         floor |-> {}]

TypeOK ==
  /\ clock \in Nat
  /\ vehicleArchived \in BOOLEAN
  /\ events \subseteq Row(Keys, Devices)
  /\ row \in ProjectionRow \cup {Missing}
  /\ lock \in Requests \cup {NoRequest}
  /\ answered \subseteq [key: Keys, type: EventTypes]
  /\ \A r \in Requests :
       /\ req[r].pc \in {"idle", "check", "insert", "read", "latest", "lifecycle",
                         "stale", "missing", "lock", "flushed", "committed"}
       /\ req[r].op \in ClientOps \cup {"snapshot"}
       /\ {req[r].mem, req[r].loaded} \subseteq ProjectionRow \cup {Missing}
       /\ req[r].write.rows \subseteq Row(Keys, Devices)
       /\ req[r].write.proj \in ProjectionRow \cup {Missing}
       /\ req[r].pc = "flushed" /\ req[r].write # Nothing => lock = r

Init ==
  /\ clock = 0
  /\ vehicleArchived = FALSE
  /\ events = {}
  /\ row = Missing
  /\ lock = NoRequest
  /\ req = [r \in Requests |-> Idle]
  /\ answered = {}

-----------------------------------------------------------------------------
LeaseExpiry == clock + LeaseSeconds

LeaseView(p, d) ==
  IF p.device = NoDevice \/ p.expires <= clock THEN "available"
  ELSE IF p.device = d THEN "owned" ELSE "held_by_other"

(* Mutant: the status is not recomputed, and the lease not looked at. *)
RebuiltWithOldStatus(p) ==
  [status  |-> IF p = Missing THEN Status(events) ELSE p.status,
   seq     |-> Latest(events).seq, device |-> NoDevice, expires |-> 0]

(* rebuild_projection on top of the copy p the transaction has.            *)
Rebuilt(p) ==
  LET keeps == /\ p # Missing
               /\ p.device # NoDevice
               /\ p.expires > clock
               /\ Status(events) # "archived"
  IN [status  |-> Status(events),
      seq     |-> Latest(events).seq,
      device  |-> IF keeps THEN p.device ELSE NoDevice,
      expires |-> IF keeps THEN p.expires ELSE 0]

(* Mutant: UPDATE of every column. *)
AllColumns(loaded, new) == new

(* UPDATE of the columns in which the new values differ from the loaded.   *)
ChangedColumns(loaded, new) ==
  [c \in DOMAIN row |-> IF new[c] # loaded[c] THEN new[c] ELSE row[c]]

StatusTransition(status, type) ==
  \/ type = "session_paused"   /\ status = "active"
  \/ type = "session_resumed"  /\ status = "paused"
  \/ type = "session_archived" /\ status \in {"active", "paused"}
  \/ type \in DOMAIN_EVENT_TYPES

At(r, pc) == req[r].pc = pc

Goto(r, pc) == req' = [req EXCEPT ![r].pc = pc]

(* The lock of the session row is free or already this transaction's. *)
MayLock(r) == lock \in {r, NoRequest}

(* The transaction raises: it rolls back, and its locks are released. *)
Raise(r) ==
  /\ req' = [req EXCEPT ![r] = Idle]
  /\ lock' = IF lock = r THEN NoRequest ELSE lock
  /\ UNCHANGED <<clock, vehicleArchived, events, row, answered>>

Flush(r, mem, rows, proj) ==
  req' = [req EXCEPT ![r].pc = "flushed", ![r].mem = mem,
                     ![r].write = [rows |-> rows, proj |-> proj]]

-----------------------------------------------------------------------------
(* A request arrives; clients draw the key of a mutation freshly, so it is *)
(* not the one the session was created under.                              *)
Begin(r, op, k, d) ==
  /\ At(r, "idle")
  /\ op \in Mutations <=> k # CreationKey
  /\ req' = [req EXCEPT ![r] =
       [Idle EXCEPT !.op = op, !.key = k,
          !.device = IF op = "snapshot" THEN NoDevice ELSE d,
          !.floor = IF op \in Snapshotting THEN answered ELSE {},
          !.pc = CASE op = "create"   -> "check"
                   [] op = "snapshot" -> "read"
                   [] OTHER           -> "lock"]]
  /\ UNCHANGED <<clock, vehicleArchived, events, row, lock, answered>>

(* _vehicle_for_session: an unlocked SELECT. *)
CheckVehicle(r) ==
  /\ At(r, "check")
  /\ ~vehicleArchived
  /\ Goto(r, "insert")
  /\ UNCHANGED <<clock, vehicleArchived, events, row, lock, answered>>

VehicleRefused(r) ==
  /\ At(r, "check")
  /\ vehicleArchived
  /\ Raise(r)

(* INSERT ... ON CONFLICT DO NOTHING waits for an uncommitted insert of    *)
(* the same key; here that is the transaction that holds `lock`.           *)
InsertSession(r) ==
  LET d == req[r].device
      p == [status |-> "active", seq |-> 1, device |-> d, expires |-> LeaseExpiry]
  IN
  /\ At(r, "insert")
  /\ events = {}
  /\ MayLock(r)
  /\ lock' = r
  /\ Flush(r, p, {[seq |-> 1, type |-> "session_started",
                   key |-> CreationKey, device |-> d]}, p)
  /\ UNCHANGED <<clock, vehicleArchived, events, row, answered>>

SessionExists(r) ==
  /\ At(r, "insert")
  /\ events # {}
  /\ Goto(r, "read")
  /\ UNCHANGED <<clock, vehicleArchived, events, row, lock, answered>>

(* _bundle without a lock. *)
ReadBundle(r) ==
  /\ At(r, "read")
  /\ events # {}
  /\ req' = [req EXCEPT ![r].loaded = row, ![r].mem = row,
                        ![r].pc = IF row = Missing THEN "missing" ELSE "latest"]
  /\ UNCHANGED <<clock, vehicleArchived, events, row, lock, answered>>

NotFound(r) ==
  /\ req[r].pc \in {"read", "lock"}
  /\ events = {}
  /\ Raise(r)

(* _repair_missing_projection: under the lock the row is looked for again. *)
RepairMissing(r) ==
  /\ At(r, "missing")
  /\ MayLock(r)
  /\ lock' = r
  /\ IF row = Missing
     THEN Flush(r, Rebuilt(Missing), {}, Rebuilt(Missing))
     ELSE req' = [req EXCEPT ![r].loaded = row, ![r].mem = row, ![r].pc = "latest"]
  /\ UNCHANGED <<clock, vehicleArchived, events, row, answered>>

(* _ensure_projection_current: two more SELECTs, then the comparison. *)
ReadLatest(r) ==
  /\ At(r, "latest")
  /\ req' = [req EXCEPT ![r].latest = Latest(events).seq, ![r].pc = "lifecycle"]
  /\ UNCHANGED <<clock, vehicleArchived, events, row, lock, answered>>

Current(r) == req[r].mem.seq = req[r].latest /\ req[r].mem.status = Status(events)

ReadLifecycle(r) ==
  /\ At(r, "lifecycle")
  /\ Goto(r, IF Current(r) THEN "flushed" ELSE "stale")
  /\ UNCHANGED <<clock, vehicleArchived, events, row, lock, answered>>

(* Mutant: rebuild at once, without the lock. *)
RebuildUnlocked(r) ==
  LET new == Rebuilt(req[r].loaded) IN
  /\ At(r, "stale")
  /\ Flush(r, new, {}, ChangedColumns(req[r].loaded, new))
  /\ UNCHANGED <<clock, vehicleArchived, events, row, lock, answered>>

(* Lock, then rebuild on top of the copy loaded before the lock. *)
RebuildStale(r) ==
  LET new == Rebuilt(req[r].loaded) IN
  /\ At(r, "stale")
  /\ MayLock(r)
  /\ lock' = r
  /\ Flush(r, new, {}, ChangedColumns(req[r].loaded, new))
  /\ UNCHANGED <<clock, vehicleArchived, events, row, answered>>

-----------------------------------------------------------------------------
(* Requests that lock first.  The copy is loaded under the lock. *)

Loaded == IF row = Missing THEN Rebuilt(Missing) ELSE row

(* Mutant: the key is not looked up. *)
NoRowsUnder(k) == {}

RowsUnder(k) == {e \in events : e.key = k}

(* Mutant: the session row is selected without FOR UPDATE. *)
ReadsOnly(r) == At(r, "lock") /\ events # {}

Takes(r) == /\ At(r, "lock") /\ events # {} /\ MayLock(r)

AcquireEditLease(r) ==
  LET d == req[r].device
      p == [Loaded EXCEPT !.device = d, !.expires = LeaseExpiry]
  IN
  /\ Takes(r)
  /\ req[r].op \in LeaseOps
  /\ Loaded.status # "archived"
  /\ req[r].op = "takeover" \/ LeaseView(Loaded, d) # "held_by_other"
  /\ lock' = r
  /\ Flush(r, Missing, {}, p)
  /\ UNCHANGED <<clock, vehicleArchived, events, row, answered>>

LeaseRefused(r) ==
  /\ Takes(r)
  /\ req[r].op \in LeaseOps
  /\ \/ Loaded.status = "archived"
     \/ req[r].op = "acquire" /\ LeaseView(Loaded, req[r].device) = "held_by_other"
  /\ Raise(r)

(* The guards of append_status_event and of the domain mutations, after    *)
(* the look-up of the key.                                                 *)
MayAppend(r) ==
  /\ Loaded.status # "archived"
  /\ LeaseView(Loaded, req[r].device) = "owned"
  /\ StatusTransition(Loaded.status, req[r].op)
  /\ \A e \in events : e.seq # Loaded.seq + 1

AppendEvent(r) ==
  LET d   == req[r].device
      end == req[r].op = "session_archived"
      p   == [status  |-> IF req[r].op \in DOMAIN_EVENT_TYPES
                          THEN Loaded.status ELSE StatusAfterEvent(req[r].op),
              seq     |-> Loaded.seq + 1,
              device  |-> IF end THEN NoDevice ELSE d,
              expires |-> IF end THEN 0 ELSE LeaseExpiry]
  IN
  /\ Takes(r)
  /\ req[r].op \in Mutations
  /\ RowsUnder(req[r].key) = {}
  /\ MayAppend(r)
  /\ lock' = r
  /\ Flush(r, Missing, {[seq |-> p.seq, type |-> req[r].op, key |-> req[r].key, device |-> d]}, p)
  /\ UNCHANGED <<clock, vehicleArchived, events, row, answered>>

(* The key has a row of this type: answer with it, whoever has the lease.  *)
RepeatEvent(r) ==
  /\ Takes(r)
  /\ req[r].op \in Mutations
  /\ \E e \in RowsUnder(req[r].key) : e.type = req[r].op
  /\ lock' = r
  /\ Flush(r, Missing, {}, IF row = Missing THEN Loaded ELSE Missing)
  /\ UNCHANGED <<clock, vehicleArchived, events, row, answered>>

MutationRefused(r) ==
  /\ Takes(r)
  /\ req[r].op \in Mutations
  /\ \/ \E e \in RowsUnder(req[r].key) : e.type # req[r].op
     \/ RowsUnder(req[r].key) = {} /\ ~MayAppend(r)
  /\ Raise(r)

-----------------------------------------------------------------------------
(* The end of a request. *)

Commit(r) ==
  /\ At(r, "flushed")
  /\ events' = events \cup req[r].write.rows
  /\ row' = IF req[r].write.proj = Missing THEN row ELSE req[r].write.proj
  /\ lock' = IF lock = r THEN NoRequest ELSE lock
  /\ req' = [req EXCEPT ![r].pc = "committed", ![r].loaded = Missing, ![r].latest = 0,
                        ![r].device = NoDevice, ![r].write = Nothing]
  /\ UNCHANGED <<clock, vehicleArchived, answered>>

Rollback(r) ==
  /\ req[r].pc \notin {"idle", "committed"}
  /\ Raise(r)

AnsweredBy(r) ==
  CASE req[r].op = "create"    -> {[key |-> CreationKey, type |-> "session_started"]}
    [] req[r].op \in Mutations -> {[key |-> req[r].key, type |-> req[r].op]}
    [] OTHER                   -> {}

(* Mutant: the response leaves when the handler returns, before the commit. *)
AnswerBeforeCommit(r) ==
  /\ At(r, "flushed")
  /\ answered' = answered \cup AnsweredBy(r)
  /\ UNCHANGED <<clock, vehicleArchived, events, row, lock, req>>

(* The response leaves after the transaction has ended (scope="function"). *)
Answer(r) ==
  /\ At(r, "committed")
  /\ answered' = answered \cup AnsweredBy(r)
  /\ req' = [req EXCEPT ![r] = Idle]
  /\ UNCHANGED <<clock, vehicleArchived, events, row, lock>>

LoseAnswer(r) ==
  /\ At(r, "committed")
  /\ req' = [req EXCEPT ![r] = Idle]
  /\ UNCHANGED <<clock, vehicleArchived, events, row, lock, answered>>

-----------------------------------------------------------------------------
ArchiveVehicle ==
  /\ ~vehicleArchived
  /\ vehicleArchived' = TRUE
  /\ UNCHANGED <<clock, events, row, lock, req, answered>>

(* Someone deletes the projection row while no transaction holds it. *)
LoseProjection ==
  /\ row # Missing /\ row.seq = 1
  /\ lock = NoRequest
  /\ \A r \in Requests : At(r, "idle")
  /\ row' = Missing
  /\ UNCHANGED <<clock, vehicleArchived, events, lock, req, answered>>

Tick ==
  /\ clock < MaxClock
  /\ clock' = clock + 1
  /\ UNCHANGED <<vehicleArchived, events, row, lock, req, answered>>

(* The steps a request takes by itself once it has begun. *)
Unlocked(r) ==
  \/ CheckVehicle(r) \/ VehicleRefused(r) \/ SessionExists(r)
  \/ ReadBundle(r) \/ NotFound(r) \/ ReadLatest(r) \/ ReadLifecycle(r)
  \/ Commit(r)

Locking(r) ==
  \/ InsertSession(r) \/ RepairMissing(r) \/ RebuildStale(r)
  \/ AcquireEditLease(r) \/ LeaseRefused(r)
  \/ AppendEvent(r) \/ RepeatEvent(r) \/ MutationRefused(r)

Next ==
  \/ Tick
  \/ ArchiveVehicle
  \/ LoseProjection
  \/ \E r \in Requests :
       \/ \E op \in ClientOps, k \in Keys, d \in Devices : Begin(r, op, k, d)
       \/ Unlocked(r)
       \/ Locking(r)
       \/ Rollback(r)
       \/ Answer(r) \/ LoseAnswer(r)

Spec == Init /\ [][Next]_vars

-----------------------------------------------------------------------------
(* Properties *)

(* The abstract history, of the one session of this module. *)
History == INSTANCE SessionHistory
             WITH Sessions <- {CreationKey}, events <- [s \in {CreationKey} |-> events]

(* Whatever requests overlap, roll back and are sent again, the committed  *)
(* log starts once and grows at its end, one row per idempotency key, each *)
(* of a type that may follow: the row lock of the session and the look-up  *)
(* of the key under that lock are what append_status_event and             *)
(* prepare_domain_mutation rely on.  This is History!Spec, asking first    *)
(* whether the log has changed at all.                                     *)
ImplementsHistory ==
  History!Init /\ [][events' # events => History!Next]_vars

(* What is committed of the projection is what the committed log says.     *)
CommittedRowIsRight ==
  row # Missing => row.seq = Latest(events).seq /\ row.status = Status(events)

(* A client that has a 2xx answer to a mutation can count on its row: the  *)
(* transaction ends before the response is sent (AuthSessionDep).          *)
AnsweredIsCommitted ==
  \A a \in answered : \E e \in events : e.key = a.key /\ e.type = a.type

(* A snapshot shows every write that was answered before it was asked for, *)
(* though it reads the projection without a lock: the "false not-found" of *)
(* identity/auth/dependencies.py does not happen.                          *)
Snapshots == {r \in Requests : At(r, "committed") /\ req[r].op \in Snapshotting}

SnapshotShowsAnsweredWrites ==
  \A r \in Snapshots : \A a \in req[r].floor :
    \E e \in RowsUnder(a.key) : e.type = a.type /\ e.seq <= req[r].mem.seq

(* What a client was told is there, and shown to it from then on.          *)
AnswersAreKept == AnsweredIsCommitted /\ SnapshotShowsAnsweredWrites

(* A snapshot is assembled from three SELECTs between which others commit, *)
(* yet the status it reports is the one its last event left.               *)
SnapshotIsConsistent ==
  \A r \in Snapshots :
    req[r].mem.status = Status(Before(events, req[r].mem.seq + 1))

Live(p) == p # Missing /\ p.device # NoDevice /\ p.expires > clock

(* A mutation that was let through and is not committed yet.               *)
LetThrough(r) == req[r].op \in Mutations /\ req[r].write.rows # {}

(* A mutation is let through for a device that holds a live lease then,    *)
(* and until it commits the row stays as it was checked: the lease may run *)
(* out in the meantime, but no takeover, acquisition or rebuild gets in    *)
(* between, and the row of the log that lands is of the device the session *)
(* has still recorded as its editor.                                       *)
WriterIsTheEditor ==
  [][/\ \A r \in Requests :
          LetThrough(r)' => IF LetThrough(r) THEN row' = row
                            ELSE Live(row) /\ row.device = req[r].device
     /\ \A e \in events' \ events :
          events # {} => row # Missing /\ row.device = e.device]_vars

Commits(r) == At(r, "flushed") /\ req'[r].pc = "committed"

(* The device of a live lease is replaced only by a takeover that commits; *)
(* a rebuild that loaded the old holder's lease does not write it back.    *)
LeaseMovesOnlyByTakeover ==
  [][Live(row) /\ row' # Missing /\ row'.device \notin {row.device, NoDevice}
     => \E r \in Requests : Commits(r) /\ req[r].op = "takeover"]_vars

(* A live lease is cleared by archiving the session, or by a rebuild whose *)
(* transaction had loaded the row with a lease that has expired since:     *)
(* rebuild_projection decides on the copy loaded before the lock.  No      *)
(* other overlap clears it.                                                *)
LeaseDropsOnlyByArchiveOrStaleCopy ==
  [][Live(row) /\ row' # Missing /\ row'.device = NoDevice
     => \E r \in Requests : Commits(r) /\
          \/ req[r].op = "session_archived"
          \/ /\ req[r].loaded # Missing
             /\ req[r].loaded.device # NoDevice
             /\ req[r].loaded.expires <= clock
             /\ req[r].loaded # row]_vars

(* No editor loses a live lease in any other way.                          *)
LeaseIsNotLost == LeaseMovesOnlyByTakeover /\ LeaseDropsOnlyByArchiveOrStaleCopy

(* "Archived vehicles cannot start new repair sessions."                   *)
(* (_vehicle_for_session; the check and the insert are two statements.)    *)
SessionNeedsLiveVehicle ==
  [][events = {} /\ events' # {} => ~vehicleArchived]_vars
===============================================================================
